--------------------------- MODULE MCLoginThrottle ---------------------------
EXTENDS LoginThrottle, TLC

Symmetry == Permutations(Attempts)
=============================================================================
