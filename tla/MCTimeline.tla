----------------------------- MODULE MCTimeline -----------------------------
EXTENDS Timeline, TLC

Symmetry == Permutations(Writers)
=============================================================================
