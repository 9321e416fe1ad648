------------------------------ MODULE MCReview ------------------------------
EXTENDS Review, TLC

Symmetry == Permutations(Requests) \cup Permutations(Ids) \cup Permutations(Admins)
=============================================================================
