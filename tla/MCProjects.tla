---------------------------- MODULE MCProjects ----------------------------
EXTENDS Projects, TLC

Symmetry == Permutations(Users) \cup Permutations(Requests)
===========================================================================
