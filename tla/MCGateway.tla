------------------------------ MODULE MCGateway ------------------------------
EXTENDS Gateway, TLC

Symmetry == Permutations(Users) \cup Permutations(Sessions)
                \cup Permutations(Browsers) \cup Permutations(Tabs)
==============================================================================
