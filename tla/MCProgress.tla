---------------------------- MODULE MCProgress ----------------------------
EXTENDS Progress, TLC

Reports == {[at |-> 0, accuracy |-> 1]}

\* The location lies inside the first geofence and outside the second.
Geofences == <<[at |-> 0, radius |-> 1, accuracy |-> 1], [at |-> 2, radius |-> 2, accuracy |-> 1]>>

Symmetry ==
    Permutations(Requests) \cup Permutations(Ids) \cup Permutations(Contents)
===========================================================================
