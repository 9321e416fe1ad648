---------------------------- MODULE MCDeployment ----------------------------
(***************************************************************************)
(* A release and its successor, which has one more migration.  Those that  *)
(* both have are left out.                                                 *)
(***************************************************************************)
EXTENDS Deployment

CONSTANTS main, next, m1, probe

MCDirectory ==
    [r \in Releases |->
        IF r = main THEN {} ELSE {[version |-> 1, text |-> "identity"]}]
=============================================================================
