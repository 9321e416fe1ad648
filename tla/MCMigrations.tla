---------------------------- MODULE MCMigrations ----------------------------
(***************************************************************************)
(* An old release, the new one after it, a hotfix that branched off the    *)
(* old one and leaves a gap, a branch that has another file under the new  *)
(* one's version, and one that does not load.                              *)
(***************************************************************************)
EXTENDS Migrations

CONSTANTS old, new, hotfix, branch, twice, m1, m2, c1

MCDirectory ==
    LET file(v, t) == [version |-> v, text |-> t]
    IN  [r \in Releases |->
            {file(1, "identity")} \cup
            CASE r = old    -> {}
              [] r = new    -> {file(2, "accounts")}
              [] r = hotfix -> {file(3, "projects")}
              [] r = branch -> {file(2, "tasks")}
              [] r = twice  -> {file(1, "accounts")}]
=============================================================================
