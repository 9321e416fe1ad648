------------------------ MODULE AttachmentLifecycle ------------------------
(***************************************************************************)
(* What the register promises about an attachment, whichever of a request, *)
(* a retry, the reconciler or a restart moves it: metadata is recorded     *)
(* first, bytes are stored only for recorded metadata and never lost       *)
(* again, an attachment is published only when its bytes are stored, and a *)
(* published or abandoned attachment stays so.                             *)
(***************************************************************************)
CONSTANT Keys

VARIABLES state,   \* what PostgreSQL says of each storage key
          stored   \* keys with final bytes in the attachment store

lifecycleVars == <<state, stored>>

States == {"none", "pending", "available", "failed"}

Init ==
    /\ state = [k \in Keys |-> "none"]
    /\ stored = {}

\* One transaction records the metadata of all files of one update.
Record(S) ==
    /\ S # {}
    /\ \A k \in S : state[k] = "none"
    /\ state' = [k \in Keys |-> IF k \in S THEN "pending" ELSE state[k]]
    /\ UNCHANGED stored

Store(k) ==
    /\ state[k] = "pending"
    /\ stored' = stored \cup {k}
    /\ UNCHANGED state

Publish(k) ==
    /\ state[k] = "pending"
    /\ k \in stored
    /\ state' = [state EXCEPT ![k] = "available"]
    /\ UNCHANGED stored

\* Abandoning does not require the bytes to be missing: two finalizers can
\* race for the same staged file and the loser abandons (see README).
Abandon(k) ==
    /\ state[k] = "pending"
    /\ state' = [state EXCEPT ![k] = "failed"]
    /\ UNCHANGED stored

Next ==
    \/ \E S \in SUBSET Keys : Record(S)
    \/ \E k \in Keys : Store(k) \/ Publish(k) \/ Abandon(k)

Spec == Init /\ [][Next]_lifecycleVars
============================================================================
