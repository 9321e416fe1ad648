---------------------------- MODULE Attachments ----------------------------
(***************************************************************************)
(* Creating a progress update with files: internal/progress (Create,       *)
(* completeAttachments, Reconcile, Download and their repository           *)
(* transactions) over the private attachment store of internal/filestore.  *)
(*                                                                         *)
(* HTTP requests, the one reconciliation goroutine and downloads run       *)
(* concurrently.  Every step is one transaction or one file-system call.   *)
(* The process may stop between any two steps; rows and files survive.     *)
(***************************************************************************)
EXTENDS Naturals, FiniteSets

CONSTANTS
    Keys,        \* storage keys (random, never drawn twice)
    IdemKeys,    \* (author, Idempotency-Key) pairs
    Requests,    \* POST .../updates requests, one handler goroutine each
    Readers,     \* attachment downloads
    Reconciler,  \* the goroutine of startAttachmentReconciliation
    NoKey, NoUpdate,
    MaxFiles,    \* ATTACHMENT_MAX_FILES_PER_UPDATE
    MaxCrashes,  \* bound on process stops
    Faults       \* kinds of faults that may happen, see below

FaultKinds == {"fs",   \* a file-system call fails for another reason than ENOENT
               "db",   \* a transaction fails and is rolled back
               "ack"}  \* a commit takes effect but its reply is lost

ASSUME SetsAssumption ==
    /\ IdemKeys # {}
    /\ MaxFiles \in Nat
    /\ MaxCrashes \in Nat
    /\ Faults \subseteq FaultKinds
    /\ Requests \cap Readers = {}
    /\ Reconciler \notin Requests \cup Readers
    /\ NoKey \notin Keys
    /\ NoUpdate \notin [files : SUBSET Keys, count : 0..MaxFiles]

VARIABLES
    \* PostgreSQL
    row,         \* storage_state of the progress_attachments row of a key
    updates,     \* the progress_updates row of an idempotency key
    availAudits, \* number of attachment.available audit events of a key
    failAudits,  \* number of attachment.failed audit events of a key
    \* the attachment store
    staging,     \* keys with a .staging/<key>.part file
    old,         \* those last written more than 24 hours ago
    stored,      \* keys with a data/<prefix>/<key> file
    used,        \* keys drawn so far
    \* the process
    pc, cur,     \* control point, and the key being worked on
    todo,        \* keys still to be finalized by this process
    ask,         \* what a request asks for
    staged,      \* keys a request staged and still owns
    keep,        \* pending keys the reconciler's pass started with
    entries,     \* .staging entries left to examine
    crashes

dbVars == <<row, updates, availAudits, failAudits>>
fileVars == <<staging, old, stored, used>>
rcVars == <<keep, entries>>
vars == <<dbVars, fileVars, pc, cur, todo, ask, staged, rcVars, crashes>>

Finalizers == Requests \cup {Reconciler}
Procs == Finalizers \cup Readers

Asks == [idem : IdemKeys, count : 0..MaxFiles]
Update == [files : SUBSET Keys, count : 0..MaxFiles]

Finished == {"ok", "deferred", "rejected", "dead", "served", "unavailable"}
Labels == {"idle", "stage", "discard", "discardDuplicate", "next", "rename",
           "mark", "fail", "clean", "open"} \cup Finished

NoAsk == [idem |-> CHOOSE i \in IdemKeys : TRUE, count |-> 0]

Init ==
    /\ row = [k \in Keys |-> "none"]
    /\ updates = [i \in IdemKeys |-> NoUpdate]
    /\ availAudits = [k \in Keys |-> 0]
    /\ failAudits = [k \in Keys |-> 0]
    /\ staging = {} /\ old = {} /\ stored = {} /\ used = {}
    /\ pc = [p \in Procs |-> "idle"]
    /\ cur = [p \in Procs |-> NoKey]
    /\ todo = [p \in Finalizers |-> {}]
    /\ ask = [r \in Requests |-> NoAsk]
    /\ staged = [r \in Requests |-> {}]
    /\ keep = {} /\ entries = {}
    /\ crashes = 0

Goto(p, label) == pc' = [pc EXCEPT ![p] = label]
Pending == {k \in Keys : row[k] = "pending"}

(***************************************************************************)
(* Service.Create up to the transaction                                    *)
(***************************************************************************)
Begin(r) ==
    /\ pc[r] = "idle"
    /\ \E a \in Asks : ask' = [ask EXCEPT ![r] = a]
    /\ Goto(r, "stage")
    /\ UNCHANGED <<dbVars, fileVars, cur, todo, staged, rcVars, crashes>>

MoreToStage(r) == pc[r] = "stage" /\ Cardinality(staged[r]) < ask[r].count
AllStaged(r) == pc[r] = "stage" /\ Cardinality(staged[r]) = ask[r].count

\* Store.Stage writes and syncs one upload under a fresh random key.
Stage(r) ==
    /\ MoreToStage(r)
    /\ \E k \in Keys \ used :
        /\ staging' = staging \cup {k}
        /\ used' = used \cup {k}
        /\ staged' = [staged EXCEPT ![r] = @ \cup {k}]
    /\ UNCHANGED <<dbVars, old, stored, pc, cur, todo, ask, rcVars, crashes>>

\* A bad descriptor, an unreadable, empty, oversized or disallowed file: Stage
\* removes its own partial file, and the deferred cleanup discards the others.
StageRejected(r) ==
    /\ MoreToStage(r)
    /\ Goto(r, "discard")
    /\ UNCHANGED <<dbVars, fileVars, cur, todo, ask, staged, rcVars, crashes>>

(***************************************************************************)
(* The CreateUpdate transaction, one action per outcome                    *)
(***************************************************************************)
\* lockAuthorizedTask or the policy check refuses, or the transaction fails.
CreateRefused(r) ==
    /\ AllStaged(r)
    /\ Goto(r, "discard")
    /\ UNCHANGED <<dbVars, fileVars, cur, todo, ask, staged, rcVars, crashes>>

\* The key is taken by a request with another request hash.
CreateConflict(r) ==
    /\ AllStaged(r)
    /\ updates[ask[r].idem] # NoUpdate
    /\ updates[ask[r].idem].count # ask[r].count
    /\ Goto(r, "discard")
    /\ UNCHANGED <<dbVars, fileVars, cur, todo, ask, staged, rcVars, crashes>>

\* Mutant: a retry answers without completing what is still pending.
CreateDuplicateAsIs(r) ==
    LET update == updates[ask[r].idem] IN
    /\ AllStaged(r)
    /\ update # NoUpdate
    /\ update.count = ask[r].count
    /\ Goto(r, "discardDuplicate")
    /\ UNCHANGED <<dbVars, fileVars, cur, todo, ask, staged, rcVars, crashes>>

\* The key is taken by the same request: its update is loaded, the copies just
\* staged are discarded and the attachments it shows as pending are completed.
CreateDuplicate(r) ==
    LET update == updates[ask[r].idem] IN
    /\ AllStaged(r)
    /\ update # NoUpdate
    /\ update.count = ask[r].count
    /\ todo' = [todo EXCEPT ![r] = update.files \cap Pending]
    /\ Goto(r, "discardDuplicate")
    /\ UNCHANGED <<dbVars, fileVars, cur, ask, staged, rcVars, crashes>>

\* The rows that the transaction inserts.
InsertUpdate(r) ==
    /\ AllStaged(r)
    /\ updates[ask[r].idem] = NoUpdate
    /\ updates' = [updates EXCEPT ![ask[r].idem] =
                       [files |-> staged[r], count |-> ask[r].count]]
    /\ row' = [k \in Keys |-> IF k \in staged[r] THEN "pending" ELSE row[k]]
    /\ UNCHANGED <<availAudits, failAudits>>

\* Mutant: ownedByDatabase is not set after the commit.
CreateCommittedNotOwned(r) ==
    /\ InsertUpdate(r)
    /\ Goto(r, "discard")
    /\ UNCHANGED <<fileVars, cur, todo, ask, staged, rcVars, crashes>>

CreateCommitted(r) ==
    /\ InsertUpdate(r)
    /\ todo' = [todo EXCEPT ![r] = staged[r]]
    /\ staged' = [staged EXCEPT ![r] = {}]
    /\ Goto(r, "next")
    /\ UNCHANGED <<fileVars, cur, ask, rcVars, crashes>>

\* Commit reports an error although it took effect: ownedByDatabase stays
\* false and the deferred cleanup discards the staged files.
CreateUnacknowledged(r) ==
    /\ "ack" \in Faults
    /\ InsertUpdate(r)
    /\ Goto(r, "discard")
    /\ UNCHANGED <<fileVars, cur, todo, ask, staged, rcVars, crashes>>

(***************************************************************************)
(* Discarding staged files                                                 *)
(***************************************************************************)
Discarding(r) == pc[r] \in {"discard", "discardDuplicate"}

DiscardStaged(r) ==
    /\ Discarding(r)
    /\ \E k \in staged[r] :
        /\ \/ staging' = staging \ {k} /\ old' = old \ {k}
           \/ "fs" \in Faults /\ UNCHANGED <<staging, old>>
        /\ staged' = [staged EXCEPT ![r] = @ \ {k}]
    /\ UNCHANGED <<dbVars, stored, used, pc, cur, todo, ask, rcVars, crashes>>

Discarded(r) ==
    /\ Discarding(r)
    /\ staged[r] = {}
    /\ Goto(r, IF pc[r] = "discard" THEN "rejected" ELSE "next")
    /\ UNCHANGED <<dbVars, fileVars, cur, todo, ask, staged, rcVars, crashes>>

(***************************************************************************)
(* Completing an attachment: completeAttachments in a request, the body of *)
(* the loop of Reconcile in the reconciler                                 *)
(***************************************************************************)
\* The request answers ErrAttachmentPending; the reconciler ends its pass.
GiveUp(p) == Goto(p, IF p = Reconciler THEN "idle" ELSE "deferred")

\* Mutant: the row is marked without waiting for the rename.
InspectMarksFirst(p) ==
    /\ pc[p] = "next"
    /\ \E k \in todo[p] : cur' = [cur EXCEPT ![p] = k]
    /\ Goto(p, "mark")
    /\ UNCHANGED <<dbVars, fileVars, todo, ask, staged, rcVars, crashes>>

\* Store.Finalize, first call: are the final bytes there already?
Inspect(p) ==
    /\ pc[p] = "next"
    /\ \E k \in todo[p] :
        /\ cur' = [cur EXCEPT ![p] = k]
        /\ Goto(p, IF k \in stored THEN "mark" ELSE "rename")
    /\ UNCHANGED <<dbVars, fileVars, todo, ask, staged, rcVars, crashes>>

\* Store.Finalize, second call: rename the staged file.
Rename(p) ==
    /\ pc[p] = "rename"
    /\ cur[p] \in staging
    /\ staging' = staging \ {cur[p]}
    /\ old' = old \ {cur[p]}
    /\ stored' = stored \cup {cur[p]}
    /\ Goto(p, "mark")
    /\ UNCHANGED <<dbVars, used, cur, todo, ask, staged, rcVars, crashes>>

\* Mutant: the reconciler ends its pass like any other caller.
RenameMissingDefers(p) ==
    /\ pc[p] = "rename"
    /\ cur[p] \notin staging
    /\ GiveUp(p)
    /\ UNCHANGED <<dbVars, fileVars, cur, todo, ask, staged, rcVars, crashes>>

\* rename(2) reports ENOENT: any error defers a request, while the reconciler
\* takes os.ErrNotExist to mean that the bytes are lost.
RenameMissing(p) ==
    /\ pc[p] = "rename"
    /\ cur[p] \notin staging
    /\ IF p = Reconciler THEN Goto(p, "fail") ELSE GiveUp(p)
    /\ UNCHANGED <<dbVars, fileVars, cur, todo, ask, staged, rcVars, crashes>>

FinalizeError(p) ==
    /\ "fs" \in Faults
    /\ pc[p] = "rename" \/ (pc[p] = "next" /\ todo[p] # {})
    /\ GiveUp(p)
    /\ UNCHANGED <<dbVars, fileVars, cur, todo, ask, staged, rcVars, crashes>>

\* The MarkAttachmentAvailable transaction on key k.
MarkAvailable(k) ==
    /\ row[k] # "failed"
    /\ row' = [row EXCEPT ![k] = "available"]
    /\ availAudits' = IF row[k] = "pending"
                      THEN [availAudits EXCEPT ![k] = @ + 1]
                      ELSE availAudits
    /\ UNCHANGED <<updates, failAudits>>

Mark(p) ==
    /\ pc[p] = "mark"
    /\ MarkAvailable(cur[p])
    /\ todo' = [todo EXCEPT ![p] = @ \ {cur[p]}]
    /\ Goto(p, "next")
    /\ UNCHANGED <<fileVars, cur, ask, staged, rcVars, crashes>>

\* The row has failed meanwhile (ErrConflict), or the transaction failed.
MarkRefused(p) ==
    /\ pc[p] = "mark"
    /\ row[cur[p]] = "failed" \/ "db" \in Faults
    /\ GiveUp(p)
    /\ UNCHANGED <<dbVars, fileVars, cur, todo, ask, staged, rcVars, crashes>>

MarkUnacknowledged(p) ==
    /\ "ack" \in Faults
    /\ pc[p] = "mark"
    /\ MarkAvailable(cur[p])
    /\ GiveUp(p)
    /\ UNCHANGED <<fileVars, cur, todo, ask, staged, rcVars, crashes>>

Completed(r) ==
    /\ pc[r] = "next"
    /\ todo[r] = {}
    /\ Goto(r, "ok")
    /\ UNCHANGED <<dbVars, fileVars, cur, todo, ask, staged, rcVars, crashes>>

(***************************************************************************)
(* The reconciler's own steps                                              *)
(***************************************************************************)
\* ListPendingAttachments at the start of a pass.
ListPending ==
    /\ pc[Reconciler] = "idle"
    /\ keep' = Pending
    /\ todo' = [todo EXCEPT ![Reconciler] = Pending]
    /\ Goto(Reconciler, "next")
    /\ UNCHANGED <<dbVars, fileVars, cur, ask, staged, entries, crashes>>

\* Mutant: the update lacks "AND storage_state='pending'".
FailRowAnyState(k) ==
    /\ row' = [row EXCEPT ![k] = "failed"]
    /\ failAudits' = [failAudits EXCEPT ![k] = @ + 1]
    /\ UNCHANGED <<updates, availAudits>>

\* MarkAttachmentFailed: the update is conditional on the row being pending,
\* the audit event is not.
FailRow(k) ==
    /\ row' = IF row[k] = "pending" THEN [row EXCEPT ![k] = "failed"] ELSE row
    /\ failAudits' = [failAudits EXCEPT ![k] = @ + 1]
    /\ UNCHANGED <<updates, availAudits>>

MarkFailed ==
    /\ pc[Reconciler] = "fail"
    /\ FailRow(cur[Reconciler])
    /\ todo' = [todo EXCEPT ![Reconciler] = @ \ {cur[Reconciler]}]
    /\ Goto(Reconciler, "next")
    /\ UNCHANGED <<fileVars, cur, ask, staged, rcVars, crashes>>

MarkFailedError ==
    /\ pc[Reconciler] = "fail"
    /\ \/ "ack" \in Faults /\ FailRow(cur[Reconciler])
       \/ "db" \in Faults /\ UNCHANGED dbVars
    /\ GiveUp(Reconciler)
    /\ UNCHANGED <<fileVars, cur, todo, ask, staged, rcVars, crashes>>

\* CleanupOrphans reads the directory once, then examines entry by entry.
ListStaging ==
    /\ pc[Reconciler] = "next"
    /\ todo[Reconciler] = {}
    /\ entries' = staging \ keep
    /\ Goto(Reconciler, "clean")
    /\ UNCHANGED <<dbVars, fileVars, cur, todo, ask, staged, keep, crashes>>

\* Mutant: the age comparison is the wrong way round.
CleanupEntryYoung ==
    /\ pc[Reconciler] = "clean"
    /\ \E k \in entries \cap staging :
        /\ entries' = entries \ {k}
        /\ staging' = IF k \in old THEN staging ELSE staging \ {k}
        /\ UNCHANGED old
    /\ UNCHANGED <<dbVars, stored, used, pc, cur, todo, ask, staged, keep, crashes>>

CleanupEntry ==
    /\ pc[Reconciler] = "clean"
    /\ \E k \in entries \cap staging :
        /\ entries' = entries \ {k}
        /\ staging' = IF k \in old THEN staging \ {k} ELSE staging
        /\ old' = old \ {k}
    /\ UNCHANGED <<dbVars, stored, used, pc, cur, todo, ask, staged, keep, crashes>>

\* An entry that went away after the listing fails the pass, as does any error.
CleanupAborted ==
    /\ pc[Reconciler] = "clean"
    /\ ~(entries \subseteq staging) \/ ("fs" \in Faults /\ entries # {})
    /\ GiveUp(Reconciler)
    /\ UNCHANGED <<dbVars, fileVars, cur, todo, ask, staged, rcVars, crashes>>

CleanupDone ==
    /\ pc[Reconciler] = "clean"
    /\ entries = {}
    /\ Goto(Reconciler, "idle")
    /\ UNCHANGED <<dbVars, fileVars, cur, todo, ask, staged, rcVars, crashes>>

(***************************************************************************)
(* Service.Download: one transaction reads the row, then the file is opened*)
(***************************************************************************)
\* Mutant: only failed attachments are refused.
ReadRowUnfailed(d) ==
    /\ pc[d] = "idle"
    /\ \E k \in Keys :
        /\ row[k] \in {"pending", "available"}
        /\ cur' = [cur EXCEPT ![d] = k]
    /\ Goto(d, "open")
    /\ UNCHANGED <<dbVars, fileVars, todo, ask, staged, rcVars, crashes>>

ReadRow(d) ==
    /\ pc[d] = "idle"
    /\ \E k \in Keys :
        /\ row[k] = "available"
        /\ cur' = [cur EXCEPT ![d] = k]
    /\ Goto(d, "open")
    /\ UNCHANGED <<dbVars, fileVars, todo, ask, staged, rcVars, crashes>>

OpenFinal(d) ==
    /\ pc[d] = "open"
    /\ Goto(d, IF cur[d] \in stored THEN "served" ELSE "unavailable")
    /\ UNCHANGED <<dbVars, fileVars, cur, todo, ask, staged, rcVars, crashes>>

(***************************************************************************)
(* The environment                                                         *)
(***************************************************************************)
\* A staged file becomes older than 24 hours.  The HTTP server's ten-minute
\* read and write timeouts end its request long before, and a pass is much
\* shorter than a day, so that no file is both staged and outdated during one.
Age(k) ==
    /\ k \in staging \ old
    /\ pc[Reconciler] = "idle"
    /\ \A r \in Requests : k \notin staged[r]
    /\ old' = old \cup {k}
    /\ UNCHANGED <<dbVars, staging, stored, used, pc, cur, todo, ask, staged, rcVars, crashes>>

Running(p) == pc[p] \notin Finished \cup {"idle"}

\* The process stops and starts again: requests are lost, and reconciliation
\* begins with a new pass.
Crash ==
    /\ crashes < MaxCrashes
    /\ crashes' = crashes + 1
    /\ pc' = [p \in Procs |-> IF p = Reconciler THEN "idle"
                              ELSE IF Running(p) THEN "dead" ELSE pc[p]]
    /\ todo' = [p \in Finalizers |-> {}]
    /\ staged' = [r \in Requests |-> {}]
    /\ keep' = {} /\ entries' = {}
    /\ UNCHANGED <<dbVars, fileVars, cur, ask>>

Finalize(p) ==
    \/ Inspect(p) \/ Rename(p) \/ RenameMissing(p) \/ FinalizeError(p)
    \/ Mark(p) \/ MarkRefused(p) \/ MarkUnacknowledged(p)

\* What a request does once it has been sent.
RequestWork(r) ==
    \/ Stage(r) \/ StageRejected(r)
    \/ CreateRefused(r) \/ CreateConflict(r) \/ CreateDuplicate(r)
    \/ CreateCommitted(r) \/ CreateUnacknowledged(r)
    \/ DiscardStaged(r) \/ Discarded(r)
    \/ Finalize(r) \/ Completed(r)

ReconcilerStep ==
    \/ ListPending \/ Finalize(Reconciler) \/ MarkFailed \/ MarkFailedError
    \/ ListStaging \/ CleanupEntry \/ CleanupAborted \/ CleanupDone

ReaderStep(d) == ReadRow(d) \/ OpenFinal(d)

Next ==
    \/ \E r \in Requests : Begin(r) \/ RequestWork(r)
    \/ ReconcilerStep
    \/ \E d \in Readers : ReaderStep(d)
    \/ \E k \in Keys : Age(k)
    \/ Crash

Spec == Init /\ [][Next]_vars

(***************************************************************************)
(* Goroutines are scheduled, and time passes: the ticker leaves a minute   *)
(* between two passes, so ageing is possible again and again (SF).         *)
(* Nothing obliges a client to send a request or a download.               *)
(***************************************************************************)
Fairness ==
    /\ \A r \in Requests : WF_vars(RequestWork(r))
    /\ WF_vars(ReconcilerStep)
    /\ \A k \in Keys : SF_vars(Age(k))

FairSpec == Spec /\ Fairness

(***************************************************************************)
(* Properties                                                              *)
(***************************************************************************)
TypeOK ==
    /\ row \in [Keys -> {"none", "pending", "available", "failed"}]
    /\ updates \in [IdemKeys -> Update \cup {NoUpdate}]
    /\ availAudits \in [Keys -> Nat]
    /\ failAudits \in [Keys -> Nat]
    /\ staging \subseteq used /\ old \subseteq staging
    /\ stored \subseteq used /\ used \subseteq Keys
    /\ staging \cap stored = {}
    /\ pc \in [Procs -> Labels]
    /\ cur \in [Procs -> Keys \cup {NoKey}]
    /\ todo \in [Finalizers -> SUBSET Keys]
    /\ ask \in [Requests -> Asks]
    /\ staged \in [Requests -> SUBSET Keys]
    /\ keep \subseteq Keys /\ entries \subseteq Keys
    /\ crashes \in Nat

\* What is shown as available can be read: whatever order requests, retries,
\* reconciliation passes and restarts run in, final bytes precede the state
\* change (the durable write sequence of ATTACHMENT_STORAGE.md).
AvailableHasBytes == \A k \in Keys : row[k] = "available" => k \in stored

\* The store never holds final bytes that no row knows: nothing in the code
\* would ever remove them, because cleanup looks at .staging only.
StoredIsRecorded == \A k \in stored : row[k] # "none"

\* While a row is pending its bytes exist, staged or final, so that a later
\* pass can finish the work: discarding, cleanup and renaming never take the
\* bytes of a pending row ("staged bytes are retained for reconciliation").
PendingHasBytes == \A k \in Pending : k \in staging \cup stored

\* An availability event is recorded exactly once, by whichever of the racing
\* finalizers changed the row, and a failed row has exactly one failure event.
OutcomeAuditedOnce ==
    \A k \in Keys :
        /\ availAudits[k] = IF row[k] = "available" THEN 1 ELSE 0
        /\ row[k] = "failed" => failAudits[k] = 1

\* A request answered with success left none of its update's files pending,
\* also when it is a retry that found the update already created.
SuccessIsSettled ==
    \A r \in Requests : pc[r] = "ok" =>
        LET update == updates[ask[r].idem] IN
        update # NoUpdate /\ update.files \cap Pending = {}

\* A download that saw an available attachment finds its file.
DownloadFindsBytes == \A d \in Readers : pc[d] # "unavailable"

\* A retry with the same idempotency key never changes what the first request
\* recorded, stored bytes are never removed, and available and failed are final.
HistoryKept ==
    [][/\ stored \subseteq stored'
       /\ \A i \in IdemKeys : updates[i] # NoUpdate => updates'[i] = updates[i]
       /\ \A k \in Keys : row[k] \in {"available", "failed"} => row'[k] = row[k]]_vars

\* An attachment does not stay pending for ever.
PendingResolved ==
    \A k \in Keys : (row[k] = "pending") ~> (row[k] \in {"available", "failed"})

\* A staged file that never got a row is removed in the end.
OrphanRemoved ==
    \A k \in Keys : (k \in staging /\ row[k] = "none")
                        ~> (k \notin staging \/ row[k] # "none")

\* "If neither staged nor final bytes exist, the row becomes failed":
\* a failed row has no bytes.
FailedHasNoBytes == \A k \in Keys : row[k] = "failed" => k \notin stored

Lifecycle == INSTANCE AttachmentLifecycle WITH state <- row

\* The detailed system implements the promised life cycle.
ImplementsLifecycle == Lifecycle!Spec
============================================================================
