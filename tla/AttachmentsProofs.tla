-------------------------- MODULE AttachmentsProofs --------------------------
(***************************************************************************)
(* The safety properties of Attachments for every set of keys, requests,   *)
(* downloads and faults.                                                   *)
(***************************************************************************)
EXTENDS Attachments, TLAPS

(***************************************************************************)
(* The inductive invariant                                                 *)
(***************************************************************************)

\* Control points a process of each kind can be at.
LabelInv ==
    /\ \A r \in Requests : pc[r] \notin {"fail", "clean", "open", "served", "unavailable"}
    /\ \A d \in Readers : pc[d] \in {"idle", "open", "served", "dead"}
    /\ pc[Reconciler] \in {"idle", "next", "rename", "mark", "fail", "clean"}

\* A process that works on a key works on one whose row exists; one about to
\* mark it has seen its final bytes; the reconciler is about to fail a row only
\* after its staged file has gone, which for a key drawn before is for good.
WorkInv ==
    /\ \A p \in Finalizers :
        /\ \A k \in todo[p] : row[k] # "none"
        /\ pc[p] \in {"rename", "mark", "fail"} =>
               cur[p] \in Keys /\ row[cur[p]] # "none"
        /\ pc[p] = "mark" => cur[p] \in stored
        /\ pc[p] = "fail" => cur[p] \in used \ staging
    /\ \A d \in Readers : pc[d] = "open" => cur[d] \in Keys /\ row[cur[d]] = "available"

\* Where bytes may be, given the state of the row, and that no two requests
\* stage the same key nor one that has a row.
BytesInv ==
    /\ \A k \in Keys : row[k] # "none" => k \in used
    /\ \A k \in staging : row[k] \in {"none", "pending"}
    /\ \A r \in Requests :
        /\ staged[r] \subseteq used
        /\ pc[r] = "idle" => staged[r] = {}
        /\ pc[r] = "stage" => \A k \in staged[r] : row[k] = "none"
    /\ \A r, s \in Requests : r # s => staged[r] \cap staged[s] = {}

IndInv ==
    /\ TypeOK
    /\ LabelInv
    /\ WorkInv
    /\ BytesInv
    /\ AvailableHasBytes
    /\ StoredIsRecorded

LEMMA TypeStep == TypeOK /\ WorkInv /\ Next => TypeOK'
<1> SUFFICES ASSUME TypeOK, WorkInv, Next PROVE TypeOK'
  OBVIOUS
<1> USE SetsAssumption DEF TypeOK, dbVars, fileVars, rcVars, Goto, GiveUp,
        Procs, Finalizers, Labels, Finished, Pending
<1>1. ASSUME NEW r \in Requests, Begin(r) PROVE TypeOK'
  BY <1>1 DEF Begin
<1>2. ASSUME NEW r \in Requests, Stage(r) PROVE TypeOK'
  BY <1>2 DEF Stage, MoreToStage
<1>3. ASSUME NEW r \in Requests, DiscardStaged(r) PROVE TypeOK'
  BY <1>3 DEF DiscardStaged, Discarding
<1>4. ASSUME NEW r \in Requests, CreateCommitted(r) PROVE TypeOK'
  BY <1>4 DEF CreateCommitted, InsertUpdate, AllStaged, Update, Asks
<1>5. ASSUME NEW r \in Requests, CreateUnacknowledged(r) PROVE TypeOK'
  BY <1>5 DEF CreateUnacknowledged, InsertUpdate, AllStaged, Update, Asks
<1>6. ASSUME NEW r \in Requests, CreateDuplicate(r) PROVE TypeOK'
  BY <1>6 DEF CreateDuplicate, AllStaged
<1>7. ASSUME NEW r \in Requests,
             \/ StageRejected(r) \/ CreateRefused(r) \/ CreateConflict(r)
             \/ Discarded(r) \/ Completed(r)
      PROVE  TypeOK'
  BY <1>7 DEF StageRejected, CreateRefused, CreateConflict, Discarded, Completed
<1>8. ASSUME NEW p \in Finalizers, Finalize(p) PROVE TypeOK'
  <2>1. CASE Inspect(p)
    BY <2>1 DEF Inspect
  <2>2. CASE Rename(p)
    BY <2>2 DEF Rename
  <2>3. CASE Mark(p)
    BY <2>3 DEF Mark, MarkAvailable, WorkInv
  <2>4. CASE MarkUnacknowledged(p)
    BY <2>4 DEF MarkUnacknowledged, MarkAvailable, WorkInv
  <2>5. CASE RenameMissing(p) \/ FinalizeError(p) \/ MarkRefused(p)
    BY <2>5 DEF RenameMissing, FinalizeError, MarkRefused
  <2>6. QED
    BY <1>8, <2>1, <2>2, <2>3, <2>4, <2>5 DEF Finalize
<1>9. ASSUME ListPending \/ ListStaging \/ CleanupEntry \/ CleanupAborted \/ CleanupDone
      PROVE  TypeOK'
  BY <1>9 DEF ListPending, ListStaging, CleanupEntry, CleanupAborted, CleanupDone
<1>10. ASSUME MarkFailed \/ MarkFailedError PROVE TypeOK'
  BY <1>10 DEF MarkFailed, MarkFailedError, FailRow, WorkInv
<1>11. ASSUME NEW d \in Readers, ReaderStep(d) PROVE TypeOK'
  BY <1>11 DEF ReaderStep, ReadRow, OpenFinal
<1>12. ASSUME NEW k \in Keys, Age(k) PROVE TypeOK'
  BY <1>12 DEF Age
<1>13. ASSUME Crash PROVE TypeOK'
  BY <1>13 DEF Crash, Running
<1>14. QED
  BY <1>1, <1>2, <1>3, <1>4, <1>5, <1>6, <1>7, <1>8, <1>9, <1>10, <1>11, <1>12, <1>13
     DEF Next, RequestWork, ReconcilerStep

LEMMA LabelStep == TypeOK /\ LabelInv /\ WorkInv /\ AvailableHasBytes /\ Next => LabelInv'
<1> SUFFICES ASSUME TypeOK, LabelInv, WorkInv, AvailableHasBytes, Next PROVE LabelInv'
  OBVIOUS
<1> USE SetsAssumption DEF TypeOK, LabelInv, Goto, GiveUp, Procs, Finalizers
<1>1. ASSUME NEW r \in Requests, Begin(r) PROVE LabelInv'
  BY <1>1 DEF Begin
<1>2. ASSUME NEW r \in Requests,
             \/ Stage(r) \/ StageRejected(r) \/ CreateRefused(r) \/ CreateConflict(r)
             \/ CreateDuplicate(r) \/ CreateCommitted(r) \/ CreateUnacknowledged(r)
             \/ DiscardStaged(r) \/ Discarded(r) \/ Completed(r)
      PROVE  LabelInv'
  BY <1>2 DEF Stage, StageRejected, CreateRefused, CreateConflict, CreateDuplicate,
              CreateCommitted, CreateUnacknowledged, DiscardStaged, Discarded, Completed
<1>3. ASSUME NEW p \in Finalizers, Finalize(p) PROVE LabelInv'
  BY <1>3 DEF Finalize, Inspect, Rename, RenameMissing, FinalizeError, Mark,
              MarkRefused, MarkUnacknowledged
<1>4. CASE ListPending \/ MarkFailed \/ MarkFailedError \/ ListStaging \/ CleanupEntry
           \/ CleanupAborted \/ CleanupDone
  BY <1>4 DEF ListPending, MarkFailed, MarkFailedError, ListStaging, CleanupEntry,
              CleanupAborted, CleanupDone
<1>5. ASSUME NEW d \in Readers, ReaderStep(d) PROVE LabelInv'
  BY <1>5 DEF ReaderStep, ReadRow, OpenFinal, WorkInv, AvailableHasBytes
<1>6. ASSUME NEW k \in Keys, Age(k) PROVE LabelInv'
  BY <1>6 DEF Age
<1>7. CASE Crash
  BY <1>7 DEF Crash, Running
<1>8. QED
  BY <1>1, <1>2, <1>3, <1>4, <1>5, <1>6, <1>7 DEF Next, RequestWork, ReconcilerStep

(***************************************************************************)
(* How a step may change the rows and the files                            *)
(***************************************************************************)

\* Every step leaves rows and files alone or makes one of these changes.
Staged(k) ==
    /\ k \in Keys \ used
    /\ staging' = staging \cup {k} /\ used' = used \cup {k}
    /\ UNCHANGED <<row, stored>>

Unstaged(k) ==
    /\ staging' = staging \ {k}
    /\ UNCHANGED <<row, stored, used>>

Recorded(S) ==
    /\ S \subseteq Keys
    /\ \A k \in S : row[k] = "none" /\ k \in used
    /\ row' = [k \in Keys |-> IF k \in S THEN "pending" ELSE row[k]]
    /\ UNCHANGED <<staging, stored, used>>

Renamed(k) ==
    /\ k \in staging /\ row[k] = "pending"
    /\ staging' = staging \ {k} /\ stored' = stored \cup {k}
    /\ UNCHANGED <<row, used>>

Published(k) ==
    /\ k \in stored /\ row[k] = "pending"
    /\ row' = [row EXCEPT ![k] = "available"]
    /\ UNCHANGED <<staging, stored, used>>

Abandoned(k) ==
    /\ k \in used \ staging /\ row[k] = "pending"
    /\ row' = [row EXCEPT ![k] = "failed"]
    /\ UNCHANGED <<staging, stored, used>>

Change ==
    \/ UNCHANGED <<row, staging, stored, used>>
    \/ \E k \in Keys : Staged(k) \/ Unstaged(k) \/ Renamed(k) \/ Published(k) \/ Abandoned(k)
    \/ \E S \in SUBSET Keys : Recorded(S)

LEMMA StepChange == IndInv /\ Next => Change
<1> SUFFICES ASSUME IndInv, Next PROVE Change
  OBVIOUS
<1> USE SetsAssumption DEF IndInv, TypeOK, dbVars, fileVars, Finalizers, Change
<1>1. ASSUME NEW r \in Requests, Stage(r) PROVE Change
  BY <1>1 DEF Stage, Staged
<1>2. ASSUME NEW r \in Requests, InsertUpdate(r), UNCHANGED fileVars PROVE Change
  <2>1. Recorded(staged[r])
    BY <1>2 DEF InsertUpdate, AllStaged, Recorded, BytesInv
  <2>2. QED
    BY <2>1
<1>3. ASSUME NEW r \in Requests, DiscardStaged(r) PROVE Change
  BY <1>3 DEF DiscardStaged, Unstaged
<1>4. ASSUME NEW p \in Finalizers, Rename(p) PROVE Change
  <2>1. Renamed(cur[p])
    BY <1>4 DEF Rename, Renamed, WorkInv, BytesInv
  <2>2. QED
    BY <1>4, <2>1 DEF Rename
<1>5. ASSUME NEW k \in Keys, k \in stored, row[k] # "none", MarkAvailable(k), UNCHANGED fileVars
      PROVE  Change
  <2>1. Published(k) \/ UNCHANGED <<row, staging, stored, used>>
    BY <1>5 DEF MarkAvailable, Published
  <2>2. QED
    BY <2>1
<1>6. ASSUME NEW k \in Keys, k \in used \ staging, FailRow(k), UNCHANGED fileVars
      PROVE  Change
  <2>1. Abandoned(k) \/ UNCHANGED <<row, staging, stored, used>>
    BY <1>6 DEF FailRow, Abandoned
  <2>2. QED
    BY <2>1
<1>7. ASSUME NEW p \in Finalizers, Mark(p) \/ MarkUnacknowledged(p) PROVE Change
  BY <1>5, <1>7 DEF Mark, MarkUnacknowledged, WorkInv
<1>8. CASE MarkFailed \/ MarkFailedError
  BY <1>6, <1>8 DEF MarkFailed, MarkFailedError, WorkInv
<1>9. CASE CleanupEntry
  BY <1>9 DEF CleanupEntry, Unstaged
<1>10. ASSUME NEW r \in Requests, CreateCommitted(r) \/ CreateUnacknowledged(r) PROVE Change
  BY <1>2, <1>10 DEF CreateCommitted, CreateUnacknowledged
<1>11. ASSUME NEW r \in Requests,
              \/ Begin(r) \/ StageRejected(r) \/ CreateRefused(r) \/ CreateConflict(r)
              \/ CreateDuplicate(r) \/ Discarded(r) \/ Completed(r)
       PROVE  Change
  BY <1>11 DEF Begin, StageRejected, CreateRefused, CreateConflict, CreateDuplicate,
               Discarded, Completed
<1>12. ASSUME NEW p \in Finalizers,
              Inspect(p) \/ RenameMissing(p) \/ FinalizeError(p) \/ MarkRefused(p)
       PROVE  Change
  BY <1>12 DEF Inspect, RenameMissing, FinalizeError, MarkRefused
<1>13. CASE ListPending \/ ListStaging \/ CleanupAborted \/ CleanupDone \/ Crash
  BY <1>13 DEF ListPending, ListStaging, CleanupAborted, CleanupDone, Crash
<1>14. ASSUME NEW d \in Readers, ReaderStep(d) PROVE Change
  BY <1>14 DEF ReaderStep, ReadRow, OpenFinal
<1>15. ASSUME NEW k \in Keys, Age(k) PROVE Change
  BY <1>15 DEF Age
<1>16. QED
  BY <1>1, <1>3, <1>4, <1>7, <1>8, <1>9, <1>10, <1>11, <1>12, <1>13, <1>14, <1>15
     DEF Next, RequestWork, Finalize, ReconcilerStep

\* What no change undoes.
Kept ==
    /\ \A k \in Keys : row[k] # "none" => row'[k] # "none"
    /\ \A k \in Keys : row[k] \in {"available", "failed"} => row'[k] = row[k]
    /\ stored \subseteq stored'
    /\ used \subseteq used'
    /\ \A k \in used \ staging : k \in used' \ staging'

LEMMA ChangeKeeps == TypeOK /\ Change => Kept
<1> SUFFICES ASSUME TypeOK, Change PROVE Kept
  OBVIOUS
<1> USE DEF TypeOK, Kept
<1>1. ASSUME NEW k \in Keys, Staged(k) \/ Unstaged(k) \/ Renamed(k) PROVE Kept
  BY <1>1 DEF Staged, Unstaged, Renamed
<1>2. ASSUME NEW k \in Keys, Published(k) \/ Abandoned(k) PROVE Kept
  BY <1>2 DEF Published, Abandoned
<1>3. ASSUME NEW S \in SUBSET Keys, Recorded(S) PROVE Kept
  BY <1>3 DEF Recorded
<1>4. QED
  BY <1>1, <1>2, <1>3 DEF Change

LEMMA WorkStep == IndInv /\ Next => WorkInv'
<1> SUFFICES ASSUME IndInv, Next PROVE WorkInv'
  OBVIOUS
<1> USE SetsAssumption DEF IndInv, TypeOK, WorkInv, LabelInv, Kept, dbVars, fileVars,
        Goto, GiveUp, Finalizers, Procs, Pending
<1>0. Kept /\ TypeOK'
  BY StepChange, ChangeKeeps, TypeStep
<1>1. ASSUME NEW r \in Requests,
             \/ Begin(r) \/ Stage(r) \/ StageRejected(r) \/ CreateRefused(r)
             \/ CreateConflict(r) \/ CreateDuplicate(r) \/ CreateUnacknowledged(r)
             \/ DiscardStaged(r) \/ Discarded(r) \/ Completed(r)
      PROVE  WorkInv'
  BY <1>0, <1>1 DEF Begin, Stage, StageRejected, CreateRefused, CreateConflict,
     CreateDuplicate, CreateUnacknowledged, DiscardStaged, Discarded, Completed
<1>2. ASSUME NEW r \in Requests, CreateCommitted(r) PROVE WorkInv'
  BY <1>0, <1>2 DEF CreateCommitted, InsertUpdate
<1>3. ASSUME NEW p \in Finalizers, Inspect(p) PROVE WorkInv'
  BY <1>0, <1>3 DEF Inspect
<1>4. ASSUME NEW p \in Finalizers, Rename(p) PROVE WorkInv'
  BY <1>0, <1>4 DEF Rename
<1>5. ASSUME NEW p \in Finalizers, RenameMissing(p) PROVE WorkInv'
  <2>1. cur[p] \in used \ staging
    BY <1>5 DEF RenameMissing, BytesInv
  <2>2. QED
    BY <1>0, <1>5, <2>1 DEF RenameMissing
<1>6. ASSUME NEW p \in Finalizers,
             FinalizeError(p) \/ Mark(p) \/ MarkRefused(p) \/ MarkUnacknowledged(p)
      PROVE  WorkInv'
  BY <1>0, <1>6 DEF FinalizeError, Mark, MarkRefused, MarkUnacknowledged
<1>7. CASE ListPending \/ MarkFailed \/ MarkFailedError
  BY <1>0, <1>7 DEF ListPending, MarkFailed, MarkFailedError
<1>8. CASE ListStaging \/ CleanupEntry \/ CleanupAborted \/ CleanupDone
  BY <1>0, <1>8 DEF ListStaging, CleanupEntry, CleanupAborted, CleanupDone
<1>9. ASSUME NEW d \in Readers, ReaderStep(d) PROVE WorkInv'
  BY <1>0, <1>9 DEF ReaderStep, ReadRow, OpenFinal
<1>10. ASSUME NEW k \in Keys, Age(k) PROVE WorkInv'
  BY <1>0, <1>10 DEF Age
<1>11. CASE Crash
  BY <1>0, <1>11 DEF Crash, Running
<1>12. QED
  BY <1>1, <1>2, <1>3, <1>4, <1>5, <1>6, <1>7, <1>8, <1>9, <1>10, <1>11
     DEF Next, RequestWork, Finalize, ReconcilerStep

\* Bytes and rows stay in agreement under every change.
LEMMA ChangeKeepsBytes ==
  ASSUME IndInv, Change
  PROVE  /\ AvailableHasBytes' /\ StoredIsRecorded'
         /\ \A k \in Keys : row'[k] # "none" => k \in used'
         /\ \A k \in staging' : row'[k] \in {"none", "pending"}
<1> USE DEF IndInv, TypeOK, BytesInv, AvailableHasBytes, StoredIsRecorded
<1> DEFINE Goal == /\ AvailableHasBytes' /\ StoredIsRecorded'
                   /\ \A k \in Keys : row'[k] # "none" => k \in used'
                   /\ \A k \in staging' : row'[k] \in {"none", "pending"}
<1>1. ASSUME NEW k \in Keys, Staged(k) \/ Unstaged(k) \/ Renamed(k) PROVE Goal
  BY <1>1 DEF Staged, Unstaged, Renamed
<1>2. ASSUME NEW k \in Keys, Published(k) \/ Abandoned(k) PROVE Goal
  BY <1>2 DEF Published, Abandoned
<1>3. ASSUME NEW S \in SUBSET Keys, Recorded(S) PROVE Goal
  BY <1>3 DEF Recorded
<1>4. QED
  BY <1>1, <1>2, <1>3 DEF Change

LEMMA BytesStep == IndInv /\ Next => BytesInv'
<1> SUFFICES ASSUME IndInv, Next PROVE BytesInv'
  OBVIOUS
<1>0. Change /\ Kept /\ TypeOK'
  BY StepChange, ChangeKeeps, TypeStep DEF IndInv
<1> DEFINE Own == /\ \A r \in Requests :
                        /\ staged[r] \subseteq used
                        /\ pc[r] = "idle" => staged[r] = {}
                        /\ pc[r] = "stage" => \A k \in staged[r] : row[k] = "none"
                  /\ \A r, s \in Requests : r # s => staged[r] \cap staged[s] = {}
<1> SUFFICES Own'
  BY <1>0, ChangeKeepsBytes DEF BytesInv
<1> USE SetsAssumption DEF IndInv, TypeOK, BytesInv, Kept, dbVars, fileVars,
        Goto, GiveUp, Finalizers, Procs
<1>1. ASSUME NEW r \in Requests, Stage(r) PROVE Own'
  BY <1>1 DEF Stage, MoreToStage
<1>2. ASSUME NEW r \in Requests, CreateCommitted(r) \/ CreateUnacknowledged(r) PROVE Own'
  BY <1>2 DEF CreateCommitted, CreateUnacknowledged, InsertUpdate, AllStaged
<1>3. ASSUME NEW r \in Requests, DiscardStaged(r) PROVE Own'
  BY <1>3 DEF DiscardStaged, Discarding
<1>4. ASSUME NEW r \in Requests, Begin(r) PROVE Own'
  <2>1. staged[r] = {}
    BY <1>4 DEF Begin, LabelInv
  <2>2. QED
    BY <1>4, <2>1 DEF Begin
<1>5. ASSUME NEW r \in Requests,
             \/ StageRejected(r) \/ CreateRefused(r) \/ CreateConflict(r)
             \/ CreateDuplicate(r) \/ Discarded(r) \/ Completed(r)
      PROVE  Own'
  BY <1>5 DEF StageRejected, CreateRefused, CreateConflict, CreateDuplicate, Discarded,
              Completed
<1>6. ASSUME NEW p \in Finalizers, Finalize(p) PROVE Own'
  <2>1. CASE Mark(p) \/ MarkUnacknowledged(p)
    BY <2>1 DEF Mark, MarkUnacknowledged, MarkAvailable, WorkInv
  <2>2. CASE Inspect(p) \/ Rename(p) \/ RenameMissing(p) \/ FinalizeError(p) \/ MarkRefused(p)
    BY <2>2 DEF Inspect, Rename, RenameMissing, FinalizeError, MarkRefused
  <2>3. QED
    BY <1>6, <2>1, <2>2 DEF Finalize
<1>7. CASE MarkFailed \/ MarkFailedError
  BY <1>7 DEF MarkFailed, MarkFailedError, FailRow, WorkInv
<1>8. CASE ListPending \/ ListStaging \/ CleanupEntry \/ CleanupAborted \/ CleanupDone
  BY <1>8 DEF ListPending, ListStaging, CleanupEntry, CleanupAborted, CleanupDone
<1>9. ASSUME NEW d \in Readers, ReaderStep(d) PROVE Own'
  BY <1>9 DEF ReaderStep, ReadRow, OpenFinal
<1>10. ASSUME NEW k \in Keys, Age(k) PROVE Own'
  BY <1>10 DEF Age
<1>11. CASE Crash
  BY <1>11 DEF Crash, Running
<1>12. QED
  BY <1>1, <1>2, <1>3, <1>4, <1>5, <1>6, <1>7, <1>8, <1>9, <1>10, <1>11
     DEF Next, RequestWork, ReconcilerStep

(***************************************************************************)
(* The theorems                                                            *)
(***************************************************************************)

LEMMA InitInv == Init => IndInv
<1> SUFFICES ASSUME Init PROVE IndInv
  OBVIOUS
<1>1. NoAsk \in Asks
  BY SetsAssumption DEF NoAsk, Asks
<1>2. QED
  BY <1>1, SetsAssumption
     DEF Init, IndInv, TypeOK, LabelInv, WorkInv, BytesInv, AvailableHasBytes,
         StoredIsRecorded, Procs, Finalizers, Labels, Finished

LEMMA InvStep == IndInv /\ [Next]_vars => IndInv'
<1> SUFFICES ASSUME IndInv, [Next]_vars PROVE IndInv'
  OBVIOUS
<1>1. CASE Next
  BY <1>1, TypeStep, LabelStep, WorkStep, BytesStep, StepChange, ChangeKeepsBytes DEF IndInv
<1>2. CASE UNCHANGED vars
  BY <1>2 DEF vars, dbVars, fileVars, rcVars, IndInv, TypeOK, LabelInv, WorkInv, BytesInv,
              AvailableHasBytes, StoredIsRecorded, Pending
<1>3. QED
  BY <1>1, <1>2

\* The inductive invariant holds in every behaviour.
THEOREM Invariance == Spec => []IndInv
  BY InitInv, InvStep, PTL DEF Spec

\* Every variable keeps its type, and no key has both staged and final bytes.
THEOREM TypeCorrect == Spec => []TypeOK
<1>1. IndInv => TypeOK
  BY DEF IndInv
<1>2. QED
  BY <1>1, Invariance, PTL

\* An attachment that PostgreSQL shows as available has its final bytes, whatever
\* finalizers raced for it and whichever calls failed (Store.Finalize before
\* MarkAttachmentAvailable, in completeAttachments and in Reconcile).
THEOREM AvailableSafe == Spec => []AvailableHasBytes
<1>1. IndInv => AvailableHasBytes
  BY DEF IndInv
<1>2. QED
  BY <1>1, Invariance, PTL

\* Final bytes always belong to a recorded attachment.
THEOREM StoredSafe == Spec => []StoredIsRecorded
<1>1. IndInv => StoredIsRecorded
  BY DEF IndInv
<1>2. QED
  BY <1>1, Invariance, PTL

\* A download that was told "available" always finds the file to open.
THEOREM DownloadSafe == Spec => []DownloadFindsBytes
<1>1. IndInv => DownloadFindsBytes
  BY DEF IndInv, LabelInv, DownloadFindsBytes
<1>2. QED
  BY <1>1, Invariance, PTL

LEMMA LifecycleInit == Init => Lifecycle!Init
  BY DEF Init, Lifecycle!Init

LEMMA LifecycleStep == IndInv /\ [Next]_vars => [Lifecycle!Next]_Lifecycle!lifecycleVars
<1> SUFFICES ASSUME IndInv, [Next]_vars PROVE [Lifecycle!Next]_Lifecycle!lifecycleVars
  OBVIOUS
<1> USE DEF Lifecycle!Next, Lifecycle!lifecycleVars
<1>1. CASE UNCHANGED vars
  BY <1>1 DEF vars, dbVars, fileVars
<1>2. CASE Next
  <2>1. Change
    BY <1>2, StepChange
  <2>2. ASSUME NEW k \in Keys, Staged(k) \/ Unstaged(k) PROVE UNCHANGED <<row, stored>>
    BY <2>2 DEF Staged, Unstaged
  <2>3. ASSUME NEW k \in Keys, Renamed(k) PROVE Lifecycle!Store(k)
    BY <2>3 DEF Renamed, Lifecycle!Store
  <2>4. ASSUME NEW k \in Keys, Published(k) PROVE Lifecycle!Publish(k)
    BY <2>4 DEF Published, Lifecycle!Publish
  <2>5. ASSUME NEW k \in Keys, Abandoned(k) PROVE Lifecycle!Abandon(k)
    BY <2>5 DEF Abandoned, Lifecycle!Abandon
  <2>6. ASSUME NEW S \in SUBSET Keys, S # {}, Recorded(S) PROVE Lifecycle!Record(S)
    BY <2>6 DEF Recorded, Lifecycle!Record
  <2>7. ASSUME Recorded({}) PROVE UNCHANGED <<row, stored>>
    BY <2>7 DEF Recorded, IndInv, TypeOK
  <2>8. QED
    BY <2>1, <2>2, <2>3, <2>4, <2>5, <2>6, <2>7 DEF Change
<1>3. QED
  BY <1>1, <1>2

\* Requests, retries, the reconciler and restarts together implement the life
\* cycle that AttachmentLifecycle promises.
THEOREM Refinement == Spec => ImplementsLifecycle
  BY LifecycleInit, LifecycleStep, Invariance, PTL DEF Spec, ImplementsLifecycle, Lifecycle!Spec

(***************************************************************************)
(* What retries, races and restarts never undo                             *)
(***************************************************************************)

LEMMA UpdatesKept ==
    TypeOK /\ [Next]_vars =>
        \A i \in IdemKeys : updates[i] # NoUpdate => updates'[i] = updates[i]
<1> SUFFICES ASSUME TypeOK, [Next]_vars, NEW i \in IdemKeys, updates[i] # NoUpdate
             PROVE  updates'[i] = updates[i]
  OBVIOUS
<1> USE DEF TypeOK, dbVars
<1>1. ASSUME NEW r \in Requests, RequestWork(r) \/ Begin(r) PROVE updates'[i] = updates[i]
  <2>1. InsertUpdate(r) => updates'[i] = updates[i]
    BY DEF InsertUpdate
  <2>2. CASE Finalize(r)
    BY <2>2 DEF Finalize, Inspect, Rename, RenameMissing, FinalizeError, Mark, MarkRefused,
                MarkUnacknowledged, MarkAvailable
  <2>3. QED
    BY <1>1, <2>1, <2>2
       DEF RequestWork, Begin, Stage, StageRejected, CreateRefused, CreateConflict,
           CreateDuplicate, CreateCommitted, CreateUnacknowledged, DiscardStaged,
           Discarded, Completed
<1>2. CASE ReconcilerStep
  <2>1. CASE Finalize(Reconciler)
    BY <2>1 DEF Finalize, Inspect, Rename, RenameMissing, FinalizeError, Mark, MarkRefused,
                MarkUnacknowledged, MarkAvailable
  <2>2. QED
    BY <1>2, <2>1
       DEF ReconcilerStep, ListPending, MarkFailed, MarkFailedError, FailRow, ListStaging,
           CleanupEntry, CleanupAborted, CleanupDone
<1>3. ASSUME NEW d \in Readers, ReaderStep(d) PROVE updates'[i] = updates[i]
  BY <1>3 DEF ReaderStep, ReadRow, OpenFinal
<1>4. CASE Crash \/ (\E k \in Keys : Age(k)) \/ UNCHANGED vars
  BY <1>4 DEF Crash, Age, vars
<1>5. QED
  BY <1>1, <1>2, <1>3, <1>4 DEF Next

LEMMA HistoryStep ==
    IndInv /\ [Next]_vars =>
        [/\ stored \subseteq stored'
         /\ \A i \in IdemKeys : updates[i] # NoUpdate => updates'[i] = updates[i]
         /\ \A k \in Keys : row[k] \in {"available", "failed"} => row'[k] = row[k]]_vars
  BY UpdatesKept, StepChange, ChangeKeeps DEF IndInv, Kept

\* A retry with the same key never changes what the first request recorded,
\* stored bytes are never removed, and available and failed are final, whatever
\* requests, reconciler and restarts do (CreateUpdate, MarkAttachmentAvailable,
\* MarkAttachmentFailed).
THEOREM HistorySafe == Spec => HistoryKept
  BY HistoryStep, Invariance, PTL DEF Spec, HistoryKept

(***************************************************************************)
(* The audit of outcomes                                                   *)
(***************************************************************************)

\* No failure is recorded of a row before it fails, and the reconciler, which
\* alone reports failures, does not work on a row that has failed.
AuditInv ==
    /\ OutcomeAuditedOnce
    /\ \A k \in Keys : row[k] \in {"none", "pending"} => failAudits[k] = 0
    /\ pc[Reconciler] \in {"next", "rename", "mark", "fail"} =>
           \A k \in todo[Reconciler] : row[k] # "failed"
    /\ pc[Reconciler] \in {"rename", "mark", "fail"} => cur[Reconciler] \in todo[Reconciler]

LEMMA AuditStep == IndInv /\ AuditInv /\ Next => AuditInv'
<1> SUFFICES ASSUME IndInv, AuditInv, Next PROVE AuditInv'
  OBVIOUS
<1> USE SetsAssumption DEF IndInv, TypeOK, AuditInv, OutcomeAuditedOnce, dbVars,
        Goto, GiveUp, Finalizers, Procs, Pending
<1>1. ASSUME NEW r \in Requests, CreateCommitted(r) \/ CreateUnacknowledged(r) PROVE AuditInv'
  BY <1>1 DEF CreateCommitted, CreateUnacknowledged, InsertUpdate, AllStaged, BytesInv
<1>2. ASSUME NEW r \in Requests,
             \/ Begin(r) \/ Stage(r) \/ StageRejected(r) \/ CreateRefused(r)
             \/ CreateConflict(r) \/ CreateDuplicate(r) \/ DiscardStaged(r)
             \/ Discarded(r) \/ Completed(r)
      PROVE  AuditInv'
  BY <1>2 DEF Begin, Stage, StageRejected, CreateRefused, CreateConflict,
     CreateDuplicate, DiscardStaged, Discarded, Completed
<1>3. ASSUME NEW p \in Finalizers, Inspect(p) \/ Rename(p) \/ RenameMissing(p)
                                    \/ FinalizeError(p) \/ MarkRefused(p)
      PROVE  AuditInv'
  BY <1>3 DEF Inspect, Rename, RenameMissing, FinalizeError, MarkRefused
<1>4. ASSUME NEW p \in Finalizers, Mark(p) \/ MarkUnacknowledged(p) PROVE AuditInv'
  BY <1>4 DEF Mark, MarkUnacknowledged, MarkAvailable, WorkInv
<1>5. CASE MarkFailed \/ MarkFailedError
  BY <1>5 DEF MarkFailed, MarkFailedError, FailRow, WorkInv
<1>6. CASE ListPending \/ ListStaging \/ CleanupEntry \/ CleanupAborted \/ CleanupDone
  BY <1>6 DEF ListPending, ListStaging, CleanupEntry, CleanupAborted, CleanupDone
<1>7. ASSUME NEW d \in Readers, ReaderStep(d) PROVE AuditInv'
  BY <1>7 DEF ReaderStep, ReadRow, OpenFinal
<1>8. CASE Crash \/ (\E k \in Keys : Age(k))
  BY <1>8 DEF Crash, Age, Running
<1>9. QED
  BY <1>1, <1>2, <1>3, <1>4, <1>5, <1>6, <1>7, <1>8
     DEF Next, RequestWork, Finalize, ReconcilerStep

\* Whichever of the racing finalizers changed a row, its availability is audited
\* once, and a failed row has one failure event, although MarkAttachmentFailed
\* appends its event whether or not it changed the row.
THEOREM AuditSafe == Spec => []OutcomeAuditedOnce
<1>1. Init => AuditInv
  BY SetsAssumption DEF Init, AuditInv, OutcomeAuditedOnce, Procs, Finalizers
<1>2. IndInv /\ AuditInv /\ [Next]_vars => AuditInv'
  <2>1. UNCHANGED vars /\ AuditInv => AuditInv'
    BY DEF vars, dbVars, fileVars, rcVars, AuditInv, OutcomeAuditedOnce
  <2>2. QED
    BY <2>1, AuditStep
<1>3. AuditInv => OutcomeAuditedOnce
  BY DEF AuditInv
<1>4. QED
  BY <1>1, <1>2, <1>3, Invariance, PTL DEF Spec

(***************************************************************************)
(* What success means to a request                                         *)
(***************************************************************************)

\* Files of an update have rows, and a request that completes one has all that
\* are still pending on its list.
ToSettle(r) ==
    LET update == updates[ask[r].idem] IN
    update # NoUpdate /\ update.files \cap Pending \subseteq todo[r]

SettledInv ==
    /\ \A i \in IdemKeys : updates[i] # NoUpdate => \A k \in updates[i].files : row[k] # "none"
    /\ \A r \in Requests :
        pc[r] \in {"discardDuplicate", "next", "rename", "mark"} => ToSettle(r)
    /\ SuccessIsSettled

\* A row becomes pending only when it is made.
LEMMA PendingOnce ==
    ASSUME TypeOK, Change, NEW k \in Keys, row[k] # "none", k \in Pending'
    PROVE  k \in Pending
<1> USE DEF TypeOK, Pending
<1>1. ASSUME NEW x \in Keys, Staged(x) \/ Unstaged(x) \/ Renamed(x) PROVE row[k] = "pending"
  BY <1>1 DEF Staged, Unstaged, Renamed
<1>2. ASSUME NEW x \in Keys, Published(x) \/ Abandoned(x) PROVE row[k] = "pending"
  BY <1>2 DEF Published, Abandoned
<1>3. ASSUME NEW S \in SUBSET Keys, Recorded(S) PROVE row[k] = "pending"
  BY <1>3 DEF Recorded
<1>4. QED
  BY <1>1, <1>2, <1>3 DEF Change

\* Nothing that has to be settled is added to an update that exists.
LEMMA FilesSettle ==
    ASSUME IndInv, SettledInv, Next, NEW i \in IdemKeys, updates[i] # NoUpdate
    PROVE  /\ updates'[i] = updates[i]
           /\ \A k \in updates[i].files : row'[k] # "none"
           /\ updates[i].files \cap Pending' \subseteq updates[i].files \cap Pending
<1>1. updates[i].files \subseteq Keys
  BY DEF IndInv, TypeOK, Update
<1>2. Change /\ Kept
  BY StepChange, ChangeKeeps DEF IndInv
<1>3. \A k \in updates[i].files : row[k] # "none"
  BY DEF SettledInv
<1>4. \A k \in updates[i].files : k \in Pending' => k \in Pending
  BY <1>1, <1>2, <1>3, PendingOnce DEF IndInv
<1>5. QED
  BY <1>1, <1>2, <1>3, <1>4, UpdatesKept DEF IndInv, Kept

\* A request that goes on with its update keeps to its list.
LEMMA KeepsSettling ==
    ASSUME IndInv, SettledInv, Next, NEW r \in Requests, ToSettle(r),
           ask'[r] = ask[r], todo'[r] = todo[r]
    PROVE  ToSettle(r)'
<1>1. ask[r].idem \in IdemKeys
  BY DEF IndInv, TypeOK, Asks
<1>2. QED
  BY <1>1, FilesSettle DEF ToSettle

\* So does a request that is answered.
LEMMA StaysSettled ==
    ASSUME IndInv, SettledInv, Next, NEW r \in Requests, pc[r] = "ok", ask'[r] = ask[r]
    PROVE  LET update == updates'[ask'[r].idem] IN
           update # NoUpdate /\ update.files \cap Pending' = {}
<1>1. ask[r].idem \in IdemKeys
  BY DEF IndInv, TypeOK, Asks
<1>2. QED
  BY <1>1, FilesSettle DEF SettledInv, SuccessIsSettled

LEMMA RequestsSettle ==
    ASSUME IndInv, SettledInv, Next, NEW r \in Requests
    PROVE  /\ pc'[r] \in {"discardDuplicate", "next", "rename", "mark"} => ToSettle(r)'
           /\ pc'[r] = "ok" => LET update == updates'[ask'[r].idem] IN
                               update # NoUpdate /\ update.files \cap Pending' = {}
<1> DEFINE At == pc[r] \in {"discardDuplicate", "next", "rename", "mark"}
           At2 == pc'[r] \in {"discardDuplicate", "next", "rename", "mark"}
           Done == LET update == updates'[ask'[r].idem] IN
                   update # NoUpdate /\ update.files \cap Pending' = {}
           Goal == (At2 => ToSettle(r)') /\ (pc'[r] = "ok" => Done)
<1> USE SetsAssumption DEF Goto, GiveUp, Finalizers, Procs
<1>t. /\ pc \in [Procs -> Labels] /\ todo \in [Finalizers -> SUBSET Keys]
      /\ ask \in [Requests -> Asks] /\ staged \in [Requests -> SUBSET Keys]
  BY DEF IndInv, TypeOK
<1>0. At => ToSettle(r)
  BY DEF SettledInv
<1>1. ASSUME ask'[r] = ask[r], todo'[r] = todo[r], At2 => At, pc'[r] = "ok" => pc[r] = "ok"
      PROVE  Goal
  BY <1>0, <1>1, KeepsSettling, StaysSettled
<1>2. CASE CreateCommitted(r)
  <2>1. /\ ask[r].idem \in IdemKeys /\ updates \in [IdemKeys -> Update \cup {NoUpdate}]
        /\ pc'[r] = "next" /\ todo'[r] = staged[r] /\ ask' = ask
    BY <1>2, <1>t DEF CreateCommitted, Asks, IndInv, TypeOK
  <2>2. updates'[ask[r].idem] = [files |-> staged[r], count |-> ask[r].count]
    BY <1>2, <2>1 DEF CreateCommitted, InsertUpdate
  <2>3. updates'[ask[r].idem] # NoUpdate
    BY <1>t, <2>2 DEF Asks
  <2>4. QED
    BY <2>1, <2>2, <2>3 DEF ToSettle
<1>3. CASE CreateDuplicate(r)
  <2>1. /\ ask[r].idem \in IdemKeys /\ updates[ask[r].idem] # NoUpdate
        /\ pc'[r] = "discardDuplicate" /\ ask' = ask
        /\ todo'[r] = updates[ask[r].idem].files \cap Pending
    BY <1>3, <1>t DEF CreateDuplicate, Asks
  <2>2. QED
    BY <2>1, FilesSettle DEF ToSettle
<1>4. CASE Completed(r)
  <2>1. ToSettle(r) /\ todo[r] = {} /\ ask' = ask /\ pc'[r] = "ok" /\ ask[r].idem \in IdemKeys
    BY <1>0, <1>4, <1>t DEF Completed, Asks
  <2>2. QED
    BY <2>1, FilesSettle DEF ToSettle
<1>5. CASE Mark(r)
  <2>1. /\ ToSettle(r) /\ ask' = ask /\ todo'[r] = todo[r] \ {cur[r]} /\ pc'[r] = "next"
        /\ ask[r].idem \in IdemKeys
    BY <1>0, <1>5, <1>t DEF Mark, Asks
  <2>2. cur[r] \notin Pending'
    BY <1>5 DEF Mark, MarkAvailable, Pending, IndInv, TypeOK
  <2>3. QED
    BY <2>1, <2>2, FilesSettle DEF ToSettle
<1>6. CASE MarkUnacknowledged(r) \/ Begin(r)
  BY <1>6, <1>t DEF MarkUnacknowledged, Begin
<1>7. CASE \/ Stage(r) \/ StageRejected(r) \/ CreateRefused(r) \/ CreateConflict(r)
           \/ CreateUnacknowledged(r) \/ DiscardStaged(r) \/ Discarded(r)
           \/ Inspect(r) \/ Rename(r) \/ RenameMissing(r) \/ FinalizeError(r) \/ MarkRefused(r)
  BY <1>1, <1>7, <1>t
     DEF Stage, StageRejected, CreateRefused, CreateConflict, CreateUnacknowledged,
         DiscardStaged, Discarded, Discarding, Inspect, Rename, RenameMissing,
         FinalizeError, MarkRefused
<1>8. ASSUME NEW x \in Requests \ {r}, Begin(x) \/ RequestWork(x) PROVE Goal
  <2>1. CASE Finalize(x)
    BY <1>1, <1>8, <1>t, <2>1
       DEF Finalize, Inspect, Rename, RenameMissing, FinalizeError, Mark, MarkRefused,
           MarkUnacknowledged
  <2>2. CASE ~Finalize(x)
    BY <1>1, <1>8, <1>t, <2>2
       DEF RequestWork, Begin, Stage, StageRejected, CreateRefused, CreateConflict,
           CreateDuplicate, CreateCommitted, CreateUnacknowledged, DiscardStaged,
           Discarded, Completed
  <2>3. QED
    BY <2>1, <2>2
<1>9. CASE ReconcilerStep
  <2>1. CASE Finalize(Reconciler)
    BY <1>1, <1>t, <2>1
       DEF Finalize, Inspect, Rename, RenameMissing, FinalizeError, Mark, MarkRefused,
           MarkUnacknowledged
  <2>2. CASE ~Finalize(Reconciler)
    BY <1>1, <1>9, <1>t, <2>2
       DEF ReconcilerStep, ListPending, MarkFailed, MarkFailedError, ListStaging,
           CleanupEntry, CleanupAborted, CleanupDone
  <2>3. QED
    BY <2>1, <2>2
<1>10. CASE (\E d \in Readers : ReaderStep(d)) \/ (\E k \in Keys : Age(k))
  BY <1>1, <1>10, <1>t DEF ReaderStep, ReadRow, OpenFinal, Age
<1>11. CASE Crash
  <2>1. ~At2 /\ ask'[r] = ask[r] /\ (pc'[r] = "ok" => pc[r] = "ok")
    BY <1>11, <1>t DEF Crash, Running, Finished
  <2>2. QED
    BY <2>1, StaysSettled
<1>12. Goal
  BY <1>2, <1>3, <1>4, <1>5, <1>6, <1>7, <1>8, <1>9, <1>10, <1>11
     DEF Next, RequestWork, Finalize
<1>13. QED
  BY <1>12

\* Rows exist for the files of every update.
LEMMA FilesRecorded ==
    ASSUME IndInv, SettledInv, Next, NEW i \in IdemKeys, updates'[i] # NoUpdate
    PROVE  \A k \in updates'[i].files : row'[k] # "none"
<1>1. CASE updates[i] # NoUpdate
  BY <1>1, FilesSettle
<1>2. ASSUME updates[i] = NoUpdate, NEW r \in Requests, InsertUpdate(r)
      PROVE  \A k \in updates'[i].files : row'[k] # "none"
  <2>1. /\ updates \in [IdemKeys -> Update \cup {NoUpdate}]
        /\ staged[r] \subseteq Keys /\ ask[r].idem \in IdemKeys
    BY DEF IndInv, TypeOK, Asks
  <2>2. updates'[i].files = staged[r]
    BY <1>2, <2>1 DEF InsertUpdate
  <2>3. QED
    BY <1>2, <2>1, <2>2 DEF InsertUpdate
<1>3. ASSUME updates' = updates PROVE updates[i] # NoUpdate
  BY <1>3
<1>4. (\E r \in Requests : InsertUpdate(r)) \/ updates' = updates
  BY DEF Next, RequestWork, Begin, Stage, StageRejected, CreateRefused, CreateConflict,
         CreateDuplicate, CreateCommitted, CreateUnacknowledged, DiscardStaged, Discarded,
         Completed, Finalize, Inspect, Rename, RenameMissing, FinalizeError, Mark,
         MarkRefused, MarkUnacknowledged, MarkAvailable, ReconcilerStep, ListPending,
         MarkFailed, MarkFailedError, FailRow, ListStaging, CleanupEntry, CleanupAborted,
         CleanupDone, ReaderStep, ReadRow, OpenFinal, Age, Crash, dbVars
<1>5. QED
  BY <1>1, <1>2, <1>3, <1>4

\* A request answered with success has left none of its update's files pending,
\* whether it created the update or found it (completeAttachments, in Create).
THEOREM SuccessSafe == Spec => []SuccessIsSettled
<1>1. Init => SettledInv
  BY SetsAssumption DEF Init, SettledInv, SuccessIsSettled, Procs, Finalizers
<1>2. IndInv /\ SettledInv /\ [Next]_vars => SettledInv'
  <2>1. UNCHANGED vars /\ SettledInv => SettledInv'
    BY DEF vars, dbVars, SettledInv, SuccessIsSettled, ToSettle, Pending
  <2>2. IndInv /\ SettledInv /\ Next => SettledInv'
    BY RequestsSettle, FilesRecorded DEF SettledInv, SuccessIsSettled
  <2>3. QED
    BY <2>1, <2>2
<1>3. SettledInv => SuccessIsSettled
  BY DEF SettledInv
<1>4. QED
  BY <1>1, <1>2, <1>3, Invariance, PTL DEF Spec

(***************************************************************************)
(* The bytes of pending rows, when every commit is acknowledged            *)
(***************************************************************************)

\* What a request owns is staged, young and unrecorded; a pass keeps clear of the
\* old files that were pending when it began, and nothing gets old during it.
OwnInv ==
    /\ \A r \in Requests :
        /\ staged[r] \cap old = {}
        /\ \A k \in staged[r] : row[k] = "none"
        /\ pc[r] = "stage" => staged[r] \subseteq staging
    /\ pc[Reconciler] # "idle" => old \cap Pending \subseteq keep
    /\ pc[Reconciler] = "clean" => entries \cap keep = {}
    /\ PendingHasBytes

LEMMA OwnStep == IndInv /\ OwnInv /\ "ack" \notin Faults /\ Next => OwnInv'
<1> SUFFICES ASSUME IndInv, OwnInv, "ack" \notin Faults, Next PROVE OwnInv'
  OBVIOUS
<1> USE SetsAssumption DEF IndInv, TypeOK, OwnInv, PendingHasBytes, Pending, dbVars, fileVars,
        rcVars, Goto, GiveUp, Finalizers, Procs
<1>1. ASSUME NEW r \in Requests, Stage(r) PROVE OwnInv'
  BY <1>1 DEF Stage, MoreToStage, BytesInv
<1>2. ASSUME NEW r \in Requests, CreateCommitted(r) PROVE OwnInv'
  BY <1>2 DEF CreateCommitted, InsertUpdate, AllStaged, BytesInv
<1>3. ASSUME NEW r \in Requests, DiscardStaged(r) PROVE OwnInv'
  BY <1>3 DEF DiscardStaged, Discarding, BytesInv
<1>4. ASSUME NEW r \in Requests,
             \/ StageRejected(r) \/ CreateRefused(r) \/ CreateConflict(r)
             \/ CreateDuplicate(r) \/ Discarded(r) \/ Completed(r)
      PROVE  OwnInv'
  BY <1>4 DEF StageRejected, CreateRefused, CreateConflict, CreateDuplicate, Discarded,
              Completed
<1>5. ASSUME NEW r \in Requests, Begin(r) PROVE OwnInv'
  <2>1. staged[r] = {}
    BY <1>5 DEF Begin, BytesInv
  <2>2. QED
    BY <1>5, <2>1 DEF Begin
<1>6. ASSUME NEW p \in Finalizers, Rename(p) PROVE OwnInv'
  <2>1. cur[p] \in Keys /\ row[cur[p]] # "none"
    BY <1>6 DEF Rename, WorkInv
  <2>2. QED
    BY <1>6, <2>1 DEF Rename
<1>7. ASSUME NEW p \in Finalizers, Mark(p) PROVE OwnInv'
  BY <1>7 DEF Mark, MarkAvailable, WorkInv
<1>8. ASSUME NEW p \in Finalizers,
             Inspect(p) \/ RenameMissing(p) \/ FinalizeError(p) \/ MarkRefused(p)
      PROVE  OwnInv'
  BY <1>8 DEF Inspect, RenameMissing, FinalizeError, MarkRefused
<1>9. CASE ListPending \/ ListStaging \/ CleanupAborted \/ CleanupDone
  BY <1>9 DEF ListPending, ListStaging, CleanupAborted, CleanupDone
<1>10. CASE CleanupEntry
  BY <1>10 DEF CleanupEntry
<1>11. CASE MarkFailed \/ MarkFailedError
  BY <1>11 DEF MarkFailed, MarkFailedError, FailRow, WorkInv
<1>12. ASSUME NEW d \in Readers, ReaderStep(d) PROVE OwnInv'
  BY <1>12 DEF ReaderStep, ReadRow, OpenFinal
<1>13. ASSUME NEW k \in Keys, Age(k) PROVE OwnInv'
  BY <1>13 DEF Age
<1>14. CASE Crash
  BY <1>14 DEF Crash, Running
<1>15. QED
  BY <1>1, <1>2, <1>3, <1>4, <1>5, <1>6, <1>7, <1>8, <1>9, <1>10, <1>11, <1>12, <1>13, <1>14
     DEF Next, RequestWork, Finalize, ReconcilerStep, CreateUnacknowledged, MarkUnacknowledged

\* Discarding, cleanup and renaming never take the bytes of a pending row, if no
\* reply to a commit is lost (ownedByDatabase in Create, the list of keys that
\* Reconcile hands to CleanupOrphans).
THEOREM PendingSafe == Spec => []("ack" \notin Faults => PendingHasBytes)
<1>1. Init => OwnInv
  BY SetsAssumption DEF Init, OwnInv, PendingHasBytes, Pending, Procs, Finalizers
<1> DEFINE Inv == "ack" \notin Faults => OwnInv
<1>2. Init => Inv
  BY <1>1
<1>3. IndInv /\ Inv /\ [Next]_vars => Inv'
  <2>1. UNCHANGED vars /\ OwnInv => OwnInv'
    BY DEF vars, dbVars, fileVars, rcVars, OwnInv, PendingHasBytes, Pending
  <2>2. QED
    BY <2>1, OwnStep
<1>4. Inv => ("ack" \notin Faults => PendingHasBytes)
  BY DEF OwnInv
<1> HIDE DEF Inv
<1>5. QED
  BY <1>2, <1>3, <1>4, Invariance, PTL DEF Spec
==============================================================================
