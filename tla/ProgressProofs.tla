--------------------------- MODULE ProgressProofs ---------------------------
(***************************************************************************)
(* Proofs about Progress: for any number of updates, requests, geofence    *)
(* versions and edits, and any geofences and locations.                    *)
(***************************************************************************)
EXTENDS Progress, TLAPS

(***************************************************************************)
(* The inductive invariant                                                 *)
(***************************************************************************)
\* A request is at a label of its kind.
Fits(r, label) ==
    /\ r \in Req
    /\ label \in {"policy", "find", "insert"} => r.kind = "create"
    /\ label \in {"row", "write"} => r.kind = "edit"
    /\ r.kind = "create" => r.key \in Keys
    /\ r.kind = "edit" => r.id \in Ids /\ update[r.id] # None

RequestInv == \A t \in Requests : pc[t] # "idle" => Fits(req[t], pc[t])

\* What a Create evaluated is the evaluation of its location against the
\* geofence that the evidence names, and the file follows from that.
Evaluated(t) ==
    /\ evidence[t] = evaluateEvidence(req[t].location, evidence[t].fence)
    /\ verified[t] = attachmentVerification(req[t].file, evidence[t].status)

EvidenceInv ==
    \A t \in Requests :
        pc[t] \in {"snapshot", "lock", "find", "insert"} /\ req[t].kind = "create" => Evaluated(t)

\* The project stays active while it is held FOR SHARE.
SharedInv ==
    \A t \in Requests : pc[t] \in {"find", "insert", "row", "write"} => t \in shared

ActiveInv == shared # {} => active

\* Behind the comparison of the geofences, and behind that of the versions.
PolicyInv == \A t \in Requests : pc[t] \in {"find", "insert"} => SamePolicy(t)

VersionInv ==
    \A t \in Requests : pc[t] = "write" =>
        /\ rowLock[req[t].id] = t
        /\ update[req[t].id].version = req[t].expected

\* No revision is ahead of its update.
RangeInv ==
    \A i \in Ids :
        IF update[i] = None THEN revision[i] = {}
        ELSE \A x \in revision[i] : x.from < update[i].version

\* RevisionsComplete of one update.
Complete(i) ==
    LET text(v) == IF v = update[i].version THEN {update[i].content}
                   ELSE {r.previous : r \in {x \in revision[i] : x.from = v}}
    IN
    /\ text(1) = {update[i].hash.content}
    /\ \A v \in 1 .. update[i].version - 1 :
        {r.new : r \in {x \in revision[i] : x.from = v}} = text(v + 1)

IndInv ==
    /\ TypeOK /\ RequestInv /\ EvidenceInv /\ SharedInv /\ ActiveInv
    /\ PolicyInv /\ VersionInv /\ OnePerKey /\ VerifiedInside
    /\ RangeInv /\ RevisionsComplete

(***************************************************************************)
(* Lemmas                                                                  *)
(***************************************************************************)
USE ProgressAssumption

\* evaluateEvidence returns evidence, and names no other geofence.
LEMMA EvaluationType ==
    ASSUME NEW location \in Locations \cup Reasons \cup {None}, NEW current \in 0 .. MaxFence
    PROVE  /\ evaluateEvidence(location, current) \in Evidence
           /\ evaluateEvidence(location, current) =
                  evaluateEvidence(location, evaluateEvidence(location, current).fence)
BY DEF evaluateEvidence, Evidence, Statuses, LocationStatus

\* A verified location is inside the geofence that the evidence names.
LEMMA VerifiedMeansInside ==
    ASSUME NEW location \in Locations \cup Reasons \cup {None}, NEW current \in 0 .. MaxFence,
           evaluateEvidence(location, current).status = "verified"
    PROVE  /\ location \in Locations /\ current # 0
           /\ Areas[current].at - Areas[current].radius <= location.at - location.accuracy
           /\ location.at + location.accuracy <= Areas[current].at + Areas[current].radius
<1>1. location \in Locations /\ current # 0
      /\ LocationStatus(location, Areas[current]) = "verified"
  BY DEF evaluateEvidence
<1>2. location \in Location /\ Areas[current] \in Area
  BY <1>1
<1>3. Distance(location.at, Areas[current].at) + location.accuracy <= Areas[current].radius
  BY <1>1, <1>2 DEF LocationStatus, Distance, Location, Area
<1> QED BY <1>1, <1>2, <1>3 DEF Distance, Location, Area

LEMMA InitInv == Init => IndInv
BY DEF Init, IndInv, TypeOK, RequestInv, EvidenceInv, SharedInv, ActiveInv, PolicyInv, VersionInv,
   OnePerKey, VerifiedInside, RangeInv, RevisionsComplete, Labels, NoEvidence, Evidence, Statuses

\* The rest of the state, all that the end of a request touches.
RestOK ==
    /\ shared \subseteq Requests
    /\ rowLock \in [Ids -> Requests \cup {None}]
    /\ pc \in [Requests -> Labels]
    /\ req \in [Requests -> Req \cup {None}]
    /\ attempt \in [Requests -> {0, 1}]
    /\ evidence \in [Requests -> Evidence]
    /\ verified \in [Requests -> BOOLEAN]
    /\ seen \in [Requests -> 0 .. MaxFence]

LEMMA EndType ==
    ASSUME TypeOK, NEW t \in Requests, End(t)
    PROVE  RestOK'
BY DEF TypeOK, RestOK, End, Goto, Labels, NoEvidence, Evidence, Statuses

LEMMA RefuseType ==
    ASSUME TypeOK, NEW t \in Requests, Refuse(t)
    PROVE  TypeOK'
BY EndType DEF TypeOK, RestOK, Refuse, project, tables

LEMMA HashType ==
    ASSUME TypeOK, NEW t \in Requests, req[t] \in Req
    PROVE  createRequestHash(t) \in Hash
BY DEF TypeOK, Req, Hash, createRequestHash

LEMMA TypeStep == TypeOK /\ RequestInv /\ [Next]_vars => TypeOK'
<1> SUFFICES ASSUME TypeOK, RequestInv, [Next]_vars PROVE TypeOK'
  OBVIOUS
<1> USE DEF TypeOK, RequestInv, Fits, Labels, project, tables, locks, locals
<1>1. ASSUME NEW t \in Requests, StartCreate(t) PROVE TypeOK'
  BY <1>1 DEF StartCreate, Start, Goto, Req, Kinds, Actors
<1>2. ASSUME NEW t \in Requests, StartUpdate(t) PROVE TypeOK'
  <2>1. ASSUME NEW actor \in Actors, NEW i \in Ids, NEW content \in Contents, update[i] # None
        PROVE  [kind |-> "edit", actor |-> actor, content |-> content, key |-> None,
                location |-> None, file |-> None, id |-> i,
                expected |-> update[i].version] \in Req
    BY <2>1 DEF Req, Kinds, Update
  <2>2. ASSUME NEW r \in Req, Start(t, r, "snapshot") PROVE TypeOK'
    BY <2>2 DEF Start, Goto
  <2>3. PICK actor \in Actors, i \in Ids, content \in Contents :
            /\ update[i] # None
            /\ Start(t, [kind |-> "edit", actor |-> actor, content |-> content, key |-> None,
                         location |-> None, file |-> None, id |-> i,
                         expected |-> update[i].version], "snapshot")
    BY <1>2 DEF StartUpdate
  <2> QED BY <2>1, <2>2, <2>3
<1>3. ASSUME NEW t \in Requests, GetTaskPolicy(t) PROVE TypeOK'
  <2>1. evaluateEvidence(req[t].location, fence) \in Evidence
    BY <1>3, EvaluationType DEF GetTaskPolicy, Req
  <2> QED BY <1>3, <2>1 DEF GetTaskPolicy, attachmentVerification, Goto
<1>4. ASSUME NEW t \in Requests, Snapshot(t) \/ LockForUpdate(t) \/ LockForCreate(t)
                                 \/ FindNone(t) \/ InsertConflict(t)
      PROVE  TypeOK'
  BY <1>4 DEF Snapshot, LockForUpdate, LockForCreate, FindNone, InsertConflict, Goto
<1>5. ASSUME NEW t \in Requests, PolicyChanged(t) PROVE TypeOK'
  BY <1>5 DEF PolicyChanged, Goto
<1>6. ASSUME NEW t \in Requests, Refuse(t) PROVE TypeOK'
  BY <1>6, RefuseType
<1>7. ASSUME NEW t \in Requests, CreateUpdate(t) PROVE TypeOK'
  <2>1. PICK i \in Ids : Inserted(t, i)
    BY <1>7 DEF CreateUpdate
  <2>2. req[t] \in Req /\ req[t].key \in Keys
    BY <1>7 DEF CreateUpdate
  <2>3. update' \in [Ids -> Update \cup {None}]
    BY <2>1, <2>2, HashType DEF Inserted, Update, Req
  <2> QED BY <1>7, <2>3, EndType DEF CreateUpdate, RestOK
<1>8. ASSUME NEW t \in Requests, LockRow(t) PROVE TypeOK'
  BY <1>8 DEF LockRow, Goto
<1>9. ASSUME NEW t \in Requests, UpdateProgress(t) PROVE TypeOK'
  <2> DEFINE i == req[t].id
  <2>1. req[t] \in Req /\ i \in Ids /\ update[i] \in Update
    BY <1>9 DEF UpdateProgress
  <2>2. update' \in [Ids -> Update \cup {None}]
    BY <1>9, <2>1 DEF UpdateProgress, Update, Req
  <2>3. [from |-> update[i].version, previous |-> update[i].content,
         new |-> req[t].content] \in Revision
    BY <2>1 DEF Update, Revision, Req
  <2>4. revision' \in [Ids -> SUBSET Revision]
    BY <1>9, <2>1, <2>3 DEF UpdateProgress
  <2> QED BY <1>9, <2>2, <2>4, EndType DEF UpdateProgress, RestOK
<1>10. CASE ReplaceGeofence \/ UpdateProject \/ \E u \in Users : ChangeMember(u)
  <2>1. CASE ReplaceGeofence
    BY <2>1 DEF ReplaceGeofence
  <2>2. CASE UpdateProject
    BY <2>2 DEF UpdateProject
  <2>3. ASSUME NEW u \in Users, ChangeMember(u) PROVE TypeOK'
    BY <2>3 DEF ChangeMember
  <2> QED BY <1>10, <2>1, <2>2, <2>3
<1>11. CASE UNCHANGED vars
  BY <1>11 DEF vars
<1> QED
  BY <1>1, <1>2, <1>3, <1>4, <1>5, <1>6, <1>7, <1>8, <1>9, <1>10, <1>11
  DEF Next, Work, PolicyRefused, SnapshotNotFound, LockInactive, PolicyConflict, Replay,
      HashConflict, RowNotFound, RowConflict, Cancel

\* The steps that change the tables, and those that end the holding of locks.
LEMMA Writes ==
    ASSUME [Next]_vars, ~UNCHANGED tables
    PROVE  \E t \in Requests : CreateUpdate(t) \/ UpdateProgress(t)
BY DEF Next, Work, Refuse, StartCreate, StartUpdate, Start, GetTaskPolicy, PolicyRefused,
   Snapshot, SnapshotNotFound, LockInactive, LockForUpdate, LockForCreate, PolicyChanged,
   PolicyConflict, FindNone, Replay, HashConflict, InsertConflict, LockRow, RowNotFound,
   RowConflict, Cancel, ReplaceGeofence, UpdateProject, ChangeMember, vars, tables

\* Updates are never removed and keep what identifies them.
LEMMA Keeps ==
    ASSUME TypeOK, RequestInv, [Next]_vars, NEW i \in Ids, update[i] # None
    PROVE  /\ update'[i] # None
           /\ update'[i].creator = update[i].creator /\ update'[i].key = update[i].key
           /\ update'[i].hash = update[i].hash
<1>1. CASE UNCHANGED tables
  BY <1>1 DEF tables
<1>2. ASSUME NEW t \in Requests, CreateUpdate(t) PROVE update'[i] = update[i]
  BY <1>2 DEF CreateUpdate, Inserted, TypeOK
<1>3. ASSUME NEW t \in Requests, UpdateProgress(t)
      PROVE  /\ update'[i] # None
             /\ update'[i].creator = update[i].creator /\ update'[i].key = update[i].key
             /\ update'[i].hash = update[i].hash
  <2>1. CASE i # req[t].id
    BY <1>3, <2>1 DEF UpdateProgress, TypeOK
  <2>2. CASE i = req[t].id
    <3>1. update[i] \in Update /\ req[t].content \in Contents
          /\ update[i].version + 1 \in Nat \ {0}
      BY <1>3 DEF UpdateProgress, TypeOK, RequestInv, Fits, Req, Update
    <3>2. update'[i] = [update[i] EXCEPT !.content = req[t].content, !.version = @ + 1]
      BY <1>3, <2>2 DEF UpdateProgress, TypeOK
    <3>3. update'[i] \in Update
      BY <3>1, <3>2 DEF Update
    <3>4. update'[i] # None
      BY <3>3
    <3> QED BY <3>1, <3>2, <3>4 DEF Update
  <2> QED BY <2>1, <2>2
<1> QED BY <1>1, <1>2, <1>3, Writes

\* What a step does to the request of t when it is not the end of it.
LEMMA Steps ==
    ASSUME TypeOK, [Next]_vars, NEW t \in Requests
    PROVE  \/ pc'[t] = "idle"
           \/ StartCreate(t) \/ StartUpdate(t) \/ GetTaskPolicy(t) \/ Snapshot(t)
           \/ LockForCreate(t) \/ PolicyChanged(t) \/ LockForUpdate(t)
           \/ FindNone(t) \/ InsertConflict(t) \/ LockRow(t)
           \/ /\ pc'[t] = pc[t] /\ req'[t] = req[t] /\ attempt'[t] = attempt[t]
              /\ evidence'[t] = evidence[t] /\ verified'[t] = verified[t] /\ seen'[t] = seen[t]
              /\ (t \in shared' <=> t \in shared)
<1> USE DEF TypeOK, locks, locals
<1> DEFINE Other == /\ pc'[t] = pc[t] /\ req'[t] = req[t] /\ attempt'[t] = attempt[t]
                    /\ evidence'[t] = evidence[t] /\ verified'[t] = verified[t]
                    /\ seen'[t] = seen[t] /\ (t \in shared' <=> t \in shared)
<1>1. ASSUME NEW s \in Requests, s # t, StartCreate(s) \/ StartUpdate(s) PROVE Other
  BY <1>1 DEF StartCreate, StartUpdate, Start, Goto
<1>2. ASSUME NEW s \in Requests, End(s) PROVE pc'[t] = "idle" \/ Other
  BY <1>2 DEF End, Goto
<1>3. ASSUME NEW s \in Requests, s # t,
             GetTaskPolicy(s) \/ Snapshot(s) \/ LockForCreate(s) \/ PolicyChanged(s)
             \/ LockForUpdate(s) \/ FindNone(s) \/ InsertConflict(s) \/ LockRow(s)
      PROVE  Other
  BY <1>3 DEF GetTaskPolicy, Snapshot, LockForCreate, PolicyChanged, LockForUpdate, FindNone,
     InsertConflict, LockRow, Goto
<1>4. CASE ReplaceGeofence \/ UpdateProject \/ (\E u \in Users : ChangeMember(u))
           \/ UNCHANGED vars
  BY <1>4 DEF ReplaceGeofence, UpdateProject, ChangeMember, vars
<1> QED
  BY <1>1, <1>2, <1>3, <1>4
  DEF Next, Work, Refuse, PolicyRefused, SnapshotNotFound, LockInactive, PolicyConflict, Replay,
      HashConflict, RowNotFound, RowConflict, Cancel, CreateUpdate, UpdateProgress

LEMMA RequestStep == IndInv /\ [Next]_vars => RequestInv'
<1> SUFFICES ASSUME IndInv, [Next]_vars, NEW t \in Requests, pc'[t] # "idle"
             PROVE  Fits(req[t], pc[t])'
  BY DEF RequestInv
<1>1. TypeOK /\ RequestInv
  BY DEF IndInv
<1>2. ASSUME Fits(req[t], pc[t]), req'[t] = req[t],
             pc'[t] \in {"policy", "find", "insert"} => req[t].kind = "create",
             pc'[t] \in {"row", "write"} => req[t].kind = "edit"
      PROVE  Fits(req[t], pc[t])'
  BY <1>1, <1>2, Keeps DEF Fits
<1> USE <1>1 DEF TypeOK, RequestInv, Fits, locals, tables, project, Goto
<1>3. CASE StartCreate(t)
  BY <1>3 DEF StartCreate, Start, Req, Kinds, Actors
<1>4. CASE StartUpdate(t)
  <2>1. PICK actor \in Actors, i \in Ids, content \in Contents :
            /\ update[i] # None
            /\ Start(t, [kind |-> "edit", actor |-> actor, content |-> content, key |-> None,
                         location |-> None, file |-> None, id |-> i,
                         expected |-> update[i].version], "snapshot")
    BY <1>4 DEF StartUpdate
  <2>2. req'[t] = [kind |-> "edit", actor |-> actor, content |-> content, key |-> None,
                   location |-> None, file |-> None, id |-> i,
                   expected |-> update[i].version] /\ pc'[t] = "snapshot" /\ update' = update
    BY <2>1 DEF Start
  <2>3. req'[t] \in Req
    BY <2>1, <2>2 DEF Req, Kinds, Update
  <2> QED BY <2>1, <2>2, <2>3
<1>5. CASE GetTaskPolicy(t) \/ Snapshot(t) \/ LockForCreate(t) \/ PolicyChanged(t)
           \/ LockForUpdate(t) \/ FindNone(t) \/ InsertConflict(t) \/ LockRow(t)
  BY <1>2, <1>5 DEF GetTaskPolicy, Snapshot, LockForCreate, PolicyChanged, LockForUpdate,
     FindNone, InsertConflict, LockRow
<1>6. CASE pc'[t] = pc[t] /\ req'[t] = req[t]
  BY <1>2, <1>6
<1> QED BY <1>3, <1>4, <1>5, <1>6, Steps

LEMMA EvidenceStep == IndInv /\ [Next]_vars => EvidenceInv'
<1> SUFFICES ASSUME IndInv, [Next]_vars, NEW t \in Requests,
                    pc'[t] \in {"snapshot", "lock", "find", "insert"},
                    req'[t].kind = "create"
             PROVE  Evaluated(t)'
  BY DEF EvidenceInv
<1> USE DEF IndInv, TypeOK, RequestInv, Fits, EvidenceInv, Evaluated, locals, Goto
<1>1. CASE GetTaskPolicy(t)
  <2>1. req[t] \in Req
    BY <1>1 DEF GetTaskPolicy
  <2>2. /\ evidence'[t] = evaluateEvidence(req[t].location, fence)
        /\ verified'[t] = attachmentVerification(req[t].file, evidence'[t].status)
        /\ req'[t] = req[t]
    BY <1>1 DEF GetTaskPolicy
  <2> QED BY <2>1, <2>2, EvaluationType DEF Req
<1>2. CASE StartCreate(t) \/ StartUpdate(t)
  <2>1. CASE StartCreate(t)
    BY <2>1 DEF StartCreate, Start
  <2>2. CASE StartUpdate(t)
    BY <2>2 DEF StartUpdate, Start
  <2> QED BY <1>2, <2>1, <2>2
<1>3. CASE Snapshot(t) \/ LockForCreate(t) \/ FindNone(t) \/ InsertConflict(t)
  BY <1>3 DEF Snapshot, LockForCreate, FindNone, InsertConflict
<1>4. CASE PolicyChanged(t) \/ LockForUpdate(t) \/ LockRow(t)
  BY <1>4 DEF PolicyChanged, LockForUpdate, LockRow
<1> QED BY <1>1, <1>2, <1>3, <1>4, Steps

LEMMA SharedStep == IndInv /\ [Next]_vars => SharedInv'
<1> SUFFICES ASSUME IndInv, [Next]_vars, NEW t \in Requests,
                    pc'[t] \in {"find", "insert", "row", "write"}
             PROVE  t \in shared'
  BY DEF SharedInv
<1> USE DEF IndInv, TypeOK, SharedInv, locks, Goto
<1>1. CASE StartCreate(t) \/ StartUpdate(t)
  BY <1>1 DEF StartCreate, StartUpdate, Start
<1>2. CASE GetTaskPolicy(t) \/ Snapshot(t) \/ PolicyChanged(t)
  BY <1>2 DEF GetTaskPolicy, Snapshot, PolicyChanged
<1>3. CASE LockForCreate(t) \/ LockForUpdate(t) \/ FindNone(t) \/ InsertConflict(t) \/ LockRow(t)
  BY <1>3 DEF LockForCreate, LockForUpdate, FindNone, InsertConflict, LockRow
<1> QED BY <1>1, <1>2, <1>3, Steps

LEMMA ActiveStep == IndInv /\ [Next]_vars => ActiveInv'
<1> SUFFICES ASSUME IndInv, [Next]_vars PROVE ActiveInv'
  OBVIOUS
<1> USE DEF IndInv, ActiveInv, locks, project
<1>1. ASSUME NEW t \in Requests, LockForCreate(t) \/ LockForUpdate(t) PROVE ActiveInv'
  BY <1>1 DEF LockForCreate, LockForUpdate
<1>2. ASSUME NEW t \in Requests, End(t), UNCHANGED project PROVE ActiveInv'
  BY <1>2 DEF End
<1>3. CASE UpdateProject
  BY <1>3 DEF UpdateProject
<1>4. CASE UNCHANGED <<active, shared>>
  BY <1>4
<1> QED
  BY <1>1, <1>2, <1>3, <1>4
  DEF Next, Work, Refuse, StartCreate, StartUpdate, Start, GetTaskPolicy, PolicyRefused, Snapshot,
      SnapshotNotFound, LockInactive, PolicyChanged, PolicyConflict, FindNone, Replay,
      HashConflict, CreateUpdate, InsertConflict, LockRow, RowNotFound, RowConflict,
      UpdateProgress, Cancel, ReplaceGeofence, ChangeMember, vars

LEMMA PolicyStep == IndInv /\ [Next]_vars => PolicyInv'
<1> SUFFICES ASSUME IndInv, [Next]_vars, NEW t \in Requests, pc'[t] \in {"find", "insert"}
             PROVE  SamePolicy(t)'
  BY DEF PolicyInv
<1> USE DEF IndInv, TypeOK, PolicyInv, SamePolicy, locals, Goto
<1>1. CASE StartCreate(t) \/ StartUpdate(t)
  BY <1>1 DEF StartCreate, StartUpdate, Start
<1>2. CASE GetTaskPolicy(t) \/ Snapshot(t) \/ PolicyChanged(t) \/ LockForUpdate(t) \/ LockRow(t)
  BY <1>2 DEF GetTaskPolicy, Snapshot, PolicyChanged, LockForUpdate, LockRow
<1>3. CASE LockForCreate(t) \/ FindNone(t) \/ InsertConflict(t)
  BY <1>3 DEF LockForCreate, FindNone, InsertConflict
<1> QED BY <1>1, <1>2, <1>3, Steps

\* Only its holder lets go of an update's row.
LEMMA RowLockKept ==
    ASSUME TypeOK, [Next]_vars, NEW t \in Requests, NEW i \in Ids, rowLock[i] = t,
           pc'[t] # "idle"
    PROVE  rowLock'[i] = t
<1> USE DEF TypeOK, locks
<1>1. ASSUME NEW s \in Requests, End(s) PROVE rowLock'[i] = t
  BY <1>1 DEF End, Goto
<1>2. ASSUME NEW s \in Requests, LockRow(s) PROVE rowLock'[i] = t
  BY <1>2 DEF LockRow
<1>3. CASE UNCHANGED rowLock
  BY <1>3
<1> QED
  BY <1>1, <1>2, <1>3
  DEF Next, Work, Refuse, StartCreate, StartUpdate, Start, GetTaskPolicy, PolicyRefused, Snapshot,
      SnapshotNotFound, LockInactive, LockForCreate, LockForUpdate, PolicyChanged, PolicyConflict,
      FindNone, Replay, HashConflict, CreateUpdate, InsertConflict, RowNotFound, RowConflict,
      UpdateProgress, Cancel, ReplaceGeofence, UpdateProject, ChangeMember, vars

LEMMA VersionStep == IndInv /\ [Next]_vars => VersionInv'
<1> SUFFICES ASSUME IndInv, [Next]_vars, NEW t \in Requests, pc'[t] = "write"
             PROVE  /\ rowLock'[req'[t].id] = t
                    /\ update'[req'[t].id].version = req'[t].expected
  BY DEF VersionInv
<1>1. TypeOK /\ RequestInv /\ VersionInv
  BY DEF IndInv
<1> USE <1>1 DEF TypeOK, Goto
<1>2. CASE LockRow(t)
  <2>1. req[t].id \in Ids /\ req'[t] = req[t]
    BY <1>2 DEF LockRow, RequestInv, Fits
  <2> QED BY <1>2, <2>1 DEF LockRow, tables
<1>3. CASE pc'[t] = pc[t] /\ req'[t] = req[t]
  <2> DEFINE i == req[t].id
  <2>1. /\ pc[t] = "write" /\ i \in Ids /\ update[i] # None
        /\ rowLock[i] = t /\ update[i].version = req[t].expected
    BY <1>3 DEF RequestInv, Fits, VersionInv
  <2>2. rowLock'[i] = t
    BY <1>3, <2>1, RowLockKept
  <2>3. update'[i] = update[i]
    <3>1. ASSUME NEW s \in Requests, CreateUpdate(s) PROVE update'[i] = update[i]
      BY <2>1, <3>1 DEF CreateUpdate, Inserted
    <3>2. ASSUME NEW s \in Requests, UpdateProgress(s) PROVE update'[i] = update[i]
      <4>1. s # t
        BY <1>3, <2>1, <3>2 DEF UpdateProgress, End
      <4>2. rowLock[req[s].id] = s
        BY <3>2 DEF UpdateProgress, VersionInv
      <4> QED BY <2>1, <3>2, <4>1, <4>2 DEF UpdateProgress
    <3> QED BY <3>1, <3>2, Writes DEF tables
  <2> QED BY <1>3, <2>1, <2>2, <2>3
<1>4. CASE StartCreate(t) \/ StartUpdate(t)
  BY <1>4 DEF StartCreate, StartUpdate, Start
<1>5. CASE GetTaskPolicy(t) \/ Snapshot(t) \/ LockForCreate(t) \/ PolicyChanged(t)
           \/ LockForUpdate(t) \/ FindNone(t) \/ InsertConflict(t)
  BY <1>5 DEF GetTaskPolicy, Snapshot, LockForCreate, PolicyChanged, LockForUpdate, FindNone,
     InsertConflict
<1> QED BY <1>2, <1>3, <1>4, <1>5, Steps

LEMMA OnePerKeyStep == IndInv /\ [Next]_vars => OnePerKey'
<1> SUFFICES ASSUME IndInv, [Next]_vars, NEW i \in Ids, NEW j \in Ids,
                    update'[i] # None, update'[j] # None,
                    update'[i].creator = update'[j].creator, update'[i].key = update'[j].key
             PROVE  i = j
  BY DEF OnePerKey
<1>1. TypeOK /\ RequestInv /\ OnePerKey
  BY DEF IndInv
<1>2. CASE update[i] # None /\ update[j] # None
  BY <1>1, <1>2, Keeps DEF OnePerKey
<1>3. ASSUME NEW x \in Ids, NEW y \in Ids, update[x] = None, update'[x] # None, update'[y] # None,
             update'[x].creator = update'[y].creator, update'[x].key = update'[y].key
      PROVE  x = y
  <2>1. PICK t \in Requests : CreateUpdate(t)
    <3>1. PICK t \in Requests : CreateUpdate(t) \/ UpdateProgress(t)
      BY <1>3, Writes DEF tables
    <3>2. CASE UpdateProgress(t)
      BY <1>1, <1>3, <3>2 DEF UpdateProgress, RequestInv, Fits, TypeOK
    <3> QED BY <3>1, <3>2
  <2>2. PICK k \in Ids : Inserted(t, k)
    BY <2>1 DEF CreateUpdate
  <2>3. /\ x = k
        /\ update'[x].creator = req[t].actor /\ update'[x].key = req[t].key
        /\ y # k => update'[y] = update[y]
    BY <1>1, <1>3, <2>2 DEF Inserted, TypeOK
  <2> QED BY <1>3, <2>1, <2>3 DEF CreateUpdate, Existing
<1> QED BY <1>2, <1>3

LEMMA VerifiedStep == IndInv /\ [Next]_vars => VerifiedInside'
<1> SUFFICES ASSUME IndInv, [Next]_vars, NEW i \in Ids, update'[i] # None,
                    update'[i].hash.verified
             PROVE  LET e == update'[i].hash.evidence IN
                    /\ update'[i].hash.file = "camera"
                    /\ e.location \in Locations /\ e.fence # 0
                    /\ Areas[e.fence].at - Areas[e.fence].radius <= e.location.at - e.location.accuracy
                    /\ e.location.at + e.location.accuracy <= Areas[e.fence].at + Areas[e.fence].radius
  BY DEF VerifiedInside
<1>1. TypeOK /\ RequestInv /\ EvidenceInv /\ VerifiedInside
  BY DEF IndInv
<1>2. CASE update[i] # None
  BY <1>1, <1>2, Keeps DEF VerifiedInside
<1>3. CASE update[i] = None
  <2>1. PICK t \in Requests : CreateUpdate(t)
    <3>1. PICK t \in Requests : CreateUpdate(t) \/ UpdateProgress(t)
      BY <1>3, Writes DEF tables
    <3>2. CASE UpdateProgress(t)
      BY <1>1, <1>3, <3>2 DEF UpdateProgress, RequestInv, Fits, TypeOK
    <3> QED BY <3>1, <3>2
  <2>2. update'[i].hash = createRequestHash(t)
    BY <1>1, <1>3, <2>1 DEF CreateUpdate, Inserted, TypeOK
  <2>3. Evaluated(t) /\ req[t] \in Req /\ evidence[t].fence \in 0 .. MaxFence
    BY <1>1, <2>1 DEF CreateUpdate, EvidenceInv, RequestInv, Fits, TypeOK, Evidence
  <2>4. /\ req[t].file = "camera" /\ evidence[t].status = "verified"
        /\ evidence[t].location = req[t].location
    <3>1. attachmentVerification(req[t].file, evidence[t].status)
      BY <2>2, <2>3 DEF createRequestHash, Evaluated
    <3>2. evaluateEvidence(req[t].location, evidence[t].fence).location = req[t].location
      BY DEF evaluateEvidence
    <3> QED BY <2>3, <3>1, <3>2 DEF Evaluated, attachmentVerification
  <2>5. update'[i].hash.evidence = evidence[t] /\ update'[i].hash.file = req[t].file
    BY <2>2 DEF createRequestHash
  <2> QED BY <2>3, <2>4, <2>5, VerifiedMeansInside DEF Evaluated, Req
<1> QED BY <1>2, <1>3

LEMMA RangeStep == IndInv /\ [Next]_vars => RangeInv'
<1> SUFFICES ASSUME IndInv, [Next]_vars PROVE RangeInv'
  OBVIOUS
<1> USE DEF IndInv, TypeOK, RangeInv
<1>1. CASE UNCHANGED tables
  BY <1>1 DEF tables
<1>2. ASSUME NEW t \in Requests, CreateUpdate(t) PROVE RangeInv'
  BY <1>2 DEF CreateUpdate, Inserted
<1>3. ASSUME NEW t \in Requests, UpdateProgress(t) PROVE RangeInv'
  <2> DEFINE i == req[t].id
  <2>1. i \in Ids /\ update[i] # None /\ update[i] \in Update
    BY <1>3 DEF UpdateProgress, RequestInv, Fits
  <2>2. update'[i].version = update[i].version + 1 /\ update[i].version \in Nat
    BY <1>3, <2>1 DEF UpdateProgress, Update
  <2>3. update'[i] # None
    BY <1>3, <2>1, Keeps
  <2>4. \A x \in revision'[i] : x.from < update'[i].version
    <3>1. \A x \in revision[i] : x.from < update[i].version /\ x.from \in Nat
      BY <2>1 DEF Revision
    <3> QED BY <1>3, <2>1, <2>2, <3>1 DEF UpdateProgress
  <2>5. \A j \in Ids : j # i => update'[j] = update[j] /\ revision'[j] = revision[j]
    BY <1>3 DEF UpdateProgress
  <2> QED BY <2>3, <2>4, <2>5
<1> QED BY <1>1, <1>2, <1>3, Writes

LEMMA RevisionsStep == IndInv /\ [Next]_vars => RevisionsComplete'
<1> SUFFICES ASSUME IndInv, [Next]_vars, NEW i \in Ids, update'[i] # None
             PROVE  Complete(i)'
  BY DEF RevisionsComplete, Complete
<1>1. TypeOK /\ RequestInv /\ RangeInv /\ RevisionsComplete
  BY DEF IndInv
<1>2. CASE update'[i] = update[i] /\ revision'[i] = revision[i]
  BY <1>1, <1>2 DEF RevisionsComplete, Complete
<1>3. ASSUME NEW t \in Requests, CreateUpdate(t), update[i] = None PROVE Complete(i)'
  <2>1. update'[i].version = 1 /\ update'[i].content = req[t].content
        /\ update'[i].hash.content = req[t].content
    BY <1>1, <1>3 DEF CreateUpdate, Inserted, TypeOK, createRequestHash
  <2> QED BY <2>1 DEF Complete
<1>4. ASSUME NEW t \in Requests, UpdateProgress(t), req[t].id = i PROVE Complete(i)'
  <2> DEFINE v == update[i].version
             new == [from |-> v, previous |-> update[i].content, new |-> req[t].content]
             Text(w) == IF w = v THEN {update[i].content}
                        ELSE {r.previous : r \in {x \in revision[i] : x.from = w}}
  <2>1. update[i] # None /\ update[i] \in Update /\ revision[i] \subseteq Revision
    BY <1>1, <1>4 DEF UpdateProgress, RequestInv, Fits, TypeOK
  <2>2. /\ update'[i].version = v + 1 /\ update'[i].content = req[t].content
        /\ update'[i].hash = update[i].hash /\ v \in Nat \ {0}
        /\ revision'[i] = revision[i] \cup {new}
    BY <1>1, <1>4, <2>1 DEF UpdateProgress, TypeOK, Update
  <2>3. \A x \in revision[i] : x.from < v /\ x.from \in Nat
    BY <1>1, <2>1 DEF RangeInv, Revision
  <2>4. {x \in revision'[i] : x.from = v} = {new}
    BY <2>2, <2>3
  <2>5. \A w \in Nat : w # v => {x \in revision'[i] : x.from = w} = {x \in revision[i] : x.from = w}
    BY <2>2
  <2>6. Complete(i)
    BY <1>1, <2>1 DEF RevisionsComplete, Complete
  <2>7. Text(1) = {update[i].hash.content}
        /\ \A w \in 1 .. v - 1 : {r.new : r \in {x \in revision[i] : x.from = w}} = Text(w + 1)
    BY <2>6 DEF Complete
  <2> DEFINE Text1(w) == IF w = v + 1 THEN {req[t].content}
                         ELSE {r.previous : r \in {x \in revision'[i] : x.from = w}}
  <2>8. \A w \in 1 .. v : Text1(w) = Text(w)
    <3> SUFFICES ASSUME NEW w \in 1 .. v PROVE Text1(w) = Text(w)
      OBVIOUS
    <3>1. CASE w = v
      <4>1. Text1(w) = {r.previous : r \in {new}}
        BY <2>2, <2>4, <3>1
      <4> QED BY <3>1, <4>1
    <3>2. CASE w # v
      BY <2>2, <2>5, <3>2
    <3> QED BY <3>1, <3>2
  <2>9. Text1(1) = {update[i].hash.content}
    <3>1. 1 \in 1 .. v
      BY <2>2
    <3> HIDE DEF Text, Text1
    <3> QED BY <2>7, <2>8, <3>1
  <2>10. \A w \in 1 .. v : {r.new : r \in {x \in revision'[i] : x.from = w}} = Text1(w + 1)
    <3> SUFFICES ASSUME NEW w \in 1 .. v
                 PROVE  {r.new : r \in {x \in revision'[i] : x.from = w}} = Text1(w + 1)
      OBVIOUS
    <3>1. CASE w = v
      <4>1. {r.new : r \in {x \in revision'[i] : x.from = w}} = {r.new : r \in {new}}
        BY <2>4, <3>1
      <4> QED BY <3>1, <4>1
    <3>2. CASE w # v
      <4>1. w \in 1 .. v - 1 /\ w + 1 \in 1 .. v /\ w \in Nat
        BY <2>2, <3>2
      <4>2. Text1(w + 1) = Text(w + 1)
        BY <2>8, <4>1
      <4>3. {x \in revision'[i] : x.from = w} = {x \in revision[i] : x.from = w}
        BY <2>5, <3>2, <4>1
      <4> QED BY <2>7, <4>1, <4>2, <4>3
    <3> QED BY <3>1, <3>2
  <2>11. update'[i].version - 1 = v
    BY <2>2
  <2> QED BY <2>2, <2>9, <2>10, <2>11 DEF Complete
<1>5. CASE UNCHANGED tables
  BY <1>2, <1>5 DEF tables
<1>6. ASSUME NEW t \in Requests, CreateUpdate(t), update[i] # None
      PROVE  update'[i] = update[i] /\ revision'[i] = revision[i]
  BY <1>1, <1>6 DEF CreateUpdate, Inserted, TypeOK
<1>7. ASSUME NEW t \in Requests, UpdateProgress(t), req[t].id # i
      PROVE  update'[i] = update[i] /\ revision'[i] = revision[i]
  BY <1>1, <1>7 DEF UpdateProgress, TypeOK
<1> QED BY <1>2, <1>3, <1>4, <1>5, <1>6, <1>7, Writes

LEMMA InvStep == IndInv /\ [Next]_vars => IndInv'
<1> SUFFICES ASSUME IndInv, [Next]_vars PROVE IndInv'
  OBVIOUS
<1>1. TypeOK' /\ RequestInv'
  BY TypeStep, RequestStep DEF IndInv
<1>2. EvidenceInv' /\ SharedInv' /\ ActiveInv'
  BY EvidenceStep, SharedStep, ActiveStep DEF IndInv
<1>3. PolicyInv' /\ VersionInv' /\ RangeInv'
  BY PolicyStep, VersionStep, RangeStep DEF IndInv
<1>4. OnePerKey' /\ VerifiedInside' /\ RevisionsComplete'
  BY OnePerKeyStep, VerifiedStep, RevisionsStep
<1> QED BY <1>1, <1>2, <1>3, <1>4 DEF IndInv

(***************************************************************************)
(* Theorems                                                                *)
(***************************************************************************)
\* The invariant holds in every reachable state.
THEOREM Invariance == Spec => []IndInv
<1> QED BY InitInv, InvStep, PTL DEF Spec

\* The variables have their types.
THEOREM TypeCorrect == Spec => []TypeOK
<1>1. IndInv => TypeOK
  BY DEF IndInv
<1> QED BY <1>1, Invariance, PTL

\* However many requests carry one idempotency key of an author, and in whatever
\* order CreateUpdate's two lookups and its insert interleave, one update results.
THEOREM OneUpdatePerKey == Spec => []OnePerKey
<1>1. IndInv => OnePerKey
  BY DEF IndInv
<1> QED BY <1>1, Invariance, PTL

\* A file that evaluateEvidence and attachmentVerification call verified was
\* inside the geofence that its update names, for all geofences and locations.
THEOREM VerifiedSafe == Spec => []VerifiedInside
<1>1. IndInv => VerifiedInside
  BY DEF IndInv
<1> QED BY <1>1, Invariance, PTL

\* The revisions that UpdateProgress inserts lead from the first text of an
\* update to its present one without a gap or a fork.
THEOREM HistorySafe == Spec => []RevisionsComplete
<1>1. IndInv => RevisionsComplete
  BY DEF IndInv
<1> QED BY <1>1, Invariance, PTL

\* An edit that UpdateProgress commits replaces the version its author was shown.
THEOREM EditsAreSafe == Spec => NoLostEdit
<1>1. IndInv => \A t \in Requests : UpdateProgress(t) =>
                    update[req[t].id].version = req[t].expected
  BY DEF IndInv, VersionInv, UpdateProgress
<1> QED BY <1>1, Invariance, PTL DEF NoLostEdit

\* The hash that is compared before a replay tells apart what the client can
\* have asked for.
THEOREM ReplaySafe == Spec => ReplayIsMine
<1>1. IndInv => \A t \in Requests : Replay(t) => \E i \in Existing(t) : Same(t, i)
  <2> SUFFICES ASSUME IndInv, NEW t \in Requests, Replay(t)
               PROVE  \E i \in Existing(t) : Same(t, i)
    OBVIOUS
  <2>1. PICK i \in Existing(t) : update[i].hash = createRequestHash(t)
    BY DEF Replay
  <2>2. req[t].kind = "create" /\ Evaluated(t)
    BY DEF IndInv, RequestInv, Fits, EvidenceInv, Replay
  <2>3. evidence[t].location = req[t].location
    <3>1. evaluateEvidence(req[t].location, evidence[t].fence).location = req[t].location
      BY DEF evaluateEvidence
    <3> QED BY <2>2, <3>1 DEF Evaluated
  <2> QED BY <2>1, <2>3 DEF Same, createRequestHash
<1> QED BY <1>1, Invariance, PTL DEF ReplayIsMine

\* Behind its check of the active flag every request holds the project row, so
\* UpdateProject cannot come between the check and the write.
THEOREM ReadOnlySafe == Spec => InactiveIsReadOnly
<1>1. IndInv /\ [Next]_vars => (~active => UNCHANGED tables)
  BY Writes DEF IndInv, SharedInv, ActiveInv, CreateUpdate, UpdateProgress
<1>2. IndInv /\ [Next]_vars => [~active => UNCHANGED tables]_vars
  BY <1>1
<1> QED BY <1>2, Invariance, PTL DEF InactiveIsReadOnly, Spec

=============================================================================
