------------------------------ MODULE Progress ------------------------------
(***************************************************************************)
(* The progress updates of one task, internal/progress over PostgreSQL:    *)
(* Create with the evaluation of its location against the geofence of the  *)
(* project and its idempotency key, and edits with their revisions.        *)
(*                                                                         *)
(* Create reads the geofence in one transaction, evaluates, and stores in  *)
(* another, which tests that the geofence is the same and is tried twice.  *)
(* lockAuthorizedTask is a SELECT ... FOR SHARE of project and task: its   *)
(* snapshot decides on the membership and gives the geofence, then it      *)
(* waits for the project row, of which it reads the active flag again.     *)
(* Files and their storage are in Attachments: here an update has at most  *)
(* one, of which the source and the verification count.                    *)
(***************************************************************************)
EXTENDS Integers

CONSTANTS
    Users,       \* accounts with the role member
    Admin,
    Keys,        \* idempotency keys
    Contents,    \* Markdown texts
    Locations,   \* locations that browsers report
    Areas,       \* the geofences of the project by version
    Files,       \* sources of files that are uploaded
    Ids,         \* ids of updates
    Requests,    \* request handlers that run at the same time
    None,
    Reasons,     \* reasons why a browser has no location
    Authors,     \* bound: the accounts that create updates
    MaxFence,    \* bound on the versions of the geofence
    MaxVersion   \* bound: no edit starts on an update at this version

VARIABLES
    active,   \* the project is active
    members,  \* users with an open membership
    fence,    \* version of the current geofence, 0 for none
    update,   \* progress_updates, each with its file
    revision, \* progress_update_revisions of an update
    shared,   \* transactions that hold the project FOR SHARE
    rowLock,  \* the transaction that holds an update FOR UPDATE
    pc,
    req,
    attempt,  \* of Create's loop
    evidence, \* what Create evaluated
    verified, \* and what it says of the file
    seen      \* the geofence in the snapshot of lockAuthorizedTask

project == <<active, members, fence>>
tables == <<update, revision>>
locks == <<shared, rowLock>>
locals == <<attempt, evidence, verified, seen>>
vars == <<project, tables, locks, pc, req, locals>>

\* Positions are points of a line: what matters is the distance of two.
Location == [at : Int, accuracy : Int]
Area == [at : Int, radius : Int, accuracy : Int]
Statuses == {"not_supplied", "unverified_unavailable", "unverified_no_geofence",
             "unverified_accuracy", "unverified_outside", "verified"}
Evidence == [status : Statuses, location : Locations \cup Reasons \cup {None},
             fence : 0 .. MaxFence]
Actors == Users \cup {Admin}

\* What createRequestHash covers; different values have different hashes.
Hash == [content : Contents, evidence : Evidence, file : Files \cup {None}, verified : BOOLEAN]
Update == [creator : Actors, key : Keys, hash : Hash,
           content : Contents, version : Nat \ {0}]
Revision == [from : Nat \ {0}, previous : Contents, new : Contents]

Kinds == {"create", "edit"}
Req == [kind : Kinds, actor : Actors, content : Contents,
        key : Keys \cup {None}, location : Locations \cup Reasons \cup {None},
        file : Files \cup {None},                      \* of "create"
        id : Ids \cup {None}, expected : Nat]          \* of "edit"

Labels == {"idle", "policy", "snapshot", "lock", "find", "insert", "row", "write"}

ASSUME ProgressAssumption ==
    /\ Locations \subseteq Location /\ Areas \in [1 .. MaxFence -> Area]
    /\ None \notin Locations \cup Reasons /\ Locations \cap Reasons = {}
    /\ Admin \notin Users /\ Authors \subseteq Users \cup {Admin}
    /\ Files \subseteq {"camera", "upload"} /\ None \notin Files
    /\ None \notin Requests /\ None \notin Update /\ None \notin Ids /\ None \notin Req
    /\ MaxFence \in Nat /\ MaxVersion \in Nat

NoEvidence == [status |-> "not_supplied", location |-> None, fence |-> 0]

Init ==
    /\ active = TRUE /\ members = Users /\ fence = 0
    /\ update = [i \in Ids |-> None]
    /\ revision = [i \in Ids |-> {}]
    /\ shared = {}
    /\ rowLock = [i \in Ids |-> None]
    /\ pc = [t \in Requests |-> "idle"]
    /\ req = [t \in Requests |-> None]
    /\ attempt = [t \in Requests |-> 0]
    /\ evidence = [t \in Requests |-> NoEvidence]
    /\ verified = [t \in Requests |-> FALSE]
    /\ seen = [t \in Requests |-> 0]

Goto(t, label) == pc' = [pc EXCEPT ![t] = label]

\* The request ends, its transaction with it.
End(t) ==
    /\ Goto(t, "idle")
    /\ shared' = shared \ {t}
    /\ rowLock' = [i \in Ids |-> IF rowLock[i] = t THEN None ELSE rowLock[i]]
    /\ req' = [req EXCEPT ![t] = None]
    /\ attempt' = [attempt EXCEPT ![t] = 0]
    /\ evidence' = [evidence EXCEPT ![t] = NoEvidence]
    /\ verified' = [verified EXCEPT ![t] = FALSE]
    /\ seen' = [seen EXCEPT ![t] = 0]

\* It ends and leaves the tables alone.
Refuse(t) == End(t) /\ UNCHANGED <<project, tables>>

(***************************************************************************)
(* Evidence                                                                *)
(***************************************************************************)
Distance(a, b) == IF a < b THEN b - a ELSE a - b

LocationStatus(location, area) ==
    IF location.accuracy > area.accuracy THEN "unverified_accuracy"
    ELSE IF Distance(location.at, area.at) + location.accuracy > area.radius
         THEN "unverified_outside" ELSE "verified"

\* The geofence is part of the evidence only if it was compared with a location.
evaluateEvidence(location, current) ==
    [status |-> IF location = None THEN "not_supplied"
                ELSE IF location \in Reasons THEN "unverified_unavailable"
                ELSE IF current = 0 THEN "unverified_no_geofence"
                ELSE LocationStatus(location, Areas[current]),
     location |-> location,
     fence |-> IF location \in Locations THEN current ELSE 0]

\* Files are images or videos.
attachmentVerification(file, status) == file = "camera" /\ status = "verified"

createRequestHash(t) ==
    [content |-> req[t].content, evidence |-> evidence[t],
     file |-> req[t].file, verified |-> verified[t]]

(***************************************************************************)
(* Requests                                                                *)
(***************************************************************************)
Start(t, r, label) ==
    /\ pc[t] = "idle"
    /\ req' = [req EXCEPT ![t] = r]
    /\ Goto(t, label)
    /\ UNCHANGED <<project, tables, locks, locals>>

\* The validations of Create: files need a reported location.
StartCreate(t) ==
    \E actor \in Authors, key \in Keys, content \in Contents,
       location \in Locations \cup Reasons \cup {None}, file \in Files \cup {None} :
        /\ file # None => location \in Locations
        /\ Start(t, [kind |-> "create", actor |-> actor, content |-> content, key |-> key,
                     location |-> location, file |-> file, id |-> None, expected |-> 0],
                 "policy")

\* An edit names the version that its author was shown.
StartUpdate(t) ==
    \E actor \in Actors, i \in Ids, content \in Contents :
        /\ update[i] # None /\ update[i].version < MaxVersion
        /\ Start(t, [kind |-> "edit", actor |-> actor, content |-> content, key |-> None,
                     location |-> None, file |-> None, id |-> i,
                     expected |-> update[i].version],
                 "snapshot")

Authorized(t) == req[t].actor \in members \cup {Admin}

(***************************************************************************)
(* Create: GetTaskPolicy and the evaluation                                *)
(***************************************************************************)
\* Mutant: the verification of the files is not repeated in the second attempt.
GetTaskPolicyVerifiesOnce(t) ==
    /\ pc[t] = "policy"
    /\ Authorized(t) /\ active
    /\ evidence' = [evidence EXCEPT ![t] = evaluateEvidence(req[t].location, fence)]
    /\ verified' = IF attempt[t] = 0
                   THEN [verified EXCEPT ![t] =
                             attachmentVerification(req[t].file, evidence'[t].status)]
                   ELSE verified
    /\ Goto(t, "snapshot")
    /\ UNCHANGED <<project, tables, locks, req, attempt, seen>>

GetTaskPolicy(t) ==
    /\ pc[t] = "policy"
    /\ Authorized(t) /\ active
    /\ evidence' = [evidence EXCEPT ![t] = evaluateEvidence(req[t].location, fence)]
    /\ verified' = [verified EXCEPT ![t] =
           attachmentVerification(req[t].file, evidence'[t].status)]
    /\ Goto(t, "snapshot")
    /\ UNCHANGED <<project, tables, locks, req, attempt, seen>>

PolicyRefused(t) ==
    /\ pc[t] = "policy"
    /\ ~(Authorized(t) /\ active)
    /\ Refuse(t)

(***************************************************************************)
(* lockAuthorizedTask                                                      *)
(***************************************************************************)
Snapshot(t) ==
    /\ pc[t] = "snapshot"
    /\ Authorized(t)
    /\ seen' = IF req[t].kind = "create" THEN [seen EXCEPT ![t] = fence] ELSE seen
    /\ Goto(t, "lock")
    /\ UNCHANGED <<project, tables, locks, req, attempt, evidence, verified>>

SnapshotNotFound(t) ==
    /\ pc[t] = "snapshot"
    /\ ~Authorized(t)
    /\ Refuse(t)

\* No transaction that holds the project FOR UPDATE waits for anything, so the
\* row is free; its columns are read again, the snapshot is kept.
LockInactive(t) ==
    /\ pc[t] = "lock"
    /\ ~active
    /\ Refuse(t)

\* Mutant: UpdateProgress reads the project without FOR SHARE.
LockForUpdateUnshared(t) ==
    /\ pc[t] = "lock" /\ req[t].kind = "edit"
    /\ active
    /\ Goto(t, "row")
    /\ UNCHANGED <<project, tables, locks, req, locals>>

LockForUpdate(t) ==
    /\ pc[t] = "lock" /\ req[t].kind = "edit"
    /\ active
    /\ shared' = shared \cup {t}
    /\ Goto(t, "row")
    /\ UNCHANGED <<project, tables, rowLock, req, locals>>

(***************************************************************************)
(* CreateUpdate                                                            *)
(***************************************************************************)
SamePolicy(t) == evidence[t].fence = seen[t]

LockForCreate(t) ==
    /\ pc[t] = "lock" /\ req[t].kind = "create"
    /\ active
    /\ SamePolicy(t)
    /\ shared' = shared \cup {t}
    /\ Goto(t, "find")
    /\ UNCHANGED <<project, tables, rowLock, req, locals>>

\* ErrPolicyChanged: the transaction ends and the loop begins again...
PolicyChanged(t) ==
    /\ pc[t] = "lock" /\ req[t].kind = "create"
    /\ active
    /\ ~SamePolicy(t) /\ attempt[t] = 0
    /\ attempt' = [attempt EXCEPT ![t] = 1]
    /\ seen' = [seen EXCEPT ![t] = 0]
    /\ Goto(t, "policy")
    /\ UNCHANGED <<project, tables, locks, req, evidence, verified>>

\* ...once.  Then the client gets a conflict.
PolicyConflict(t) ==
    /\ pc[t] = "lock" /\ req[t].kind = "create"
    /\ active
    /\ ~SamePolicy(t) /\ attempt[t] = 1
    /\ Refuse(t)

\* The updates with the request's actor and key.
Existing(t) ==
    {i \in Ids : update[i] # None /\ update[i].creator = req[t].actor
                                  /\ update[i].key = req[t].key}

FindNone(t) ==
    /\ pc[t] = "find"
    /\ Existing(t) = {}
    /\ Goto(t, "insert")
    /\ UNCHANGED <<project, tables, locks, req, locals>>

\* The row is read FOR SHARE, which waits for an edit, and answered as it is.
Replay(t) ==
    /\ pc[t] = "find"
    /\ \E i \in Existing(t) :
        /\ rowLock[i] = None
        /\ update[i].hash = createRequestHash(t)
    /\ Refuse(t)

HashConflict(t) ==
    /\ pc[t] = "find"
    /\ \E i \in Existing(t) :
        /\ rowLock[i] = None
        /\ update[i].hash # createRequestHash(t)
    /\ Refuse(t)

Inserted(t, i) ==
    /\ update[i] = None
    /\ update' = [update EXCEPT ![i] =
           [creator |-> req[t].actor, key |-> req[t].key, hash |-> createRequestHash(t),
            content |-> req[t].content, version |-> 1]]

\* Mutant: no unique (created_by, idempotency_key).
CreateUpdateAnyway(t) ==
    /\ pc[t] = "insert"
    /\ \E i \in Ids : Inserted(t, i)
    /\ End(t)
    /\ UNCHANGED <<project, revision>>

CreateUpdate(t) ==
    /\ pc[t] = "insert"
    /\ Existing(t) = {}
    /\ \E i \in Ids : Inserted(t, i)
    /\ End(t)
    /\ UNCHANGED <<project, revision>>

\* ON CONFLICT DO NOTHING: another request was first, and the row is looked up
\* as before.
InsertConflict(t) ==
    /\ pc[t] = "insert"
    /\ Existing(t) # {}
    /\ Goto(t, "find")
    /\ UNCHANGED <<project, tables, locks, req, locals>>

(***************************************************************************)
(* UpdateProgress                                                          *)
(***************************************************************************)
Owned(t) == req[t].actor \in {Admin, update[req[t].id].creator}

LockRow(t) ==
    /\ pc[t] = "row"
    /\ rowLock[req[t].id] = None
    /\ Owned(t) /\ update[req[t].id].version = req[t].expected
    /\ rowLock' = [rowLock EXCEPT ![req[t].id] = t]
    /\ Goto(t, "write")
    /\ UNCHANGED <<project, tables, shared, req, locals>>

\* The row of another author is not found; this does not wait.
RowNotFound(t) ==
    /\ pc[t] = "row"
    /\ ~Owned(t)
    /\ Refuse(t)

RowConflict(t) ==
    /\ pc[t] = "row"
    /\ rowLock[req[t].id] = None
    /\ Owned(t) /\ update[req[t].id].version # req[t].expected
    /\ Refuse(t)

\* Mutant: the version is not incremented.
UpdateProgressKeepsVersion(t) ==
    LET i == req[t].id IN
    /\ pc[t] = "write"
    /\ update' = [update EXCEPT ![i].content = req[t].content]
    /\ revision' = [revision EXCEPT ![i] =
           @ \cup {[from |-> update[i].version, previous |-> update[i].content,
                    new |-> req[t].content]}]
    /\ End(t)
    /\ UNCHANGED project

\* The revision, the new text and the next version are one commit.
UpdateProgress(t) ==
    LET i == req[t].id IN
    /\ pc[t] = "write"
    /\ update' = [update EXCEPT ![i].content = req[t].content, ![i].version = @ + 1]
    /\ revision' = [revision EXCEPT ![i] =
           @ \cup {[from |-> update[i].version, previous |-> update[i].content,
                    new |-> req[t].content]}]
    /\ End(t)
    /\ UNCHANGED project

\* The client goes away, the database fails or the process stops.
Cancel(t) == pc[t] # "idle" /\ Refuse(t)

(***************************************************************************)
(* internal/projects: transactions that hold the project FOR UPDATE        *)
(***************************************************************************)
ReplaceGeofence ==
    /\ shared = {}
    /\ fence < MaxFence /\ fence' = fence + 1
    /\ UNCHANGED <<active, members, tables, locks, pc, req, locals>>

UpdateProject ==
    /\ shared = {}
    /\ active' = ~active
    /\ UNCHANGED <<members, fence, tables, locks, pc, req, locals>>

ChangeMember(u) ==
    /\ shared = {}
    /\ members' = IF u \in members THEN members \ {u} ELSE members \cup {u}
    /\ UNCHANGED <<active, fence, tables, locks, pc, req, locals>>

Work(t) ==
    \/ GetTaskPolicy(t) \/ PolicyRefused(t)
    \/ Snapshot(t) \/ SnapshotNotFound(t) \/ LockInactive(t)
    \/ LockForCreate(t) \/ PolicyChanged(t) \/ PolicyConflict(t)
    \/ FindNone(t) \/ Replay(t) \/ HashConflict(t) \/ CreateUpdate(t) \/ InsertConflict(t)
    \/ LockForUpdate(t) \/ LockRow(t) \/ RowNotFound(t) \/ RowConflict(t) \/ UpdateProgress(t)

Next ==
    \/ \E t \in Requests : StartCreate(t) \/ StartUpdate(t) \/ Work(t) \/ Cancel(t)
    \/ ReplaceGeofence \/ UpdateProject
    \/ \E u \in Users : ChangeMember(u)

Spec == Init /\ [][Next]_vars

(***************************************************************************)
(* Properties                                                              *)
(***************************************************************************)
\* Types of the variables.
TypeOK ==
    /\ active \in BOOLEAN /\ members \subseteq Users /\ fence \in 0 .. MaxFence
    /\ update \in [Ids -> Update \cup {None}]
    /\ revision \in [Ids -> SUBSET Revision]
    /\ shared \subseteq Requests
    /\ rowLock \in [Ids -> Requests \cup {None}]
    /\ pc \in [Requests -> Labels]
    /\ req \in [Requests -> Req \cup {None}]
    /\ attempt \in [Requests -> {0, 1}]
    /\ evidence \in [Requests -> Evidence]
    /\ verified \in [Requests -> BOOLEAN]
    /\ seen \in [Requests -> 0 .. MaxFence]

\* A key of an author stands for one update, however many requests that carry
\* it are past the first look for it.
OnePerKey ==
    \A i, j \in Ids :
        /\ update[i] # None /\ update[j] # None
        /\ update[i].creator = update[j].creator /\ update[i].key = update[j].key
        => i = j

\* A verified file came from the camera, and the location of its update lies
\* with its uncertainty inside the very geofence that the evidence names, also
\* when a replacement of the geofence made Create evaluate twice.
VerifiedInside ==
    \A i \in Ids : update[i] # None /\ update[i].hash.verified =>
        LET e == update[i].hash.evidence IN
        /\ update[i].hash.file = "camera"
        /\ e.location \in Locations /\ e.fence # 0
        /\ Areas[e.fence].at - Areas[e.fence].radius <= e.location.at - e.location.accuracy
        /\ e.location.at + e.location.accuracy <= Areas[e.fence].at + Areas[e.fence].radius

\* Revisions reconstruct the history of an update's text from its creation on.
RevisionsComplete ==
    \A i \in Ids : update[i] # None =>
        LET text(v) == IF v = update[i].version THEN {update[i].content}
                       ELSE {r.previous : r \in {x \in revision[i] : x.from = v}}
        IN
        /\ text(1) = {update[i].hash.content}
        /\ \A v \in 1 .. update[i].version - 1 :
            {r.new : r \in {x \in revision[i] : x.from = v}} = text(v + 1)

\* Of concurrent edits based on the same version one takes effect: at its commit
\* the update still has the version that the request named.
NoLostEdit ==
    [][\A t \in Requests : UpdateProgress(t) =>
           update[req[t].id].version = req[t].expected]_vars

\* "Progress creation locks the authorized task/project boundary, confirms the
\* evaluated geofence is still current": the geofence with which a location was
\* compared is the project's when the update is stored behind the project's lock.
GeofenceStillCurrent ==
    [][\A t \in Requests : CreateUpdate(t) /\ req[t].location \in Locations =>
           evidence[t].fence = fence]_vars

\* Who gets an existing update as the answer to a Create had asked for this very
\* update: same text, location and file, whatever edits have made of it.
Same(t, i) ==
    LET h == update[i].hash IN
    /\ h.content = req[t].content /\ h.file = req[t].file
    /\ h.evidence.location = req[t].location

ReplayIsMine ==
    [][\A t \in Requests : Replay(t) => \E i \in Existing(t) : Same(t, i)]_vars

\* While the project is inactive nothing is created or edited, not even by a
\* request that began before: the project row stays locked from the reading of
\* its flag to the commit (lockAuthorizedTask).
InactiveIsReadOnly == [][~active => UNCHANGED tables]_vars

\* "Location never gates a text-only progress submission": a conflict is never
\* the answer to one because of the geofence.
TextIsNeverGated ==
    [][\A t \in Requests : PolicyConflict(t) => req[t].location \in Locations]_vars

\* "an identical progress-create request with the same key and files" is a safe
\* retry: it is not answered with a conflict.
IdenticalRetryIsSafe ==
    [][\A t \in Requests : HashConflict(t) \/ PolicyConflict(t) =>
           ~ \E i \in Existing(t) : Same(t, i)]_vars
=============================================================================
