------------------------------ MODULE Projects ------------------------------
(***************************************************************************)
(* One project of internal/projects over PostgreSQL: its state and site    *)
(* geofence, its membership, its tasks with their responsible members, and *)
(* the revisions of the tasks.                                             *)
(*                                                                         *)
(* Every handler is a process that runs one transaction at READ COMMITTED. *)
(* A SELECT ... FOR UPDATE or FOR SHARE first takes its snapshot, then     *)
(* waits for the row.  If the row was changed meanwhile its own columns    *)
(* are read again, but a subquery keeps the snapshot of the start.  Writes *)
(* appear at the commit, which is one step with the statements before it   *)
(* that wait for nobody.                                                   *)
(***************************************************************************)
EXTENDS Naturals, FiniteSets

CONSTANTS
    Users,       \* accounts with the role member
    Admin,       \* the actor of the requests that an Admin sends
    Tasks,       \* task ids
    Requests,    \* request handlers that run at the same time
    None,
    Ahead,       \* how far beyond the version shown an expected_version may be
    MaxChanges,  \* bound on changes of accounts
    MaxVersion   \* bound: no operation starts on a task at this version, or on
                 \* the project when its two versions add up to it

VARIABLES
    project,   \* active flag, version, and version of the current geofence
    members,   \* users with a membership row that is not closed
    eligible,  \* users that are enabled Members (rows of internal/identity)
    task,      \* the tasks table with task_responsibilities
    revision,  \* the task_revisions of a task
    exclusive, \* the transaction that holds the project row FOR UPDATE
    shared,    \* those that hold it FOR SHARE
    taskLock,  \* the transaction that holds a task row FOR UPDATE
    userLock,  \* users rows that a transaction holds FOR SHARE
    pc,
    req,
    saw,       \* responsible members that the locking SELECT on the task saw
    changes

tables == <<project, members, eligible, task, revision>>
locks == <<exclusive, shared, taskLock, userLock>>
vars == <<tables, locks, pc, req, saw, changes>>

Project == [active : BOOLEAN, version : Nat \ {0}, fence : Nat]
Task == [creator : Users \cup {Admin}, responsible : SUBSET Users, version : Nat \ {0}]
Revision == [from : Nat \ {0}, previous : SUBSET Users, new : SUBSET Users]

AdminKinds == {"add", "remove", "fence", "project"}
TaskKinds == {"create", "edit"}
Req == [kind : AdminKinds \cup TaskKinds, actor : Users \cup {Admin},
        user : Users \cup {None},         \* of "add" and "remove"
        active : BOOLEAN,                 \* of "project"
        task : Tasks \cup {None},         \* of "edit"
        responsible : SUBSET Users,       \* of "create" and "edit"
        legacy : BOOLEAN,                 \* "edit" through the V1 endpoint
        expected : Nat]

Labels == {"idle", "lockProject", "insert", "share", "lockTask",
            "validate", "write"}

ASSUME ProjectsAssumption ==
    /\ Admin \notin Users
    /\ Ahead \in Nat /\ MaxVersion \in Nat /\ MaxChanges \in Nat
    /\ None \notin Users /\ None \notin Tasks /\ None \notin Requests
    /\ None \notin Task /\ None \notin Req

Init ==
    /\ project = [active |-> TRUE, version |-> 1, fence |-> 0]   \* CreateProject
    /\ members = {}
    /\ eligible = Users
    /\ task = [k \in Tasks |-> None]
    /\ revision = [k \in Tasks |-> {}]
    /\ exclusive = None /\ shared = {}
    /\ taskLock = [k \in Tasks |-> None]
    /\ userLock = [t \in Requests |-> {}]
    /\ pc = [t \in Requests |-> "idle"]
    /\ req = [t \in Requests |-> None]
    /\ saw = [t \in Requests |-> {}]
    /\ changes = 0

Goto(t, label) == pc' = [pc EXCEPT ![t] = label]

\* The transaction of t ends.
End(t) ==
    /\ Goto(t, "idle")
    /\ exclusive' = IF exclusive = t THEN None ELSE exclusive
    /\ shared' = shared \ {t}
    /\ taskLock' = [k \in Tasks |-> IF taskLock[k] = t THEN None ELSE taskLock[k]]
    /\ userLock' = [userLock EXCEPT ![t] = {}]
    /\ req' = [req EXCEPT ![t] = None]
    /\ saw' = [saw EXCEPT ![t] = {}]

Refuse(t) == End(t) /\ UNCHANGED tables

(***************************************************************************)
(* Requests                                                                *)
(***************************************************************************)
Request(kind, actor) ==
    [kind |-> kind, actor |-> actor, user |-> None, active |-> TRUE, task |-> None,
     responsible |-> {}, legacy |-> FALSE, expected |-> 0]

Start(t, r, label) ==
    /\ pc[t] = "idle"
    /\ req' = [req EXCEPT ![t] = r]
    /\ Goto(t, label)
    /\ UNCHANGED <<tables, locks, saw>>

StartMembership(t) ==
    \E kind \in {"add", "remove"}, u \in Users :
        Start(t, [Request(kind, Admin) EXCEPT !.user = u], "lockProject")

\* Name and description are not modelled: an update changes the active flag.
StartUpdateProject(t) ==
    /\ project.version + project.fence < MaxVersion
    /\ Start(t, [Request("project", Admin) EXCEPT
            !.active = ~project.active, !.expected = project.version], "lockProject")

\* A project without a geofence is shown with version 0.
StartReplaceGeofence(t) ==
    /\ project.version + project.fence < MaxVersion
    /\ Start(t, [Request("fence", Admin) EXCEPT !.expected = project.fence], "lockProject")

\* Task requests begin with the statement of lockAuthorizedProject, whose
\* snapshot decides who may go on: an Admin, or a member of the project.
Authorized == members \cup {Admin}

StartCreateTask(t) ==
    \E actor \in Authorized, responsible \in SUBSET Users :
        Start(t, [Request("create", actor) EXCEPT !.responsible = responsible], "share")

\* V1 edits (legacy) name at most one responsible member.
StartUpdateTask(t) ==
    \E actor \in Authorized, k \in Tasks, responsible \in SUBSET Users, legacy \in BOOLEAN :
        /\ task[k] # None /\ task[k].version < MaxVersion
        /\ legacy => Cardinality(responsible) <= 1
        /\ \E expected \in task[k].version .. task[k].version + Ahead :
            Start(t, [Request("edit", actor) EXCEPT
                          !.task = k, !.responsible = responsible, !.legacy = legacy,
                          !.expected = expected], "share")

(***************************************************************************)
(* lockProject, and what an Admin does while holding the project           *)
(***************************************************************************)
\* The row is free for FOR UPDATE.  Nothing else keeps an update, a geofence or
\* a removal waiting, so these commit in the same step.
LocksProject(t, kind) ==
    /\ pc[t] = "lockProject" /\ req[t].kind = kind
    /\ exclusive = None /\ shared = {}

UpdateProject(t) ==
    /\ LocksProject(t, "project")
    /\ project.version = req[t].expected
    /\ project' = [project EXCEPT !.active = req[t].active, !.version = @ + 1]
    /\ End(t)
    /\ UNCHANGED <<members, eligible, task, revision>>

UpdateProjectConflict(t) ==
    /\ LocksProject(t, "project")
    /\ project.version # req[t].expected
    /\ Refuse(t)

ReplaceGeofence(t) ==
    /\ LocksProject(t, "fence")
    /\ project.fence = req[t].expected
    /\ project' = [project EXCEPT !.fence = @ + 1]
    /\ End(t)
    /\ UNCHANGED <<members, eligible, task, revision>>

ReplaceGeofenceConflict(t) ==
    /\ LocksProject(t, "fence")
    /\ project.fence # req[t].expected
    /\ Refuse(t)

\* Mutant: the target's row is read without FOR SHARE.
CheckMemberUnlocked(t) ==
    /\ LocksProject(t, "add")
    /\ req[t].user \in eligible
    /\ exclusive' = t
    /\ Goto(t, "insert")
    /\ UNCHANGED <<tables, shared, taskLock, userLock, req, saw>>

\* AddMember reads the target FOR SHARE and wants an enabled Member...
CheckMember(t) ==
    /\ LocksProject(t, "add")
    /\ req[t].user \in eligible
    /\ exclusive' = t
    /\ userLock' = [userLock EXCEPT ![t] = {req[t].user}]
    /\ Goto(t, "insert")
    /\ UNCHANGED <<tables, shared, taskLock, req, saw>>

CheckMemberInvalid(t) ==
    /\ LocksProject(t, "add")
    /\ req[t].user \notin eligible
    /\ Refuse(t)

\* ...then inserts the membership, which is unique while it is open.
AddMember(t) ==
    /\ pc[t] = "insert"
    /\ req[t].user \notin members
    /\ members' = members \cup {req[t].user}
    /\ End(t)
    /\ UNCHANGED <<project, eligible, task, revision>>

AddMemberConflict(t) ==
    /\ pc[t] = "insert"
    /\ req[t].user \in members
    /\ Refuse(t)

\* Tasks for which a user is responsible.
Affected(u) == {k \in Tasks : task[k] # None /\ u \in task[k].responsible}

\* Mutant: the affected tasks change without a revision.
RemoveMemberUnrevised(t) ==
    LET u == req[t].user IN
    /\ LocksProject(t, "remove")
    /\ u \in members
    /\ members' = members \ {u}
    /\ task' = [k \in Tasks |->
           IF k \in Affected(u)
           THEN [task[k] EXCEPT !.responsible = @ \ {u}, !.version = @ + 1]
           ELSE task[k]]
    /\ End(t)
    /\ UNCHANGED <<project, eligible, revision>>

\* RemoveMember closes the membership, appends a revision to every affected
\* task, moves its version on and deletes the responsibility.
RemoveMember(t) ==
    LET u == req[t].user IN
    /\ LocksProject(t, "remove")
    /\ u \in members
    /\ members' = members \ {u}
    /\ task' = [k \in Tasks |->
           IF k \in Affected(u)
           THEN [task[k] EXCEPT !.responsible = @ \ {u}, !.version = @ + 1]
           ELSE task[k]]
    /\ revision' = [k \in Tasks |->
           IF k \in Affected(u)
           THEN revision[k] \cup {[from |-> task[k].version,
                                   previous |-> task[k].responsible,
                                   new |-> task[k].responsible \ {u}]}
           ELSE revision[k]]
    /\ End(t)
    /\ UNCHANGED <<project, eligible>>

RemoveMemberNotFound(t) ==
    /\ LocksProject(t, "remove")
    /\ req[t].user \notin members
    /\ Refuse(t)

(***************************************************************************)
(* lockAuthorizedProject                                                   *)
(***************************************************************************)
\* The row that the snapshot showed is locked FOR SHARE: the active flag is the
\* current one, the membership is not tested again.
ProjectReadable(t, kind) ==
    /\ pc[t] = "share" /\ req[t].kind = kind
    /\ exclusive = None
    /\ project.active

ShareInactive(t) ==
    /\ pc[t] = "share"
    /\ exclusive = None
    /\ ~project.active
    /\ Refuse(t)

\* Mutant: the project is read without FOR SHARE.
ShareForCreateNot(t) ==
    /\ ProjectReadable(t, "create")
    /\ Goto(t, "validate")
    /\ UNCHANGED <<tables, locks, req, saw>>

ShareForCreate(t) ==
    /\ ProjectReadable(t, "create")
    /\ shared' = shared \cup {t}
    /\ Goto(t, "validate")
    /\ UNCHANGED <<tables, exclusive, taskLock, userLock, req, saw>>

\* UpdateTask's own SELECT follows: its snapshot gives the responsible members.
Editable(t) ==
    /\ task[req[t].task] # None
    /\ req[t].actor \in {Admin, task[req[t].task].creator}

ShareForUpdate(t) ==
    /\ ProjectReadable(t, "edit")
    /\ Editable(t)
    /\ shared' = shared \cup {t}
    /\ saw' = [saw EXCEPT ![t] = task[req[t].task].responsible]
    /\ Goto(t, "lockTask")
    /\ UNCHANGED <<tables, exclusive, taskLock, userLock, req>>

UpdateNotFound(t) ==
    /\ ProjectReadable(t, "edit")
    /\ ~Editable(t)
    /\ Refuse(t)

(***************************************************************************)
(* UpdateTask's row lock                                                   *)
(***************************************************************************)
\* Mutant: the expected version is not compared.
UpdateAllowedAnyVersion(t) == req[t].legacy => Cardinality(saw[t]) <= 1

UpdateAllowed(t) ==
    /\ task[req[t].task].version = req[t].expected
    /\ req[t].legacy => Cardinality(saw[t]) <= 1

\* The version is that of the locked row.
LockTask(t) ==
    /\ pc[t] = "lockTask"
    /\ taskLock[req[t].task] = None
    /\ UpdateAllowed(t)
    /\ taskLock' = [taskLock EXCEPT ![req[t].task] = t]
    /\ Goto(t, "validate")
    /\ UNCHANGED <<tables, exclusive, shared, userLock, req, saw>>

LockTaskConflict(t) ==
    /\ pc[t] = "lockTask"
    /\ taskLock[req[t].task] = None
    /\ ~UpdateAllowed(t)
    /\ Refuse(t)

(***************************************************************************)
(* validateResponsibleMembers and the writes                               *)
(***************************************************************************)
\* The users rows are locked FOR SHARE.
Validate(t) ==
    /\ pc[t] = "validate"
    /\ req[t].responsible \subseteq members \cap eligible
    /\ userLock' = [userLock EXCEPT ![t] = req[t].responsible]
    /\ Goto(t, "write")
    /\ UNCHANGED <<tables, exclusive, shared, taskLock, req, saw>>

ValidateInvalid(t) ==
    /\ pc[t] = "validate"
    /\ ~(req[t].responsible \subseteq members \cap eligible)
    /\ Refuse(t)

CreateTask(t) ==
    /\ pc[t] = "write" /\ req[t].kind = "create"
    /\ \E k \in Tasks :
        /\ task[k] = None
        /\ task' = [task EXCEPT ![k] =
               [creator |-> req[t].actor, responsible |-> req[t].responsible, version |-> 1]]
    /\ End(t)
    /\ UNCHANGED <<project, members, eligible, revision>>

UpdateTask(t) ==
    LET k == req[t].task IN
    /\ pc[t] = "write" /\ req[t].kind = "edit"
    /\ task' = [task EXCEPT ![k].responsible = req[t].responsible, ![k].version = @ + 1]
    /\ revision' = [revision EXCEPT ![k] =
           @ \cup {[from |-> task[k].version, previous |-> saw[t], new |-> req[t].responsible]}]
    /\ End(t)
    /\ UNCHANGED <<project, members, eligible>>

(***************************************************************************)
(* The environment                                                         *)
(***************************************************************************)
\* identity.UpdateUser disables or promotes an account or takes that back; its
\* FOR UPDATE waits for those that hold the row FOR SHARE.
ChangeUser(u) ==
    /\ \A t \in Requests : u \notin userLock[t]
    /\ changes < MaxChanges /\ changes' = changes + 1
    /\ eligible' = IF u \in eligible THEN eligible \ {u} ELSE eligible \cup {u}
    /\ UNCHANGED <<project, members, task, revision, locks, pc, req, saw>>

\* The client goes away, the database fails or the process stops: the deferred
\* rollback, or PostgreSQL, ends the transaction.
Cancel(t) == pc[t] # "idle" /\ Refuse(t)

StartAny(t) ==
    \/ StartMembership(t) \/ StartUpdateProject(t) \/ StartReplaceGeofence(t)
    \/ StartCreateTask(t) \/ StartUpdateTask(t)

Work(t) ==
    \/ UpdateProject(t) \/ UpdateProjectConflict(t)
    \/ ReplaceGeofence(t) \/ ReplaceGeofenceConflict(t)
    \/ CheckMember(t) \/ CheckMemberInvalid(t) \/ AddMember(t) \/ AddMemberConflict(t)
    \/ RemoveMember(t) \/ RemoveMemberNotFound(t)
    \/ ShareInactive(t) \/ ShareForCreate(t) \/ ShareForUpdate(t) \/ UpdateNotFound(t)
    \/ LockTask(t) \/ LockTaskConflict(t)
    \/ Validate(t) \/ ValidateInvalid(t) \/ CreateTask(t) \/ UpdateTask(t)

Next ==
    \/ /\ \E t \in Requests : StartAny(t) \/ Work(t) \/ Cancel(t)
       /\ UNCHANGED changes
    \/ \E u \in Users : ChangeUser(u)

Spec == Init /\ [][Next]_vars

(***************************************************************************)
(* Properties                                                              *)
(***************************************************************************)
TypeOK ==
    /\ project \in Project
    /\ members \subseteq Users /\ eligible \subseteq Users
    /\ task \in [Tasks -> Task \cup {None}]
    /\ revision \in [Tasks -> SUBSET Revision]
    /\ exclusive \in Requests \cup {None}
    /\ shared \subseteq Requests
    /\ taskLock \in [Tasks -> Requests \cup {None}]
    /\ userLock \in [Requests -> SUBSET Users]
    /\ pc \in [Requests -> Labels]
    /\ req \in [Requests -> Req \cup {None}]
    /\ saw \in [Requests -> SUBSET Users]
    /\ changes \in Nat

\* Only current members are responsible for tasks, however a removal and the
\* task writes interleave (the project lock, and the clearing in RemoveMember).
ResponsibleAreMembers ==
    \A k \in Tasks : task[k] # None => task[k].responsible \subseteq members

\* Revisions reconstruct a task's history: one for each version it left, each
\* beginning where the one before ended, the last ending in the current row.
RevisionsComplete ==
    \A k \in Tasks : task[k] # None =>
        /\ {r.from : r \in revision[k]} = 1 .. task[k].version - 1
        /\ \A r \in revision[k] :
            /\ r.from = task[k].version - 1 => r.new = task[k].responsible
            /\ \A s \in revision[k] :
                /\ s.from = r.from => s = r
                /\ s.from = r.from + 1 => s.previous = r.new

\* Who becomes a member or responsible is an enabled Member when that commits,
\* not only when it was checked (FOR SHARE on the users rows).
AssignedAreEligible ==
    [][/\ members' \ members \subseteq eligible
       /\ \A k \in Tasks : task'[k] # None =>
            (task'[k].responsible \ IF task[k] = None THEN {} ELSE task[k].responsible)
                \subseteq eligible]_vars

\* While the project is inactive no task is created or edited, not even by a
\* request that began before: only a removal touches its tasks.
InactiveIsReadOnly ==
    [][~project.active =>
           \A k \in Tasks : task'[k] # task[k] => members' # members]_vars

\* Of concurrent edits based on the same version one takes effect, and an edit
\* never overwrites what a removal did: at the commit, validation of the members
\* included, the task still has the version that the request named.
NoLostUpdate ==
    [][\A t \in Requests : UpdateTask(t) =>
           task[req[t].task].version = req[t].expected]_vars

\* "Task writes lock the authorized active project so concurrent membership
\* removal cannot cross the command boundary": who writes a task is an Admin or
\* a member when the write commits.
WritersAreMembers ==
    [][\A t \in Requests : CreateTask(t) \/ UpdateTask(t) =>
           req[t].actor \in Authorized]_vars
=============================================================================
