--------------------------- MODULE ProjectsProofs ---------------------------
(***************************************************************************)
(* Proofs about Projects: for any accounts, tasks, requests and bounds,    *)
(* the locks on the project, the task and the accounts keep membership,    *)
(* responsibility and history together.                                    *)
(***************************************************************************)
EXTENDS Projects, TLAPS

(***************************************************************************)
(* The inductive invariant                                                 *)
(***************************************************************************)
\* What a request asks for, and where it may be with that.
Fits(t) ==
    /\ req[t] \in Req
    /\ pc[t] = "lockProject" => req[t].kind \in AdminKinds
    /\ pc[t] = "insert" => req[t].kind = "add"
    /\ pc[t] \in {"share", "validate", "write"} => req[t].kind \in TaskKinds
    /\ pc[t] = "lockTask" => req[t].kind = "edit"
    /\ req[t].kind \in {"add", "remove"} => req[t].user \in Users
    /\ req[t].kind = "edit" =>
        /\ req[t].task \in Tasks /\ task[req[t].task] # None
        /\ Ahead = 0 => req[t].expected <= task[req[t].task].version

RequestInv == \A t \in Requests : pc[t] # "idle" => Fits(t)

\* A project that task writes have locked is active.
HeldInv ==
    /\ \A t \in Requests :
        /\ pc[t] \in {"lockTask", "validate", "write"} => t \in shared
        /\ pc[t] = "insert" =>
            req[t].user \in eligible /\ userLock[t] = {req[t].user}
    /\ shared # {} => project.active

\* Behind UpdateTask's row lock the task has the version that the request named.
TaskInv ==
    \A t \in Requests :
        pc[t] \in {"validate", "write"} /\ req[t].kind = "edit" =>
            /\ taskLock[req[t].task] = t
            /\ task[req[t].task].version = req[t].expected

\* Validated members stay members and eligible.
ValidInv ==
    \A t \in Requests : pc[t] = "write" =>
        /\ req[t].responsible \subseteq members \cap eligible
        /\ userLock[t] = req[t].responsible

\* A sub-select that is older than the lock was right, if the task still has the
\* version that the client was shown.
SawInv ==
    \A t \in Requests :
        /\ pc[t] \in {"lockTask", "validate", "write"} /\ req[t].kind = "edit"
        /\ task[req[t].task].version = req[t].expected
        => saw[t] = task[req[t].task].responsible

Fresh == \A k \in Tasks : task[k] = None => revision[k] = {}

IInv ==
    /\ TypeOK /\ RequestInv /\ HeldInv /\ TaskInv /\ ValidInv
    /\ ResponsibleAreMembers /\ Fresh
    /\ Ahead = 0 => SawInv /\ RevisionsComplete

StepOf(t) == StartAny(t) \/ Work(t) \/ Cancel(t)

(***************************************************************************)
(* Types                                                                   *)
(***************************************************************************)
LEMMA NoneIsNone ==
    /\ None \notin Users /\ None \notin Tasks /\ None \notin Requests
    /\ None \notin Task /\ None \notin Req /\ Admin \notin Users
BY ProjectsAssumption

LEMMA InitInv == Init => IInv
<1> SUFFICES ASSUME Init PROVE IInv
  OBVIOUS
<1>1. TypeOK
  BY DEF Init, TypeOK, Project, Labels
<1> QED
  BY <1>1 DEF Init, IInv, RequestInv, HeldInv, TaskInv, ValidInv, SawInv, Fresh,
              ResponsibleAreMembers, RevisionsComplete

LEMMA EndType ==
    ASSUME TypeOK, NEW t \in Requests, End(t)
    PROVE  /\ exclusive' \in Requests \cup {None} /\ shared' \subseteq Requests
           /\ taskLock' \in [Tasks -> Requests \cup {None}]
           /\ userLock' \in [Requests -> SUBSET Users]
           /\ pc' \in [Requests -> Labels]
           /\ req' \in [Requests -> Req \cup {None}]
           /\ saw' \in [Requests -> SUBSET Users]
BY DEF TypeOK, End, Goto, Labels

LEMMA StartType ==
    ASSUME TypeOK, NEW t \in Requests, NEW r \in Req, NEW l \in Labels, Start(t, r, l),
           UNCHANGED changes
    PROVE  TypeOK'
BY DEF TypeOK, Start, Goto, tables, locks

LEMMA StartAnyType ==
    ASSUME TypeOK, NEW t \in Requests, StartAny(t), UNCHANGED changes
    PROVE  TypeOK'
<1> USE DEF Labels, AdminKinds, TaskKinds
<1>1. ASSUME StartMembership(t) PROVE TypeOK'
  BY <1>1, StartType DEF StartMembership, Request, Req
<1>2. ASSUME StartUpdateProject(t) PROVE TypeOK'
  BY <1>2, StartType DEF StartUpdateProject, Request, Req, TypeOK, Project
<1>3. ASSUME StartReplaceGeofence(t) PROVE TypeOK'
  BY <1>3, StartType DEF StartReplaceGeofence, Request, Req, TypeOK, Project
<1>4. ASSUME StartCreateTask(t) PROVE TypeOK'
  <2>1. Authorized \subseteq Users \cup {Admin}
    BY DEF Authorized, TypeOK
  <2> QED BY <1>4, <2>1, StartType DEF StartCreateTask, Request, Req
<1>5. ASSUME StartUpdateTask(t) PROVE TypeOK'
  <2>1. Authorized \subseteq Users \cup {Admin}
    BY DEF Authorized, TypeOK
  <2>2. \A k \in Tasks : task[k] # None =>
            task[k].version .. task[k].version + Ahead \subseteq Nat
    BY ProjectsAssumption DEF TypeOK, Task
  <2> QED BY <1>5, <2>1, <2>2, StartType DEF StartUpdateTask, Request, Req
<1> QED BY <1>1, <1>2, <1>3, <1>4, <1>5 DEF StartAny

LEMMA RowType ==
    ASSUME NEW row \in Task, NEW R \in SUBSET Users
    PROVE  LET new == [row EXCEPT !.responsible = R, !.version = @ + 1]
           IN  new \in Task /\ new.version = row.version + 1 /\ new.responsible = R
<1>1. row.version \in Nat \ {0} /\ row.version + 1 \in Nat \ {0}
  BY DEF Task
<1> QED BY <1>1 DEF Task

LEMMA TasksType ==
    ASSUME TypeOK, RequestInv, NEW t \in Requests,
           RemoveMember(t) \/ CreateTask(t) \/ UpdateTask(t)
    PROVE  task' \in [Tasks -> Task \cup {None}] /\ revision' \in [Tasks -> SUBSET Revision]
<1>a. Fits(t)
  <2>1. pc[t] # "idle"
    BY DEF RemoveMember, LocksProject, CreateTask, UpdateTask
  <2> QED BY <2>1 DEF RequestInv
<1>b. \A k \in Tasks : task[k] # None => task[k] \in Task
  BY DEF TypeOK
<1>c. \A n \in Nat \ {0} : n + 1 \in Nat \ {0}
  OBVIOUS
<1>0. /\ Fits(t)
      /\ \A k \in Tasks : task[k] # None => task[k] \in Task
      /\ \A n \in Nat \ {0} : n + 1 \in Nat \ {0}
  BY <1>a, <1>b, <1>c
<1>1. CASE RemoveMember(t)
  <2>1. \A k \in Affected(req[t].user) :
            /\ task[k] \in Task
            /\ [task[k] EXCEPT !.responsible = @ \ {req[t].user}, !.version = @ + 1] \in Task
            /\ [from |-> task[k].version, previous |-> task[k].responsible,
                new |-> task[k].responsible \ {req[t].user}] \in Revision
    BY <1>0 DEF Affected, Task, Revision
  <2> QED BY <1>1, <2>1 DEF RemoveMember, TypeOK
<1>2. CASE CreateTask(t)
  <2>1. [creator |-> req[t].actor, responsible |-> req[t].responsible, version |-> 1] \in Task
    BY <1>0 DEF Fits, Req, Task
  <2> QED BY <1>2, <2>1 DEF CreateTask, TypeOK
<1>3. CASE UpdateTask(t)
  <2>1. req[t].task \in Tasks /\ task[req[t].task] \in Task /\ req[t].responsible \in SUBSET Users
    BY <1>0, <1>3 DEF UpdateTask, Fits, Req
  <2>2. [task[req[t].task] EXCEPT !.responsible = req[t].responsible, !.version = @ + 1] \in Task
    BY <1>0, <2>1 DEF Task
  <2>3. [from |-> task[req[t].task].version, previous |-> saw[t],
         new |-> req[t].responsible] \in Revision
    BY <2>1 DEF Task, Revision, TypeOK
  <2> QED BY <1>3, <2>1, <2>2, <2>3 DEF UpdateTask, TypeOK
<1> QED BY <1>1, <1>2, <1>3

LEMMA ProjectType ==
    ASSUME NEW p \in Project, NEW a \in BOOLEAN
    PROVE  /\ [p EXCEPT !.active = a, !.version = @ + 1] \in Project
           /\ [p EXCEPT !.fence = @ + 1] \in Project
<1>1. p.version \in Nat \ {0} /\ p.fence \in Nat
  BY DEF Project
<1>2. p.version + 1 \in Nat \ {0} /\ p.fence + 1 \in Nat
  BY <1>1
<1>3. \A n \in Nat \ {0} : [p EXCEPT !.active = a, !.version = n] \in Project
  BY Zenon DEF Project
<1>4. \A n \in Nat : [p EXCEPT !.fence = n] \in Project
  BY Zenon DEF Project
<1>5. [p EXCEPT !.active = a, !.version = @ + 1]
          = [p EXCEPT !.active = a, !.version = p.version + 1]
  BY Zenon DEF Project
<1> QED BY <1>2, <1>3, <1>4, <1>5, Zenon

LEMMA WorkType ==
    ASSUME TypeOK, RequestInv, NEW t \in Requests, Work(t), UNCHANGED changes
    PROVE  TypeOK'
<1> USE DEF Labels
<1>0. pc[t] # "idle" => Fits(t)
  BY DEF RequestInv
<1>1. ASSUME Refuse(t) PROVE TypeOK'
  BY <1>1, EndType DEF Refuse, tables, TypeOK
<1>2. CASE UpdateProject(t) \/ ReplaceGeofence(t)
  <2>1. project' \in Project
    <3>1. req[t].active \in BOOLEAN /\ project \in Project
      BY <1>0, <1>2 DEF UpdateProject, ReplaceGeofence, LocksProject, Fits, Req, TypeOK
    <3>2. /\ [project EXCEPT !.active = req[t].active, !.version = @ + 1] \in Project
          /\ [project EXCEPT !.fence = @ + 1] \in Project
      BY <3>1, ProjectType
    <3>3. \/ project' = [project EXCEPT !.active = req[t].active, !.version = @ + 1]
          \/ project' = [project EXCEPT !.fence = @ + 1]
      BY <1>2, Zenon DEF UpdateProject, ReplaceGeofence
    <3> QED BY <3>2, <3>3, Zenon
  <2> QED BY <1>2, <2>1, EndType DEF UpdateProject, ReplaceGeofence, TypeOK
<1>3. CASE CheckMember(t)
  BY <1>3 DEF CheckMember, LocksProject, tables, Goto, TypeOK
<1>4. CASE AddMember(t)
  <2>1. req[t].user \in Users
    BY <1>0, <1>4 DEF AddMember, Fits
  <2> QED BY <1>4, <2>1, EndType DEF AddMember, TypeOK
<1>5. CASE RemoveMember(t) \/ CreateTask(t) \/ UpdateTask(t)
  BY <1>5, EndType, TasksType DEF RemoveMember, CreateTask, UpdateTask, TypeOK
<1>6. CASE ShareForCreate(t)
  BY <1>6 DEF ShareForCreate, tables, Goto, TypeOK
<1>7. CASE ShareForUpdate(t)
  <2>1. task[req[t].task].responsible \in SUBSET Users
    BY <1>0, <1>7 DEF ShareForUpdate, ProjectReadable, Fits, TypeOK, Task
  <2> QED BY <1>7, <2>1 DEF ShareForUpdate, tables, Goto, TypeOK
<1>8. CASE LockTask(t)
  BY <1>8 DEF LockTask, tables, Goto, TypeOK
<1>9. CASE Validate(t)
  <2>1. req[t].responsible \in SUBSET Users
    BY <1>0, <1>9 DEF Validate, Fits, Req
  <2> QED BY <1>9, <2>1 DEF Validate, tables, Goto, TypeOK
<1> QED
  BY <1>1, <1>2, <1>3, <1>4, <1>5, <1>6, <1>7, <1>8, <1>9
     DEF Work, UpdateProjectConflict, ReplaceGeofenceConflict, CheckMemberInvalid,
         AddMemberConflict, RemoveMemberNotFound, ShareInactive, UpdateNotFound,
         LockTaskConflict, ValidateInvalid

LEMMA TypeStep == TypeOK /\ RequestInv /\ [Next]_vars => TypeOK'
<1> SUFFICES ASSUME TypeOK, RequestInv, [Next]_vars PROVE TypeOK'
  OBVIOUS
<1>1. ASSUME NEW t \in Requests, StepOf(t), UNCHANGED changes PROVE TypeOK'
  <2>1. CASE Cancel(t)
    BY <1>1, <2>1, EndType DEF Cancel, Refuse, tables, TypeOK
  <2> QED BY <1>1, <2>1, StartAnyType, WorkType DEF StepOf
<1>2. ASSUME NEW u \in Users, ChangeUser(u) PROVE TypeOK'
  BY <1>2 DEF ChangeUser, locks, TypeOK
<1>3. CASE UNCHANGED vars
  BY <1>3 DEF vars, tables, locks, TypeOK
<1> QED BY <1>1, <1>2, <1>3 DEF Next, StepOf

(***************************************************************************)
(* What a step leaves alone                                                *)
(***************************************************************************)
LEMMA Starts ==
    ASSUME NEW t \in Requests, StartAny(t)
    PROVE  \E r, l : Start(t, r, l)
<1>1. CASE StartMembership(t)
  BY <1>1, Zenon DEF StartMembership
<1>2. CASE StartUpdateProject(t)
  BY <1>2, Zenon DEF StartUpdateProject
<1>3. CASE StartReplaceGeofence(t)
  BY <1>3, Zenon DEF StartReplaceGeofence
<1>4. CASE StartCreateTask(t)
  BY <1>4, Zenon DEF StartCreateTask
<1>5. CASE StartUpdateTask(t)
  BY <1>5, Zenon DEF StartUpdateTask
<1> QED BY <1>1, <1>2, <1>3, <1>4, <1>5 DEF StartAny

\* Another request keeps its place, its locks and what it knows.
LEMMA Others ==
    ASSUME TypeOK, NEW t \in Requests, StepOf(t), NEW s \in Requests, s # t
    PROVE  /\ pc'[s] = pc[s] /\ req'[s] = req[s] /\ saw'[s] = saw[s]
           /\ userLock'[s] = userLock[s]
           /\ s \in shared => s \in shared'
           /\ \A k \in Tasks : taskLock[k] = s => taskLock'[k] = s
<1> USE NoneIsNone DEF TypeOK, Goto
<1>1. CASE StartAny(t)
  BY <1>1, Starts DEF Start, locks
<1>2. CASE End(t)
  BY <1>2 DEF End
<1>3. CASE CheckMember(t) \/ ShareForCreate(t) \/ ShareForUpdate(t) \/ LockTask(t) \/ Validate(t)
  BY <1>3 DEF CheckMember, ShareForCreate, ShareForUpdate, LockTask, Validate
<1> QED
  BY <1>1, <1>2, <1>3
     DEF StepOf, Cancel, Work, Refuse, UpdateProject, UpdateProjectConflict, ReplaceGeofence,
         ReplaceGeofenceConflict, CheckMemberInvalid, AddMember, AddMemberConflict,
         RemoveMember, RemoveMemberNotFound, ShareInactive, UpdateNotFound,
         LockTaskConflict, ValidateInvalid, CreateTask, UpdateTask

\* Members leave and activity changes only while no task write holds the
\* project; accounts do not change.
LEMMA Protected ==
    ASSUME TypeOK, NEW t \in Requests, StepOf(t)
    PROVE  /\ eligible' = eligible
           /\ shared # {} => members \subseteq members' /\ project'.active = project.active
           /\ ~RemoveMember(t) => members \subseteq members'
<1> USE DEF tables
<1>1. CASE UpdateProject(t)
  BY <1>1 DEF UpdateProject, LocksProject
<1>2. CASE ReplaceGeofence(t)
  BY <1>2 DEF ReplaceGeofence, LocksProject
<1>3. CASE AddMember(t) \/ CreateTask(t) \/ UpdateTask(t)
  BY <1>3 DEF AddMember, CreateTask, UpdateTask
<1>4. CASE RemoveMember(t)
  BY <1>4 DEF RemoveMember, LocksProject
<1>5. CASE UNCHANGED tables
  BY <1>5
<1> QED
  BY <1>1, <1>2, <1>3, <1>4, <1>5, Starts
     DEF StepOf, Cancel, Work, Refuse, UpdateProjectConflict, ReplaceGeofenceConflict,
         CheckMember, CheckMemberInvalid, AddMemberConflict, RemoveMemberNotFound,
         ShareInactive, ShareForCreate, ShareForUpdate, UpdateNotFound, LockTask,
         LockTaskConflict, Validate, ValidateInvalid, Start

\* The tasks change in three actions.
LEMMA TaskSteps ==
    ASSUME NEW t \in Requests, StepOf(t)
    PROVE  \/ RemoveMember(t) \/ CreateTask(t) \/ UpdateTask(t)
           \/ UNCHANGED <<task, revision>>
BY Starts
   DEF StepOf, Cancel, Work, Refuse, UpdateProject, UpdateProjectConflict, ReplaceGeofence,
       ReplaceGeofenceConflict, CheckMember, CheckMemberInvalid, AddMember, AddMemberConflict,
       RemoveMemberNotFound, ShareInactive, ShareForCreate, ShareForUpdate, UpdateNotFound,
       LockTask, LockTaskConflict, Validate, ValidateInvalid, Start, tables

\* A row of tasks never goes away, keeps its version while it is unchanged, and
\* else moves it on by one.
Moved(k) ==
    /\ task'[k] # None
    /\ task'[k] = task[k] \/ task'[k].version = task[k].version + 1

LEMMA TasksMove ==
    ASSUME TypeOK, RequestInv, NEW t \in Requests, StepOf(t), NEW k \in Tasks, task[k] # None
    PROVE  Moved(k)
<1>0. task[k] \in Task
  BY DEF TypeOK
<1>1. CASE RemoveMember(t)
  <2>1. CASE k \in Affected(req[t].user)
    <3> DEFINE Row == [task[k] EXCEPT !.responsible = @ \ {req[t].user}, !.version = @ + 1]
    <3>1. task'[k] = Row
      BY <1>1, <2>1, Zenon DEF RemoveMember
    <3>2. Row \in Task /\ Row.version = task[k].version + 1
      BY <1>0, RowType DEF Task
    <3> HIDE DEF Row
    <3> QED BY <3>1, <3>2, NoneIsNone DEF Moved
  <2>2. CASE k \notin Affected(req[t].user)
    BY <1>1, <2>2 DEF RemoveMember, Moved
  <2> QED BY <2>1, <2>2
<1>2. CASE CreateTask(t)
  BY <1>2 DEF CreateTask, Moved, TypeOK
<1>3. CASE UpdateTask(t)
  BY <1>0, <1>3, NoneIsNone DEF UpdateTask, Moved, Task, TypeOK
<1>4. CASE UNCHANGED <<task, revision>>
  BY <1>4 DEF Moved
<1> QED BY <1>1, <1>2, <1>3, <1>4, TaskSteps

(***************************************************************************)
(* Requests                                                                *)
(***************************************************************************)
LEMMA StartFits ==
    ASSUME TypeOK, NEW t \in Requests, StartAny(t)
    PROVE  Fits(t)' /\ pc'[t] \in {"lockProject", "share"}
<1> USE DEF AdminKinds, TaskKinds
<1>1. ASSUME NEW r \in Req, NEW l \in {"lockProject", "share"}, Start(t, r, l),
             IF l = "share" THEN r.kind \in TaskKinds ELSE r.kind \in AdminKinds,
             r.kind \in {"add", "remove"} => r.user \in Users,
             r.kind = "edit" => /\ r.task \in Tasks /\ task[r.task] # None
                                /\ Ahead = 0 => r.expected <= task[r.task].version
      PROVE  Fits(t)' /\ pc'[t] \in {"lockProject", "share"}
  <2>1. req'[t] = r /\ pc'[t] = l /\ task' = task
    BY <1>1 DEF Start, Goto, TypeOK, tables
  <2> QED BY <1>1, <2>1 DEF Fits
<1>2. CASE StartMembership(t)
  <2>1. PICK kind \in {"add", "remove"}, u \in Users :
            Start(t, [Request(kind, Admin) EXCEPT !.user = u], "lockProject")
    BY <1>2, Zenon DEF StartMembership
  <2> DEFINE r == [Request(kind, Admin) EXCEPT !.user = u]
  <2>2. r \in Req /\ r.kind = kind /\ r.user = u
    BY DEF Request, Req
  <2>3. Start(t, r, "lockProject")
    BY <2>1
  <2> HIDE DEF r
  <2> QED BY <1>1, <2>2, <2>3
<1>3. CASE StartUpdateProject(t)
  <2> DEFINE r == [Request("project", Admin) EXCEPT
                       !.active = ~project.active, !.expected = project.version]
  <2>1. Start(t, r, "lockProject")
    BY <1>3, Zenon DEF StartUpdateProject
  <2>2. project.version \in Nat
    BY DEF TypeOK, Project
  <2>3. \A b \in BOOLEAN : \A n \in Nat :
            [Request("project", Admin) EXCEPT !.active = b, !.expected = n] \in Req
    BY DEF Request, Req
  <2>4. r \in Req /\ r.kind = "project"
    <3>1. r.kind = "project"
      BY Zenon DEF Request
    <3>2. (~project.active) \in BOOLEAN
      OBVIOUS
    <3> QED BY <2>2, <2>3, <3>1, <3>2, Zenon
  <2> HIDE DEF r
  <2> QED BY <1>1, <2>1, <2>4
<1>4. CASE StartReplaceGeofence(t)
  <2> DEFINE r == [Request("fence", Admin) EXCEPT !.expected = project.fence]
  <2>1. Start(t, r, "lockProject")
    BY <1>4, Zenon DEF StartReplaceGeofence
  <2>2. r \in Req /\ r.kind = "fence"
    BY DEF TypeOK, Project, Request, Req
  <2> HIDE DEF r
  <2> QED BY <1>1, <2>1, <2>2
<1>5. CASE StartCreateTask(t)
  <2>1. PICK actor \in Authorized, responsible \in SUBSET Users :
            Start(t, [Request("create", actor) EXCEPT !.responsible = responsible], "share")
    BY <1>5, Zenon DEF StartCreateTask
  <2> DEFINE r == [Request("create", actor) EXCEPT !.responsible = responsible]
  <2>2. r \in Req /\ r.kind = "create"
    BY DEF TypeOK, Authorized, Request, Req
  <2>3. Start(t, r, "share")
    BY <2>1
  <2> HIDE DEF r
  <2> QED BY <1>1, <2>2, <2>3
<1>6. CASE StartUpdateTask(t)
  <2>1. PICK actor \in Authorized, k \in Tasks, responsible \in SUBSET Users,
             legacy \in BOOLEAN :
            /\ task[k] # None
            /\ \E expected \in task[k].version .. task[k].version + Ahead :
                  Start(t, [Request("edit", actor) EXCEPT
                            !.task = k, !.responsible = responsible, !.legacy = legacy,
                            !.expected = expected], "share")
    BY <1>6, Zenon DEF StartUpdateTask
  <2>2. PICK expected \in task[k].version .. task[k].version + Ahead :
            Start(t, [Request("edit", actor) EXCEPT
                      !.task = k, !.responsible = responsible, !.legacy = legacy,
                      !.expected = expected], "share")
    BY <2>1
  <2> DEFINE r == [Request("edit", actor) EXCEPT
                      !.task = k, !.responsible = responsible, !.legacy = legacy,
                      !.expected = expected]
  <2>3. task[k].version \in Nat /\ Ahead \in Nat
    BY <2>1, ProjectsAssumption DEF TypeOK, Task
  <2>4. expected \in Nat /\ (Ahead = 0 => expected <= task[k].version)
    BY <2>3
  <2>5. r \in Req /\ r.kind = "edit" /\ r.task = k /\ r.expected = expected
    BY <2>4 DEF TypeOK, Authorized, Request, Req
  <2>6. Start(t, r, "share")
    BY <2>2
  <2> HIDE DEF r
  <2> QED BY <1>1, <2>1, <2>4, <2>5, <2>6
<1> QED BY <1>2, <1>3, <1>4, <1>5, <1>6 DEF StartAny

\* Where a request is after a step of its own: at an end, at its beginning, or
\* one step further.
LEMMA Own ==
    ASSUME TypeOK, NEW t \in Requests, StepOf(t)
    PROVE  \/ pc'[t] = "idle"
           \/ StartAny(t) \/ CheckMember(t) \/ ShareForCreate(t) \/ ShareForUpdate(t)
           \/ LockTask(t) \/ Validate(t)
<1>1. ASSUME End(t) PROVE pc'[t] = "idle"
  BY <1>1 DEF End, Goto, TypeOK
<1> QED
  BY <1>1 DEF StepOf, Cancel, Work, Refuse, UpdateProject, UpdateProjectConflict,
         ReplaceGeofence, ReplaceGeofenceConflict, CheckMemberInvalid, AddMember,
         AddMemberConflict, RemoveMember, RemoveMemberNotFound, ShareInactive,
         UpdateNotFound, LockTaskConflict, ValidateInvalid, CreateTask, UpdateTask

LEMMA RequestStep ==
    ASSUME TypeOK, RequestInv, NEW t \in Requests, StepOf(t)
    PROVE  RequestInv'
<1> SUFFICES ASSUME NEW s \in Requests, pc'[s] # "idle" PROVE Fits(s)'
  BY DEF RequestInv
<1>1. CASE s # t
  <2>1. pc'[s] = pc[s] /\ req'[s] = req[s] /\ Fits(s)
    BY <1>1, Others DEF RequestInv
  <2>2. ASSUME req[s].kind = "edit"
        PROVE  /\ task'[req[s].task] # None
               /\ Ahead = 0 => req[s].expected <= task'[req[s].task].version
    <3>1. req[s].task \in Tasks /\ task[req[s].task] \in Task /\ req[s].expected \in Nat
      BY <2>1, <2>2 DEF Fits, Req, TypeOK
    <3>2. Moved(req[s].task)
      BY <2>1, <2>2, <3>1, TasksMove DEF Fits
    <3> QED BY <2>1, <2>2, <3>1, <3>2 DEF Fits, Moved, Task
  <2> QED BY <2>1, <2>2 DEF Fits
<1>2. CASE s = t
  <2>1. CASE StartAny(t)
    BY <1>2, <2>1, StartFits
  <2>2. CASE ~StartAny(t)
    <3>1. \/ CheckMember(t) \/ ShareForCreate(t) \/ ShareForUpdate(t)
          \/ LockTask(t) \/ Validate(t)
      BY <1>2, <2>2, Own
    <3>2. Fits(t) /\ req'[t] = req[t] /\ task' = task
      BY <3>1 DEF RequestInv, CheckMember, LocksProject, ShareForCreate, ShareForUpdate,
                  ProjectReadable, LockTask, Validate, tables
    <3>3. \/ pc'[t] = "insert" /\ req[t].kind = "add"
          \/ pc'[t] = "validate" /\ req[t].kind \in TaskKinds
          \/ pc'[t] = "lockTask" /\ req[t].kind = "edit"
          \/ pc'[t] = "write" /\ req[t].kind \in TaskKinds
      BY <3>1, <3>2 DEF Fits, CheckMember, LocksProject, ShareForCreate, ShareForUpdate,
                  ProjectReadable, LockTask, Validate, Goto, TypeOK, TaskKinds
    <3> QED BY <1>2, <3>2, <3>3 DEF Fits, AdminKinds, TaskKinds
  <2> QED BY <2>1, <2>2
<1> QED BY <1>1, <1>2

(***************************************************************************)
(* Locks                                                                   *)
(***************************************************************************)
LEMMA HeldStep ==
    ASSUME TypeOK, RequestInv, HeldInv, NEW t \in Requests, StepOf(t)
    PROVE  HeldInv'
<1>1. eligible' = eligible
  BY Protected
<1>2. ASSUME NEW s \in Requests
      PROVE  /\ pc'[s] \in {"lockTask", "validate", "write"} => s \in shared'
             /\ pc'[s] = "insert" =>
                    req'[s].user \in eligible' /\ userLock'[s] = {req'[s].user}
  <2>1. CASE s # t
    BY <1>1, <2>1, Others DEF HeldInv
  <2>2. CASE s = t /\ StartAny(t)
    BY <2>2, StartFits
  <2>3. CASE s = t /\ ~StartAny(t)
    BY <1>1, <2>3, Own
       DEF HeldInv, CheckMember, ShareForCreate, ShareForUpdate, LockTask, Validate,
           Goto, TypeOK
  <2> QED BY <2>1, <2>2, <2>3
<1>3. ASSUME shared' # {} PROVE project'.active
  <2>1. CASE shared # {}
    BY <2>1, Protected DEF HeldInv
  <2>2. CASE shared = {}
    <3>1. shared' \subseteq {} \/ ShareForCreate(t) \/ ShareForUpdate(t)
      <4>1. ASSUME End(t) \/ CheckMember(t) \/ LockTask(t) \/ Validate(t) \/ StartAny(t)
            PROVE  shared' \subseteq {}
        BY <2>2, <4>1, Starts DEF End, CheckMember, LockTask, Validate, Start, locks
      <4> QED
        BY <4>1 DEF StepOf, Cancel, Work, Refuse, UpdateProject, UpdateProjectConflict,
             ReplaceGeofence, ReplaceGeofenceConflict, CheckMemberInvalid, AddMember,
             AddMemberConflict, RemoveMember, RemoveMemberNotFound, ShareInactive,
             UpdateNotFound, LockTaskConflict, ValidateInvalid, CreateTask, UpdateTask
    <3> QED BY <1>3, <3>1 DEF ShareForCreate, ShareForUpdate, ProjectReadable, tables
  <2> QED BY <2>1, <2>2
<1> QED BY <1>2, <1>3 DEF HeldInv

\* While a request holds a task that it edits nobody else changes the task.
LEMMA TaskKept ==
    ASSUME TypeOK, RequestInv, HeldInv, TaskInv, NEW t \in Requests, StepOf(t),
           NEW s \in Requests, s # t, pc[s] \in {"validate", "write"}, req[s].kind = "edit"
    PROVE  task'[req[s].task] = task[req[s].task]
<1>1. /\ req[s].task \in Tasks /\ task[req[s].task] # None
      /\ s \in shared /\ taskLock[req[s].task] = s
  BY DEF RequestInv, Fits, HeldInv, TaskInv
<1>2. CASE RemoveMember(t)
  BY <1>1, <1>2 DEF RemoveMember, LocksProject
<1>3. CASE CreateTask(t)
  BY <1>1, <1>3 DEF CreateTask, TypeOK
<1>4. CASE UpdateTask(t)
  <2>1. taskLock[req[t].task] = t
    BY <1>4 DEF UpdateTask, TaskInv
  <2> QED BY <1>1, <1>4, <2>1 DEF UpdateTask, TypeOK
<1> QED BY <1>2, <1>3, <1>4, TaskSteps

LEMMA TaskInvStep ==
    ASSUME TypeOK, RequestInv, HeldInv, TaskInv, NEW t \in Requests, StepOf(t)
    PROVE  TaskInv'
<1> SUFFICES ASSUME NEW s \in Requests, pc'[s] \in {"validate", "write"},
                    req'[s].kind = "edit"
             PROVE  /\ taskLock'[req'[s].task] = s
                    /\ task'[req'[s].task].version = req'[s].expected
  BY DEF TaskInv
<1>1. CASE s # t
  <2>1. pc'[s] = pc[s] /\ req'[s] = req[s] /\ req[s].task \in Tasks
    BY <1>1, Others DEF RequestInv, Fits
  <2> QED BY <1>1, <2>1, Others, TaskKept DEF TaskInv
<1>2. CASE s = t
  <2>1. LockTask(t) \/ Validate(t) \/ ShareForCreate(t)
    BY <1>2, Own, StartFits DEF CheckMember, ShareForUpdate, Goto, TypeOK
  <2>2. CASE ShareForCreate(t)
    BY <1>2, <2>2 DEF ShareForCreate, ProjectReadable
  <2>3. CASE LockTask(t)
    <3>1. req[t].task \in Tasks
      BY <2>3 DEF LockTask, RequestInv, Fits
    <3> QED BY <1>2, <2>3, <3>1 DEF LockTask, UpdateAllowed, tables, TypeOK
  <2>4. CASE Validate(t)
    BY <1>2, <2>4 DEF Validate, TaskInv, tables
  <2> QED BY <2>1, <2>2, <2>3, <2>4
<1> QED BY <1>1, <1>2

LEMMA ValidStep ==
    ASSUME TypeOK, HeldInv, ValidInv, NEW t \in Requests, StepOf(t)
    PROVE  ValidInv'
<1> SUFFICES ASSUME NEW s \in Requests, pc'[s] = "write"
             PROVE  /\ req'[s].responsible \subseteq members' \cap eligible'
                    /\ userLock'[s] = req'[s].responsible
  BY DEF ValidInv
<1>1. CASE s # t
  <2>1. s \in shared
    BY <1>1, Others DEF HeldInv
  <2> QED BY <1>1, <2>1, Others, Protected DEF ValidInv
<1>2. CASE s = t
  <2>1. Validate(t)
    BY <1>2, Own, StartFits
       DEF CheckMember, ShareForCreate, ShareForUpdate, LockTask, Goto, TypeOK
  <2> QED BY <1>2, <2>1 DEF Validate, tables, TypeOK
<1> QED BY <1>1, <1>2

LEMMA SawStep ==
    ASSUME TypeOK, RequestInv, SawInv, Ahead = 0, NEW t \in Requests, StepOf(t)
    PROVE  SawInv'
<1> SUFFICES ASSUME NEW s \in Requests, pc'[s] \in {"lockTask", "validate", "write"},
                    req'[s].kind = "edit",
                    task'[req'[s].task].version = req'[s].expected
             PROVE  saw'[s] = task'[req'[s].task].responsible
  BY DEF SawInv
<1>1. CASE s # t
  <2>1. pc'[s] = pc[s] /\ req'[s] = req[s] /\ saw'[s] = saw[s]
    BY <1>1, Others
  <2>2. /\ req[s].task \in Tasks /\ task[req[s].task] # None
        /\ req[s].expected <= task[req[s].task].version
        /\ req[s].expected \in Nat
    BY <2>1 DEF RequestInv, Fits, Req
  <2>3. Moved(req[s].task) /\ task[req[s].task].version \in Nat
    BY <2>2, TasksMove DEF TypeOK, Task
  <2>4. task'[req[s].task] = task[req[s].task]
    BY <2>1, <2>2, <2>3 DEF Moved
  <2> QED BY <2>1, <2>4 DEF SawInv
<1>2. CASE s = t
  <2>1. LockTask(t) \/ Validate(t) \/ ShareForCreate(t) \/ ShareForUpdate(t)
    BY <1>2, Own, StartFits DEF CheckMember, Goto, TypeOK
  <2>2. CASE ShareForCreate(t)
    BY <1>2, <2>2 DEF ShareForCreate, ProjectReadable
  <2>3. CASE ShareForUpdate(t)
    BY <1>2, <2>3 DEF ShareForUpdate, tables, TypeOK
  <2>4. CASE LockTask(t) \/ Validate(t)
    BY <1>2, <2>4 DEF LockTask, Validate, SawInv, tables
  <2> QED BY <2>1, <2>2, <2>3, <2>4
<1> QED BY <1>1, <1>2

(***************************************************************************)
(* Responsibility and history                                              *)
(***************************************************************************)
LEMMA ResponsibleStep ==
    ASSUME TypeOK, RequestInv, ValidInv, ResponsibleAreMembers, NEW t \in Requests, StepOf(t)
    PROVE  ResponsibleAreMembers'
<1> SUFFICES ASSUME NEW k \in Tasks, task'[k] # None
             PROVE  task'[k].responsible \subseteq members'
  BY DEF ResponsibleAreMembers
<1>1. CASE RemoveMember(t)
  <2> DEFINE u == req[t].user
  <2>1. members' = members \ {u}
    BY <1>1 DEF RemoveMember
  <2>2. CASE k \in Affected(u)
    <3>1. task[k] \in Task /\ task[k].responsible \subseteq members
      BY <2>2 DEF Affected, ResponsibleAreMembers, TypeOK
    <3>2. task'[k] = [task[k] EXCEPT !.responsible = @ \ {u}, !.version = @ + 1]
      BY <1>1, <2>2, Zenon DEF RemoveMember
    <3>3. task'[k].responsible = task[k].responsible \ {u}
      BY <3>1, <3>2 DEF Task
    <3> QED BY <2>1, <3>1, <3>3
  <2>3. CASE k \notin Affected(u)
    BY <1>1, <2>1, <2>3 DEF RemoveMember, Affected, ResponsibleAreMembers
  <2> QED BY <2>2, <2>3
<1>2. CASE CreateTask(t)
  BY <1>2 DEF CreateTask, ResponsibleAreMembers, ValidInv, TypeOK
<1>3. CASE UpdateTask(t)
  <2>1. req[t].task \in Tasks /\ task[req[t].task] \in Task
    BY <1>3 DEF UpdateTask, RequestInv, Fits, TypeOK
  <2> QED BY <1>3, <2>1 DEF UpdateTask, ResponsibleAreMembers, ValidInv, Task, TypeOK
<1>4. CASE ~RemoveMember(t) /\ UNCHANGED <<task, revision>>
  BY <1>4, Protected DEF ResponsibleAreMembers
<1> QED BY <1>1, <1>2, <1>3, <1>4, TaskSteps

LEMMA FreshStep ==
    ASSUME TypeOK, RequestInv, Fresh, NEW t \in Requests, StepOf(t)
    PROVE  Fresh'
<1> SUFFICES ASSUME NEW k \in Tasks, task'[k] = None PROVE revision'[k] = {}
  BY DEF Fresh
<1>1. task[k] = None /\ revision[k] = {}
  BY TasksMove DEF Fresh, Moved
<1>2. CASE UpdateTask(t)
  <2>1. req[t].task # k
    BY <1>1, <1>2 DEF UpdateTask, RequestInv, Fits
  <2> QED BY <1>1, <1>2, <2>1 DEF UpdateTask, TypeOK
<1> QED BY <1>1, <1>2, TaskSteps DEF RemoveMember, Affected, CreateTask

\* The revisions lead from the first version to this row.
Chain(row, revs) ==
    /\ {r.from : r \in revs} = 1 .. row.version - 1
    /\ \A r \in revs :
        /\ r.from = row.version - 1 => r.new = row.responsible
        /\ \A s \in revs :
            /\ s.from = r.from => s = r
            /\ s.from = r.from + 1 => s.previous = r.new

\* A revision that begins where the last one ended makes the chain longer.
LEMMA Longer ==
    ASSUME NEW row \in Task, NEW revs \in SUBSET Revision, Chain(row, revs),
           NEW next \in Task, next.version = row.version + 1,
           NEW last \in Revision, last.from = row.version,
           last.previous = row.responsible, last.new = next.responsible
    PROVE  Chain(next, revs \cup {last})
<1>1. row.version \in Nat \ {0}
  BY DEF Task
<1>2. \A r \in revs : r.from \in 1 .. row.version - 1
  BY DEF Chain
<1>3. {r.from : r \in revs \cup {last}} = 1 .. next.version - 1
  <2>1. {r.from : r \in revs \cup {last}} = {r.from : r \in revs} \cup {row.version}
    OBVIOUS
  <2>2. (1 .. row.version - 1) \cup {row.version} = 1 .. row.version
    BY <1>1
  <2> QED BY <1>1, <2>1, <2>2 DEF Chain
<1>4. ASSUME NEW r \in revs \cup {last}, r.from = next.version - 1
      PROVE  r.new = next.responsible
  BY <1>1, <1>2, <1>4
<1>5. ASSUME NEW r \in revs \cup {last}, NEW s \in revs \cup {last}
      PROVE  /\ s.from = r.from => s = r
             /\ s.from = r.from + 1 => s.previous = r.new
  <2>1. CASE r \in revs /\ s \in revs
    BY <2>1 DEF Chain
  <2>2. CASE r \in revs /\ s = last
    BY <1>1, <1>2, <2>2 DEF Chain
  <2>3. CASE r = last
    BY <1>1, <1>2, <2>3
  <2> QED BY <2>1, <2>2, <2>3
<1> QED BY <1>3, <1>4, <1>5 DEF Chain

LEMMA RevisionsStep ==
    ASSUME TypeOK, RequestInv, TaskInv, SawInv, Fresh, RevisionsComplete,
           NEW t \in Requests, StepOf(t)
    PROVE  RevisionsComplete'
<1>0. RevisionsComplete <=> \A k \in Tasks : task[k] # None => Chain(task[k], revision[k])
  BY DEF RevisionsComplete, Chain
<1> SUFFICES ASSUME NEW k \in Tasks, task'[k] # None PROVE Chain(task'[k], revision'[k])
  BY DEF RevisionsComplete, Chain
<1>1. /\ task[k] # None => task[k] \in Task /\ Chain(task[k], revision[k])
      /\ revision[k] \in SUBSET Revision
  BY <1>0 DEF TypeOK
<1>2. CASE RemoveMember(t)
  <2> DEFINE u == req[t].user
  <2>1. CASE k \in Affected(u)
    <3> DEFINE next == [task[k] EXCEPT !.responsible = @ \ {u}, !.version = @ + 1]
               last == [from |-> task[k].version, previous |-> task[k].responsible,
                        new |-> task[k].responsible \ {u}]
    <3>1. task'[k] = next /\ revision'[k] = revision[k] \cup {last}
      BY <1>2, <2>1, Zenon DEF RemoveMember
    <3>2. task[k] \in Task /\ Chain(task[k], revision[k])
      BY <1>1, <2>1 DEF Affected
    <3>3. /\ next \in Task /\ next.version = task[k].version + 1
          /\ next.responsible = task[k].responsible \ {u}
      BY <3>2, RowType DEF Task
    <3>4. /\ last \in Revision /\ last.from = task[k].version
          /\ last.previous = task[k].responsible /\ last.new = task[k].responsible \ {u}
      BY <3>2 DEF Task, Revision
    <3>5. last.new = next.responsible
      BY <3>3, <3>4
    <3> HIDE DEF next, last
    <3>6. Chain(next, revision[k] \cup {last})
      BY <1>1, <3>2, <3>3, <3>4, <3>5, Longer
    <3> QED BY <3>1, <3>6
  <2>2. CASE k \notin Affected(u)
    BY <1>1, <1>2, <2>2 DEF RemoveMember
  <2> QED BY <2>1, <2>2
<1>3. CASE CreateTask(t)
  <2>1. CASE task[k] = None
    <3>1. revision'[k] = {} /\ task'[k].version = 1
      BY <1>3, <2>1 DEF CreateTask, Fresh, TypeOK
    <3> QED BY <3>1 DEF Chain
  <2>2. CASE task[k] # None
    BY <1>1, <1>3, <2>2 DEF CreateTask, TypeOK
  <2> QED BY <2>1, <2>2
<1>4. CASE UpdateTask(t)
  <2>1. CASE k = req[t].task
    <3> DEFINE next == [task[k] EXCEPT !.responsible = req[t].responsible, !.version = @ + 1]
               last == [from |-> task[k].version, previous |-> saw[t],
                        new |-> req[t].responsible]
    <3>1. task'[k] = next /\ revision'[k] = revision[k] \cup {last}
      BY <1>4, <2>1 DEF UpdateTask, TypeOK
    <3>2. /\ task[k] \in Task /\ Chain(task[k], revision[k])
          /\ req[t].responsible \in SUBSET Users
      BY <1>1, <1>4, <2>1 DEF UpdateTask, RequestInv, Fits, Req
    <3>3. saw[t] = task[k].responsible
      BY <1>4, <2>1 DEF UpdateTask, TaskInv, SawInv
    <3>4. /\ next \in Task /\ next.version = task[k].version + 1
          /\ next.responsible = req[t].responsible
      BY <3>2, RowType
    <3>5. /\ last \in Revision /\ last.from = task[k].version
          /\ last.previous = task[k].responsible /\ last.new = req[t].responsible
      BY <3>2, <3>3 DEF Task, Revision
    <3> HIDE DEF next, last
    <3> QED BY <1>1, <3>1, <3>2, <3>4, <3>5, Longer
  <2>2. CASE k # req[t].task
    BY <1>1, <1>4, <2>2 DEF UpdateTask, TypeOK
  <2> QED BY <2>1, <2>2
<1>5. CASE UNCHANGED <<task, revision>>
  BY <1>1, <1>5
<1> QED BY <1>2, <1>3, <1>4, <1>5, TaskSteps

LEMMA EligibleStep ==
    ASSUME IInv, NEW t \in Requests, StepOf(t)
    PROVE  /\ members' \ members \subseteq eligible
           /\ \A k \in Tasks : task'[k] # None =>
                (task'[k].responsible \ IF task[k] = None THEN {} ELSE task[k].responsible)
                    \subseteq eligible
<1> USE DEF IInv
<1>1. members' \ members \subseteq eligible
  <2>1. CASE AddMember(t)
    BY <2>1 DEF AddMember, HeldInv
  <2>2. CASE ~AddMember(t)
    BY <2>2, Starts
       DEF StepOf, Cancel, Work, Refuse, UpdateProject, UpdateProjectConflict, ReplaceGeofence,
           ReplaceGeofenceConflict, CheckMember, CheckMemberInvalid, AddMemberConflict,
           RemoveMember, RemoveMemberNotFound, ShareInactive, ShareForCreate, ShareForUpdate,
           UpdateNotFound, LockTask, LockTaskConflict, Validate, ValidateInvalid, CreateTask,
           UpdateTask, Start, tables
  <2> QED BY <2>1, <2>2
<1>2. ASSUME NEW k \in Tasks, task'[k] # None,
             NEW u \in task'[k].responsible, task[k] # None => u \notin task[k].responsible
      PROVE  u \in eligible
  <2>1. CASE RemoveMember(t)
    <3>1. CASE k \in Affected(req[t].user)
      <4>1. task'[k] = [task[k] EXCEPT !.responsible = @ \ {req[t].user}, !.version = @ + 1]
        BY <2>1, <3>1, Zenon DEF RemoveMember
      <4>2. task[k] \in Task /\ task[k] # None
        BY <3>1 DEF Affected, TypeOK
      <4>3. task'[k].responsible = task[k].responsible \ {req[t].user}
        BY <4>1, <4>2 DEF Task
      <4> QED BY <1>2, <4>2, <4>3
    <3>2. CASE k \notin Affected(req[t].user)
      BY <1>2, <2>1, <3>2 DEF RemoveMember
    <3> QED BY <3>1, <3>2
  <2>2. CASE CreateTask(t)
    BY <1>2, <2>2 DEF CreateTask, ValidInv, TypeOK
  <2>3. CASE UpdateTask(t)
    <3>1. req[t].task \in Tasks /\ task[req[t].task] \in Task
      BY <2>3 DEF UpdateTask, RequestInv, Fits, TypeOK
    <3> QED BY <1>2, <2>3, <3>1 DEF UpdateTask, ValidInv, Task, TypeOK
  <2>4. CASE UNCHANGED task
    BY <1>2, <2>4
  <2> QED BY <2>1, <2>2, <2>3, <2>4, TaskSteps
<1> QED BY <1>1, <1>2

(***************************************************************************)
(* The invariant                                                           *)
(***************************************************************************)
\* An account changes only while no transaction holds its row.
LEMMA AccountsStep ==
    ASSUME IInv, NEW u \in Users, ChangeUser(u)
    PROVE  IInv'
<1>1. TypeOK'
  BY TypeStep DEF IInv, Next
<1>2. /\ \A t \in Requests : u \notin userLock[t]
      /\ \A x \in Users : x # u => (x \in eligible' <=> x \in eligible)
      /\ UNCHANGED <<project, members, task, revision, locks, pc, req, saw>>
  BY DEF ChangeUser, IInv, TypeOK
<1>3. RequestInv'
  BY <1>2 DEF IInv, RequestInv, Fits
<1>4. HeldInv'
  <2>1. ASSUME NEW t \in Requests, pc[t] = "insert" PROVE req[t].user \in eligible'
    <3>1. req[t].user \in Users \cap eligible /\ userLock[t] = {req[t].user}
      BY <2>1 DEF IInv, HeldInv, TypeOK
    <3> QED BY <1>2, <3>1
  <2> QED BY <1>2, <2>1 DEF IInv, HeldInv, locks
<1>5. ValidInv'
  <2>1. ASSUME NEW t \in Requests, pc[t] = "write" PROVE req[t].responsible \subseteq eligible'
    <3>1. req[t].responsible \subseteq Users \cap eligible /\ userLock[t] = req[t].responsible
      BY <2>1 DEF IInv, ValidInv, TypeOK
    <3> QED BY <1>2, <3>1
  <2> QED BY <1>2, <2>1 DEF IInv, ValidInv, locks
<1>6. (TaskInv /\ ResponsibleAreMembers /\ Fresh)'
  BY <1>2 DEF IInv, TaskInv, ResponsibleAreMembers, Fresh, locks
<1>7. (Ahead = 0 => SawInv /\ RevisionsComplete)'
  BY <1>2 DEF IInv, SawInv, RevisionsComplete
<1> QED BY <1>1, <1>3, <1>4, <1>5, <1>6, <1>7 DEF IInv

LEMMA InvStep == IInv /\ [Next]_vars => IInv'
<1> SUFFICES ASSUME IInv, [Next]_vars PROVE IInv'
  OBVIOUS
<1>1. TypeOK'
  BY TypeStep DEF IInv
<1>2. ASSUME NEW t \in Requests, StepOf(t) PROVE IInv'
  <2> USE <1>2
  <2>1. (RequestInv /\ HeldInv /\ TaskInv /\ ValidInv)'
    BY RequestStep, HeldStep, TaskInvStep, ValidStep DEF IInv
  <2>2. (ResponsibleAreMembers /\ Fresh)'
    BY ResponsibleStep, FreshStep DEF IInv
  <2>3. (Ahead = 0 => SawInv /\ RevisionsComplete)'
    BY SawStep, RevisionsStep DEF IInv
  <2> QED BY <1>1, <2>1, <2>2, <2>3 DEF IInv
<1>3. CASE UNCHANGED vars
  BY <1>1, <1>3 DEF vars, tables, locks, IInv, RequestInv, Fits, HeldInv, TaskInv, ValidInv,
                    SawInv, Fresh, ResponsibleAreMembers, RevisionsComplete
<1> QED BY <1>2, <1>3, AccountsStep DEF Next, StepOf

\* IInv holds in every state.
THEOREM Invariance == Spec => []IInv
BY InitInv, InvStep, PTL DEF Spec

(***************************************************************************)
(* What follows                                                            *)
(***************************************************************************)
\* Every variable keeps its type.
THEOREM TypeCorrect == Spec => []TypeOK
<1>1. IInv => TypeOK
  BY DEF IInv
<1> QED BY <1>1, Invariance, PTL

\* Only members are responsible for a task, however removals and task writes
\* interleave (the project lock, and the clearing in RemoveMember).
THEOREM MembersSafe == Spec => []ResponsibleAreMembers
<1>1. IInv => ResponsibleAreMembers
  BY DEF IInv
<1> QED BY <1>1, Invariance, PTL

\* The revisions of a task lead from its first version to its row, if clients
\* name versions that they were shown.
THEOREM HistorySafe == Spec => [](Ahead = 0 => RevisionsComplete)
<1>1. IInv => (Ahead = 0 => RevisionsComplete)
  BY DEF IInv
<1> QED BY <1>1, Invariance, PTL

\* UpdateTask commits on the version that its request named.
THEOREM UpdatesSafe == Spec => NoLostUpdate
<1>1. IInv => \A t \in Requests : UpdateTask(t) => task[req[t].task].version = req[t].expected
  BY DEF IInv, TaskInv, UpdateTask
<1> QED BY <1>1, Invariance, PTL DEF NoLostUpdate

\* No task is created or edited while the project is inactive: the lock of a
\* task write keeps UpdateProject out until it ends.
THEOREM ReadOnlySafe == Spec => InactiveIsReadOnly
<1>1. IInv /\ [Next]_vars =>
          (~project.active => \A k \in Tasks : task'[k] # task[k] => members' # members)
  <2> SUFFICES ASSUME IInv, [Next]_vars, ~project.active, NEW k \in Tasks, task'[k] # task[k]
               PROVE  members' # members
    OBVIOUS
  <2>1. PICK t \in Requests : StepOf(t)
    BY DEF Next, StepOf, ChangeUser, vars, tables
  <2>2. RemoveMember(t) \/ CreateTask(t) \/ UpdateTask(t)
    BY <2>1, TaskSteps
  <2>3. CASE RemoveMember(t)
    BY <2>3 DEF RemoveMember
  <2>4. CASE CreateTask(t) \/ UpdateTask(t)
    BY <2>4 DEF CreateTask, UpdateTask, IInv, HeldInv
  <2> QED BY <2>2, <2>3, <2>4
<1> QED BY <1>1, Invariance, PTL DEF Spec, InactiveIsReadOnly

\* Who becomes a member or responsible is an enabled Member at that moment: the
\* locks on the users rows keep ChangeUser out.
THEOREM EligibleSafe == Spec => AssignedAreEligible
<1>1. IInv /\ [Next]_vars =>
          /\ members' \ members \subseteq eligible
          /\ \A k \in Tasks : task'[k] # None =>
               (task'[k].responsible \ IF task[k] = None THEN {} ELSE task[k].responsible)
                   \subseteq eligible
  <2> SUFFICES ASSUME IInv, [Next]_vars
               PROVE  /\ members' \ members \subseteq eligible
                      /\ \A k \in Tasks : task'[k] # None =>
                           (task'[k].responsible
                               \ IF task[k] = None THEN {} ELSE task[k].responsible)
                                   \subseteq eligible
    OBVIOUS
  <2>1. CASE \E t \in Requests : StepOf(t)
    BY <2>1, EligibleStep
  <2>2. CASE UNCHANGED <<members, task>>
    BY <2>2
  <2> QED BY <2>1, <2>2 DEF Next, StepOf, ChangeUser, vars, tables
<1> QED BY <1>1, Invariance, PTL DEF Spec, AssignedAreEligible

=============================================================================
