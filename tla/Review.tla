------------------------------- MODULE Review -------------------------------
(***************************************************************************)
(* The review of one task, internal/progress and internal/projects over    *)
(* PostgreSQL: comments on its progress updates, accepted suggestions and  *)
(* assessments, all of them append-only.                                   *)
(*                                                                         *)
(* Every request locks the project FOR SHARE, then the task: FOR SHARE to  *)
(* comment or accept, FOR UPDATE to assess.  An acceptance then locks its  *)
(* comment.  A request begins with the snapshot of its first statement; if *)
(* that does not show its actor's right it ends there and changes nothing. *)
(***************************************************************************)
EXTENDS Integers, FiniteSets

CONSTANTS
    Users,       \* accounts with the role member
    Admins,
    Ids,         \* ids of comments
    Verdicts,
    Requests,    \* request handlers that run at the same time
    None,
    MaxVersion   \* bound: no assessment starts when there are so many

VARIABLES
    active,      \* the project is active
    members,     \* users with an open membership
    author,      \* update_comments, by author
    acceptor,    \* accepted_suggestions, by comment
    events,      \* the number of audit events suggestion.accepted of a comment
    assessments, \* task_assessments of the task
    shared,      \* requests that hold the project FOR SHARE
    taskShared,  \* requests that hold the task FOR SHARE
    taskLock,    \* the request that holds it FOR UPDATE
    commentLock, \* the request that holds a comment FOR UPDATE
    pc,
    req

project == <<active, members>>
tables == <<author, acceptor, events, assessments>>
locks == <<shared, taskShared, taskLock, commentLock>>
vars == <<project, tables, locks, pc, req>>

Actors == Users \cup Admins
Assessment == [version : Nat \ {0}, verdict : Verdicts, by : Admins]
Kinds == {"comment", "accept", "assess"}
Req == [kind : Kinds, actor : Actors,
        comment : Ids \cup {None},                          \* of "accept"
        verdict : Verdicts \cup {None}, expected : Nat]     \* of "assess"
Labels == {"idle", "project", "task", "comment", "find", "version", "insert"}

ASSUME ReviewAssumption ==
    /\ Users \cap Admins = {}
    /\ None \notin Actors /\ None \notin Ids /\ None \notin Requests /\ None \notin Req
    /\ MaxVersion \in Nat

Init ==
    /\ active = TRUE /\ members = Users
    /\ author = [i \in Ids |-> None]
    /\ acceptor = [i \in Ids |-> None]
    /\ events = [i \in Ids |-> 0]
    /\ assessments = {}
    /\ shared = {} /\ taskShared = {} /\ taskLock = None
    /\ commentLock = [i \in Ids |-> None]
    /\ pc = [t \in Requests |-> "idle"]
    /\ req = [t \in Requests |-> None]

Goto(t, label) == pc' = [pc EXCEPT ![t] = label]

\* The request ends, its transaction with it.
End(t) ==
    /\ Goto(t, "idle")
    /\ req' = [req EXCEPT ![t] = None]
    /\ shared' = shared \ {t} /\ taskShared' = taskShared \ {t}
    /\ taskLock' = IF taskLock = t THEN None ELSE taskLock
    /\ commentLock' = [i \in Ids |-> IF commentLock[i] = t THEN None ELSE commentLock[i]]

\* It ends and leaves the tables alone.
Refuse(t) == End(t) /\ UNCHANGED <<project, tables>>

(***************************************************************************)
(* Requests                                                                *)
(***************************************************************************)
Start(t, r) ==
    /\ pc[t] = "idle"
    /\ req' = [req EXCEPT ![t] = r]
    /\ Goto(t, "project")
    /\ UNCHANGED <<project, tables, locks>>

StartComment(t) ==
    \E actor \in members \cup Admins :
        Start(t, [kind |-> "comment", actor |-> actor,
                  comment |-> None, verdict |-> None, expected |-> 0])

\* Clients may name comments that do not exist.
StartAccept(t) ==
    \E actor \in Admins, i \in Ids :
        Start(t, [kind |-> "accept", actor |-> actor,
                  comment |-> i, verdict |-> None, expected |-> 0])

\* The current version; rows are never deleted and start at 1.
CurrentVersion == Cardinality({a.version : a \in assessments})

\* An assessment names the version that its author was shown, perhaps long ago.
StartAssess(t) ==
    \E actor \in Admins, verdict \in Verdicts, expected \in 0 .. CurrentVersion :
        /\ CurrentVersion < MaxVersion
        /\ Start(t, [kind |-> "assess", actor |-> actor,
                     comment |-> None, verdict |-> verdict, expected |-> expected])

(***************************************************************************)
(* lockAuthorizedTask, lockAuthorizedProject and requireScopedTask         *)
(***************************************************************************)
\* Mutant: SetAssessment uses lockAuthorizedTask, which locks the task as well.
ShareProjectAndTask(t) ==
    /\ pc[t] = "project"
    /\ active
    /\ shared' = shared \cup {t}
    /\ taskShared' = IF req[t].kind = "assess" THEN taskShared \cup {t} ELSE taskShared
    /\ Goto(t, "task")
    /\ UNCHANGED <<project, tables, taskLock, commentLock, req>>

\* Who holds the project FOR UPDATE waits for none of these requests, so that
\* UpdateProject and ChangeMember are one step each.
ShareProject(t) ==
    /\ pc[t] = "project"
    /\ active
    /\ shared' = shared \cup {t}
    /\ Goto(t, "task")
    /\ UNCHANGED <<project, tables, taskShared, taskLock, commentLock, req>>

Inactive(t) ==
    /\ pc[t] = "project"
    /\ ~active
    /\ Refuse(t)

ShareTask(t) ==
    /\ pc[t] = "task" /\ req[t].kind \in {"comment", "accept"}
    /\ taskLock = None
    /\ taskShared' = taskShared \cup {t}
    /\ Goto(t, IF req[t].kind = "comment" THEN "insert" ELSE "comment")
    /\ UNCHANGED <<project, tables, shared, taskLock, commentLock, req>>

\* Mutant: requireScopedTask without FOR UPDATE.
LockTaskNot(t) ==
    /\ pc[t] = "task" /\ req[t].kind = "assess"
    /\ Goto(t, "version")
    /\ UNCHANGED <<project, tables, locks, req>>

LockTask(t) ==
    /\ pc[t] = "task" /\ req[t].kind = "assess"
    /\ taskLock = None /\ taskShared \subseteq {t}
    /\ taskLock' = t
    /\ Goto(t, "version")
    /\ UNCHANGED <<project, tables, shared, taskShared, commentLock, req>>

(***************************************************************************)
(* CreateComment and AcceptSuggestion                                      *)
(***************************************************************************)
CreateComment(t) ==
    /\ pc[t] = "insert" /\ req[t].kind = "comment"
    /\ \E i \in Ids :
        /\ author[i] = None
        /\ author' = [author EXCEPT ![i] = req[t].actor]
    /\ End(t)
    /\ UNCHANGED <<project, acceptor, events, assessments>>

\* Mutant: the comment is read without FOR UPDATE.
LockCommentNot(t) ==
    /\ pc[t] = "comment"
    /\ author[req[t].comment] # None
    /\ Goto(t, "find")
    /\ UNCHANGED <<project, tables, locks, req>>

LockComment(t) ==
    /\ pc[t] = "comment"
    /\ author[req[t].comment] # None
    /\ commentLock[req[t].comment] = None
    /\ commentLock' = [commentLock EXCEPT ![req[t].comment] = t]
    /\ Goto(t, "find")
    /\ UNCHANGED <<project, tables, shared, taskShared, taskLock, req>>

CommentNotFound(t) ==
    /\ pc[t] = "comment"
    /\ author[req[t].comment] = None
    /\ Refuse(t)

\* Mutant: the audit event is appended whether or not the acceptance is new.
AlreadyAcceptedAudits(t) ==
    /\ pc[t] = "find"
    /\ acceptor[req[t].comment] # None
    /\ events' = [events EXCEPT ![req[t].comment] = @ + 1]
    /\ End(t)
    /\ UNCHANGED <<project, author, acceptor, assessments>>

\* A retry, or another Admin was first: the answer is the existing acceptance.
AlreadyAccepted(t) ==
    /\ pc[t] = "find"
    /\ acceptor[req[t].comment] # None
    /\ Refuse(t)

NotAccepted(t) ==
    /\ pc[t] = "find"
    /\ acceptor[req[t].comment] = None
    /\ Goto(t, "insert")
    /\ UNCHANGED <<project, tables, locks, req>>

\* That comment_id is unique is never an obstacle, by InsertsSucceed.
AcceptSuggestion(t) ==
    /\ pc[t] = "insert" /\ req[t].kind = "accept"
    /\ acceptor' = [acceptor EXCEPT ![req[t].comment] = req[t].actor]
    /\ events' = [events EXCEPT ![req[t].comment] = @ + 1]
    /\ End(t)
    /\ UNCHANGED <<project, author, assessments>>

(***************************************************************************)
(* CreateAssessment                                                        *)
(***************************************************************************)
VersionExpected(t) ==
    /\ pc[t] = "version"
    /\ CurrentVersion = req[t].expected
    /\ Goto(t, "insert")
    /\ UNCHANGED <<project, tables, locks, req>>

VersionConflict(t) ==
    /\ pc[t] = "version"
    /\ CurrentVersion # req[t].expected
    /\ Refuse(t)

CreateAssessment(t) ==
    /\ pc[t] = "insert" /\ req[t].kind = "assess"
    /\ assessments' = assessments \cup
           {[version |-> req[t].expected + 1, verdict |-> req[t].verdict, by |-> req[t].actor]}
    /\ End(t)
    /\ UNCHANGED <<project, author, acceptor, events>>

\* The client goes away, the database fails or the process stops.
Cancel(t) == pc[t] # "idle" /\ Refuse(t)

(***************************************************************************)
(* internal/projects: transactions that hold the project FOR UPDATE        *)
(***************************************************************************)
UpdateProject ==
    /\ shared = {}
    /\ active' = ~active
    /\ UNCHANGED <<members, tables, locks, pc, req>>

\* RemoveMember locks tasks too: they are free, for who holds one holds the project.
ChangeMember(u) ==
    /\ shared = {}
    /\ members' = IF u \in members THEN members \ {u} ELSE members \cup {u}
    /\ UNCHANGED <<active, tables, locks, pc, req>>

Work(t) ==
    \/ ShareProject(t) \/ Inactive(t) \/ ShareTask(t) \/ LockTask(t)
    \/ LockComment(t) \/ CommentNotFound(t) \/ AlreadyAccepted(t) \/ NotAccepted(t)
    \/ VersionExpected(t) \/ VersionConflict(t)
    \/ CreateComment(t) \/ AcceptSuggestion(t) \/ CreateAssessment(t)

Next ==
    \/ \E t \in Requests :
        StartComment(t) \/ StartAccept(t) \/ StartAssess(t) \/ Work(t) \/ Cancel(t)
    \/ UpdateProject
    \/ \E u \in Users : ChangeMember(u)

Spec == Init /\ [][Next]_vars

(***************************************************************************)
(* Properties                                                              *)
(***************************************************************************)
\* Types of the variables.
TypeOK ==
    /\ active \in BOOLEAN /\ members \subseteq Users
    /\ author \in [Ids -> Actors \cup {None}]
    /\ acceptor \in [Ids -> Admins \cup {None}]
    /\ events \in [Ids -> Nat]
    /\ assessments \subseteq Assessment
    /\ shared \subseteq Requests /\ taskShared \subseteq Requests
    /\ taskLock \in Requests \cup {None}
    /\ commentLock \in [Ids -> Requests \cup {None}]
    /\ pc \in [Requests -> Labels]
    /\ req \in [Requests -> Req \cup {None}]

\* Acceptance is idempotent: however many Admins accept a comment and repeat it,
\* the audit history has one event, of a comment that exists.
AcceptedOnce ==
    \A i \in Ids :
        /\ events[i] = (IF acceptor[i] = None THEN 0 ELSE 1)
        /\ acceptor[i] # None => author[i] # None

\* A request that reaches its insert meets no violation of a unique constraint,
\* which clients would see as an internal error where a conflict, or the
\* existing acceptance, is promised.
InsertsSucceed ==
    \A t \in Requests : pc[t] = "insert" =>
        /\ req[t].kind = "accept" => acceptor[req[t].comment] = None
        /\ req[t].kind = "assess" => \A a \in assessments : a.version # req[t].expected + 1

\* Assessments that were based on the same version do not both take effect: at
\* its commit an assessment replaces the very one that its author was shown.
NoLostAssessment ==
    [][\A t \in Requests : CreateAssessment(t) => CurrentVersion = req[t].expected]_vars

\* While the project is inactive the review does not change, not even by a
\* request that began before.
InactiveIsReadOnly == [][~active => UNCHANGED tables]_vars

\* The requests that t waits for.
Blockers(t) ==
    CASE pc[t] = "task" /\ req[t].kind = "assess" -> ({taskLock} \cup taskShared) \ {None, t}
      [] pc[t] = "task" /\ req[t].kind # "assess" -> {taskLock} \ {None}
      [] pc[t] = "comment" -> {commentLock[req[t].comment]} \ {None}
      [] OTHER -> {}

\* Project, task and comment are locked in an order that leaves no set of
\* requests waiting for each other.
NoDeadlock ==
    \A S \in (SUBSET Requests) \ {{}} : \E t \in S : Blockers(t) \cap S = {}
=============================================================================
