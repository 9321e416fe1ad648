---------------------------- MODULE ReviewProofs ----------------------------
(***************************************************************************)
(* Proofs about Review: for any number of comments, accounts, requests and *)
(* assessments.                                                            *)
(***************************************************************************)
EXTENDS Review, FiniteSetTheorems, TLAPS

(***************************************************************************)
(* The inductive invariant                                                 *)
(***************************************************************************)
\* A request is at a label of its kind.
Fits(r, label) ==
    /\ r \in Req
    /\ label \in {"comment", "find"} => r.kind = "accept"
    /\ label = "version" => r.kind = "assess"
    /\ r.kind = "accept" => r.comment \in Ids /\ r.actor \in Admins
    /\ r.kind = "assess" => r.verdict \in Verdicts /\ r.actor \in Admins

RequestInv == \A t \in Requests : pc[t] # "idle" => Fits(req[t], pc[t])

\* The project stays active while it is held FOR SHARE.
SharedInv ==
    \A t \in Requests : pc[t] \in {"task", "comment", "find", "version", "insert"} => t \in shared

ActiveInv == shared # {} => active

\* Where a request is that holds a lock on the task or on a comment.
HolderInv ==
    /\ \A t \in taskShared : pc[t] \in {"comment", "find", "insert"}
    /\ taskLock # None => pc[taskLock] \in {"version", "insert"}
    /\ \A i \in Ids : commentLock[i] # None => pc[commentLock[i]] \in {"find", "insert"}

\* An acceptance past its locks has its comment to itself, and so knows that it
\* is the first.
AcceptInv ==
    \A t \in Requests : pc[t] \in {"find", "insert"} /\ req[t].kind = "accept" =>
        /\ commentLock[req[t].comment] = t
        /\ author[req[t].comment] # None
        /\ pc[t] = "insert" => acceptor[req[t].comment] = None

\* An assessment past its locks has the task to itself.
AssessInv ==
    \A t \in Requests : pc[t] \in {"version", "insert"} /\ req[t].kind = "assess" =>
        /\ taskLock = t
        /\ pc[t] = "insert" => CurrentVersion = req[t].expected

Versions == {a.version : a \in assessments}

\* Assessments are numbered without a gap.
NumberInv == \E n \in Nat : Versions = 1 .. n

IndInv ==
    /\ TypeOK /\ RequestInv /\ SharedInv /\ ActiveInv /\ HolderInv
    /\ AcceptInv /\ AssessInv /\ NumberInv /\ AcceptedOnce

(***************************************************************************)
(* Lemmas                                                                  *)
(***************************************************************************)
USE ReviewAssumption

LEMMA CurrentIsLast ==
    ASSUME NumberInv
    PROVE  CurrentVersion \in Nat /\ Versions = 1 .. CurrentVersion
<1>1. PICK n \in Nat : Versions = 1 .. n
  BY DEF NumberInv
<1>2. Cardinality(1 .. n) = n
  BY FS_Interval
<1>3. CurrentVersion = n
  BY <1>1, <1>2 DEF CurrentVersion, Versions
<1> QED BY <1>1, <1>3

LEMMA InitInv == Init => IndInv
<1> SUFFICES ASSUME Init PROVE IndInv
  OBVIOUS
<1>1. NumberInv
  <2>1. Versions = 1 .. 0
    BY DEF Init, Versions
  <2> QED BY <2>1 DEF NumberInv
<1> QED
  BY <1>1 DEF Init, IndInv, TypeOK, RequestInv, SharedInv, ActiveInv, HolderInv, AcceptInv,
     AssessInv, AcceptedOnce, Labels

\* The rest of the state, all that the end of a request touches.
RestOK ==
    /\ shared \subseteq Requests /\ taskShared \subseteq Requests
    /\ taskLock \in Requests \cup {None}
    /\ commentLock \in [Ids -> Requests \cup {None}]
    /\ pc \in [Requests -> Labels]
    /\ req \in [Requests -> Req \cup {None}]

LEMMA EndType ==
    ASSUME TypeOK, NEW t \in Requests, End(t)
    PROVE  RestOK'
BY DEF TypeOK, RestOK, End, Goto, Labels

LEMMA StartType ==
    ASSUME TypeOK, NEW t \in Requests, NEW r \in Req, Start(t, r)
    PROVE  TypeOK'
BY DEF TypeOK, Start, Goto, Labels, project, tables, locks

\* What the starts ask for is a request.
LEMMA Starts ==
    ASSUME TypeOK, NumberInv, NEW t \in Requests,
           StartComment(t) \/ StartAccept(t) \/ StartAssess(t)
    PROVE  \E r \in Req : Fits(r, "project") /\ Start(t, r)
<1>1. CASE StartComment(t)
  BY <1>1 DEF StartComment, Req, Kinds, Actors, Fits, TypeOK
<1>2. CASE StartAccept(t)
  BY <1>2 DEF StartAccept, Req, Kinds, Actors, Fits
<1>3. CASE StartAssess(t)
  BY <1>3, CurrentIsLast DEF StartAssess, Req, Kinds, Actors, Fits
<1> QED BY <1>1, <1>2, <1>3

LEMMA TypeStep == TypeOK /\ RequestInv /\ NumberInv /\ [Next]_vars => TypeOK'
<1> SUFFICES ASSUME TypeOK, RequestInv, NumberInv, [Next]_vars PROVE TypeOK'
  OBVIOUS
<1>1. ASSUME NEW t \in Requests, StartComment(t) \/ StartAccept(t) \/ StartAssess(t) PROVE TypeOK'
  BY <1>1, Starts, StartType
<1>2. ASSUME NEW t \in Requests, Refuse(t) PROVE TypeOK'
  BY <1>2, EndType DEF TypeOK, RestOK, Refuse, project, tables
<1>3. ASSUME NEW t \in Requests,
             ShareProject(t) \/ ShareTask(t) \/ LockTask(t) \/ LockComment(t) \/ NotAccepted(t)
             \/ VersionExpected(t)
      PROVE  TypeOK'
  BY <1>3 DEF ShareProject, ShareTask, LockTask, LockComment, NotAccepted, VersionExpected, Goto,
     TypeOK, Labels, project, tables, locks
<1>4. ASSUME NEW t \in Requests, CreateComment(t) PROVE TypeOK'
  <2>1. req[t].actor \in Actors
    BY <1>4 DEF CreateComment, RequestInv, Fits, Req
  <2>2. author' \in [Ids -> Actors \cup {None}]
    BY <1>4, <2>1 DEF CreateComment, TypeOK
  <2> QED BY <1>4, <2>2, EndType DEF CreateComment, TypeOK, RestOK, project
<1>5. ASSUME NEW t \in Requests, AcceptSuggestion(t) PROVE TypeOK'
  <2>1. req[t].actor \in Admins /\ req[t].comment \in Ids
    BY <1>5 DEF AcceptSuggestion, RequestInv, Fits
  <2>2. acceptor' \in [Ids -> Admins \cup {None}] /\ events' \in [Ids -> Nat]
    BY <1>5, <2>1 DEF AcceptSuggestion, TypeOK
  <2> QED BY <1>5, <2>2, EndType DEF AcceptSuggestion, TypeOK, RestOK, project
<1>6. ASSUME NEW t \in Requests, CreateAssessment(t) PROVE TypeOK'
  <2>1. [version |-> req[t].expected + 1, verdict |-> req[t].verdict, by |-> req[t].actor]
            \in Assessment
    BY <1>6 DEF CreateAssessment, RequestInv, Fits, Req, Assessment
  <2>2. assessments' \subseteq Assessment
    BY <1>6, <2>1 DEF CreateAssessment, TypeOK
  <2> QED BY <1>6, <2>2, EndType DEF CreateAssessment, TypeOK, RestOK, project
<1>7. CASE UpdateProject \/ (\E u \in Users : ChangeMember(u)) \/ UNCHANGED vars
  BY <1>7 DEF UpdateProject, ChangeMember, vars, TypeOK, tables, locks, project
<1> QED
  BY <1>1, <1>2, <1>3, <1>4, <1>5, <1>6, <1>7
  DEF Next, Work, Inactive, CommentNotFound, AlreadyAccepted, VersionConflict, Cancel

\* What a step does to the request of t when it is not the end of it.
LEMMA Steps ==
    ASSUME TypeOK, NumberInv, [Next]_vars, NEW t \in Requests
    PROVE  \/ pc'[t] = "idle" /\ End(t)
           \/ \E r \in Req : Fits(r, "project") /\ Start(t, r)
           \/ ShareProject(t) \/ ShareTask(t) \/ LockTask(t) \/ LockComment(t)
           \/ NotAccepted(t) \/ VersionExpected(t)
           \/ pc'[t] = pc[t] /\ req'[t] = req[t] /\ (t \in shared' <=> t \in shared)
<1> USE DEF TypeOK, locks
<1> DEFINE Other == pc'[t] = pc[t] /\ req'[t] = req[t] /\ (t \in shared' <=> t \in shared)
<1>1. ASSUME NEW s \in Requests, s # t, StartComment(s) \/ StartAccept(s) \/ StartAssess(s)
      PROVE  Other
  <2>1. PICK r \in Req : Start(s, r)
    BY <1>1, Starts
  <2> QED BY <1>1, <2>1 DEF Start, Goto
<1>2. ASSUME NEW s \in Requests, End(s) PROVE Other \/ (pc'[t] = "idle" /\ End(t))
  BY <1>2 DEF End, Goto
<1>3. ASSUME NEW s \in Requests, s # t,
             ShareProject(s) \/ ShareTask(s) \/ LockTask(s) \/ LockComment(s) \/ NotAccepted(s)
             \/ VersionExpected(s)
      PROVE  Other
  BY <1>3 DEF ShareProject, ShareTask, LockTask, LockComment, NotAccepted, VersionExpected, Goto
<1>4. CASE UpdateProject \/ (\E u \in Users : ChangeMember(u)) \/ UNCHANGED vars
  BY <1>4 DEF UpdateProject, ChangeMember, vars
<1> QED
  BY <1>1, <1>2, <1>3, <1>4, Starts
  DEF Next, Work, Refuse, Inactive, CommentNotFound, AlreadyAccepted, VersionConflict, Cancel,
      CreateComment, AcceptSuggestion, CreateAssessment

\* The steps that change the tables.
LEMMA Writes ==
    ASSUME [Next]_vars, ~UNCHANGED tables
    PROVE  \E t \in Requests : CreateComment(t) \/ AcceptSuggestion(t) \/ CreateAssessment(t)
BY DEF Next, Work, Refuse, StartComment, StartAccept, StartAssess, Start, ShareProject, Inactive,
   ShareTask, LockTask, LockComment, CommentNotFound, AlreadyAccepted, NotAccepted,
   VersionExpected, VersionConflict, Cancel, UpdateProject, ChangeMember, vars, tables

LEMMA RequestStep == IndInv /\ [Next]_vars => RequestInv'
<1> SUFFICES ASSUME IndInv, [Next]_vars, NEW t \in Requests, pc'[t] # "idle"
             PROVE  Fits(req[t], pc[t])'
  BY DEF RequestInv
<1> USE DEF IndInv, TypeOK, RequestInv, Fits, Goto
<1>1. CASE \E r \in Req : Fits(r, "project") /\ Start(t, r)
  BY <1>1 DEF Start
<1>2. CASE ShareProject(t) \/ ShareTask(t) \/ LockTask(t) \/ LockComment(t)
           \/ NotAccepted(t) \/ VersionExpected(t)
  BY <1>2 DEF ShareProject, ShareTask, LockTask, LockComment, NotAccepted, VersionExpected
<1>3. CASE pc'[t] = pc[t] /\ req'[t] = req[t]
  BY <1>3
<1> QED BY <1>1, <1>2, <1>3, Steps

LEMMA SharedStep == IndInv /\ [Next]_vars => SharedInv'
<1> SUFFICES ASSUME IndInv, [Next]_vars, NEW t \in Requests,
                    pc'[t] \in {"task", "comment", "find", "version", "insert"}
             PROVE  t \in shared'
  BY DEF SharedInv
<1> USE DEF IndInv, TypeOK, SharedInv, locks, Goto
<1>1. CASE \E r \in Req : Fits(r, "project") /\ Start(t, r)
  BY <1>1 DEF Start
<1>2. CASE ShareProject(t) \/ ShareTask(t) \/ LockTask(t) \/ LockComment(t)
           \/ NotAccepted(t) \/ VersionExpected(t)
  BY <1>2 DEF ShareProject, ShareTask, LockTask, LockComment, NotAccepted, VersionExpected
<1> QED BY <1>1, <1>2, Steps

LEMMA ActiveStep == IndInv /\ [Next]_vars => ActiveInv'
<1> SUFFICES ASSUME IndInv, [Next]_vars PROVE ActiveInv'
  OBVIOUS
<1> USE DEF IndInv, ActiveInv, locks, project
<1>1. ASSUME NEW t \in Requests, ShareProject(t) PROVE ActiveInv'
  BY <1>1 DEF ShareProject
<1>2. ASSUME NEW t \in Requests, End(t), UNCHANGED project PROVE ActiveInv'
  BY <1>2 DEF End
<1>3. CASE UpdateProject
  BY <1>3 DEF UpdateProject
<1>4. CASE UNCHANGED <<active, shared>>
  BY <1>4
<1> QED
  BY <1>1, <1>2, <1>3, <1>4
  DEF Next, Work, Refuse, StartComment, StartAccept, StartAssess, Start, Inactive, ShareTask,
      LockTask, LockComment, CommentNotFound, AlreadyAccepted, NotAccepted, VersionExpected,
      VersionConflict, CreateComment, AcceptSuggestion, CreateAssessment, Cancel, ChangeMember, vars
LEMMA HolderStep == IndInv /\ [Next]_vars => HolderInv'
<1> SUFFICES ASSUME IndInv, [Next]_vars PROVE HolderInv'
  OBVIOUS
<1> USE DEF IndInv, TypeOK, HolderInv, locks, Goto
<1>1. ASSUME NEW t \in Requests, End(t) PROVE HolderInv'
  BY <1>1 DEF End
<1>2. ASSUME NEW t \in Requests, NEW r \in Req, Start(t, r) PROVE HolderInv'
  BY <1>2 DEF Start
<1>3. ASSUME NEW t \in Requests, ShareProject(t) PROVE HolderInv'
  BY <1>3 DEF ShareProject
<1>4. ASSUME NEW t \in Requests, ShareTask(t) PROVE HolderInv'
  BY <1>4 DEF ShareTask
<1>5. ASSUME NEW t \in Requests, LockTask(t) PROVE HolderInv'
  BY <1>5 DEF LockTask
<1>6. ASSUME NEW t \in Requests, LockComment(t) PROVE HolderInv'
  BY <1>6 DEF LockComment
<1>7. ASSUME NEW t \in Requests, NotAccepted(t) \/ VersionExpected(t) PROVE HolderInv'
  BY <1>7 DEF NotAccepted, VersionExpected
<1>8. CASE UNCHANGED <<locks, pc>>
  BY <1>8
<1> QED
  BY <1>1, <1>2, <1>3, <1>4, <1>5, <1>6, <1>7, <1>8, Starts
  DEF Next, Work, Refuse, Inactive, CommentNotFound, AlreadyAccepted, VersionConflict, Cancel,
      CreateComment, AcceptSuggestion, CreateAssessment, UpdateProject, ChangeMember, vars

\* Only their holder lets go of the task and of comments.
LEMMA LocksKept ==
    ASSUME TypeOK, NumberInv, [Next]_vars, NEW t \in Requests, pc'[t] # "idle"
    PROVE  /\ taskLock = t => taskLock' = t
           /\ \A i \in Ids : commentLock[i] = t => commentLock'[i] = t
<1> DEFINE Kept == /\ taskLock = t => taskLock' = t
                   /\ \A i \in Ids : commentLock[i] = t => commentLock'[i] = t
<1> USE DEF TypeOK, locks
<1>1. ASSUME NEW s \in Requests, End(s) PROVE Kept
  BY <1>1 DEF End, Goto
<1>2. ASSUME NEW s \in Requests, LockTask(s) PROVE Kept
  BY <1>2 DEF LockTask
<1>3. ASSUME NEW s \in Requests, LockComment(s) PROVE Kept
  BY <1>3 DEF LockComment
<1>4. CASE UNCHANGED <<taskLock, commentLock>>
  BY <1>4
<1> QED
  BY <1>1, <1>2, <1>3, <1>4
  DEF Next, Work, Refuse, StartComment, StartAccept, StartAssess, Start, ShareProject, Inactive,
      ShareTask, CommentNotFound, AlreadyAccepted, NotAccepted, VersionExpected, VersionConflict,
      CreateComment, AcceptSuggestion, CreateAssessment, Cancel, UpdateProject, ChangeMember, vars

\* Comments are never removed, and accepted only by who has locked them.
LEMMA CommentsKept ==
    ASSUME IndInv, [Next]_vars, NEW i \in Ids
    PROVE  /\ author[i] # None => author'[i] = author[i]
           /\ acceptor'[i] # acceptor[i] =>
                  \E s \in Requests : /\ AcceptSuggestion(s) /\ commentLock[i] = s
                                      /\ req[s].comment = i
<1> USE DEF IndInv, TypeOK
<1>1. CASE UNCHANGED tables
  BY <1>1 DEF tables
<1>2. ASSUME NEW s \in Requests, CreateComment(s)
      PROVE  acceptor' = acceptor /\ (author[i] # None => author'[i] = author[i])
  BY <1>2 DEF CreateComment
<1>3. ASSUME NEW s \in Requests, AcceptSuggestion(s)
      PROVE  /\ author' = author
             /\ acceptor'[i] # acceptor[i] => commentLock[i] = s /\ req[s].comment = i
  BY <1>3 DEF AcceptSuggestion, AcceptInv
<1>4. ASSUME NEW s \in Requests, CreateAssessment(s)
      PROVE  acceptor' = acceptor /\ author' = author
  BY <1>4 DEF CreateAssessment
<1> QED BY <1>1, <1>2, <1>3, <1>4, Writes

LEMMA AcceptStep == IndInv /\ [Next]_vars => AcceptInv'
<1> SUFFICES ASSUME IndInv, [Next]_vars, NEW t \in Requests,
                    pc'[t] \in {"find", "insert"}, req'[t].kind = "accept"
             PROVE  /\ commentLock'[req'[t].comment] = t
                    /\ author'[req'[t].comment] # None
                    /\ pc'[t] = "insert" => acceptor'[req'[t].comment] = None
  BY DEF AcceptInv
<1>1. TypeOK /\ RequestInv /\ AcceptInv /\ NumberInv
  BY DEF IndInv
<1>2. CASE \E r \in Req : Fits(r, "project") /\ Start(t, r)
  BY <1>1, <1>2 DEF Start, Goto, TypeOK
<1>3. CASE ShareProject(t) \/ ShareTask(t) \/ LockTask(t) \/ VersionExpected(t)
  BY <1>1, <1>3
  DEF ShareProject, ShareTask, LockTask, VersionExpected, Goto, TypeOK, RequestInv, Fits
<1>4. CASE LockComment(t)
  BY <1>1, <1>4 DEF LockComment, Goto, TypeOK, RequestInv, Fits, tables
<1>5. CASE NotAccepted(t)
  BY <1>1, <1>5 DEF NotAccepted, Goto, TypeOK, AcceptInv, tables, locks
<1>6. CASE pc'[t] = pc[t] /\ req'[t] = req[t]
  <2> DEFINE i == req[t].comment
  <2>1. i \in Ids /\ commentLock[i] = t /\ author[i] # None
        /\ (pc[t] = "insert" => acceptor[i] = None)
    BY <1>1, <1>6 DEF RequestInv, Fits, AcceptInv
  <2>2. commentLock'[i] = t
    BY <1>1, <1>6, <2>1, LocksKept
  <2>3. acceptor'[i] = acceptor[i]
    <3> SUFFICES ASSUME NEW s \in Requests, AcceptSuggestion(s), s = t PROVE FALSE
      BY <2>1, CommentsKept
    <3> QED BY <1>1, <1>6 DEF AcceptSuggestion, End, Goto, TypeOK
  <2> QED BY <1>6, <2>1, <2>2, <2>3, CommentsKept
<1> QED BY <1>1, <1>2, <1>3, <1>4, <1>5, <1>6, Steps

LEMMA AssessStep == IndInv /\ [Next]_vars => AssessInv'
<1> SUFFICES ASSUME IndInv, [Next]_vars, NEW t \in Requests,
                    pc'[t] \in {"version", "insert"}, req'[t].kind = "assess"
             PROVE  /\ taskLock' = t
                    /\ pc'[t] = "insert" => CurrentVersion' = req'[t].expected
  BY DEF AssessInv
<1>1. TypeOK /\ RequestInv /\ AssessInv /\ NumberInv
  BY DEF IndInv
<1>2. CASE \E r \in Req : Fits(r, "project") /\ Start(t, r)
  BY <1>1, <1>2 DEF Start, Goto, TypeOK
<1>3. CASE ShareProject(t) \/ ShareTask(t) \/ LockComment(t) \/ NotAccepted(t)
  BY <1>1, <1>3
  DEF ShareProject, ShareTask, LockComment, NotAccepted, Goto, TypeOK, RequestInv, Fits
<1>4. CASE LockTask(t)
  BY <1>1, <1>4 DEF LockTask, Goto, TypeOK
<1>5. CASE VersionExpected(t)
  BY <1>1, <1>5 DEF VersionExpected, Goto, TypeOK, AssessInv, tables, locks, CurrentVersion
<1>6. CASE pc'[t] = pc[t] /\ req'[t] = req[t]
  <2>1. taskLock = t /\ (pc[t] = "insert" => CurrentVersion = req[t].expected)
    BY <1>1, <1>6 DEF AssessInv
  <2>2. taskLock' = t
    BY <1>1, <1>6, <2>1, LocksKept
  <2>3. assessments' = assessments
    <3>1. ASSUME NEW s \in Requests, CreateAssessment(s) PROVE FALSE
      <4>1. s = t
        BY <1>1, <2>1, <3>1 DEF CreateAssessment, AssessInv
      <4> QED BY <1>1, <1>6, <3>1, <4>1 DEF CreateAssessment, End, Goto, TypeOK
    <3> QED BY <3>1, Writes DEF CreateComment, AcceptSuggestion, tables
  <2> QED BY <1>6, <2>1, <2>2, <2>3 DEF CurrentVersion
<1> QED BY <1>1, <1>2, <1>3, <1>4, <1>5, <1>6, Steps

LEMMA NumberStep == IndInv /\ [Next]_vars => NumberInv'
<1> SUFFICES ASSUME IndInv, [Next]_vars PROVE NumberInv'
  OBVIOUS
<1>1. NumberInv /\ CurrentVersion \in Nat /\ Versions = 1 .. CurrentVersion
  BY CurrentIsLast DEF IndInv
<1>2. CASE assessments' = assessments
  BY <1>1, <1>2 DEF NumberInv, Versions
<1>3. ASSUME NEW t \in Requests, CreateAssessment(t) PROVE NumberInv'
  <2>1. req[t].expected = CurrentVersion
    BY <1>3 DEF IndInv, AssessInv, CreateAssessment
  <2>2. Versions' = Versions \cup {CurrentVersion + 1}
    <3> DEFINE new == [version |-> req[t].expected + 1, verdict |-> req[t].verdict,
                       by |-> req[t].actor]
    <3>1. assessments' = assessments \cup {new}
      BY <1>3 DEF CreateAssessment
    <3>2. new.version = CurrentVersion + 1
      BY <2>1
    <3> HIDE DEF new
    <3> QED BY <3>1, <3>2 DEF Versions
  <2>3. Versions' = 1 .. CurrentVersion + 1
    BY <1>1, <2>2
  <2> QED BY <1>1, <2>3 DEF NumberInv
<1> QED BY <1>2, <1>3, Writes DEF CreateComment, AcceptSuggestion, tables

LEMMA AcceptedStep == IndInv /\ [Next]_vars => AcceptedOnce'
<1> SUFFICES ASSUME IndInv, [Next]_vars, NEW i \in Ids
             PROVE  /\ events'[i] = (IF acceptor'[i] = None THEN 0 ELSE 1)
                    /\ acceptor'[i] # None => author'[i] # None
  BY DEF AcceptedOnce
<1> USE DEF IndInv, TypeOK, AcceptedOnce
<1>1. CASE UNCHANGED tables
  BY <1>1 DEF tables
<1>2. ASSUME NEW t \in Requests, CreateComment(t)
      PROVE  acceptor' = acceptor /\ events' = events
  BY <1>2 DEF CreateComment
<1>3. ASSUME NEW t \in Requests, CreateAssessment(t)
      PROVE  acceptor' = acceptor /\ events' = events /\ author' = author
  BY <1>3 DEF CreateAssessment
<1>4. ASSUME NEW t \in Requests, AcceptSuggestion(t)
      PROVE  /\ events'[i] = (IF acceptor'[i] = None THEN 0 ELSE 1)
             /\ acceptor'[i] # None => author'[i] # None
  <2>1. /\ req[t].comment \in Ids /\ req[t].actor \in Admins
        /\ author[req[t].comment] # None /\ acceptor[req[t].comment] = None
    BY <1>4 DEF AcceptSuggestion, RequestInv, Fits, AcceptInv
  <2>2. req[t].actor # None
    BY <2>1 DEF Actors
  <2> QED BY <1>4, <2>1, <2>2 DEF AcceptSuggestion
<1> QED BY <1>1, <1>2, <1>3, <1>4, Writes, CommentsKept

LEMMA InvStep == IndInv /\ [Next]_vars => IndInv'
<1> SUFFICES ASSUME IndInv, [Next]_vars PROVE IndInv'
  OBVIOUS
<1>1. TypeOK' /\ RequestInv'
  BY TypeStep, RequestStep DEF IndInv
<1>2. SharedInv' /\ ActiveInv' /\ HolderInv'
  BY SharedStep, ActiveStep, HolderStep
<1>3. AcceptInv' /\ AssessInv' /\ NumberInv' /\ AcceptedOnce'
  BY AcceptStep, AssessStep, NumberStep, AcceptedStep
<1> QED BY <1>1, <1>2, <1>3 DEF IndInv

(***************************************************************************)
(* Theorems                                                                *)
(***************************************************************************)
\* The invariant holds in every reachable state.
THEOREM Invariance == Spec => []IndInv
<1> QED BY InitInv, InvStep, PTL DEF Spec

\* The variables have their types.
THEOREM TypeCorrect == Spec => []TypeOK
<1>1. IndInv => TypeOK
  BY DEF IndInv
<1> QED BY <1>1, Invariance, PTL

\* AcceptSuggestion is idempotent for any number of Admins, requests and retries.
THEOREM AcceptanceSafe == Spec => []AcceptedOnce
<1>1. IndInv => AcceptedOnce
  BY DEF IndInv
<1> QED BY <1>1, Invariance, PTL

\* The unique constraints of accepted_suggestions and task_assessments are never
\* what stops AcceptSuggestion or CreateAssessment.
THEOREM InsertsSafe == Spec => []InsertsSucceed
<1>1. IndInv => InsertsSucceed
  <2> SUFFICES ASSUME IndInv, NEW t \in Requests, pc[t] = "insert"
               PROVE  /\ req[t].kind = "accept" => acceptor[req[t].comment] = None
                      /\ req[t].kind = "assess" =>
                             \A a \in assessments : a.version # req[t].expected + 1
    BY DEF InsertsSucceed
  <2>1. CASE req[t].kind = "assess"
    <3>1. CurrentVersion \in Nat /\ Versions = 1 .. CurrentVersion
          /\ CurrentVersion = req[t].expected
      BY <2>1, CurrentIsLast DEF IndInv, AssessInv
    <3>2. \A a \in assessments : a.version \in 1 .. CurrentVersion
      BY <3>1 DEF Versions
    <3> QED BY <2>1, <3>1, <3>2
  <2>2. CASE req[t].kind # "assess"
    BY <2>2 DEF IndInv, AcceptInv
  <2> QED BY <2>1, <2>2
<1> QED BY <1>1, Invariance, PTL

\* The order in which lockAuthorizedTask, lockAuthorizedProject, requireScopedTask
\* and AcceptSuggestion lock rows rules out that requests wait for each other:
\* who holds a comment or the task FOR UPDATE waits for nothing, and who holds the
\* task FOR SHARE at most for a comment.
THEOREM LockOrderSafe == Spec => []NoDeadlock
<1>1. IndInv => NoDeadlock
  <2> SUFFICES ASSUME IndInv, NEW S \in SUBSET Requests, NEW t \in S,
                      \A s \in S : Blockers(s) \cap S # {}
               PROVE  FALSE
    BY Zenon DEF NoDeadlock
  <2>1. \A s \in S : pc[s] \in {"task", "comment"}
    BY DEF Blockers
  <2>2. \A s \in S : pc[s] # "comment"
    <3> SUFFICES ASSUME NEW s \in S, pc[s] = "comment" PROVE FALSE
      OBVIOUS
    <3>1. req[s].comment \in Ids
      BY DEF IndInv, RequestInv, Fits
    <3>2. Blockers(s) = {commentLock[req[s].comment]} \ {None}
      BY DEF Blockers
    <3>3. commentLock[req[s].comment] \in S /\ commentLock[req[s].comment] # None
      BY <3>2
    <3> QED BY <2>1, <3>1, <3>3 DEF IndInv, HolderInv
  <2>3. pc[t] = "task"
    BY <2>1, <2>2
  <2>4. Blockers(t) \subseteq ({taskLock} \cup taskShared) \ {None}
    BY <2>3 DEF Blockers
  <2>5. PICK s \in S : s \in {taskLock} \cup taskShared /\ s # None
    BY <2>4
  <2> QED BY <2>1, <2>2, <2>5 DEF IndInv, HolderInv
<1> QED BY <1>1, Invariance, PTL

\* CreateAssessment takes the task FOR UPDATE before it reads the version, so that
\* the version is still the same when it inserts.
THEOREM AssessmentsSafe == Spec => NoLostAssessment
<1>1. IndInv => \A t \in Requests : CreateAssessment(t) => CurrentVersion = req[t].expected
  BY DEF IndInv, AssessInv, CreateAssessment
<1> QED BY <1>1, Invariance, PTL DEF NoLostAssessment

\* Behind its check of the active flag every request holds the project row.
THEOREM ReadOnlySafe == Spec => InactiveIsReadOnly
<1>1. IndInv /\ [Next]_vars => [~active => UNCHANGED tables]_vars
  BY Writes DEF IndInv, SharedInv, ActiveInv, CreateComment, AcceptSuggestion, CreateAssessment
<1> QED BY <1>1, Invariance, PTL DEF InactiveIsReadOnly, Spec
=============================================================================
