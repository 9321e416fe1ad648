--------------------------- MODULE GatewayProofs ---------------------------
(***************************************************************************)
(* Proofs about Gateway, for any numbers of accounts, sessions, browsers   *)
(* and tabs: a write acts for the account its tab shows, and nothing takes *)
(* effect that was not permitted while its request was under way.          *)
(***************************************************************************)
EXTENDS Gateway, TLAPS

(***************************************************************************)
(* The route table                                                         *)
(***************************************************************************)
\* Only a login needs no session, what an Admin alone may do stands behind an
\* Admin gate, and the register is closed to temporary passwords.
GatesFit(op) ==
    /\ op \in Operation
    /\ op.gate = "open" <=> op.does = "login"
    /\ op.gate = "open" => ~op.write
    /\ op.does = "use" => op.gate \in {"application", "admin"}
    /\ op.does \in {"administer", "update", "reset"} => op.gate = "admin"

\* Every route of the mux has the gate that its deed needs.
LEMMA RoutesFit == \A op \in Routes : GatesFit(op)
<1>1. ASSUME NEW w \in BOOLEAN, NEW s \in BOOLEAN
      PROVE  /\ GatesFit(Op("login", "open", FALSE, s))
             /\ GatesFit(Op("use", "application", w, s))
             /\ GatesFit(Op("recover", "session", w, s))
             /\ GatesFit(Op("logout", "session", w, s))
             /\ GatesFit(Op("change", "session", w, s))
             /\ GatesFit(Op("administer", "admin", w, s))
             /\ GatesFit(Op("update", "admin", w, s))
             /\ GatesFit(Op("reset", "admin", w, s))
  BY DEF GatesFit, Op, Operation, Deeds, Gates
<1>2. \A op \in projectTasksAPIHandler \cup projectTaskAPIHandler
                \cup progressUpdatesAPIHandler \cup progressUpdateAPIHandler
                \cup progressCommentsAPIHandler \cup taskAssessmentAPIHandler
                \cup taskV2APIRouter \cup adminUserAPIRouter : GatesFit(op)
  BY <1>1 DEF projectTasksAPIHandler, projectTaskAPIHandler,
              progressUpdatesAPIHandler, progressUpdateAPIHandler,
              progressCommentsAPIHandler, taskAssessmentAPIHandler,
              taskV2APIRouter, projectTasksV2APIHandler,
              projectTaskV2APIHandler, adminUserAPIRouter,
              Read, authenticatedWrite
<1>3. /\ GatesFit(homeHandler) /\ GatesFit(loginFormHandler)
      /\ GatesFit(loginAPIHandler) /\ GatesFit(sessionAPIHandler)
      /\ GatesFit(logoutFormHandler) /\ GatesFit(logoutAPIHandler)
      /\ GatesFit(passwordAPIHandler)
      /\ GatesFit(adminListUsersAPIHandler)
      /\ GatesFit(adminCreateUserAPIHandler)
      /\ GatesFit(adminIdentityAuditAPIHandler)
      /\ GatesFit(adminAuditAPIHandler)
  BY <1>1 DEF homeHandler, loginFormHandler, loginAPIHandler,
              sessionAPIHandler, logoutFormHandler, logoutAPIHandler,
              passwordAPIHandler, adminListUsersAPIHandler,
              adminCreateUserAPIHandler, adminIdentityAuditAPIHandler,
              adminAuditAPIHandler, Read
<1>4. /\ GatesFit(dashboardAPIHandler) /\ GatesFit(listProjectsAPIHandler)
      /\ GatesFit(createProjectAPIHandler)
      /\ GatesFit(getProjectAPIHandler) /\ GatesFit(updateProjectAPIHandler)
      /\ GatesFit(listProjectMembersAPIHandler)
      /\ GatesFit(mutateProjectMemberAPIHandler)
      /\ GatesFit(replaceProjectGeofenceAPIHandler)
      /\ GatesFit(acceptSuggestionAPIHandler)
      /\ GatesFit(progressAttachmentDownloadHandler)
      /\ GatesFit(acceptedSuggestionsAPIHandler)
      /\ GatesFit(taskAssessmentHistoryAPIHandler)
      /\ GatesFit(taskTimelineAPIHandler)
  BY <1>1 DEF dashboardAPIHandler, listProjectsAPIHandler,
              createProjectAPIHandler, getProjectAPIHandler,
              updateProjectAPIHandler, listProjectMembersAPIHandler,
              mutateProjectMemberAPIHandler,
              replaceProjectGeofenceAPIHandler, acceptSuggestionAPIHandler,
              progressAttachmentDownloadHandler,
              acceptedSuggestionsAPIHandler,
              taskAssessmentHistoryAPIHandler, taskTimelineAPIHandler,
              Read, authenticatedWrite
<1> QED BY <1>2, <1>3, <1>4 DEF Routes, projectAPIRouter

(***************************************************************************)
(* Types                                                                   *)
(***************************************************************************)
LEMMA AnswerType ==
    ASSUME TypeOK, NEW t \in Tabs, call[t] # None,
           NEW c \in Token \cup {Kept}, NEW p \in Token \cup {Kept},
           Answer(t, c, p)
    PROVE  call' \in [Tabs -> Call \cup {None}]
BY DEF TypeOK, Answer, Call

LEMMA RevokeAllType ==
    ASSUME TypeOK, NEW u, RevokeAll(u)
    PROVE  session' \in [Sessions -> SessionRow \cup {None}]
BY DEF TypeOK, RevokeAll, Revoke, SessionRow

LEMMA RevokeSessionType ==
    ASSUME TypeOK, NEW s, RevokeSession(s)
    PROVE  session' \in [Sessions -> SessionRow \cup {None}]
BY DEF TypeOK, RevokeSession, Revoke, SessionRow

LEMMA RememberType == Remember => could' \in [Tabs -> BOOLEAN]
<1> SUFFICES ASSUME Remember PROVE could' \in [Tabs -> BOOLEAN]
  OBVIOUS
<1>1. ASSUME NEW t \in Tabs
      PROVE  (UnderWay(t)' /\ (could[t] \/ Entitled(t)')) \in BOOLEAN
  OBVIOUS
<1> QED BY <1>1, Zenon DEF Remember

LEMMA ClientKept ==
    ASSUME TypeOK, UNCHANGED client
    PROVE  /\ browser' \in [Tabs -> Browsers]
           /\ cookie' \in [Browsers -> Token]
           /\ page' \in [Tabs -> Token]
BY DEF TypeOK, client

LEMMA InitType == Init => TypeOK
BY DEF Init, TypeOK, Token

LEMMA StepType ==
    ASSUME TypeOK, NEW t \in Tabs, Step(t), Remember
    PROVE  TypeOK'
<1> USE DEF At, Admitted
<1>could. could' \in [Tabs -> BOOLEAN]
  BY RememberType
<1>kept. /\ Kept \in Token \cup {Kept}
         /\ None \in Token \cup {Kept}
  BY DEF Token
<1>tables. ASSUME UNCHANGED tables
           PROVE  /\ user' \in [Users -> UserRow]
                  /\ session' \in [Sessions -> SessionRow \cup {None}]
  BY <1>tables DEF tables, TypeOK
<1>own. ASSUME call[t] # None, clearIfOwn(t)
        PROVE  call' \in [Tabs -> Call \cup {None}]
  BY <1>own, <1>kept, AnswerType DEF clearIfOwn, clearSessionCookie
<1>1. CASE Send(t)
  <2>1. call' \in [Tabs -> Call \cup {None}]
    <3>1. PICK op \in Routes : \E u \in Targets(op) :
              call' = [call EXCEPT ![t] =
               [op |-> op, target |-> u, at |-> "sent",
                token |-> IF op.gate = "open" THEN None
                          ELSE cookie[browser[t]],
                cookie |-> Kept, page |-> Kept]]
      BY <1>1 DEF Send
    <3>1a. PICK u \in Targets(op) :
              call' = [call EXCEPT ![t] =
               [op |-> op, target |-> u, at |-> "sent",
                token |-> IF op.gate = "open" THEN None
                          ELSE cookie[browser[t]],
                cookie |-> Kept, page |-> Kept]]
      BY <3>1
    <3>2. u \in Users \cup {None}
      BY DEF Targets
    <3>3. cookie[browser[t]] \in Token /\ None \in Token
      BY DEF TypeOK, Token
    <3>4. [op |-> op, target |-> u, at |-> "sent",
           token |-> IF op.gate = "open" THEN None
                     ELSE cookie[browser[t]],
           cookie |-> Kept, page |-> Kept] \in Call
      BY <3>2, <3>3 DEF Call
    <3> QED BY <3>1a, <3>4 DEF TypeOK
  <2> QED BY <1>1, <2>1, <1>could, <1>tables, ClientKept DEF Send, TypeOK
<1>2. CASE Admit(t)
  <2>1. call' \in [Tabs -> Call \cup {None}]
    BY <1>2 DEF Admit, TypeOK, Call
  <2> QED BY <1>2, <2>1, <1>could, <1>tables, ClientKept DEF Admit, TypeOK
<1>3. CASE Refuse(t)
  <2>1. call' \in [Tabs -> Call \cup {None}]
    BY <1>3, <1>kept, AnswerType DEF Refuse, clearSessionCookie
  <2> QED BY <1>3, <2>1, <1>could, <1>tables, ClientKept DEF Refuse, TypeOK
<1>4. CASE Fail(t)
  <2>1. call' \in [Tabs -> Call \cup {None}]
    BY <1>4, <1>kept, AnswerType DEF Fail
  <2> QED BY <1>4, <2>1, <1>could, <1>tables, ClientKept DEF Fail, TypeOK
<1>5. CASE Serve(t)
  <2>1. (IF call[t].op.shows THEN call[t].token ELSE Kept)
            \in Token \cup {Kept}
    BY <1>5 DEF Serve, TypeOK, Call
  <2>2. call' \in [Tabs -> Call \cup {None}]
    BY <1>5, <2>1, <1>kept, AnswerType DEF Serve
  <2> QED BY <1>5, <2>2, <1>could, <1>tables, ClientKept DEF Serve, TypeOK
<1>6. CASE Login(t)
  <2>1. PICK s \in Sessions :
            /\ session' = [session EXCEPT ![s] =
                  [owner |-> call[t].target, live |-> TRUE]]
            /\ Answer(t, s, IF call[t].op.shows THEN s ELSE Kept)
    BY <1>6 DEF Login
  <2>2. call' \in [Tabs -> Call \cup {None}]
    BY <1>6, <2>1, <1>kept, AnswerType DEF Login, Token
  <2>3. call[t].target \in Users
    BY <1>6 DEF Login, TypeOK, Call, Targets
  <2>4. session' \in [Sessions -> SessionRow \cup {None}]
    BY <2>1, <2>3 DEF TypeOK, SessionRow
  <2> QED BY <1>6, <2>2, <2>4, <1>could, ClientKept DEF Login, TypeOK
<1>7. CASE Logout(t)
  <2>1. call' \in [Tabs -> Call \cup {None}]
    BY <1>7, <1>kept, AnswerType DEF Logout, clearSessionCookie
  <2> QED BY <1>7, <2>1, <1>could, ClientKept, RevokeSessionType
          DEF Logout, TypeOK
<1>8. CASE ChangePassword(t)
  <2>1. call' \in [Tabs -> Call \cup {None}]
    BY <1>8, <1>kept, AnswerType DEF ChangePassword, clearSessionCookie
  <2>2. user' \in [Users -> UserRow]
    BY <1>8 DEF ChangePassword, TypeOK, UserRow
  <2> QED BY <1>8, <2>1, <2>2, <1>could, ClientKept, RevokeAllType
          DEF ChangePassword, TypeOK
<1>9. CASE ResetPassword(t)
  <2>1. call' \in [Tabs -> Call \cup {None}]
    BY <1>9, <1>own DEF ResetPassword
  <2>2. user' \in [Users -> UserRow]
    BY <1>9 DEF ResetPassword, TypeOK, UserRow
  <2> QED BY <1>9, <2>1, <2>2, <1>could, ClientKept, RevokeAllType
          DEF ResetPassword, TypeOK
<1>10. CASE UpdateUser(t)
  <2>1. call' \in [Tabs -> Call \cup {None}]
    BY <1>10, <1>own DEF UpdateUser
  <2>2. user' \in [Users -> UserRow]
    <3>1. PICK admin \in BOOLEAN, enabled \in BOOLEAN :
              user' = [user EXCEPT ![call[t].target] =
                  [@ EXCEPT !.admin = admin, !.enabled = enabled]]
      BY <1>10 DEF UpdateUser
    <3> QED BY <3>1 DEF TypeOK, UserRow
  <2> QED BY <1>10, <2>1, <2>2, <1>could, ClientKept, RevokeAllType
          DEF UpdateUser, TypeOK
<1>11. CASE Deliver(t)
  <2>1. /\ call[t] \in Call /\ browser[t] \in Browsers
    BY <1>11 DEF Deliver, TypeOK
  <2>2. /\ cookie' \in [Browsers -> Token] /\ page' \in [Tabs -> Token]
    BY <1>11, <2>1 DEF Deliver, TypeOK, Call, Token
  <2>3. call' \in [Tabs -> Call \cup {None}]
    BY <1>11 DEF Deliver, TypeOK
  <2> QED BY <1>11, <2>2, <2>3, <1>could, <1>tables DEF Deliver, TypeOK
<1>12. CASE Lose(t)
  <2>1. call' \in [Tabs -> Call \cup {None}]
    BY <1>12 DEF Lose, TypeOK
  <2> QED BY <1>12, <2>1, <1>could, <1>tables, ClientKept DEF Lose, TypeOK
<1> QED BY <1>1, <1>2, <1>3, <1>4, <1>5, <1>6, <1>7, <1>8, <1>9, <1>10,
           <1>11, <1>12 DEF Step, Effect

LEMMA ExpireType ==
    ASSUME TypeOK, Expire, Remember
    PROVE  TypeOK'
<1>1. session' \in [Sessions -> SessionRow \cup {None}]
  BY DEF Expire, TypeOK, SessionRow
<1> QED BY <1>1, RememberType, ClientKept DEF Expire, TypeOK

LEMMA NextType == TypeOK /\ [Next]_vars => TypeOK'
<1> SUFFICES ASSUME TypeOK, [Next]_vars PROVE TypeOK'
  OBVIOUS
<1>1. CASE Next
  BY <1>1, StepType, ExpireType DEF Next
<1>2. CASE UNCHANGED vars
  BY <1>2 DEF vars, tables, client, TypeOK
<1> QED BY <1>1, <1>2

\* Accounts, sessions, cookies, pages and requests keep their types.
THEOREM TypeCorrect == Spec => []TypeOK
BY InitType, NextType, PTL DEF Spec

(***************************************************************************)
(* What an admitted request keeps                                          *)
(***************************************************************************)
\* A write that was admitted carries the session its tab was shown, a tab's
\* page stays while the tab waits, and whatever a request was ever permitted
\* to do while it was under way is remembered.
Admission ==
    \A t \in Tabs :
        /\ At(t, "admitted") =>
               /\ call[t].op.write => page[t] # None
                                      /\ page[t] = call[t].token
               /\ could[t]
        /\ UnderWay(t) /\ Entitled(t) => could[t]

IInv == TypeOK /\ Admission

\* What a handler admits is permitted at that very moment.
LEMMA AdmissibleIsEntitled ==
    ASSUME TypeOK, NEW t \in Tabs, call[t] # None, Admissible(t)
    PROVE  Entitled(t)
<1>1. call[t] \in Call /\ call[t].op \in Routes
  BY DEF TypeOK, Call
<1>2. GatesFit(call[t].op)
  BY <1>1, RoutesFit
<1>3. CASE call[t].op.gate = "open"
  BY <1>2, <1>3 DEF Admissible, Entitled, GatesFit
<1>4. CASE call[t].op.gate # "open"
  <2>1. /\ LookupSession(call[t].token)
        /\ Passes(call[t].op.gate, Actor(t))
    BY <1>4 DEF Admissible, Actor
  <2>2. call[t].op.does \in Permitted(Actor(t))
    BY <1>2, <1>4, <2>1 DEF GatesFit, Operation, Deeds, Passes, Permitted
  <2> QED BY <1>2, <1>4, <2>1, <2>2
          DEF Entitled, LookupSession, Actor, GatesFit
<1> QED BY <1>3, <1>4

\* What the ghost is in the next state.
LEMMA Remembered ==
    ASSUME Remember, NEW t \in Tabs
    PROVE  could'[t] = (UnderWay(t)' /\ (could[t] \/ Entitled(t)'))
BY Zenon DEF Remember

\* An answer ends what was admitted.
LEMMA AnswerEnds ==
    ASSUME TypeOK, NEW t \in Tabs, call[t] # None, NEW c, NEW p,
           Answer(t, c, p)
    PROVE  ~At(t, "admitted")'
<1>1. call[t] \in Call
  BY DEF TypeOK
<1> QED BY <1>1 DEF TypeOK, Answer, At, Call

LEMMA StepAdmission ==
    ASSUME IInv, NEW t \in Tabs, Step(t), Remember
    PROVE  Admission'
<1> USE DEF At, Admitted
<1> SUFFICES ASSUME NEW u \in Tabs
             PROVE  /\ At(u, "admitted")' =>
                          /\ call'[u].op.write => page'[u] # None
                                        /\ page'[u] = call'[u].token
                          /\ could'[u]
                    /\ (UnderWay(u) /\ Entitled(u))' => could'[u]
  BY DEF Admission
<1>1. (UnderWay(u) /\ Entitled(u))' => could'[u]
  BY Remembered
<1>2. ASSUME At(u, "admitted")', could[u] PROVE could'[u]
  BY <1>2, Remembered DEF UnderWay
<1>types. call \in [Tabs -> Call \cup {None}] /\ page \in [Tabs -> Token]
  BY DEF IInv, TypeOK
<1>old. At(u, "admitted") =>
             /\ call[u].op.write => page[u] # None /\ page[u] = call[u].token
             /\ could[u]
  BY DEF IInv, Admission
<1>3. CASE Admit(t) /\ u = t
  <2>1. could[t]
    BY <1>3, AdmissibleIsEntitled DEF Admit, IInv, Admission, UnderWay
  <2>2. call[t].op.write => page[t] # None /\ page[t] = call[t].token
    <3>1. call[t].op \in Routes /\ GatesFit(call[t].op)
      BY <1>3, <1>types, RoutesFit DEF Admit, Call
    <3>2. ASSUME call[t].op.gate = "open" PROVE ~call[t].op.write
      BY <3>1, <3>2 DEF GatesFit
    <3> QED BY <1>3, <3>2
            DEF Admit, Admissible, ValidateCSRF, LookupSession
  <2>3. /\ page' = page /\ call'[t].op = call[t].op
        /\ call'[t].token = call[t].token
    BY <1>3, <1>types DEF Admit, client
  <2> QED BY <1>1, <1>2, <1>3, <2>1, <2>2, <2>3
<1>4. CASE ~(Admit(t) /\ u = t)
  <2>1. ASSUME At(u, "admitted")'
        PROVE  /\ At(u, "admitted") /\ call'[u] = call[u]
               /\ page'[u] = page[u]
    <3>1. u # t => call'[u] = call[u] /\ page'[u] = page[u]
      BY <1>types DEF Step, Effect, Send, Admit, Refuse, Fail, Serve, Login,
         Logout, ChangePassword, ResetPassword, UpdateUser, Deliver, Lose,
         Answer, clearSessionCookie, clearIfOwn, client
    <3>2. u = t => ~At(u, "admitted")'
      <4>0. TypeOK
        BY DEF IInv
      <4>1. CASE \/ Refuse(t) \/ Fail(t) \/ Effect(t)
        BY <1>4, <4>0, <4>1, AnswerEnds
           DEF Refuse, Fail, Effect, Serve, Login, Logout, ChangePassword,
               ResetPassword, UpdateUser, clearSessionCookie, clearIfOwn
      <4>2. CASE Send(t)
        BY <4>2, <1>types DEF Send
      <4>3. CASE Deliver(t) \/ Lose(t)
        BY <4>3, <1>types DEF Deliver, Lose
      <4> QED BY <1>4, <4>1, <4>2, <4>3 DEF Step
    <3> QED BY <2>1, <3>1, <3>2
  <2> QED BY <1>1, <1>2, <1>old, <2>1
<1> QED BY <1>3, <1>4

LEMMA NextAdmission == IInv /\ [Next]_vars => Admission'
<1> SUFFICES ASSUME IInv, [Next]_vars PROVE Admission'
  OBVIOUS
<1>1. CASE UNCHANGED vars
  BY <1>1 DEF vars, tables, client, IInv, Admission, At, UnderWay, Entitled,
     Actor, Permitted
<1>2. CASE Expire /\ Remember
  <2> SUFFICES ASSUME NEW t \in Tabs
               PROVE  /\ At(t, "admitted")' =>
                            /\ call'[t].op.write => page'[t] # None
                                          /\ page'[t] = call'[t].token
                            /\ could'[t]
                      /\ (UnderWay(t) /\ Entitled(t))' => could'[t]
    BY DEF Admission
  <2>1. call' = call /\ page' = page
    BY <1>2 DEF Expire, client
  <2>2. At(t, "admitted")' => could[t] /\ UnderWay(t)'
    BY <2>1 DEF IInv, Admission, At, UnderWay
  <2> QED BY <1>2, <2>1, <2>2, Remembered DEF IInv, Admission, At
<1> QED BY <1>1, <1>2, StepAdmission DEF Next

LEMMA InitAdmission == Init => Admission
BY DEF Init, Admission, At, UnderWay

\* What was admitted stays bound to its page and was permitted.
THEOREM Inductive == Spec => []IInv
<1>1. Init => IInv
  BY InitType, InitAdmission DEF IInv
<1>2. IInv /\ [Next]_vars => IInv'
  BY NextType, NextAdmission DEF IInv
<1> QED BY <1>1, <1>2, PTL DEF Spec

\* Only what was admitted takes effect.
LEMMA EffectsAreAdmitted ==
    ASSUME NEW t, Effect(t) PROVE At(t, "admitted")
BY DEF Effect, Serve, Login, Logout, ChangePassword, ResetPassword,
       UpdateUser, Admitted

\* However many tabs share a cookie and whoever logs in meanwhile: a write
\* takes effect as the user whose page its tab shows.
THEOREM ShownActorActs == Spec => ActsAsShown
<1>1. IInv => \A t \in Tabs : Effect(t) /\ call[t].op.write =>
                page[t] # None /\ session[page[t]].owner = Actor(t)
  BY EffectsAreAdmitted DEF IInv, Admission, Actor
<1>2. IInv /\ [Next]_vars =>
        [\A t \in Tabs : Effect(t) /\ call[t].op.write =>
            page[t] # None /\ session[page[t]].owner = Actor(t)]_vars
  BY <1>1
<1> QED BY <1>2, Inductive, PTL DEF ActsAsShown, Spec

\* Whatever is revoked, disabled, demoted or reset before a request is sent,
\* no handler lets that request take effect.
THEOREM EntitlementSafe == Spec => EntitledInTime
<1>1. IInv => \A t \in Tabs : Effect(t) => could[t]
  BY EffectsAreAdmitted DEF IInv, Admission
<1>2. IInv /\ [Next]_vars => [\A t \in Tabs : Effect(t) => could[t]]_vars
  BY <1>1
<1> QED BY <1>2, Inductive, PTL DEF EntitledInTime, Spec
=============================================================================
