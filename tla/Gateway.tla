------------------------------ MODULE Gateway ------------------------------
(***************************************************************************)
(* internal/httpserver: browsers, their tabs and the handlers that serve   *)
(* them.                                                                   *)
(*                                                                         *)
(* The tabs of a browser share its session cookie; each keeps the CSRF     *)
(* token of the page it was shown.  A handler looks the session up, checks *)
(* the token, decodes the body and asks the service, which decides on the  *)
(* account as it was looked up; the effect follows in a transaction of its *)
(* own.  Between two of these steps others log in, log out and change      *)
(* accounts, and an answer may come late or never.                         *)
(*                                                                         *)
(* The route table says of every operation what the handlers and services  *)
(* make of it.  What an operation does to projects, tasks and progress is  *)
(* in the modules of those; here only accounts and sessions change.        *)
(***************************************************************************)
EXTENDS Naturals, FiniteSets

CONSTANTS
    Users, Sessions, Tabs, Browsers,
    None,
    Kept     \* of an answer: the cookie or the page stays as it is

VARIABLES
    user,    \* the users table
    session, \* the sessions table: token -> row, or None before its login
    browser, \* of a tab: its browser; never changes
    cookie,  \* of a browser: its ppr_session cookie
    page,    \* of a tab: the session its CSRF token is derived from
    call,    \* of a tab: the request it waits for
    could    \* ghost: that request was entitled to its deed since it was sent

tables == <<user, session>>
client == <<browser, cookie, page>>
vars == <<tables, client, call, could>>

Token == Sessions \cup {None}
UserRow == [admin : BOOLEAN, enabled : BOOLEAN, mustChange : BOOLEAN]
SessionRow == [owner : Users,
               live : BOOLEAN]  \* neither revoked nor expired

(***************************************************************************)
(* The route table                                                         *)
(***************************************************************************)
Deeds == {"login", "logout", "recover", "change",  \* of one's own session
          "use", "administer",    \* of the register and of its administration
          "update", "reset"}      \* of another account
Gates == {"open", "session", "application", "admin"}
Operation == [does : Deeds, gate : Gates,
              write : BOOLEAN,    \* ValidateCSRF precedes it
              shows : BOOLEAN]    \* its answer carries a CSRF token

Op(does, gate, write, shows) ==
    [does |-> does, gate |-> gate, write |-> write, shows |-> shows]
Read(does, gate) == Op(does, gate, FALSE, FALSE)
authenticatedWrite(does, gate) == Op(does, gate, TRUE, FALSE)

loginFormHandler == Op("login", "open", FALSE, FALSE)
loginAPIHandler == Op("login", "open", FALSE, TRUE)
homeHandler == Op("use", "application", FALSE, TRUE)
sessionAPIHandler == Op("recover", "session", FALSE, TRUE)
logoutFormHandler == Op("logout", "session", TRUE, FALSE)
logoutAPIHandler == Op("logout", "session", TRUE, FALSE)
passwordAPIHandler == Op("change", "session", TRUE, FALSE)

adminListUsersAPIHandler == Read("administer", "admin")
adminAuditAPIHandler == Read("administer", "admin")
adminIdentityAuditAPIHandler == Read("administer", "admin")
adminCreateUserAPIHandler == Op("administer", "admin", TRUE, FALSE)
adminUserAPIRouter == {Op("update", "admin", TRUE, FALSE),
                       Op("reset", "admin", TRUE, FALSE)}

dashboardAPIHandler == Read("use", "application")
listProjectsAPIHandler == Read("use", "application")
createProjectAPIHandler == Op("administer", "admin", TRUE, FALSE)
getProjectAPIHandler == Read("use", "application")
updateProjectAPIHandler == authenticatedWrite("administer", "admin")
listProjectMembersAPIHandler == Read("administer", "admin")
mutateProjectMemberAPIHandler == authenticatedWrite("administer", "admin")
replaceProjectGeofenceAPIHandler == authenticatedWrite("administer", "admin")
projectTasksAPIHandler ==
    {Read("use", "application"), authenticatedWrite("use", "application")}
projectTaskAPIHandler ==
    {Read("use", "application"), authenticatedWrite("use", "application")}
projectTasksV2APIHandler ==
    {Read("use", "application"), authenticatedWrite("use", "application")}
projectTaskV2APIHandler ==
    {Read("use", "application"), authenticatedWrite("use", "application")}
progressUpdatesAPIHandler ==
    {Read("use", "application"), authenticatedWrite("use", "application")}
progressUpdateAPIHandler ==
    {Read("use", "application"), authenticatedWrite("use", "application")}
progressAttachmentDownloadHandler == Read("use", "application")
progressCommentsAPIHandler ==
    {Read("use", "application"), authenticatedWrite("use", "application")}
acceptSuggestionAPIHandler == authenticatedWrite("administer", "admin")
acceptedSuggestionsAPIHandler == Read("use", "application")
taskAssessmentAPIHandler ==
    {Read("use", "application"), authenticatedWrite("administer", "admin")}
taskAssessmentHistoryAPIHandler == Read("administer", "admin")
taskTimelineAPIHandler == Read("use", "application")

taskV2APIRouter == projectTasksV2APIHandler \cup projectTaskV2APIHandler

projectAPIRouter ==
    {getProjectAPIHandler, updateProjectAPIHandler,
     listProjectMembersAPIHandler, mutateProjectMemberAPIHandler,
     replaceProjectGeofenceAPIHandler, acceptSuggestionAPIHandler,
     progressAttachmentDownloadHandler, acceptedSuggestionsAPIHandler,
     taskAssessmentHistoryAPIHandler, taskTimelineAPIHandler}
    \cup projectTasksAPIHandler \cup projectTaskAPIHandler
    \cup progressUpdatesAPIHandler \cup progressUpdateAPIHandler
    \cup progressCommentsAPIHandler \cup taskAssessmentAPIHandler

\* The mux of New.  Probes, documents and assets need no session, and the
\* setup routes answer that they are unavailable once there is an account.
Routes ==
    {homeHandler, loginFormHandler, loginAPIHandler, sessionAPIHandler,
     logoutFormHandler, logoutAPIHandler, passwordAPIHandler,
     adminListUsersAPIHandler, adminCreateUserAPIHandler,
     adminIdentityAuditAPIHandler, adminAuditAPIHandler,
     dashboardAPIHandler, listProjectsAPIHandler, createProjectAPIHandler}
    \cup adminUserAPIRouter \cup projectAPIRouter \cup taskV2APIRouter

(***************************************************************************)
(* What a handler decides, in one look at the tables                       *)
(***************************************************************************)
\* Mutant: the look-up forgets revoked_at.
LookupSessionRevoked(s) ==
    s # None /\ session[s] # None /\ user[session[s].owner].enabled

LookupSession(s) ==
    /\ s # None /\ session[s] # None
    /\ session[s].live /\ user[session[s].owner].enabled

\* Mutant: any token that was once issued will do.
ValidateCSRFAny(t, s) == page[t] # None

ValidateCSRF(t, s) == page[t] = s

\* requireApplicationAccess, requireAccess and the requireAdmins
Passes(gate, u) ==
    CASE gate = "session" -> TRUE
      [] gate = "application" -> ~user[u].mustChange
      [] gate = "admin" -> user[u].admin /\ ~user[u].mustChange
      [] OTHER -> FALSE

Admissible(t) ==
    LET c == call[t]
    IN  IF c.op.gate = "open"
        THEN user[c.target].enabled
        ELSE /\ LookupSession(c.token)
             /\ c.op.write => ValidateCSRF(t, c.token)
             /\ Passes(c.op.gate, session[c.token].owner)

(***************************************************************************)
(* The steps of a request                                                  *)
(***************************************************************************)
At(t, step) == call[t] # None /\ call[t].at = step
Admitted(t, deeds) == At(t, "admitted") /\ call[t].op.does \in deeds
Actor(t) == session[call[t].token].owner

\* The answer, with what it sets in the browser.  One that sets nothing
\* changes nothing here when it arrives.
Answer(t, newCookie, newPage) ==
    call' = [call EXCEPT ![t] =
        IF newCookie = Kept /\ newPage = Kept THEN None
        ELSE [@ EXCEPT !.at = "answered", !.cookie = newCookie,
                       !.page = newPage]]

\* setSessionCookie and clearSessionCookie act on the browser's cookie when
\* the answer arrives, whatever it is then.
clearSessionCookie(t) == Answer(t, None, Kept)
clearIfOwn(t) == IF call[t].target = Actor(t) THEN clearSessionCookie(t)
                 ELSE Answer(t, Kept, Kept)

Targets(op) ==
    IF op.does \in {"login", "update", "reset"} THEN Users ELSE {None}

Send(t) ==
    /\ call[t] = None
    /\ \E op \in Routes : \E u \in Targets(op) :
           call' = [call EXCEPT ![t] =
               [op |-> op, target |-> u, at |-> "sent",
                token |-> IF op.gate = "open" THEN None
                          ELSE cookie[browser[t]],
                cookie |-> Kept, page |-> Kept]]
    /\ UNCHANGED <<tables, client>>

\* authenticate, ValidateCSRF, the body and the gate of the service
Admit(t) ==
    /\ At(t, "sent") /\ Admissible(t)
    /\ call' = [call EXCEPT ![t].at = "admitted"]
    /\ UNCHANGED <<tables, client>>

\* A refusal, also for the body or because the look-up fails.  A logout whose
\* session is not found, or not looked up, succeeds without a revocation.
Refuse(t) ==
    /\ At(t, "sent")
    /\ \/ /\ call[t].op.does = "logout"
          /\ clearSessionCookie(t)
       \/ /\ call[t].op.does = "logout" => LookupSession(call[t].token)
          /\ Answer(t, Kept, Kept)
    /\ UNCHANGED <<tables, client>>

\* A conflict, a missing target, the last Admin or an error of the database.
Fail(t) ==
    /\ At(t, "admitted")
    /\ Answer(t, Kept, Kept)
    /\ UNCHANGED <<tables, client>>

Serve(t) ==
    /\ Admitted(t, {"recover", "use", "administer"})
    /\ Answer(t, Kept, IF call[t].op.shows THEN call[t].token ELSE Kept)
    /\ UNCHANGED <<tables, client>>

\* CreateLoginSession asks nothing of the account again.
Login(t) ==
    /\ Admitted(t, {"login"})
    /\ \E s \in Sessions :
           /\ session[s] = None
           /\ session' = [session EXCEPT ![s] =
                  [owner |-> call[t].target, live |-> TRUE]]
           /\ Answer(t, s, IF call[t].op.shows THEN s ELSE Kept)
    /\ UNCHANGED <<user, client>>

Revoke(ended) ==
    session' = [s \in Sessions |->
        IF s \in ended /\ session[s] # None
        THEN [session[s] EXCEPT !.live = FALSE] ELSE session[s]]
RevokeAll(u) ==
    Revoke({s \in Sessions : session[s] # None /\ session[s].owner = u})
RevokeSession(token) == Revoke({token})

Logout(t) ==
    /\ Admitted(t, {"logout"})
    /\ RevokeSession(call[t].token)
    /\ clearSessionCookie(t)
    /\ UNCHANGED <<user, client>>

ChangePassword(t) ==
    /\ Admitted(t, {"change"})
    /\ user[Actor(t)].enabled
    /\ user' = [user EXCEPT ![Actor(t)].mustChange = FALSE]
    /\ RevokeAll(Actor(t))
    /\ clearSessionCookie(t)
    /\ UNCHANGED client

ResetPassword(t) ==
    /\ Admitted(t, {"reset"})
    /\ user' = [user EXCEPT ![call[t].target].mustChange = TRUE]
    /\ RevokeAll(call[t].target)
    /\ clearIfOwn(t)
    /\ UNCHANGED client

EnabledAdmins == {u \in Users : user[u].enabled /\ user[u].admin}

UpdateUser(t) ==
    /\ Admitted(t, {"update"})
    /\ \E admin, enabled \in BOOLEAN :
           /\ EnabledAdmins = {call[t].target} => admin /\ enabled
           /\ user' = [user EXCEPT ![call[t].target] =
                  [@ EXCEPT !.admin = admin, !.enabled = enabled]]
    /\ RevokeAll(call[t].target)
    /\ clearIfOwn(t)
    /\ UNCHANGED client

\* The browser handles the answer.
Deliver(t) ==
    /\ At(t, "answered")
    /\ cookie' = [cookie EXCEPT ![browser[t]] =
                     IF call[t].cookie = Kept THEN @ ELSE call[t].cookie]
    /\ page' = [page EXCEPT ![t] =
                     IF call[t].page = Kept THEN @ ELSE call[t].page]
    /\ call' = [call EXCEPT ![t] = None]
    /\ UNCHANGED <<tables, browser>>

\* The answer never arrives.
Lose(t) ==
    /\ At(t, "answered")
    /\ call' = [call EXCEPT ![t] = None]
    /\ UNCHANGED <<tables, client>>

\* expires_at passes.
Expire ==
    /\ \E s \in Sessions :
           /\ session[s] # None /\ session[s].live
           /\ session' = [session EXCEPT ![s].live = FALSE]
    /\ UNCHANGED <<user, client, call>>

(***************************************************************************)
(* The specification                                                       *)
(***************************************************************************)
\* The deed that t's request asks for is one that, in this state, the account
\* of its session, or the account that logs in, may do.
Permitted(u) ==
    {"logout", "recover", "change"}
    \cup (IF user[u].mustChange THEN {} ELSE {"use"})
    \cup (IF user[u].mustChange \/ ~user[u].admin THEN {}
          ELSE {"administer", "update", "reset"})

Entitled(t) ==
    LET c == call[t]
    IN  IF c.op.does = "login" THEN user[c.target].enabled
        ELSE /\ c.token # None /\ session[c.token] # None
             /\ session[c.token].live /\ user[Actor(t)].enabled
             /\ c.op.does \in Permitted(Actor(t))

UnderWay(t) == call[t] # None /\ call[t].at # "answered"

Remember ==
    could' = [t \in Tabs |->
        UnderWay(t)' /\ (could[t] \/ Entitled(t)')]

Init ==
    /\ user \in {u \in [Users -> UserRow] :
                    \E a \in Users : u[a].enabled /\ u[a].admin}
    /\ session = [s \in Sessions |-> None]
    /\ browser \in [Tabs -> Browsers]
    /\ cookie = [b \in Browsers |-> None]
    /\ page = [t \in Tabs |-> None]
    /\ call = [t \in Tabs |-> None]
    /\ could = [t \in Tabs |-> FALSE]

Effect(t) ==
    \/ Serve(t) \/ Login(t) \/ Logout(t)
    \/ ChangePassword(t) \/ ResetPassword(t) \/ UpdateUser(t)

Step(t) ==
    \/ Send(t) \/ Admit(t) \/ Refuse(t) \/ Fail(t)
    \/ Effect(t) \/ Deliver(t) \/ Lose(t)

Next == ((\E t \in Tabs : Step(t)) \/ Expire) /\ Remember

Spec == Init /\ [][Next]_vars

(***************************************************************************)
(* Properties                                                              *)
(***************************************************************************)
Call ==
    {c \in [op : Routes, target : Users \cup {None}, token : Token,
            at : {"sent", "admitted", "answered"},
            cookie : Token \cup {Kept}, page : Token \cup {Kept}] :
        c.target \in Targets(c.op)}

TypeOK ==
    /\ user \in [Users -> UserRow]
    /\ session \in [Sessions -> SessionRow \cup {None}]
    /\ browser \in [Tabs -> Browsers]
    /\ cookie \in [Browsers -> Token]
    /\ page \in [Tabs -> Token]
    /\ call \in [Tabs -> Call \cup {None}]
    /\ could \in [Tabs -> BOOLEAN]

\* A write takes effect as the user whose page its tab shows, although another
\* tab may have logged in as someone else and replaced the cookie that the
\* request of this tab carries (plan 0002: writes need the session-bound token).
ActsAsShown ==
    [][\A t \in Tabs :
          Effect(t) /\ call[t].op.write =>
              page[t] # None /\ session[page[t]].owner = Actor(t)]_vars

\* No operation takes effect for an account that was not entitled to it at
\* some moment while the request was under way: what was revoked, disabled,
\* demoted or given a temporary password before the request was sent does
\* nothing, whichever handler, gate and service it meets (plan 0003: with a
\* temporary password only session recovery, logout and its replacement).
EntitledInTime ==
    [][\A t \in Tabs : Effect(t) => could[t]]_vars

\* docs/plans/0002-trusted-identity.md, line 72: "Logout revokes the current
\* session, records audit, clears the cookie".
LogoutRevokes ==
    [][\A t \in Tabs :
          /\ call[t] # None /\ call[t].op.does = "logout"
          /\ clearSessionCookie(t)
          /\ LookupSession(call[t].token)
          => ~session'[call[t].token].live]_vars
=============================================================================
