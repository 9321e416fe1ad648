--------------------------- MODULE IdentityProofs ---------------------------
(***************************************************************************)
(* Proofs about the two parts of internal/identity that write: Accounts,   *)
(* for any number of accounts, sessions and concurrent requests, and       *)
(* LoginThrottle, for any number of attempts, failures allowed and times.  *)
(***************************************************************************)
EXTENDS Accounts, LoginThrottle, FiniteSetTheorems, TLAPS

(***************************************************************************)
(* Accounts: the inductive invariant                                       *)
(***************************************************************************)
\* A request is at a label of its kind, and its accounts exist.
Fits(r, label) ==
    /\ r \in Req
    /\ label \in {"bootLock", "bootInsert"} <=> r.kind = "bootstrap"
    /\ label = "login" <=> r.kind = "login"
    /\ label \in {"logout", "audit"} <=> r.kind = "logout"
    /\ label = "create" <=> r.kind = "create"
    /\ label \in {"scan", "admins"} => r.kind = "update"
    /\ r.kind # "bootstrap" => Exists(r.actor)
    /\ r.kind \notin {"bootstrap", "create"} => Exists(r.target)

RequestInv == \A t \in Requests : pc[t] # "idle" => Fits(req[t], pc[t])

\* The counted Admins are locked, so that they are enabled Admins still.
CountedInv ==
    \A t \in Requests : \A u \in counted[t] : lock[u] = t /\ EnabledAdmin(u)

\* A transaction that has written its target holds it, at the version it was
\* sent for, and has locked another enabled Admin if it takes this one away.
TargetHeld(t) ==
    /\ lock[req[t].target] = t
    /\ req[t].kind = "update" =>
        /\ user[req[t].target].version = req[t].expected
        /\ RemovesEnabledAdmin(t) => \E u \in counted[t] : u # req[t].target

TargetInv == \A t \in Requests : pc[t] = "commit" => TargetHeld(t)

\* Between the two statements nobody can log in to the locked account.
SeenInv ==
    /\ \A s \in Sessions : session[s] # None => Exists(session[s].owner)
    /\ \A t \in Requests : pc[t] = "commit" => LiveSessions(req[t].target) \subseteq seen[t]

\* The advisory lock protects what the bootstrap transaction has read.
BootInv ==
    \A t \in Requests :
        pc[t] = "bootInsert" => bootLock = t /\ \A u \in Users : ~Exists(u)

IndInv ==
    /\ TypeOK /\ RequestInv /\ CountedInv /\ TargetInv /\ SeenInv /\ BootInv
    /\ SomeEnabledAdmin /\ SessionIsCurrent

(***************************************************************************)
(* Accounts: lemmas                                                        *)
(***************************************************************************)
\* A set of more than one account has one that is not the target.
LEMMA AnotherOne ==
    ASSUME NEW S \in SUBSET Users, ~(Cardinality(S) <= 1), NEW x
    PROVE  \E u \in S : u # x
<1>1. IsFiniteSet(S)
  BY AccountsAssumption, FS_Subset
<1> SUFFICES ASSUME \A u \in S : u = x
             PROVE  FALSE
  OBVIOUS
<1>2. CASE S = {}
  BY <1>2, FS_EmptySet
<1>3. CASE S # {}
  <2>1. PICK y \in S : TRUE
    BY <1>3
  <2>2. y = x /\ S \subseteq {x}
    BY <2>1
  <2>3. S = {x}
    BY <2>1, <2>2
  <2> QED BY <1>1, <2>3, FS_Singleton
<1> QED BY <1>2, <1>3

LEMMA InitInv == Init => IndInv
BY AccountsAssumption DEF Init, IndInv, TypeOK, RequestInv, CountedInv, TargetInv,
   SeenInv, BootInv, SomeEnabledAdmin, SessionIsCurrent, Exists, Labels


USE AccountsAssumption

LEMMA NewUserType ==
    ASSUME NEW role \in Roles, NEW m \in BOOLEAN
    PROVE  NewUser(role, m) \in UserRow
BY DEF NewUser, UserRow, Roles

LEMMA RequestType ==
    ASSUME NEW kind \in Kinds, NEW u \in Users, NEW v \in Users
    PROVE  Request(kind, u, v) \in Req
BY DEF Request, Req, Roles

\* The rest of the state, all that the end of a transaction touches.
RestOK ==
    /\ lock \in [Users -> Requests \cup {None}]
    /\ holder \in [Sessions -> Requests \cup {None}]
    /\ bootLock \in Requests \cup {None}
    /\ pc \in [Requests -> Labels]
    /\ req \in [Requests -> Req \cup {None}]
    /\ scan \in [Requests -> SUBSET Users]
    /\ counted \in [Requests -> SUBSET Users]
    /\ seen \in [Requests -> SUBSET Sessions]

LEMMA EndType ==
    ASSUME TypeOK, NEW t \in Requests, End(t)
    PROVE  RestOK'
BY DEF TypeOK, RestOK, End, Goto, Labels

\* A rolled back transaction.
LEMMA RollbackType ==
    ASSUME TypeOK, NEW t \in Requests, End(t), UNCHANGED tables
    PROVE  TypeOK'
BY EndType DEF TypeOK, RestOK, tables

\* Of the sessions, it leaves what they were or nothing.
LEMMA RevokedType ==
    ASSUME TypeOK, NEW t \in Requests
    PROVE  /\ Revoked(t) \in [Sessions -> SessionRow \cup {None}]
           /\ \A s \in Sessions : /\ Revoked(t)[s] \in {session[s], None}
                                /\ holder[s] = t => Revoked(t)[s] = None
BY DEF TypeOK, Revoked

LEMMA UpdatedType ==
    ASSUME TypeOK, RequestInv, NEW t \in Requests, Commit(t)
    PROVE  req[t].target \in Users /\ Updated(t) \in UserRow
<1> USE DEF TypeOK, RequestInv, Fits, Exists
<1>1. req[t] \in Req /\ req[t].kind \notin {"bootstrap", "create"}
  BY DEF Commit
<1>2. req[t].target \in Users /\ req[t].role \in Roles /\ req[t].enabled \in BOOLEAN
  BY <1>1 DEF Req
<1>3. user[req[t].target] \in UserRow
  BY <1>1, <1>2 DEF Commit
<1>4. user[req[t].target].version + 1 \in Nat \ {0}
  BY <1>3 DEF UserRow
<1> QED BY <1>2, <1>3, <1>4 DEF Updated, UserRow

LEMMA TypeStep == TypeOK /\ RequestInv /\ [Next]_vars => TypeOK'
<1> SUFFICES ASSUME TypeOK, RequestInv, [Next]_vars PROVE TypeOK'
  OBVIOUS
<1> USE DEF TypeOK, RequestInv, Fits, Labels, locals, locks, tables, Exists
<1>1. ASSUME NEW t \in Requests, StartAny(t) PROVE TypeOK'
  <2>1. ASSUME NEW r \in Req, NEW label \in Labels, Start(t, r, label) PROVE TypeOK'
    BY <2>1 DEF Start, Goto
  <2>2. CASE StartBootstrap(t) \/ StartReset(t)
    BY <2>1, <2>2, RequestType DEF StartBootstrap, StartReset, Kinds
  <2>3. CASE StartLogin(t) \/ StartChange(t)
    BY <2>1, <2>3, RequestType DEF StartLogin, StartChange, Kinds
  <2>4. CASE StartCreate(t)
    BY <2>1, <2>4 DEF StartCreate, Request, Req, Kinds
  <2>5. CASE StartUpdate(t)
    BY <2>1, <2>5 DEF StartUpdate, Request, Req, Kinds, UserRow
  <2>6. CASE StartLogout(t)
    <3>1. PICK s \in Sessions :
              /\ session[s] # None
              /\ req' = [req EXCEPT ![t] = Request("logout", session[s].owner, session[s].owner)]
              /\ seen' = [seen EXCEPT ![t] = {s}]
              /\ Goto(t, "logout")
              /\ UNCHANGED <<tables, locks, scan, counted>>
      BY <2>6 DEF StartLogout
    <3>2. session[s].owner \in Users
      BY <3>1 DEF SessionRow
    <3>3. Request("logout", session[s].owner, session[s].owner) \in Req
      BY <3>2, RequestType DEF Kinds
    <3> QED BY <3>1, <3>3 DEF Goto
  <2> QED BY <1>1, <2>2, <2>3, <2>4, <2>5, <2>6 DEF StartAny
<1>2. ASSUME NEW t \in Requests, Work(t) PROVE TypeOK'
  <2>1. CASE BootstrapLock(t) \/ BootstrapUnavailable(t)
    BY <2>1, RollbackType DEF BootstrapLock, BootstrapUnavailable, Goto
  <2>2. CASE BootstrapInsert(t)
    <3>1. NewUser("admin", FALSE) \in UserRow
      BY NewUserType DEF Roles
    <3>2. req[t].target \in Users
      BY <2>2 DEF BootstrapInsert, Req
    <3> QED BY <2>2, <3>1, <3>2, EndType DEF BootstrapInsert, RestOK
  <2>3. CASE CreateLoginSession(t)
    <3>1. req[t].target \in Users /\ user[req[t].target] \in UserRow
      BY <2>3 DEF CreateLoginSession, Req
    <3> QED BY <2>3, <3>1, EndType DEF CreateLoginSession, RestOK, UserRow, SessionRow
  <2>4. CASE CreateUser(t)
    <3>1. req[t] \in Req
      BY <2>4 DEF CreateUser
    <3>2. NewUser(req[t].role, TRUE) \in UserRow
      BY <3>1, NewUserType DEF Req
    <3> QED BY <2>4, <3>1, <3>2, EndType DEF CreateUser, RestOK, Req
  <2>5. CASE \/ CreateConflict(t) \/ UpdateRefused(t) \/ ChangeRefused(t)
            \/ RevokedAlready(t) \/ DeadlockDetected(t)
    BY <2>5, RollbackType DEF CreateConflict, RevokedAlready, UpdateRefused, ChangeRefused, DeadlockDetected
  <2>6. CASE ScanAdmins(t) \/ LockAdmin(t)
    <3>1. CASE ScanAdmins(t)
      BY <3>1 DEF ScanAdmins, Goto, EnabledAdmins
    <3>2. CASE LockAdmin(t)
      BY <3>2 DEF LockAdmin, Goto
    <3> QED BY <2>6, <3>1, <3>2
  <2>7. CASE LockTarget(t) \/ WriteTarget(t)
    BY <2>7 DEF LockTarget, WriteTarget, RevokeSessions, LiveSessions, Goto, Req
  <2>8. CASE Commit(t)
    BY <2>8, UpdatedType, RevokedType, EndType DEF Commit, RestOK
  <2>9. CASE RevokeSession(t)
    BY <2>9, RevokedType, EndType DEF RevokeSession, RestOK
  <2>10. CASE LockOwnSession(t) \/ LockSession(t)
    BY <2>10 DEF LockOwnSession, LockSession, Goto
  <2> QED BY <1>2, <2>1, <2>2, <2>3, <2>4, <2>5, <2>6, <2>7, <2>8, <2>9, <2>10 DEF Work
<1>3. ASSUME NEW t \in Requests, Cancel(t) PROVE TypeOK'
  BY <1>3, RollbackType DEF Cancel
<1>4. ASSUME NEW s \in Sessions, Expire(s) PROVE TypeOK'
  BY <1>4 DEF Expire
<1> QED BY <1>1, <1>2, <1>3, <1>4 DEF Next, vars

(***************************************************************************)
(* Accounts: every step keeps the invariant                                *)
(***************************************************************************)
\* A request starts; only a logout names its session at once.
Begins(t, r, label) ==
    /\ pc[t] = "idle"
    /\ req' = [req EXCEPT ![t] = r]
    /\ Goto(t, label)
    /\ UNCHANGED <<tables, locks, scan, counted>>
    /\ \A x \in Requests \ {t} : seen'[x] = seen[x]

FirstLabels == {"bootLock", "login", "logout", "create", "scan", "target"}

\* A request starts with a row of an account that exists.
LEMMA StartFits ==
    ASSUME IndInv, NEW t \in Requests, StartAny(t)
    PROVE  \E r, label : Begins(t, r, label) /\ Fits(r, label) /\ label \in FirstLabels
<1> USE DEF Fits, FirstLabels
<1>s. \A r, label : Start(t, r, label) => Begins(t, r, label)
  BY DEF Start, Begins
<1>a. ASSUME NEW u \in Users, Authenticated(u) PROVE Exists(u)
  BY <1>a DEF IndInv, SeenInv, Authenticated, LiveSessions
<1>b. ASSUME NEW u \in Users, AuthenticatedAdmin(u) PROVE Exists(u)
  BY <1>a, <1>b DEF AuthenticatedAdmin
<1>1. CASE StartBootstrap(t)
  <2>1. PICK u \in Users : Start(t, Request("bootstrap", u, u), "bootLock")
    BY <1>1 DEF StartBootstrap
  <2>2. Fits(Request("bootstrap", u, u), "bootLock")
    BY RequestType DEF Kinds, Request
  <2> QED BY <1>s, <2>1, <2>2
<1>2. CASE StartLogin(t)
  <2>1. PICK u \in Users : Exists(u) /\ Start(t, Request("login", u, u), "login")
    BY <1>2 DEF StartLogin
  <2>2. Fits(Request("login", u, u), "login")
    BY <2>1, RequestType DEF Kinds, Request
  <2> QED BY <1>s, <2>1, <2>2
<1>3. CASE StartCreate(t)
  <2>1. PICK u \in Users, v \in Users, role \in Roles :
            /\ AuthenticatedAdmin(u)
            /\ Start(t, [Request("create", u, v) EXCEPT !.role = role], "create")
    BY <1>3 DEF StartCreate
  <2>2. Fits([Request("create", u, v) EXCEPT !.role = role], "create")
    BY <1>b, <2>1 DEF Kinds, Request, Req
  <2> QED BY <1>s, <2>1, <2>2
<1>4. CASE StartUpdate(t)
  <2>1. PICK u \in Users, v \in Users, role \in Roles, enabled \in BOOLEAN :
            /\ AuthenticatedAdmin(u) /\ Exists(v)
            /\ Start(t, [Request("update", u, v) EXCEPT
                   !.role = role, !.enabled = enabled, !.expected = user[v].version], "scan")
    BY <1>4 DEF StartUpdate
  <2>2. user[v].version \in Nat
    BY <2>1 DEF IndInv, TypeOK, UserRow, Exists
  <2>3. Fits([Request("update", u, v) EXCEPT
                 !.role = role, !.enabled = enabled, !.expected = user[v].version], "scan")
    BY <1>b, <2>1, <2>2 DEF Kinds, Request, Req
  <2> QED BY <1>s, <2>1, <2>3
<1>5. CASE StartReset(t)
  <2>1. PICK u \in Users, v \in Users :
            AuthenticatedAdmin(u) /\ Exists(v) /\ Start(t, Request("reset", u, v), "target")
    BY <1>5 DEF StartReset
  <2>2. Fits(Request("reset", u, v), "target")
    BY <1>b, <2>1, RequestType DEF Kinds, Request
  <2> QED BY <1>s, <2>1, <2>2
<1>6. CASE StartChange(t)
  <2>1. PICK u \in Users : Authenticated(u) /\ Start(t, Request("change", u, u), "target")
    BY <1>6 DEF StartChange
  <2>2. Fits(Request("change", u, u), "target")
    BY <1>a, <2>1, RequestType DEF Kinds, Request
  <2> QED BY <1>s, <2>1, <2>2
<1>7. CASE StartLogout(t)
  <2>1. PICK s \in Sessions :
            /\ session[s] # None /\ Authenticated(session[s].owner)
            /\ pc[t] = "idle"
            /\ req' = [req EXCEPT ![t] = Request("logout", session[s].owner, session[s].owner)]
            /\ seen' = [seen EXCEPT ![t] = {s}]
            /\ Goto(t, "logout")
            /\ UNCHANGED <<tables, locks, scan, counted>>
    BY <1>7 DEF StartLogout
  <2> DEFINE r == Request("logout", session[s].owner, session[s].owner)
  <2>2. session[s].owner \in Users /\ Exists(session[s].owner)
    BY <1>a, <2>1 DEF IndInv, TypeOK, SessionRow
  <2>3. Fits(r, "logout")
    BY <2>2, RequestType DEF Kinds, Request
  <2>4. Begins(t, r, "logout")
    BY <2>1 DEF Begins, IndInv, TypeOK
  <2> QED BY <2>3, <2>4
<1> QED BY <1>1, <1>2, <1>3, <1>4, <1>5, <1>6, <1>7 DEF StartAny

\* The steps, with all rollbacks as one.
Rollback(t) == End(t) /\ UNCHANGED tables

\* The row of a session is locked, by its own logout or by a revocation.
LocksSession(t) == LockOwnSession(t) \/ LockSession(t)

LEMMA Steps ==
    ASSUME IndInv, [Next]_vars
    PROVE  \/ UNCHANGED vars
           \/ \E s \in Sessions : Expire(s)
           \/ \E t \in Requests :
                \/ \E r, label : /\ Begins(t, r, label) /\ Fits(r, label)
                                 /\ label \in FirstLabels
                \/ Rollback(t)
                \/ BootstrapLock(t) \/ BootstrapInsert(t)
                \/ CreateLoginSession(t) \/ LocksSession(t) \/ RevokeSession(t) \/ CreateUser(t)
                \/ ScanAdmins(t) \/ LockAdmin(t) \/ LockTarget(t)
                \/ WriteTarget(t) \/ Commit(t)
<1>1. CASE \E t \in Requests : Work(t)
  BY <1>1 DEF Work, Rollback, LocksSession, BootstrapUnavailable, CreateConflict,
     UpdateRefused, ChangeRefused, RevokedAlready, DeadlockDetected
<1>2. CASE \E t \in Requests : StartAny(t)
  BY <1>2, StartFits
<1> QED BY <1>1, <1>2 DEF Next, Cancel, Rollback

LEMMA RequestStep == IndInv /\ [Next]_vars => RequestInv'
<1> SUFFICES ASSUME IndInv, [Next]_vars PROVE RequestInv'
  OBVIOUS
<1> USE DEF IndInv, TypeOK, RequestInv, Exists, Fits
<1>1. ASSUME NEW t \in Requests, End(t), \A u \in Users : Exists(u) => Exists(u)'
      PROVE  RequestInv'
  BY <1>1 DEF End, Goto, Req
<1>2. ASSUME NEW t \in Requests, NEW r, NEW label, Begins(t, r, label), Fits(r, label)
      PROVE  RequestInv'
  BY <1>2 DEF Begins, FirstLabels, Goto, tables
<1>3. ASSUME NEW t \in Requests,
             \/ BootstrapLock(t) \/ ScanAdmins(t) \/ LockAdmin(t)
             \/ LockTarget(t) \/ WriteTarget(t) \/ LocksSession(t)
      PROVE  RequestInv'
  BY <1>3 DEF BootstrapLock, ScanAdmins, LockAdmin, LockTarget, WriteTarget,
     RevokeSessions, LocksSession, LockOwnSession, LockSession, Goto, tables, locals
<1>4. ASSUME NEW t \in Requests, BootstrapInsert(t) \/ CreateUser(t) PROVE RequestInv'
  <2>1. \A u \in Users : Exists(u) => Exists(u)'
    BY <1>4 DEF BootstrapInsert, CreateUser
  <2> QED BY <1>1, <1>4, <2>1 DEF BootstrapInsert, CreateUser
<1>5. ASSUME NEW t \in Requests, Commit(t) PROVE RequestInv'
  <2>1. Updated(t) # None
    BY <1>5, UpdatedType
  <2>2. \A u \in Users : Exists(u) => Exists(u)'
    BY <1>5, <2>1 DEF Commit
  <2> QED BY <1>1, <1>5, <2>2 DEF Commit
<1>6. ASSUME NEW t \in Requests, \/ Rollback(t) \/ CreateLoginSession(t) \/ RevokeSession(t) PROVE RequestInv'
  BY <1>1, <1>6 DEF Rollback, CreateLoginSession, RevokeSession, tables
<1>7. ASSUME NEW s \in Sessions, Expire(s) PROVE RequestInv'
  BY <1>7 DEF Expire, locals
<1> QED BY <1>2, <1>3, <1>4, <1>5, <1>6, <1>7, Steps DEF vars, tables, locals

\* A transaction that commits writes the row that it holds, and its next
\* version.
LEMMA CommitWrites ==
    ASSUME IndInv, NEW t \in Requests, Commit(t)
    PROVE  LET u == req[t].target IN
           /\ u \in Users /\ lock[u] = t /\ Exists(u)
           /\ \A v \in Users \ {u} : user'[v] = user[v]
           /\ user'[u] \in UserRow
           /\ user'[u].version = user[u].version + 1
           /\ req[t].kind # "update" => /\ user'[u].role = user[u].role
                                        /\ user'[u].enabled = user[u].enabled
           /\ req[t].kind = "update" => /\ user'[u].role = req[t].role
                                        /\ user'[u].enabled = req[t].enabled
<1> DEFINE u == req[t].target
<1>1. u \in Users /\ Updated(t) \in UserRow
  BY UpdatedType DEF IndInv
<1>2. lock[u] = t /\ Exists(u)
  BY <1>1 DEF IndInv, TargetInv, TargetHeld, RequestInv, Fits, Commit
<1>3. user[u] \in UserRow
  BY <1>1, <1>2 DEF IndInv, TypeOK, Exists
<1>4. user' = [user EXCEPT ![u] = Updated(t)]
  BY DEF Commit
<1>5. user'[u] = Updated(t) /\ \A v \in Users \ {u} : user'[v] = user[v]
  BY <1>1, <1>4 DEF IndInv, TypeOK
<1> QED BY <1>1, <1>2, <1>3, <1>5 DEF Updated, UserRow

LEMMA CountedStep == IndInv /\ [Next]_vars => CountedInv'
<1> SUFFICES ASSUME IndInv, [Next]_vars PROVE CountedInv'
  OBVIOUS
<1> USE DEF IndInv, TypeOK, CountedInv, EnabledAdmin, Exists
<1>1. ASSUME NEW t \in Requests, End(t),
             \A u \in Users : lock[u] \in Requests \ {t} /\ EnabledAdmin(u) => EnabledAdmin(u)'
      PROVE  CountedInv'
  BY <1>1 DEF End
<1>2. ASSUME NEW t \in Requests, NEW r, NEW label, Begins(t, r, label) PROVE CountedInv'
  BY <1>2 DEF Begins, tables, locks
<1>3. ASSUME NEW t \in Requests, BootstrapLock(t) \/ ScanAdmins(t) \/ LocksSession(t)
      PROVE  CountedInv'
  BY <1>3 DEF BootstrapLock, ScanAdmins, LocksSession, LockOwnSession, LockSession,
     tables, locks, locals
<1>4. ASSUME NEW t \in Requests, LockAdmin(t) PROVE CountedInv'
  <2>1. PICK u \in scan[t] :
            /\ Free(u, t) /\ lock' = [lock EXCEPT ![u] = t]
            /\ counted' = [counted EXCEPT ![t] = IF EnabledAdmin(u) THEN @ \cup {u} ELSE @]
    BY <1>4 DEF LockAdmin
  <2>2. u \in Users /\ UNCHANGED user
    BY <1>4 DEF LockAdmin, tables
  <2>3. \A v \in Users : lock[v] \in Requests => lock'[v] = lock[v]
    BY <2>1, <2>2 DEF Free
  <2>4. ASSUME NEW x \in Requests, NEW v \in counted'[x]
        PROVE  lock'[v] = x /\ EnabledAdmin(v)
    <3>1. v \in counted[x] => lock[v] = x /\ EnabledAdmin(v) /\ v \in Users
      OBVIOUS
    <3>2. v \notin counted[x] => x = t /\ v = u /\ EnabledAdmin(u)
      BY <2>1, <2>4
    <3> QED BY <2>1, <2>2, <2>3, <3>1, <3>2
  <2> QED BY <2>2, <2>4
<1>5. ASSUME NEW t \in Requests, LockTarget(t) \/ WriteTarget(t) PROVE CountedInv'
  <2>1. \A v \in Users : lock[v] \in Requests => lock'[v] = lock[v]
    BY <1>5 DEF LockTarget, WriteTarget, Free
  <2> QED BY <1>5, <2>1 DEF LockTarget, WriteTarget, tables, locals
<1>6. ASSUME NEW t \in Requests, BootstrapInsert(t) \/ CreateUser(t) PROVE CountedInv'
  BY <1>1, <1>6 DEF BootstrapInsert, CreateUser
<1>7. ASSUME NEW t \in Requests, Commit(t) PROVE CountedInv'
  <2>1. \A u \in Users : lock[u] \in Requests \ {t} => user'[u] = user[u]
    BY <1>7, CommitWrites
  <2> QED BY <1>1, <1>7, <2>1 DEF Commit
<1>8. ASSUME NEW t \in Requests, \/ Rollback(t) \/ CreateLoginSession(t) \/ RevokeSession(t) PROVE CountedInv'
  BY <1>1, <1>8 DEF Rollback, CreateLoginSession, RevokeSession, tables
<1>9. ASSUME NEW s \in Sessions, Expire(s) PROVE CountedInv'
  BY <1>9 DEF Expire, locals, locks
<1> QED BY <1>2, <1>3, <1>4, <1>5, <1>6, <1>7, <1>8, <1>9, Steps DEF vars, tables, locals, locks

\* A transaction that works on its own rows does not disturb another one.
LEMMA HeldStays ==
    ASSUME NEW t \in Requests, TargetHeld(t),
           req'[t] = req[t], counted'[t] = counted[t],
           lock'[req[t].target] = lock[req[t].target],
           user'[req[t].target] = user[req[t].target]
    PROVE  TargetHeld(t)'
BY DEF TargetHeld, RemovesEnabledAdmin, EnabledAdmin, Exists

LEMMA TargetStep == IndInv /\ [Next]_vars => TargetInv'
<1> SUFFICES ASSUME IndInv, [Next]_vars PROVE TargetInv'
  OBVIOUS
<1> USE DEF IndInv, TypeOK, TargetInv
<1>a. ASSUME NEW x \in Requests, pc[x] = "commit"
      PROVE  /\ TargetHeld(x) /\ lock[req[x].target] = x
             /\ req[x].target \in Users /\ Exists(req[x].target)
  BY <1>a DEF TargetHeld, RequestInv, Fits, Req
<1>1. ASSUME NEW t \in Requests, End(t),
             \A u \in Users : lock[u] \in Requests \ {t} => user'[u] = user[u]
      PROVE  TargetInv'
  <2>1. ASSUME NEW x \in Requests, pc'[x] = "commit" PROVE TargetHeld(x)'
    <3>1. x # t /\ pc'[x] = pc[x]
      BY <1>1, <2>1 DEF End, Goto
    <3>2. req'[x] = req[x] /\ counted'[x] = counted[x]
      BY <1>1, <3>1 DEF End
    <3>3. \A u \in Users : lock[u] = x => lock'[u] = x
      BY <1>1, <3>1 DEF End
    <3> QED BY <1>1, <1>a, <2>1, <3>1, <3>2, <3>3, HeldStays
  <2> QED BY <2>1
<1>2. ASSUME UNCHANGED <<user, lock>>,
             \A x \in Requests : pc'[x] = "commit" =>
                 pc[x] = "commit" /\ req'[x] = req[x] /\ counted'[x] = counted[x]
      PROVE  TargetInv'
  BY <1>2, <1>a, HeldStays
<1>3. ASSUME NEW t \in Requests, NEW r, NEW label, Begins(t, r, label),
             label \in FirstLabels
      PROVE  TargetInv'
  BY <1>2, <1>3 DEF Begins, FirstLabels, Goto, tables, locks
<1>4. ASSUME NEW t \in Requests, BootstrapLock(t) \/ ScanAdmins(t) \/ LocksSession(t)
      PROVE  TargetInv'
  BY <1>2, <1>4 DEF BootstrapLock, ScanAdmins, LocksSession, LockOwnSession, LockSession,
     Goto, tables, locks, locals
<1>5. ASSUME NEW t \in Requests, LockAdmin(t) PROVE TargetInv'
  <2>1. ASSUME NEW x \in Requests, pc'[x] = "commit" PROVE TargetHeld(x)'
    <3>1. x # t /\ pc'[x] = pc[x]
      BY <1>5, <2>1 DEF LockAdmin, Goto
    <3>2. req'[x] = req[x] /\ counted'[x] = counted[x] /\ UNCHANGED user
      BY <1>5, <3>1 DEF LockAdmin, tables
    <3>3. \A u \in Users : lock[u] = x => lock'[u] = x
      BY <1>5, <3>1 DEF LockAdmin, Free
    <3> QED BY <1>a, <2>1, <3>1, <3>2, <3>3, HeldStays
  <2> QED BY <2>1
<1>6. ASSUME NEW t \in Requests, LockTarget(t) \/ WriteTarget(t) PROVE TargetInv'
  <2>1. req[t].target \in Users
    BY <1>6 DEF LockTarget, WriteTarget, RequestInv, Fits, Req
  <2>2. UNCHANGED <<user, req, counted>>
    BY <1>6 DEF LockTarget, WriteTarget, tables, locals
  <2>3. lock' = [lock EXCEPT ![req[t].target] = t] /\ Free(req[t].target, t)
    BY <1>6 DEF LockTarget, WriteTarget
  <2>4. TargetHeld(t)'
    <3>1. lock'[req[t].target] = t
      BY <2>1, <2>3
    <3>2. CASE WriteTarget(t)
      BY <2>2, <3>1, <3>2 DEF WriteTarget, TargetHeld
    <3>3. CASE LockTarget(t)
      <4>1. counted[t] \in SUBSET Users
        OBVIOUS
      <4>2. RemovesEnabledAdmin(t) => \E u \in counted[t] : u # req[t].target
        <5>1. RemovesEnabledAdmin(t) => ~(Cardinality(counted[t]) <= 1)
          BY <3>3 DEF LockTarget
        <5>2. ASSUME ~(Cardinality(counted[t]) <= 1)
              PROVE  \E u \in counted[t] : u # req[t].target
          BY ONLY <4>1, <5>2, AnotherOne
        <5> QED BY <5>1, <5>2
      <4>3. user[req[t].target].version = req[t].expected
        BY <3>3 DEF LockTarget
      <4> QED BY <2>2, <3>1, <4>2, <4>3 DEF TargetHeld, RemovesEnabledAdmin, EnabledAdmin, Exists
    <3> QED BY <1>6, <3>2, <3>3
  <2>5. ASSUME NEW x \in Requests \ {t}, pc'[x] = "commit" PROVE TargetHeld(x)'
    <3>1. pc'[x] = pc[x]
      BY <1>6, <2>5 DEF LockTarget, WriteTarget, Goto
    <3>2. \A u \in Users : lock[u] = x => lock'[u] = x
      BY <2>3 DEF Free
    <3> QED BY <1>a, <2>2, <2>5, <3>1, <3>2, HeldStays
  <2> QED BY <2>4, <2>5
<1>7. ASSUME NEW t \in Requests, BootstrapInsert(t) \/ CreateUser(t) PROVE TargetInv'
  <2>1. ASSUME NEW x \in Requests, pc'[x] = "commit" PROVE TargetHeld(x)'
    <3>1. x # t /\ pc'[x] = pc[x]
      BY <1>7, <2>1 DEF BootstrapInsert, CreateUser, End, Goto
    <3>2. req'[x] = req[x] /\ counted'[x] = counted[x]
      BY <1>7, <3>1 DEF BootstrapInsert, CreateUser, End
    <3>3. \A u \in Users : lock[u] = x => lock'[u] = x
      BY <1>7, <3>1 DEF BootstrapInsert, CreateUser, End
    <3>4. \A u \in Users : Exists(u) => user'[u] = user[u]
      BY <1>7 DEF BootstrapInsert, CreateUser
    <3> QED BY <1>a, <2>1, <3>1, <3>2, <3>3, <3>4, HeldStays
  <2> QED BY <2>1
<1>8. ASSUME NEW t \in Requests, Commit(t) PROVE TargetInv'
  <2>1. \A u \in Users : lock[u] \in Requests \ {t} => user'[u] = user[u]
    BY <1>8, CommitWrites
  <2> QED BY <1>1, <1>8, <2>1 DEF Commit
<1>9. ASSUME NEW t \in Requests, \/ Rollback(t) \/ CreateLoginSession(t) \/ RevokeSession(t) PROVE TargetInv'
  BY <1>1, <1>9 DEF Rollback, CreateLoginSession, RevokeSession, tables
<1>10. ASSUME NEW s \in Sessions, Expire(s) PROVE TargetInv'
  BY <1>2, <1>10 DEF Expire, locals, locks
<1> QED BY <1>2, <1>3, <1>4, <1>5, <1>6, <1>7, <1>8, <1>9, <1>10, Steps
        DEF vars, tables, locals, locks

LEMMA BootStep == IndInv /\ [Next]_vars => BootInv'
<1> SUFFICES ASSUME IndInv, [Next]_vars PROVE BootInv'
  OBVIOUS
<1> USE DEF IndInv, TypeOK, BootInv, Exists
<1>1. ASSUME NEW t \in Requests, End(t), UNCHANGED user PROVE BootInv'
  BY <1>1 DEF End, Goto
<1>2. ASSUME NEW t \in Requests, NEW r, NEW label, Begins(t, r, label),
             label \in FirstLabels
      PROVE  BootInv'
  BY <1>2 DEF Begins, FirstLabels, Goto, tables, locks
<1>3. ASSUME NEW t \in Requests, BootstrapLock(t) PROVE BootInv'
  BY <1>3 DEF BootstrapLock, BootstrapAvailable, Goto, tables, locks
<1>4. ASSUME NEW t \in Requests, \/ ScanAdmins(t) \/ LockAdmin(t) \/ LockTarget(t)
                                 \/ WriteTarget(t) \/ LocksSession(t)
      PROVE  BootInv'
  BY <1>4 DEF ScanAdmins, LockAdmin, LockTarget, WriteTarget, LocksSession,
     LockOwnSession, LockSession, Goto, tables, locks
<1>5. ASSUME NEW t \in Requests, BootstrapInsert(t) PROVE BootInv'
  <2>1. ASSUME NEW x \in Requests PROVE pc'[x] # "bootInsert"
    BY <1>5, <2>1 DEF BootstrapInsert, End, Goto
  <2> QED BY <2>1
<1>6. ASSUME NEW t \in Requests, CreateUser(t) PROVE BootInv'
  <2>1. req[t].actor \in Users /\ Exists(req[t].actor)
    BY <1>6 DEF CreateUser, RequestInv, Fits, Req
  <2> QED BY <1>6, <2>1 DEF CreateUser, End, Goto
<1>7. ASSUME NEW t \in Requests, Commit(t) PROVE BootInv'
  <2>1. \E u \in Users : Exists(u)
    BY <1>7, CommitWrites
  <2> QED BY <1>7, <2>1 DEF Commit, End, Goto
<1>8. ASSUME NEW t \in Requests, \/ Rollback(t) \/ CreateLoginSession(t) \/ RevokeSession(t) PROVE BootInv'
  BY <1>1, <1>8 DEF Rollback, CreateLoginSession, RevokeSession, tables
<1>9. ASSUME NEW s \in Sessions, Expire(s) PROVE BootInv'
  BY <1>9 DEF Expire, locks
<1> QED BY <1>2, <1>3, <1>4, <1>5, <1>6, <1>7, <1>8, <1>9, Steps DEF vars, tables, locks

\* The enabled Admins: only Commit takes one away, and then it holds another.
LEMMA AdminStep == IndInv /\ [Next]_vars => SomeEnabledAdmin'
<1> SUFFICES ASSUME IndInv, [Next]_vars PROVE SomeEnabledAdmin'
  OBVIOUS
<1> USE DEF IndInv, SomeEnabledAdmin, EnabledAdmins, EnabledAdmin, Exists
<1>1. CASE UNCHANGED user
  BY <1>1
<1>2. ASSUME NEW t \in Requests, BootstrapInsert(t) PROVE SomeEnabledAdmin'
  <2>1. req[t].target \in Users
    BY <1>2 DEF BootstrapInsert, RequestInv, Fits, Req
  <2>2. user'[req[t].target] = NewUser("admin", FALSE)
    BY <1>2, <2>1 DEF BootstrapInsert, TypeOK
  <2>3. NewUser("admin", FALSE) \in UserRow
    BY NewUserType DEF Roles
  <2>4. user'[req[t].target] # None
    BY <2>2, <2>3
  <2>5. user'[req[t].target].enabled /\ user'[req[t].target].role = "admin"
    BY <2>2 DEF NewUser
  <2> QED BY <2>1, <2>4, <2>5
<1>3. ASSUME NEW t \in Requests, CreateUser(t) PROVE SomeEnabledAdmin'
  <2>1. req[t].actor \in Users /\ Exists(req[t].actor)
    BY <1>3 DEF CreateUser, RequestInv, Fits, Req
  <2>2. PICK u \in Users : EnabledAdmin(u)
    BY <2>1
  <2>3. user'[u] = user[u]
    BY <1>3, <2>2 DEF CreateUser, TypeOK
  <2> QED BY <2>2, <2>3
<1>4. ASSUME NEW t \in Requests, Commit(t) PROVE SomeEnabledAdmin'
  <2> DEFINE v == req[t].target
  <2>1. v \in Users /\ Exists(v)
    BY <1>4, CommitWrites
  <2>2. PICK u \in Users : EnabledAdmin(u)
    BY <2>1
  <2>3. CASE u # v
    <3>1. user'[u] = user[u]
      BY <1>4, <2>3, CommitWrites
    <3> QED BY <2>2, <3>1
  <2>4. CASE u = v /\ RemovesEnabledAdmin(t) /\ req[t].kind = "update"
    <3>1. PICK w \in counted[t] : w # v
      BY <1>4, <2>4 DEF Commit, TargetInv, TargetHeld
    <3>2. w \in Users /\ EnabledAdmin(w)
      BY <3>1 DEF CountedInv, TypeOK
    <3>3. w \in Users \ {v}
      BY <3>1, <3>2
    <3>4. \A x \in Users \ {v} : user'[x] = user[x]
      BY <1>4, CommitWrites
    <3>5. user'[w] = user[w]
      BY <3>3, <3>4
    <3> QED BY <3>2, <3>5
  <2>5. CASE u = v /\ ~(RemovesEnabledAdmin(t) /\ req[t].kind = "update")
    <3>1. user'[v] \in UserRow /\ user'[v].enabled /\ user'[v].role = "admin"
      <4>1. CASE req[t].kind = "update"
        <5>1. req[t].role = "admin" /\ req[t].enabled
          BY <2>2, <2>5, <4>1 DEF RemovesEnabledAdmin
        <5> QED BY <1>4, <4>1, <5>1, CommitWrites
      <4>2. CASE req[t].kind # "update"
        BY <1>4, <2>2, <2>5, <4>2, CommitWrites
      <4> QED BY <4>1, <4>2
    <3> QED BY <2>1, <3>1
  <2> QED BY <2>3, <2>4, <2>5
<1>5. ASSUME ~UNCHANGED user
      PROVE  \E t \in Requests : BootstrapInsert(t) \/ CreateUser(t) \/ Commit(t)
  BY <1>5, Steps DEF vars, tables, Begins, Expire, Rollback, BootstrapLock,
     CreateLoginSession, ScanAdmins, LockAdmin, LockTarget, WriteTarget, RevokeSessions,
     RevokeSession, LocksSession, LockOwnSession, LockSession
<1> QED BY <1>1, <1>2, <1>3, <1>4, <1>5

\* What a statement of the account's holder has seen, only the holder's own
\* commit may make out of date.
LEMMA SeenStep == IndInv /\ [Next]_vars => SeenInv'
<1> SUFFICES ASSUME IndInv, [Next]_vars PROVE SeenInv'
  OBVIOUS
<1>r. \A t \in Requests : \A s \in Sessions :
          /\ Revoked(t)[s] \in {session[s], None}
          /\ holder[s] = t => Revoked(t)[s] = None
  BY DEF Revoked
<1> USE DEF IndInv, TypeOK, SeenInv, Exists, LiveSessions
<1>a. ASSUME NEW x \in Requests, pc[x] = "commit"
      PROVE  req[x].target \in Users /\ lock[req[x].target] = x
  BY <1>a DEF RequestInv, Fits, Req, TargetInv, TargetHeld
<1>1. ASSUME NEW t \in Requests, End(t), \A u \in Users : Exists(u) => Exists(u)',
             \A s \in Sessions : session'[s] \in {session[s], None}
      PROVE  SeenInv'
  <2>1. \A s \in Sessions : session'[s] # None => Exists(session[s].owner)'
    BY <1>1 DEF SessionRow
  <2>2. ASSUME NEW x \in Requests, pc'[x] = "commit" PROVE LiveSessions(req[x].target)' \subseteq seen'[x]
    <3>1. pc[x] = "commit" /\ seen'[x] = seen[x] /\ req'[x] = req[x]
      BY <1>1, <2>2 DEF End, Goto
    <3> QED BY <1>1, <3>1
  <2> QED BY <2>1, <2>2
<1>2. ASSUME NEW t \in Requests, NEW r, NEW label, Begins(t, r, label),
             label \in FirstLabels
      PROVE  SeenInv'
  BY <1>2 DEF Begins, FirstLabels, Goto, tables
<1>3. ASSUME NEW t \in Requests,
             \/ BootstrapLock(t) \/ ScanAdmins(t) \/ LockAdmin(t)
             \/ LockTarget(t) \/ WriteTarget(t) \/ LocksSession(t)
      PROVE  SeenInv'
  BY <1>3 DEF BootstrapLock, ScanAdmins, LockAdmin, LockTarget, WriteTarget,
     RevokeSessions, LocksSession, LockOwnSession, LockSession, Goto, tables, locals
<1>4. ASSUME NEW t \in Requests, BootstrapInsert(t) \/ CreateUser(t) PROVE SeenInv'
  <2>1. \A u \in Users : Exists(u) => Exists(u)'
    BY <1>4 DEF BootstrapInsert, CreateUser
  <2> QED BY <1>1, <1>4, <2>1 DEF BootstrapInsert, CreateUser
<1>5. ASSUME NEW t \in Requests, CreateLoginSession(t) PROVE SeenInv'
  <2>1. PICK s \in Sessions :
            session' = [session EXCEPT ![s] = [owner |-> req[t].target,
                                               version |-> user[req[t].target].version]]
    BY <1>5 DEF CreateLoginSession
  <2>2. /\ req[t].target \in Users /\ Exists(req[t].target) /\ UNCHANGED user
        /\ Free(req[t].target, t) /\ pc[t] = "login"
    BY <1>5 DEF CreateLoginSession, RequestInv, Fits, Req
  <2>3. \A x \in Sessions : session'[x] # None => Exists(session[x].owner)'
    BY <2>1, <2>2
  <2>4. ASSUME NEW x \in Requests, pc'[x] = "commit" PROVE LiveSessions(req[x].target)' \subseteq seen'[x]
    <3>1. /\ pc[x] = "commit" /\ seen'[x] = seen[x] /\ req'[x] = req[x] /\ x # t
      BY <1>5, <2>2, <2>4 DEF CreateLoginSession, End, Goto
    <3>2. req[x].target # req[t].target
      BY <1>a, <2>2, <3>1 DEF Free
    <3>3. session'[s].owner = req[t].target
      BY <2>1
    <3>4. ASSUME NEW y \in Sessions, session'[y] # None, session'[y].owner = req[x].target
          PROVE  y \in seen[x]
      <4>1. y # s
        BY <3>2, <3>3, <3>4
      <4>2. session'[y] = session[y]
        BY <2>1, <4>1
      <4> QED BY <3>1, <3>4, <4>2
    <3> QED BY <3>1, <3>4
  <2> QED BY <2>3, <2>4
<1>6. ASSUME NEW t \in Requests, Commit(t) PROVE SeenInv'
  <2>1. \A u \in Users : Exists(u) => Exists(u)'
    BY <1>6, CommitWrites
  <2>2. \A s \in Sessions : session'[s] \in {session[s], None}
    BY <1>6, <1>r DEF Commit
  <2> QED BY <1>1, <1>6, <2>1, <2>2 DEF Commit
<1>7. ASSUME NEW t \in Requests, Rollback(t) \/ RevokeSession(t) PROVE SeenInv'
  BY <1>1, <1>7, <1>r DEF Rollback, RevokeSession, tables
<1>8. ASSUME NEW s \in Sessions, Expire(s) PROVE SeenInv'
  BY <1>8 DEF Expire, locals
<1> QED BY <1>2, <1>3, <1>4, <1>5, <1>6, <1>7, <1>8, Steps DEF vars, tables, locals

LEMMA SessionStep == IndInv /\ [Next]_vars => SessionIsCurrent'
<1> SUFFICES ASSUME IndInv, [Next]_vars PROVE SessionIsCurrent'
  OBVIOUS
<1>r. \A t \in Requests : \A s \in Sessions :
          /\ Revoked(t)[s] \in {session[s], None}
          /\ holder[s] = t => Revoked(t)[s] = None
  BY DEF Revoked
<1> USE DEF IndInv, TypeOK, SessionIsCurrent, SeenInv, Exists, LiveSessions
<1>a. \A s \in Sessions : session[s] # None => session[s].owner \in Users /\ Exists(session[s].owner)
  BY DEF SessionRow
<1>1. CASE UNCHANGED tables
  BY <1>1 DEF tables
<1>2. ASSUME NEW s \in Sessions, Expire(s) PROVE SessionIsCurrent'
  BY <1>2 DEF Expire
<1>3. ASSUME NEW t \in Requests, BootstrapInsert(t) \/ CreateUser(t) PROVE SessionIsCurrent'
  <2>1. \A u \in Users : Exists(u) => user'[u] = user[u]
    BY <1>3 DEF BootstrapInsert, CreateUser
  <2>2. UNCHANGED session
    BY <1>3 DEF BootstrapInsert, CreateUser
  <2> QED BY <1>a, <2>1, <2>2
<1>4. ASSUME NEW t \in Requests, CreateLoginSession(t) \/ RevokeSession(t)
      PROVE  SessionIsCurrent'
  <2>1. CASE CreateLoginSession(t)
    BY <2>1 DEF CreateLoginSession
  <2>2. CASE RevokeSession(t)
    BY <2>2, <1>r DEF RevokeSession
  <2> QED BY <1>4, <2>1, <2>2
<1>5. ASSUME NEW t \in Requests, Commit(t) PROVE SessionIsCurrent'
  <2>1. \A v \in Users \ {req[t].target} : user'[v] = user[v]
    BY <1>5, CommitWrites
  <2>2. ASSUME NEW s \in Sessions, session'[s] # None
        PROVE  session'[s] = session[s] /\ session[s].owner # req[t].target
    <3>1. session' = Revoked(t) /\ Unlocked(t) = {} /\ pc[t] = "commit"
      BY <1>5 DEF Commit
    <3>2. session'[s] = session[s] /\ session[s] # None /\ holder[s] # t
      BY <2>2, <3>1, <1>r
    <3>3. s \notin seen[t]
      BY <3>1, <3>2 DEF Unlocked
    <3> QED BY <3>1, <3>2, <3>3
  <2>3. ASSUME NEW s \in Sessions, session'[s] # None
        PROVE  session'[s].version = user'[session'[s].owner].version
    <3>1. session'[s] = session[s] /\ session[s].owner \in Users \ {req[t].target}
      BY <1>a, <2>2, <2>3
    <3>2. session[s].version = user[session[s].owner].version
      BY <2>3, <3>1
    <3>3. user'[session[s].owner] = user[session[s].owner]
      BY <2>1, <3>1
    <3> QED BY <3>1, <3>2, <3>3
  <2> QED BY <2>3
<1>6. ASSUME ~UNCHANGED tables
      PROVE  \/ \E s \in Sessions : Expire(s)
             \/ \E t \in Requests : BootstrapInsert(t) \/ CreateUser(t) \/ Commit(t)
                                      \/ CreateLoginSession(t) \/ RevokeSession(t)
  BY <1>6, Steps DEF vars, Begins, Rollback, BootstrapLock, ScanAdmins,
     LockAdmin, LockTarget, WriteTarget, RevokeSessions, LocksSession, LockOwnSession,
     LockSession
<1> QED BY <1>1, <1>2, <1>3, <1>4, <1>5, <1>6

(***************************************************************************)
(* Accounts: theorems                                                      *)
(***************************************************************************)
LEMMA InvStep == IndInv /\ [Next]_vars => IndInv'
BY TypeStep, RequestStep, CountedStep, TargetStep, SeenStep, BootStep, AdminStep, SessionStep
   DEF IndInv

\* The strengthened invariant holds in every state.
THEOREM Invariance == Spec => []IndInv
<1>1. Init => IndInv
  BY InitInv
<1>2. IndInv /\ [Next]_vars => IndInv'
  BY InvStep
<1> QED BY <1>1, <1>2, PTL DEF Spec

\* Every variable keeps its type, for any number of accounts and requests.
THEOREM TypeCorrect == Spec => []TypeOK
BY Invariance, PTL DEF IndInv

\* Concurrent updates never leave the system without an enabled Admin (the
\* locking read of lockEnabledAdmins in UpdateUser).
THEOREM LastAdminSafe == Spec => []SomeEnabledAdmin
BY Invariance, PTL DEF IndInv

\* Racing bootstrap requests make one account (the advisory lock of
\* BootstrapAdmin).
THEOREM FounderSafe == Spec => OneFounder
<1>1. IndInv => \A t \in Requests : BootstrapInsert(t) => \A u \in Users : ~Exists(u)
  BY DEF IndInv, BootInv, BootstrapInsert
<1> QED BY <1>1, Invariance, PTL DEF OneFounder

\* No session is left of before a role, status or password change (the order of
\* row lock and revocation in UpdateUser, ResetPassword and ChangePassword
\* against the last_login_at update of CreateLoginSession).
THEOREM SessionSafe == Spec => []SessionIsCurrent
BY Invariance, PTL DEF IndInv

LEMMA NoLostUpdateStep ==
    IndInv /\ [Next]_vars =>
        [\A u \in Users : Exists(u) /\ user'[u] # user[u] =>
             /\ user'[u].version = user[u].version + 1
             /\ \E t \in Requests :
                  /\ pc[t] = "commit" /\ req[t].target = u
                  /\ req[t].kind = "update" => req[t].expected = user[u].version]_vars
<1> SUFFICES ASSUME IndInv, [Next]_vars, NEW u \in Users, Exists(u), user'[u] # user[u]
             PROVE  /\ user'[u].version = user[u].version + 1
                    /\ \E t \in Requests :
                         /\ pc[t] = "commit" /\ req[t].target = u
                         /\ req[t].kind = "update" => req[t].expected = user[u].version
  OBVIOUS
<1>1. \A t \in Requests : ~BootstrapInsert(t) /\ ~CreateUser(t)
  BY DEF BootstrapInsert, CreateUser, Exists, IndInv, TypeOK
<1>2. PICK t \in Requests : Commit(t)
  BY <1>1, Steps DEF vars, tables, Begins, Expire, Rollback, BootstrapLock,
     CreateLoginSession, ScanAdmins, LockAdmin, LockTarget, WriteTarget, RevokeSessions,
     RevokeSession, LocksSession, LockOwnSession, LockSession
<1>3. u = req[t].target /\ user'[u].version = user[u].version + 1
  BY <1>2, CommitWrites
<1>4. pc[t] = "commit" /\ TargetHeld(t)
  BY <1>2 DEF Commit, IndInv, TargetInv
<1> QED BY <1>3, <1>4 DEF TargetHeld

\* A change of an account is a commit from the version it was based on.
THEOREM UpdatesSafe == Spec => NoLostUpdate
BY Invariance, NoLostUpdateStep, PTL DEF Spec, NoLostUpdate

(***************************************************************************)
(* LoginThrottle: the inductive invariant                                  *)
(***************************************************************************)
ClockInv ==
    /\ \A a \in Attempts : stamp[a] <= now
    /\ row # Absent => row.start <= now

\* A block has its failures, and was set by one in the window.
RowInv ==
    row # Absent =>
        /\ row.count > 0
        /\ row.blocked # 0 =>
              row.count >= MaxFailures /\ row.blocked < row.start + Window + Block

\* The failures that are counted are the last ones recorded, none of them
\* before the window was opened.
RecentInv ==
    /\ Len(recent) <= MaxFailures
    /\ row # Absent =>
          /\ row.count <= Len(recent) \/ Len(recent) = MaxFailures
          /\ \A k \in 1..Len(recent) :
                k > Len(recent) - row.count => recent[k] >= row.start

\* A window is closed when it ends before its block.
Closed == row.blocked >= row.start + Window

\* Wrong passwords with a time before the window, which count and may not block.
Early ==
    {a \in Attempts : /\ input[a] = "wrong" /\ lpc[a] \in {"insert", "lock"}
                      /\ stamp[a] < row.start}

\* Wrong passwords that may be recorded in the window still.
Late ==
    {a \in Attempts : /\ input[a] = "wrong"
                      /\ \/ lpc[a] \in {"verify", "fail"} /\ now < row.start + Window
                         \/ lpc[a] \in {"insert", "lock"} /\ stamp[a] < row.start + Window}

Others == Cardinality(Attempts) - 1

\* Until a window is closed, only early ones are recorded beyond the failures
\* that are allowed; then only late ones are left.
TriesInv ==
    /\ row = Absent => guesses = 0
    /\ row # Absent =>
          /\ guesses <= row.count
          /\ Block >= Window /\ ~Closed =>
                guesses + Cardinality(Early) <= MaxFailures - 1 + Others
          /\ Block >= Window /\ Closed =>
                guesses + Cardinality(Late) <= MaxFailures + 2 * Others

LInv == LTypeOK /\ ClockInv /\ RowInv /\ RecentInv /\ TriesInv

(***************************************************************************)
(* LoginThrottle: lemmas                                                   *)
(***************************************************************************)
ThrottleRow == [start : Nat, count : Nat, blocked : Nat]

LEMMA ReopenedIs ==
    ASSUME NEW r \in ThrottleRow, NEW t \in Nat
    PROVE  /\ Reopened(r, t) \in ThrottleRow
           /\ t < Reopened(r, t).start + Window
           /\ t < r.start + Window => Reopened(r, t) = r
           /\ t >= r.start + Window =>
                 Reopened(r, t) = [start |-> t, count |-> 0, blocked |-> 0]
BY ThrottleAssumption DEF Reopened, ThrottleRow

\* The failure after those of the window is counted; from the last one that is
\* allowed on it blocks, for a time that no earlier end shortens.
LEMMA CountedIs ==
    ASSUME NEW r \in ThrottleRow, NEW t \in Nat
    PROVE  /\ Counted(r, t) \in ThrottleRow
           /\ Counted(r, t).start = Reopened(r, t).start
           /\ Counted(r, t).count = Reopened(r, t).count + 1
           /\ Counted(r, t).blocked \in {Reopened(r, t).blocked, t + Block}
           /\ Counted(r, t).blocked >= Reopened(r, t).blocked
           /\ Counted(r, t).count >= MaxFailures => Counted(r, t).blocked >= t + Block
           /\ Counted(r, t).count < MaxFailures =>
                 Counted(r, t).blocked = Reopened(r, t).blocked
<1> DEFINE n == Reopened(r, t)
           b == IF n.count + 1 >= MaxFailures /\ t + Block > n.blocked
                THEN t + Block ELSE n.blocked
<1>1. n \in ThrottleRow /\ n.count \in Nat /\ n.blocked \in Nat /\ n.start \in Nat
    BY ReopenedIs DEF ThrottleRow
<1>2. Counted(r, t) = [n EXCEPT !.count = n.count + 1, !.blocked = b]
    BY DEF Counted
<1> HIDE DEF n
<1>3. b \in Nat
    BY <1>1, ThrottleAssumption
<1>4. /\ Counted(r, t) \in ThrottleRow /\ Counted(r, t).start = n.start
      /\ Counted(r, t).count = n.count + 1 /\ Counted(r, t).blocked = b
    <2> DEFINE c == n.count + 1
    <2>1. c \in Nat
        BY <1>1
    <2> HIDE DEF b, c
    <2>2. Counted(r, t) = [n EXCEPT !.count = c, !.blocked = b]
        BY <1>2 DEF c
    <2>3. Counted(r, t) = [start |-> n.start, count |-> c, blocked |-> b]
        BY <1>1, <2>2 DEF ThrottleRow
    <2> QED BY <1>1, <1>3, <2>1, <2>3 DEF ThrottleRow, c
<1> QED BY <1>1, <1>4, ThrottleAssumption DEF n

\* The last failures are remembered in their order.
LEMMA RememberIs ==
    ASSUME NEW times \in Seq(Nat), Len(times) <= MaxFailures, NEW t \in Nat
    PROVE  /\ Remember(times, t) \in Seq(Nat)
           /\ Len(times) < MaxFailures =>
                 /\ Len(Remember(times, t)) = Len(times) + 1
                 /\ \A k \in 1..Len(times) : Remember(times, t)[k] = times[k]
           /\ Len(times) = MaxFailures =>
                 /\ Len(Remember(times, t)) = Len(times)
                 /\ \A k \in 1..(Len(times) - 1) : Remember(times, t)[k] = times[k + 1]
           /\ Remember(times, t)[Len(Remember(times, t))] = t
<1> DEFINE all == Append(times, t)
<1>1. /\ all \in Seq(Nat) /\ Len(all) = Len(times) + 1 /\ Len(times) \in Nat
      /\ all[Len(times) + 1] = t
      /\ \A k \in 1..Len(times) : all[k] = times[k]
    OBVIOUS
<1>2. /\ Tail(all) \in Seq(Nat) /\ Len(Tail(all)) = Len(times)
      /\ \A k \in 1..Len(times) : Tail(all)[k] = all[k + 1]
    BY <1>1
<1>3. MaxFailures \in Nat \ {0}
    BY ThrottleAssumption
<1>4. CASE Len(times) < MaxFailures
    BY <1>1, <1>3, <1>4 DEF Remember
<1>5. CASE Len(times) = MaxFailures
    <2>1. Remember(times, t) = Tail(all)
        BY <1>1, <1>3, <1>5 DEF Remember
    <2> HIDE DEF all
    <2> QED BY <1>1, <1>2, <1>3, <1>5, <2>1
<1> QED BY <1>1, <1>3, <1>4, <1>5

LEMMA AttemptsCount ==
    ASSUME NEW S \in SUBSET Attempts
    PROVE  /\ IsFiniteSet(S) /\ Cardinality(S) \in Nat
           /\ Others \in Nat /\ Cardinality(S) <= Others + 1
           /\ \A T \in SUBSET S : Cardinality(T) <= Cardinality(S)
           /\ \A a \in Attempts \ S : Cardinality(S) <= Others
           /\ \A a \in S : \A T \in SUBSET (S \ {a}) : Cardinality(T) <= Cardinality(S) - 1
<1>1. /\ IsFiniteSet(S) /\ Cardinality(S) \in Nat
      /\ Cardinality(S) <= Cardinality(Attempts) /\ Cardinality(Attempts) \in Nat \ {0}
    BY ThrottleAssumption, FS_Subset, FS_CardinalityType, FS_EmptySet
<1>2. \A T \in SUBSET S : Cardinality(T) <= Cardinality(S)
    BY <1>1, FS_Subset
<1>3. ASSUME NEW a \in Attempts \ S
      PROVE  Cardinality(S) <= Others
    <2>1. S \in SUBSET (Attempts \ {a})
        OBVIOUS
    <2>2. /\ IsFiniteSet(Attempts \ {a})
          /\ Cardinality(Attempts \ {a}) = Cardinality(Attempts) - 1
        BY ThrottleAssumption, FS_RemoveElement
    <2> QED BY <2>1, <2>2, FS_Subset DEF Others
<1>4. ASSUME NEW a \in S, NEW T \in SUBSET (S \ {a})
      PROVE  Cardinality(T) <= Cardinality(S) - 1
    <2>1. IsFiniteSet(S \ {a}) /\ Cardinality(S \ {a}) = Cardinality(S) - 1
        BY <1>1, FS_RemoveElement
    <2> QED BY <2>1, FS_Subset
<1> QED BY <1>1, <1>2, <1>3, <1>4 DEF Others

(***************************************************************************)
(* LoginThrottle: every step keeps the invariant                           *)
(***************************************************************************)
LEMMA LInitInv == LInit => LInv
<1> SUFFICES ASSUME LInit
             PROVE  LInv
    OBVIOUS
<1> QED BY ThrottleAssumption DEF LInit, LInv, LTypeOK, ClockInv, RowInv, RecentInv,
           TriesInv

LEMMA RowType ==
    ASSUME LTypeOK, row # Absent
    PROVE  row \in ThrottleRow /\ row.start \in Nat /\ row.count \in Nat /\ row.blocked \in Nat
BY DEF LTypeOK, ThrottleRow

LEMMA TimesType ==
    ASSUME LTypeOK
    PROVE  /\ now \in Nat /\ stamp \in [Attempts -> Nat]
           /\ Window \in Nat \ {0} /\ Block \in Nat \ {0} /\ MaxFailures \in Nat \ {0}
BY ThrottleAssumption DEF LTypeOK

\* A step that records nothing makes no attempt early, and none late once the
\* window is closed.
LEMMA NothingRecorded ==
    ASSUME LInv, LTypeOK', ClockInv', UNCHANGED <<row, ghosts>>,
           row # Absent => Early' \subseteq Early,
           row # Absent /\ Closed => Late' \subseteq Late
    PROVE  LInv'
<1>1. RowInv' /\ RecentInv'
    BY DEF LInv, RowInv, RecentInv, ghosts
<1>2. ASSUME row # Absent
      PROVE  /\ Cardinality(Early) \in Nat /\ Cardinality(Early') \in Nat
             /\ Cardinality(Early') <= Cardinality(Early)
             /\ Cardinality(Late) \in Nat /\ Cardinality(Late') \in Nat
             /\ Closed => Cardinality(Late') <= Cardinality(Late)
             /\ Others \in Nat
    <2>1. /\ Early \in SUBSET Attempts /\ Early' \in SUBSET Attempts
          /\ Late \in SUBSET Attempts /\ Late' \in SUBSET Attempts
        BY DEF Early, Late
    <2> QED BY <1>2, <2>1, AttemptsCount
<1>3. TriesInv'
    <2>1. Closed' = Closed /\ Others' = Others
        BY DEF Closed, Others
    <2>2. CASE row = Absent
        BY <2>2 DEF LInv, TriesInv, ghosts
    <2>3. CASE row # Absent
        <3>1. guesses \in Nat /\ MaxFailures \in Nat
            BY ThrottleAssumption DEF LInv, LTypeOK
        <3> QED BY <1>2, <2>1, <2>3, <3>1 DEF LInv, TriesInv, ghosts
    <2> QED BY <2>2, <2>3
<1> QED BY <1>1, <1>3 DEF LInv

LEMMA ThrottleTickInv ==
    ASSUME LInv, Tick
    PROVE  LInv'
<1> USE DEF Tick, attempts, ghosts
<1>1. LTypeOK'
    <2>1. now' \in Nat
        BY TimesType DEF LInv
    <2> QED BY <2>1 DEF LInv, LTypeOK
<1>2. now \in Nat /\ \A a \in Attempts : stamp[a] \in Nat
    BY DEF LInv, LTypeOK
<1>3. ClockInv'
    BY <1>2, RowType DEF LInv, ClockInv
<1>4. Early' \subseteq Early
    BY DEF Early
<1>5. row # Absent => Late' \subseteq Late
    BY <1>2, RowType, ThrottleAssumption DEF LInv, Late
<1> QED BY <1>1, <1>3, <1>4, <1>5, NothingRecorded

LEMMA LoginInv ==
    ASSUME LInv, NEW a \in Attempts, NEW i \in Inputs, Login(a, i)
    PROVE  LInv'
<1> USE DEF Login, Proceed
<1>1. LTypeOK'
    BY DEF LInv, LTypeOK, ghosts
<1>2. ClockInv'
    BY DEF LInv, ClockInv
<1>3. Early' \subseteq Early /\ Late' \subseteq Late
    BY DEF LInv, LTypeOK, Early, Late, ghosts
<1> QED BY <1>1, <1>2, <1>3, NothingRecorded

\* While a window that is closed lasts, no attempt passes.
LEMMA CheckInv ==
    ASSUME LInv, NEW a \in Attempts, Check(a)
    PROVE  LInv'
<1> USE DEF Check, Proceed
<1>1. LTypeOK'
    BY DEF LInv, LTypeOK, ghosts
<1>2. ClockInv'
    BY DEF LInv, ClockInv
<1>3. Early' \subseteq Early
    BY DEF LInv, LTypeOK, Early
<1>4. ASSUME row # Absent, Closed
      PROVE  Late' \subseteq Late
    <2>1. ~(now < row.start + Window)
        BY <1>4, RowType, TimesType DEF LInv, IsLoginBlocked, Closed
    <2> QED BY <2>1 DEF LInv, LTypeOK, Late
<1> QED BY <1>1, <1>2, <1>3, <1>4, NothingRecorded

\* An attempt that ends without a record is none of the early or late ones.
LEMMA EndsUnrecorded ==
    ASSUME LInv, NEW a \in Attempts, NEW answer, Ends(a, answer), LTypeOK',
           UNCHANGED <<now, row, ghosts>>
    PROVE  LInv'
<1> USE DEF Ends, Proceed
<1>1. ClockInv'
    BY TimesType DEF LInv, ClockInv
<1>2. Early' \subseteq Early /\ Late' \subseteq Late
    BY DEF LInv, LTypeOK, Early, Late
<1> QED BY <1>1, <1>2, NothingRecorded

LEMMA UnrecordedInv ==
    ASSUME LInv, NEW a \in Attempts, Throttled(a) \/ RowIsGone(a) \/ Fails(a)
    PROVE  LInv'
<1>1. PICK answer \in {"throttled", "internal error"} :
          Ends(a, answer) /\ UNCHANGED <<now, row, ghosts>>
    BY DEF Throttled, RowIsGone, Fails
<1>2. LTypeOK'
    BY <1>1 DEF LInv, LTypeOK, Ends, Proceed, ghosts
<1> QED BY <1>1, <1>2, EndsUnrecorded

LEMMA VerifyInv ==
    ASSUME LInv, NEW a \in Attempts, Verify(a)
    PROVE  LInv'
<1> USE DEF Verify, Proceed
<1>1. LTypeOK'
    BY DEF LInv, LTypeOK, ghosts
<1>2. ClockInv'
    BY DEF LInv, ClockInv
<1>3. Early' \subseteq Early /\ Late' \subseteq Late
    BY DEF LInv, LTypeOK, Early, Late
<1> QED BY <1>1, <1>2, <1>3, NothingRecorded

\* The time that is read is not before the window.
LEMMA ReadClockInv ==
    ASSUME LInv, NEW a \in Attempts, ReadClock(a)
    PROVE  LInv'
<1> USE DEF ReadClock, Proceed
<1>1. LTypeOK'
    BY DEF LInv, LTypeOK, ghosts
<1>2. ClockInv'
    BY TimesType DEF LInv, ClockInv
<1>3. ASSUME row # Absent
      PROVE  Early' \subseteq Early
    <2>1. ~(now < row.start)
        BY <1>3, TimesType, RowType DEF LInv, ClockInv
    <2> QED BY <2>1 DEF LInv, LTypeOK, Early
<1>4. Late' \subseteq Late
    BY DEF LInv, LTypeOK, Late
<1> QED BY <1>1, <1>2, <1>3, <1>4, NothingRecorded

LEMMA RowExistsInv ==
    ASSUME LInv, NEW a \in Attempts, RowExists(a)
    PROVE  LInv'
<1> USE DEF RowExists, Proceed
<1>1. LTypeOK'
    BY DEF LInv, LTypeOK, ghosts
<1>2. ClockInv'
    BY DEF LInv, ClockInv
<1>3. Early' \subseteq Early /\ Late' \subseteq Late
    BY DEF LInv, LTypeOK, Early, Late
<1> QED BY <1>1, <1>2, <1>3, NothingRecorded

LEMMA NothingRemembered == <<>> \in Seq(Nat) /\ Len(<<>>) = 0
OBVIOUS

LEMMA ClearOnLoginInv ==
    ASSUME LInv, NEW a \in Attempts, ClearOnLogin(a)
    PROVE  LInv'
<1>1. row' = Absent /\ guesses' = 0 /\ now' = now /\ Ends(a, "logged in")
    BY DEF ClearOnLogin
<1>2. recent' \in Seq(Nat) /\ Len(recent') = 0
    BY NothingRemembered, Zenon DEF ClearOnLogin
<1>3. LTypeOK'
    BY <1>1, <1>2 DEF LInv, LTypeOK, Ends, Proceed
<1>4. ClockInv'
    <2>1. now \in Nat /\ now' = now /\ stamp' = [stamp EXCEPT ![a] = 0]
          /\ stamp \in [Attempts -> Nat] /\ \A x \in Attempts : stamp[x] <= now
        BY <1>1, TimesType DEF LInv, ClockInv, Ends
    <2>2. \A x \in Attempts : stamp'[x] <= now'
        BY <2>1
    <2> QED BY <1>1, <2>2, Zenon DEF ClockInv
<1>5. RowInv'
    BY <1>1, Zenon DEF RowInv
<1>6. RecentInv'
    <2>1. Len(recent') <= MaxFailures
        BY <1>2, ThrottleAssumption
    <2> QED BY <1>1, <2>1, Zenon DEF RecentInv
<1>7. TriesInv'
    BY <1>1, Zenon DEF TriesInv
<1> QED BY <1>3, <1>4, <1>5, <1>6, <1>7 DEF LInv

LEMMA SumsAreBounded ==
    \A g, x, m, o \in Nat : g <= m - 1 /\ x <= o => g + x <= m - 1 + o
OBVIOUS

\* A failure is recorded in the row, or in the one it makes.
LEMMA RecordInv ==
    ASSUME LInv, NEW a \in Attempts, lpc[a] \in {"insert", "lock"},
           NEW r \in ThrottleRow, Record(a, r),
           row = Absent => r.start = stamp[a] /\ r.count = 0 /\ r.blocked = 0,
           row # Absent => r = row
    PROVE  LInv'
<1> DEFINE t == stamp[a]
           n == Reopened(r, t)
           c == Counted(r, t)
           wrong == IF input[a] = "wrong" THEN 1 ELSE 0
           opened == n.start = t /\ n.count = 0 /\ n.blocked = 0
           goesOn == row # Absent /\ n = row /\ t < row.start + Window /\ row.count > 0
<1>1. /\ now \in Nat /\ t \in Nat /\ t <= now /\ stamp \in [Attempts -> Nat]
      /\ Window \in Nat \ {0} /\ Block \in Nat \ {0} /\ MaxFailures \in Nat \ {0}
    BY TimesType DEF LInv, ClockInv
<1>2. /\ row' = c /\ now' = now
      /\ guesses' = (IF n.count = 0 THEN 0 ELSE guesses) + wrong
    BY DEF Record
<1>14. recent' = Remember(recent, now)
    BY DEF Record
<1>15. Ends(a, "invalid credentials")
    BY DEF Record
<1>3. /\ c \in ThrottleRow /\ n \in ThrottleRow
      /\ c.start = n.start /\ c.count = n.count + 1
      /\ c.blocked \in {n.blocked, t + Block} /\ c.blocked >= n.blocked
      /\ c.count >= MaxFailures => c.blocked >= t + Block
      /\ c.count < MaxFailures => c.blocked = n.blocked
    BY <1>1, CountedIs, ReopenedIs
<1>4. /\ c # Absent /\ c.start \in Nat /\ c.count \in Nat /\ c.blocked \in Nat
      /\ n.start \in Nat /\ n.count \in Nat /\ n.blocked \in Nat
    BY <1>3, ThrottleAssumption DEF ThrottleRow
<1>5. opened \/ goesOn
    <2>1. CASE t < r.start + Window
        <3>1. n = r
            BY <1>1, <2>1, ReopenedIs
        <3>2. row # Absent => row.count > 0
            BY DEF LInv, RowInv
        <3> QED BY <2>1, <3>1, <3>2
    <2>2. CASE t >= r.start + Window
        <3>1. n = [start |-> t, count |-> 0, blocked |-> 0]
            BY <1>1, <2>2, ReopenedIs
        <3> HIDE DEF n
        <3> QED BY <3>1
    <2>3. r.start \in Nat
        BY DEF ThrottleRow
    <2> QED BY <1>1, <2>1, <2>2, <2>3
<1>6. guesses \in Nat /\ wrong \in {0, 1} /\ guesses' \in Nat
    <2>1. guesses \in Nat
        BY DEF LInv, LTypeOK
    <2>2. wrong \in {0, 1}
        OBVIOUS
    <2> HIDE DEF wrong, n
    <2> QED BY <1>2, <2>1, <2>2
<1>7. /\ Remember(recent, now) \in Seq(Nat)
      /\ recent \in Seq(Nat) /\ Len(recent) \in Nat /\ Len(recent) <= MaxFailures
    <2>1. recent \in Seq(Nat)
        BY DEF LInv, LTypeOK
    <2>2. Len(recent) <= MaxFailures
        BY DEF LInv, RecentInv
    <2> QED BY <1>1, <2>1, <2>2, RememberIs
<1> HIDE DEF c, n, t, wrong
<1>8. LTypeOK'
    BY <1>2, <1>3, <1>6, <1>7, <1>14, <1>15 DEF LInv, LTypeOK, Ends, Proceed, ThrottleRow
<1>9. goesOn => /\ row.start \in Nat /\ row.count \in Nat /\ row.blocked \in Nat
                /\ row.start <= now
    BY RowType DEF LInv, ClockInv
<1>10. ClockInv'
    <2>1. \A x \in Attempts : stamp'[x] <= now'
        <3>1. /\ stamp' = [stamp EXCEPT ![a] = 0]
              /\ \A x \in Attempts : stamp[x] <= now
            BY <1>15 DEF LInv, ClockInv, Ends
        <3> QED BY <1>1, <1>2, <3>1
    <2>2. c.start <= now
        BY <1>1, <1>3, <1>5, <1>9
    <2> QED BY <1>2, <2>1, <2>2 DEF ClockInv
<1>11. RowInv'
    <2>1. CASE opened
        <3>1. c.count > 0 /\ (c.blocked # 0 =>
                  c.count >= MaxFailures /\ c.blocked < c.start + Window + Block)
            BY <1>1, <1>3, <1>4, <2>1
        <3> QED BY <1>2, <3>1 DEF RowInv
    <2>2. CASE goesOn
        <3>1. row.blocked # 0 =>
                  row.count >= MaxFailures /\ row.blocked < row.start + Window + Block
            BY <2>2 DEF LInv, RowInv
        <3>2. c.count > 0 /\ (c.blocked # 0 =>
                  c.count >= MaxFailures /\ c.blocked < c.start + Window + Block)
            BY <1>1, <1>3, <1>4, <1>9, <2>2, <3>1
        <3> QED BY <1>2, <3>2 DEF RowInv
    <2> QED BY <1>5, <2>1, <2>2
<1>12. RecentInv'
    <2> DEFINE q == Remember(recent, now)
    <2>1. /\ Len(recent) < MaxFailures =>
                /\ Len(q) = Len(recent) + 1
                /\ \A k \in 1..Len(recent) : q[k] = recent[k]
          /\ Len(recent) = MaxFailures =>
                /\ Len(q) = Len(recent)
                /\ \A k \in 1..(Len(recent) - 1) : q[k] = recent[k + 1]
          /\ q[Len(q)] = now
        BY <1>1, <1>7, RememberIs
    <2>2. \A k \in 1..Len(recent) : recent[k] \in Nat
        BY <1>7
    <2> HIDE DEF q
    <2>3. Len(q) \in Nat /\ Len(q) <= MaxFailures /\ Len(q) > 0
        BY <1>1, <1>7, <2>1
    <2>4. CASE opened
        <3>1. c.count = 1 /\ c.start <= now
            BY <1>1, <1>3, <2>4
        <3>2. c.count <= Len(q)
            BY <2>3, <3>1
        <3>3. \A k \in 1..Len(q) : k > Len(q) - c.count => q[k] >= c.start
            BY <1>1, <1>4, <2>1, <2>3, <3>1
        <3> QED BY <1>2, <2>3, <3>2, <3>3, <1>14 DEF RecentInv, q
    <2>5. CASE goesOn
        <3>1. /\ row.count <= Len(recent) \/ Len(recent) = MaxFailures
              /\ \A k \in 1..Len(recent) :
                    k > Len(recent) - row.count => recent[k] >= row.start
            BY <2>5 DEF LInv, RecentInv
        <3>4. c.start = row.start /\ c.count = row.count + 1
            BY <1>3, <2>5
        <3>2. c.count <= Len(q) \/ Len(q) = MaxFailures
            BY <1>1, <1>3, <1>7, <1>9, <2>1, <2>5, <3>1
        <3>3. ASSUME NEW k \in 1..Len(q), k > Len(q) - c.count
              PROVE  q[k] >= c.start
            <4>1. CASE k = Len(q)
                BY <1>1, <1>3, <1>9, <2>1, <2>5, <4>1
            <4>2. CASE k # Len(q) /\ Len(recent) < MaxFailures
                <5>1. k \in 1..Len(recent) /\ k > Len(recent) - row.count
                    BY <1>7, <1>9, <2>1, <2>5, <3>3, <3>4, <4>2
                <5>2. q[k] = recent[k] /\ recent[k] >= row.start
                    BY <2>1, <3>1, <4>2, <5>1
                <5> QED BY <3>4, <5>2
            <4>3. CASE k # Len(q) /\ Len(recent) = MaxFailures
                <5>1. /\ k \in 1..(Len(recent) - 1) /\ k + 1 \in 1..Len(recent)
                      /\ k + 1 > Len(recent) - row.count
                    BY <1>7, <1>9, <2>1, <2>5, <3>3, <3>4, <4>3
                <5>2. q[k] = recent[k + 1] /\ recent[k + 1] >= row.start
                    BY <2>1, <3>1, <4>3, <5>1
                <5> QED BY <3>4, <5>2
            <4> QED BY <1>1, <1>7, <4>1, <4>2, <4>3
        <3> QED BY <1>2, <2>3, <3>2, <3>3, <1>14 DEF RecentInv, q
    <2> QED BY <1>5, <2>4, <2>5
<1>13. TriesInv'
    <2> DEFINE e == Cardinality(Early')
               l == Cardinality(Late')
    <2>1. Early' \in SUBSET (Attempts \ {a}) /\ Late' \in SUBSET (Attempts \ {a})
        BY <1>2, <1>15 DEF LInv, LTypeOK, Early, Late, Ends, Proceed
    <2>2. e \in Nat /\ l \in Nat /\ e <= Others /\ l <= Others /\ Others \in Nat
        <3>1. Early' \in SUBSET Attempts /\ Late' \in SUBSET Attempts
              /\ a \notin Early' /\ a \notin Late'
            BY <2>1
        <3> QED BY <3>1, AttemptsCount
    <2>3. Others' = Others
        BY DEF Others
    <2>4. CASE opened
        <3>1. guesses' = wrong /\ c.count = 1
            BY <1>2, <1>3, <1>6, <2>4
        <3>2. c.blocked < c.start + Window /\ Block >= Window => 1 < MaxFailures
            BY <1>1, <1>3, <1>4, <2>4, <3>1
        <3> HIDE DEF e, l
        <3>3. /\ guesses' <= c.count
              /\ Block >= Window /\ c.blocked < c.start + Window =>
                    guesses' + e <= MaxFailures - 1 + Others
              /\ Block >= Window /\ c.blocked >= c.start + Window =>
                    guesses' + l <= MaxFailures + 2 * Others
            BY <1>1, <1>4, <1>6, <2>2, <3>1, <3>2
        <3> QED BY <1>1, <1>2, <1>4, <2>3, <3>3 DEF TriesInv, Closed, e, l
    <2>5. CASE goesOn
        <3>1. /\ guesses' = guesses + wrong
              /\ c.start = row.start /\ c.count = row.count + 1
              /\ c.blocked >= row.blocked /\ guesses <= row.count
            BY <1>2, <1>3, <2>5 DEF LInv, TriesInv
        <3>2. /\ Cardinality(Early) \in Nat /\ Cardinality(Late) \in Nat
              /\ Early \in SUBSET Attempts /\ Late \in SUBSET Attempts
            <4>1. Early \in SUBSET Attempts /\ Late \in SUBSET Attempts
                BY DEF Early, Late
            <4> QED BY <4>1, AttemptsCount
        <3>3. Early' \in SUBSET (Early \ {a}) /\ Late' \in SUBSET (Late \ {a})
            <4>1. /\ input' = [input EXCEPT ![a] = Absent] /\ lpc' = [lpc EXCEPT ![a] = "idle"]
                  /\ stamp' = [stamp EXCEPT ![a] = 0] /\ row'.start = row.start /\ now' = now
                BY <1>2, <1>15, <3>1 DEF Ends, Proceed
            <4>2. \A x \in Attempts \ {a} :
                      input'[x] = input[x] /\ lpc'[x] = lpc[x] /\ stamp'[x] = stamp[x]
                BY <4>1 DEF LInv, LTypeOK
            <4> QED BY <2>1, <4>1, <4>2 DEF Early, Late
        <3>4. e <= Cardinality(Early) /\ l <= Cardinality(Late)
            BY <3>2, <3>3, AttemptsCount
        <3>5. wrong = 1 => l <= Cardinality(Late) - 1
            <4>1. wrong = 1 => a \in Late
                BY <2>5 DEF Late, wrong, t
            <4> QED BY <3>2, <3>3, <4>1, AttemptsCount
        <3>6. wrong = 1 /\ t < row.start => e <= Cardinality(Early) - 1
            <4>1. wrong = 1 /\ t < row.start => a \in Early
                BY DEF Early, wrong, t
            <4> QED BY <3>2, <3>3, <4>1, AttemptsCount
        <3>7. /\ Block >= Window /\ row.blocked < row.start + Window =>
                     guesses + Cardinality(Early) <= MaxFailures - 1 + Others
              /\ Block >= Window /\ row.blocked >= row.start + Window =>
                     guesses + Cardinality(Late) <= MaxFailures + 2 * Others
            BY <1>1, <1>9, <2>5 DEF LInv, TriesInv, Closed
        <3> DEFINE early == Cardinality(Early)
                   late == Cardinality(Late)
        <3> HIDE DEF e, l, early, late
        <3>8. guesses' <= c.count
            BY <1>3, <1>4, <1>6, <1>9, <2>5, <3>1
        <3>9. ASSUME Block >= Window, c.blocked < c.start + Window
              PROVE  guesses' + e <= MaxFailures - 1 + Others
            <4>1. row.blocked < row.start + Window
                BY <1>1, <1>4, <1>9, <2>5, <3>1, <3>9
            <4>2. guesses + early <= MaxFailures - 1 + Others /\ early \in Nat /\ e <= early
                  /\ (wrong = 1 /\ t < row.start => e <= early - 1)
                BY <3>2, <3>4, <3>6, <3>7, <3>9, <4>1 DEF early
            <4>3. CASE wrong = 0 \/ t < row.start
                BY <1>1, <1>6, <2>2, <3>1, <4>2, <4>3
            <4>4. CASE t >= row.start
                <5>1. c.count < MaxFailures
                    <6>1. c.count >= MaxFailures => c.blocked >= t + Block
                        BY <1>3
                    <6>2. c.blocked < row.start + Window
                        BY <3>1, <3>9
                    <6>3. row.start \in Nat
                        BY <1>9, <2>5
                    <6> QED BY <1>1, <1>4, <3>9, <4>4, <6>1, <6>2, <6>3
                <5>2. guesses' <= MaxFailures - 1
                    BY <1>1, <1>4, <1>6, <3>8, <5>1
                <5>3. e \in Nat /\ e <= Others /\ Others \in Nat
                    BY <2>2
                <5>4. guesses' \in Nat /\ MaxFailures \in Nat
                    BY <1>1, <1>6
                <5> QED BY <5>2, <5>3, <5>4, SumsAreBounded
            <4> QED BY <1>1, <1>6, <1>9, <2>5, <4>3, <4>4
        <3>10. ASSUME Block >= Window, c.blocked >= c.start + Window
               PROVE  guesses' + l <= MaxFailures + 2 * Others
            <4>1. CASE row.blocked < row.start + Window
                <5>1. guesses + early <= MaxFailures - 1 + Others /\ early \in Nat
                    BY <3>2, <3>7, <3>10, <4>1 DEF early
                <5> QED BY <1>1, <1>6, <2>2, <3>1, <5>1
            <4>2. CASE row.blocked >= row.start + Window
                <5>1. guesses + late <= MaxFailures + 2 * Others /\ late \in Nat
                      /\ l <= late /\ (wrong = 1 => l <= late - 1)
                    BY <3>2, <3>4, <3>5, <3>7, <3>10, <4>2 DEF late
                <5> QED BY <1>1, <1>6, <2>2, <3>1, <5>1
            <4> QED BY <1>1, <1>9, <2>5, <4>1, <4>2
        <3> QED BY <1>1, <1>2, <1>4, <2>3, <3>8, <3>9, <3>10 DEF TriesInv, Closed, e, l
    <2> QED BY <1>5, <2>4, <2>5
<1> QED BY <1>8, <1>10, <1>11, <1>12, <1>13 DEF LInv

LEMMA RecordingInv ==
    ASSUME LInv, NEW a \in Attempts, InsertRow(a) \/ LockRow(a)
    PROVE  LInv'
<1>1. CASE InsertRow(a)
    <2> DEFINE r == [start |-> stamp[a], count |-> 0, blocked |-> 0]
    <2>1. lpc[a] \in {"insert", "lock"} /\ row = Absent /\ Record(a, r)
        BY <1>1 DEF InsertRow
    <2>2. r \in ThrottleRow /\ r.start = stamp[a] /\ r.count = 0 /\ r.blocked = 0
        BY TimesType DEF LInv, ThrottleRow
    <2> HIDE DEF r
    <2> QED BY <2>1, <2>2, RecordInv
<1>2. CASE LockRow(a)
    <2>1. lpc[a] \in {"insert", "lock"} /\ row # Absent /\ Record(a, row)
        BY <1>2 DEF LockRow
    <2>2. row \in ThrottleRow
        BY <2>1, RowType DEF LInv
    <2> QED BY <2>1, <2>2, RecordInv
<1> QED BY <1>1, <1>2

LEMMA LInductive == LInv /\ [LNext]_lvars => LInv'
<1> SUFFICES ASSUME LInv, [LNext]_lvars
             PROVE  LInv'
    OBVIOUS
<1>1. CASE Tick
    BY <1>1, ThrottleTickInv
<1>2. ASSUME NEW a \in Attempts, NEW i \in Inputs, Login(a, i)
      PROVE  LInv'
    BY <1>2, LoginInv
<1>3. ASSUME NEW a \in Attempts, Step(a)
      PROVE  LInv'
    BY <1>3, CheckInv, UnrecordedInv, VerifyInv, ReadClockInv, RecordingInv,
       RowExistsInv, ClearOnLoginInv DEF Step
<1>4. CASE UNCHANGED lvars
    <2> USE <1>4 DEF lvars, attempts
    <2>1. LTypeOK'
        BY DEF LInv, LTypeOK, ghosts
    <2>2. ClockInv' /\ Early' \subseteq Early /\ Late' \subseteq Late
        BY DEF LInv, ClockInv, Early, Late
    <2> QED BY <2>1, <2>2, NothingRecorded
<1> QED BY <1>1, <1>2, <1>3, <1>4 DEF LNext

LEMMA LInvariant == LSpec => []LInv
BY LInitInv, LInductive, PTL DEF LSpec

LEMMA BlockedForCause ==
    ASSUME LInv, IsLoginBlocked
    PROVE  /\ row.count >= MaxFailures
           /\ Len(recent) = MaxFailures
           /\ \A k \in 1..MaxFailures : recent[k] >= row.start
           /\ now < row.start + Window + Block
<1>1. /\ row # Absent /\ row.blocked > now /\ now \in Nat /\ MaxFailures \in Nat
      /\ Window \in Nat /\ Block \in Nat
      /\ row.start \in Nat /\ row.count \in Nat /\ row.blocked \in Nat
    BY RowType, TimesType DEF LInv, IsLoginBlocked
<1>2. row.count >= MaxFailures /\ row.blocked < row.start + Window + Block
    BY <1>1 DEF LInv, RowInv
<1>3. /\ Len(recent) <= MaxFailures
      /\ row.count <= Len(recent) \/ Len(recent) = MaxFailures
      /\ \A k \in 1..Len(recent) : k > Len(recent) - row.count => recent[k] >= row.start
    BY <1>1 DEF LInv, RecentInv
<1>4. Len(recent) \in Nat
    <2>1. recent \in Seq(Nat)
        BY DEF LInv, LTypeOK
    <2> QED BY <2>1
<1>5. Len(recent) = MaxFailures
    BY <1>1, <1>2, <1>3, <1>4
<1>6. \A k \in 1..MaxFailures : recent[k] >= row.start
    BY <1>1, <1>2, <1>3, <1>5
<1> QED BY <1>1, <1>2, <1>5, <1>6

(***************************************************************************)
(* LoginThrottle: theorems                                                 *)
(***************************************************************************)
\* Every variable of the throttle and of its attempts keeps its type.
THEOREM ThrottleTypeCorrect == LSpec => []LTypeOK
<1>1. LInv => LTypeOK
    BY DEF LInv
<1> QED BY <1>1, LInvariant, PTL

\* However many attempts meet at the row, with times as late and in whatever
\* order, the wrong passwords of one window are not many more than the failures
\* that are allowed (Service.Login, RecordLoginFailure).
THEOREM TriesBounded == LSpec => []TriesAreBounded
<1>1. LInv => TriesAreBounded
    <2> SUFFICES ASSUME LInv, Block >= Window
                 PROVE  guesses <= MaxFailures + 2 * Others
        BY DEF TriesAreBounded, Others
    <2>1. guesses \in Nat /\ MaxFailures \in Nat /\ Others \in Nat
        <3>1. {} \in SUBSET Attempts
            OBVIOUS
        <3> QED BY <3>1, AttemptsCount, TimesType DEF LInv, LTypeOK
    <2>2. CASE row = Absent
        <3>1. guesses = 0
            BY <2>2, Zenon DEF LInv, TriesInv
        <3> QED BY <2>1, <3>1
    <2>3. CASE row # Absent
        <3>1. /\ Early \in SUBSET Attempts /\ Late \in SUBSET Attempts
            BY DEF Early, Late
        <3>2. Cardinality(Early) \in Nat /\ Cardinality(Late) \in Nat
            BY <3>1, AttemptsCount
        <3> QED BY <2>1, <2>3, <3>2 DEF LInv, TriesInv
    <2> QED BY <2>2, <2>3
<1> QED BY <1>1, LInvariant, PTL

\* What a row blocks for is recent: as many failures as block were recorded in
\* its window, and not one of them before it (RecordLoginFailure).
THEOREM BlocksForCause ==
    LSpec => [](IsLoginBlocked => /\ row.count >= MaxFailures
                                  /\ Len(recent) = MaxFailures
                                  /\ \A k \in 1..MaxFailures : recent[k] >= row.start
                                  /\ now < row.start + Window + Block)
<1>1. LInv => (IsLoginBlocked => /\ row.count >= MaxFailures
                                 /\ Len(recent) = MaxFailures
                                 /\ \A k \in 1..MaxFailures : recent[k] >= row.start
                                 /\ now < row.start + Window + Block)
    BY BlockedForCause
<1> QED BY <1>1, LInvariant, PTL

\* Who is refused finds as many failures as block, none forgotten by a success
\* and none older than a window and a block (IsLoginBlocked).
THEOREM RefusedRightly == LSpec => RefusedForCause
<1>1. ASSUME LInv, [LNext]_lvars
      PROVE  [\A a \in Attempts : outcome[a] # "throttled" /\ outcome'[a] = "throttled" =>
                  /\ Len(recent) = MaxFailures
                  /\ now - recent[1] < Window + Block]_lvars
    <2> SUFFICES ASSUME NEW a \in Attempts, LNext,
                        outcome[a] # "throttled", outcome'[a] = "throttled"
                 PROVE  /\ Len(recent) = MaxFailures
                        /\ now - recent[1] < Window + Block
        BY <1>1 DEF lvars, attempts
    <2>1. PICK x \in Attempts : (\E i \in Inputs : Login(x, i)) \/ Step(x)
        BY DEF LNext, Tick, attempts
    <2>2. outcome \in [Attempts -> {Absent, "throttled", "invalid credentials",
                                    "internal error", "logged in"}]
        BY <1>1 DEF LInv, LTypeOK
    <2>3. IsLoginBlocked
        <3>1. ASSUME NEW answer, Ends(x, answer), answer # "throttled"
              PROVE  FALSE
            BY <2>2, <3>1 DEF Ends
        <3>2. ASSUME UNCHANGED outcome
              PROVE  FALSE
            BY <3>2
        <3>3. ~(\E i \in Inputs : Login(x, i))
            BY <2>2, ThrottleAssumption DEF Login
        <3> QED BY <2>1, <3>1, <3>2, <3>3 DEF Step, Check, Throttled, Verify, ReadClock,
                InsertRow, RowExists, LockRow, RowIsGone, ClearOnLogin, Fails, Record
    <2>4. /\ Len(recent) = MaxFailures
          /\ \A k \in 1..MaxFailures : recent[k] >= row.start
          /\ now < row.start + Window + Block
        BY <1>1, <2>3, BlockedForCause
    <2>5. /\ now \in Nat /\ MaxFailures \in Nat \ {0} /\ row.start \in Nat
          /\ Window \in Nat /\ Block \in Nat
        BY <1>1, <2>3, TimesType, RowType DEF LInv, IsLoginBlocked
    <2>6. recent[1] \in Nat /\ recent[1] >= row.start
        <3>1. recent \in Seq(Nat)
            BY <1>1 DEF LInv, LTypeOK
        <3> QED BY <2>4, <2>5, <3>1
    <2> QED BY <2>4, <2>5, <2>6
<1> QED BY <1>1, LInvariant, PTL DEF LSpec, RefusedForCause
=============================================================================
