------------------------------ MODULE Accounts ------------------------------
(***************************************************************************)
(* Accounts and sessions: internal/identity over PostgreSQL.               *)
(*                                                                         *)
(* Every handler is a process; its transactions run at READ COMMITTED, so  *)
(* each statement sees the state committed when it starts, and two         *)
(* transactions that write the same row of users or sessions are           *)
(* serialised by its row lock.  A transaction that waits for no one else   *)
(* runs to its next wait in one step.  What a transaction writes appears   *)
(* when it commits.                                                        *)
(***************************************************************************)
EXTENDS Naturals, FiniteSets

CONSTANTS
    Users,      \* user ids; their order is the ORDER BY id of the row locks
    Sessions,   \* session tokens
    Requests,   \* request handlers that run at the same time
    None,
    MaxVersion  \* bound: no operation starts on an account at this version

VARIABLES
    user,     \* the users table: id -> row or None
    session,  \* the live rows of sessions: token -> row or None
    lock,     \* the transaction that holds a users row for writing
    holder,   \* the transaction that holds a sessions row
    bootLock, \* the transaction that holds the bootstrap advisory lock
    pc,
    req,      \* what a request was authenticated and asked for
    scan,     \* enabled Admins lockEnabledAdmins has still to lock
    counted,  \* enabled Admins it has locked and counted
    seen      \* sessions its revocation statement saw; of a logout, its own

tables == <<user, session>>
locks == <<lock, holder, bootLock>>
locals == <<req, scan, counted, seen>>
vars == <<tables, locks, pc, locals>>

Roles == {"admin", "member"}
UserRow == [role : Roles, enabled : BOOLEAN, mustChange : BOOLEAN,
            version : Nat \ {0}]
SessionRow == [owner : Users,
               version : Nat \ {0}]  \* the account's version at the login

Kinds == {"bootstrap", "login", "logout", "create", "update", "reset", "change"}
Req == [kind : Kinds, actor : Users, target : Users, role : Roles,
        enabled : BOOLEAN, expected : Nat]

ASSUME AccountsAssumption ==
    /\ Users \subseteq Nat /\ IsFiniteSet(Users)
    /\ MaxVersion \in Nat
    /\ None \notin Users /\ None \notin Requests
    /\ None \notin UserRow /\ None \notin SessionRow /\ None \notin Req

Labels == {"idle", "bootLock", "bootInsert", "login", "logout", "audit", "create",
           "scan", "admins", "target", "commit"}

Init ==
    /\ user = [u \in Users |-> None]
    /\ session = [s \in Sessions |-> None]
    /\ lock = [u \in Users |-> None]
    /\ holder = [s \in Sessions |-> None]
    /\ bootLock = None
    /\ pc = [t \in Requests |-> "idle"]
    /\ req = [t \in Requests |-> None]
    /\ scan = [t \in Requests |-> {}]
    /\ counted = [t \in Requests |-> {}]
    /\ seen = [t \in Requests |-> {}]

Exists(u) == user[u] # None
EnabledAdmin(u) == Exists(u) /\ user[u].enabled /\ user[u].role = "admin"
EnabledAdmins == {u \in Users : EnabledAdmin(u)}
LiveSessions(u) == {s \in Sessions : session[s] # None /\ session[s].owner = u}

Goto(t, label) == pc' = [pc EXCEPT ![t] = label]
Free(u, t) == lock[u] \in {None, t}

\* No request names the session.
Unnamed(s) == \A t \in Requests : s \notin seen[t]

\* What the transaction of t makes of the sessions whose rows it holds.
Revoked(t) == [s \in Sessions |-> IF holder[s] = t THEN None ELSE session[s]]

\* The transaction of t ends: its locks are released, its locals forgotten.
End(t) ==
    /\ Goto(t, "idle")
    /\ lock' = [u \in Users |-> IF lock[u] = t THEN None ELSE lock[u]]
    /\ holder' = [s \in Sessions |-> IF holder[s] = t THEN None ELSE holder[s]]
    /\ bootLock' = IF bootLock = t THEN None ELSE bootLock
    /\ req' = [req EXCEPT ![t] = None]
    /\ scan' = [scan EXCEPT ![t] = {}]
    /\ counted' = [counted EXCEPT ![t] = {}]
    /\ seen' = [seen EXCEPT ![t] = {}]

\* An audit event or a created_by column refers to the actor: the foreign key
\* takes FOR KEY SHARE on the actor's row, which only the FOR UPDATE of another
\* UpdateUser keeps waiting; plain updates of a row do not.
ActorReferable(t) ==
    \A h \in Requests \ {t} : lock[req[t].actor] = h => req[h].kind # "update"

(***************************************************************************)
(* Authentication at the start of a request                                *)
(***************************************************************************)
\* LookupSession: the row of a live session's enabled owner.
Authenticated(u) == LiveSessions(u) # {} /\ user[u].enabled

\* requireAdmin decides on that row, not on the row at the time of the write.
AuthenticatedAdmin(u) ==
    Authenticated(u) /\ user[u].role = "admin" /\ ~user[u].mustChange

Start(t, r, label) ==
    /\ pc[t] = "idle"
    /\ req' = [req EXCEPT ![t] = r]
    /\ Goto(t, label)
    /\ UNCHANGED <<tables, locks, scan, counted, seen>>

Request(kind, actor, target) ==
    [kind |-> kind, actor |-> actor, target |-> target, role |-> "admin",
     enabled |-> TRUE, expected |-> 0]

\* BootstrapAdmin, with the configured token and a valid first account.
StartBootstrap(t) ==
    \E u \in Users : Start(t, Request("bootstrap", u, u), "bootLock")

\* FindUserByIdentifier and Verify: the password presented matches the hash
\* read, and the account is enabled in the row read.
StartLogin(t) ==
    \E u \in Users :
        /\ Exists(u) /\ user[u].enabled
        /\ Start(t, Request("login", u, u), "login")

\* The request carries the token of a live session, its own.
StartLogout(t) ==
    \E s \in Sessions :
        /\ session[s] # None /\ Authenticated(session[s].owner)
        /\ pc[t] = "idle"
        /\ req' = [req EXCEPT ![t] = Request("logout", session[s].owner, session[s].owner)]
        /\ seen' = [seen EXCEPT ![t] = {s}]
        /\ Goto(t, "logout")
        /\ UNCHANGED <<tables, locks, scan, counted>>

StartCreate(t) ==
    \E u, v \in Users, role \in Roles :
        /\ AuthenticatedAdmin(u)
        /\ Start(t, [Request("create", u, v) EXCEPT !.role = role], "create")

\* The client sends the version it has just been shown.
StartUpdate(t) ==
    \E u, v \in Users, role \in Roles, enabled \in BOOLEAN :
        /\ AuthenticatedAdmin(u)
        /\ Exists(v) /\ user[v].version < MaxVersion
        /\ Start(t, [Request("update", u, v) EXCEPT
                         !.role = role, !.enabled = enabled,
                         !.expected = user[v].version], "scan")

StartReset(t) ==
    \E u, v \in Users :
        /\ AuthenticatedAdmin(u)
        /\ Exists(v) /\ user[v].version < MaxVersion
        /\ Start(t, Request("reset", u, v), "target")

\* ChangePassword is open to an account that has to change its password.
StartChange(t) ==
    \E u \in Users :
        /\ Authenticated(u) /\ user[u].version < MaxVersion
        /\ Start(t, Request("change", u, u), "target")

(***************************************************************************)
(* BootstrapAdmin                                                          *)
(***************************************************************************)
\* SELECT EXISTS (SELECT 1 FROM users)
BootstrapAvailable == \A u \in Users : ~Exists(u)

\* Mutant: the transaction does not take the advisory lock.
BootstrapLockShared(t) ==
    /\ pc[t] = "bootLock"
    /\ BootstrapAvailable
    /\ Goto(t, "bootInsert")
    /\ UNCHANGED <<tables, locks, locals>>

\* The advisory lock, and the check behind it.
BootstrapLock(t) ==
    /\ pc[t] = "bootLock"
    /\ bootLock = None
    /\ BootstrapAvailable
    /\ bootLock' = t
    /\ Goto(t, "bootInsert")
    /\ UNCHANGED <<tables, lock, holder, locals>>

BootstrapUnavailable(t) ==
    /\ pc[t] = "bootLock"
    /\ bootLock = None
    /\ ~BootstrapAvailable
    /\ End(t)
    /\ UNCHANGED tables

NewUser(role, mustChange) ==
    [role |-> role, enabled |-> TRUE, mustChange |-> mustChange, version |-> 1]

BootstrapInsert(t) ==
    /\ pc[t] = "bootInsert"
    /\ ~Exists(req[t].target)
    /\ user' = [user EXCEPT ![req[t].target] = NewUser("admin", FALSE)]
    /\ End(t)
    /\ UNCHANGED session

(***************************************************************************)
(* CreateLoginSession                                                      *)
(***************************************************************************)
\* Mutant: the session is inserted without the update of the users row.
CreateLoginSessionUnordered(t) ==
    /\ pc[t] = "login"
    /\ \E s \in Sessions :
        /\ session[s] = None /\ Unnamed(s)
        /\ session' = [session EXCEPT ![s] =
               [owner |-> req[t].target, version |-> user[req[t].target].version]]
    /\ End(t)
    /\ UNCHANGED user

\* The session is inserted, then last_login_at is written: this update waits
\* for the users row, and nothing is read again from it.  Tokens are random: one
\* that a request still names is not drawn again.
CreateLoginSession(t) ==
    /\ pc[t] = "login"
    /\ Free(req[t].target, t)
    /\ \E s \in Sessions :
        /\ session[s] = None /\ Unnamed(s)
        /\ session' = [session EXCEPT ![s] =
               [owner |-> req[t].target, version |-> user[req[t].target].version]]
    /\ End(t)
    /\ UNCHANGED user

(***************************************************************************)
(* RevokeSession                                                           *)
(***************************************************************************)
\* The update waits for the row of the session...
LockOwnSession(t) ==
    /\ pc[t] = "logout"
    /\ \E s \in seen[t] :
        /\ session[s] # None /\ holder[s] = None
        /\ holder' = [holder EXCEPT ![s] = t]
    /\ Goto(t, "audit")
    /\ UNCHANGED <<tables, lock, bootLock, locals>>

\* ...finds it revoked, and there is nothing to record...
RevokedAlready(t) ==
    /\ pc[t] = "logout"
    /\ \A s \in seen[t] : session[s] = None
    /\ End(t)
    /\ UNCHANGED tables

\* ...or the audit event comes next, which refers to the owner, and the commit.
RevokeSession(t) ==
    /\ pc[t] = "audit"
    /\ ActorReferable(t)
    /\ session' = Revoked(t)
    /\ End(t)
    /\ UNCHANGED user

\* The session expires; while a request names it this makes no difference to it.
Expire(s) ==
    /\ session[s] # None /\ Unnamed(s)
    /\ session' = [session EXCEPT ![s] = None]
    /\ UNCHANGED <<user, locks, pc, locals>>

(***************************************************************************)
(* CreateUser                                                              *)
(***************************************************************************)
CreateUser(t) ==
    /\ pc[t] = "create"
    /\ ActorReferable(t)
    /\ ~Exists(req[t].target)
    /\ user' = [user EXCEPT ![req[t].target] = NewUser(req[t].role, TRUE)]
    /\ End(t)
    /\ UNCHANGED session

\* The unique username or e-mail is taken.
CreateConflict(t) ==
    /\ pc[t] = "create"
    /\ Exists(req[t].target)
    /\ End(t)
    /\ UNCHANGED tables

(***************************************************************************)
(* UpdateUser, ResetPassword, ChangePassword                               *)
(***************************************************************************)
\* lockEnabledAdmins: the statement sees the enabled Admins of its start...
ScanAdmins(t) ==
    /\ pc[t] = "scan"
    /\ scan' = [scan EXCEPT ![t] = EnabledAdmins]
    /\ Goto(t, IF EnabledAdmins = {} THEN "target" ELSE "admins")
    /\ UNCHANGED <<tables, locks, req, counted, seen>>

\* Mutant: the enabled Admins are counted without FOR UPDATE.
LockAdminCountsOnly(t) ==
    /\ pc[t] = "admins"
    /\ counted' = [counted EXCEPT ![t] = scan[t]]
    /\ scan' = [scan EXCEPT ![t] = {}]
    /\ Goto(t, "target")
    /\ UNCHANGED <<tables, locks, req, seen>>

\* ...and locks them in the order of their ids.  A row that changed while its
\* lock was awaited is tested again and counted only if it still qualifies.
LockAdmin(t) ==
    /\ pc[t] = "admins"
    /\ \E u \in scan[t] :
        /\ \A v \in scan[t] : u <= v
        /\ Free(u, t)
        /\ lock' = [lock EXCEPT ![u] = t]
        /\ counted' = [counted EXCEPT ![t] = IF EnabledAdmin(u) THEN @ \cup {u} ELSE @]
        /\ scan' = [scan EXCEPT ![t] = @ \ {u}]
        /\ Goto(t, IF scan[t] = {u} THEN "target" ELSE "admins")
    /\ UNCHANGED <<tables, holder, bootLock, req, seen>>

\* UPDATE sessions SET revoked_at ... WHERE user_id = target: the sessions that
\* this statement sees, behind the lock of the account.
RevokeSessions(t) == seen' = [seen EXCEPT ![t] = LiveSessions(req[t].target)]

RemovesEnabledAdmin(t) ==
    /\ EnabledAdmin(req[t].target)
    /\ ~req[t].enabled \/ req[t].role # "admin"

\* Mutant: the expected version is not compared.
LockTargetAnyVersion(t) ==
    /\ pc[t] = "target" /\ req[t].kind = "update"
    /\ Free(req[t].target, t)
    /\ ~(RemovesEnabledAdmin(t) /\ Cardinality(counted[t]) <= 1)
    /\ lock' = [lock EXCEPT ![req[t].target] = t]
    /\ RevokeSessions(t)
    /\ Goto(t, "commit")
    /\ UNCHANGED <<tables, holder, bootLock, req, scan, counted>>

\* UpdateUser locks the target, checks its version and the last Admin, and revokes.
LockTarget(t) ==
    /\ pc[t] = "target" /\ req[t].kind = "update"
    /\ Free(req[t].target, t)
    /\ user[req[t].target].version = req[t].expected
    /\ ~(RemovesEnabledAdmin(t) /\ Cardinality(counted[t]) <= 1)
    /\ lock' = [lock EXCEPT ![req[t].target] = t]
    /\ RevokeSessions(t)
    /\ Goto(t, "commit")
    /\ UNCHANGED <<tables, holder, bootLock, req, scan, counted>>

\* Mutant: a refusal returns without the rollback, so the locks stay.
UpdateRefusedKeepsLocks(t) ==
    /\ pc[t] = "target" /\ req[t].kind = "update"
    /\ Free(req[t].target, t)
    /\ \/ user[req[t].target].version # req[t].expected
       \/ RemovesEnabledAdmin(t) /\ Cardinality(counted[t]) <= 1
    /\ Goto(t, "idle")
    /\ UNCHANGED <<tables, locks, locals>>

UpdateRefused(t) ==
    /\ pc[t] = "target" /\ req[t].kind = "update"
    /\ Free(req[t].target, t)
    /\ \/ user[req[t].target].version # req[t].expected
       \/ RemovesEnabledAdmin(t) /\ Cardinality(counted[t]) <= 1
    /\ End(t)
    /\ UNCHANGED tables

\* ResetPassword and ChangePassword begin with the update itself; the latter
\* requires the account to be enabled.
WriteTarget(t) ==
    /\ pc[t] = "target" /\ req[t].kind \in {"reset", "change"}
    /\ Free(req[t].target, t)
    /\ req[t].kind = "change" => user[req[t].target].enabled
    /\ lock' = [lock EXCEPT ![req[t].target] = t]
    /\ RevokeSessions(t)
    /\ Goto(t, "commit")
    /\ UNCHANGED <<tables, holder, bootLock, req, scan, counted>>

ChangeRefused(t) ==
    /\ pc[t] = "target" /\ req[t].kind = "change"
    /\ Free(req[t].target, t)
    /\ ~user[req[t].target].enabled
    /\ End(t)
    /\ UNCHANGED tables

\* Their rows that it has still to lock: a logout may hold one, or have revoked it.
Unlocked(t) == {s \in seen[t] : session[s] # None /\ holder[s] # t}

LockSession(t) ==
    /\ pc[t] = "commit"
    /\ \E s \in Unlocked(t) :
        /\ holder[s] = None
        /\ holder' = [holder EXCEPT ![s] = t]
    /\ UNCHANGED <<tables, lock, bootLock, pc, locals>>

\* The row that the transaction writes.
Updated(t) ==
    LET row == [user[req[t].target] EXCEPT !.version = @ + 1] IN
    IF req[t].kind = "update"
    THEN [row EXCEPT !.role = req[t].role, !.enabled = req[t].enabled]
    ELSE [row EXCEPT !.mustChange = (req[t].kind = "reset")]

\* The audit event, which refers to the actor, and the commit.
Commit(t) ==
    /\ pc[t] = "commit"
    /\ Unlocked(t) = {}
    /\ ActorReferable(t)
    /\ user' = [user EXCEPT ![req[t].target] = Updated(t)]
    /\ session' = Revoked(t)
    /\ End(t)

(***************************************************************************)
(* Rollbacks                                                               *)
(***************************************************************************)
\* The client goes away, the database fails or the process stops: the deferred
\* rollback, or PostgreSQL, ends the transaction.
Cancel(t) ==
    /\ pc[t] # "idle"
    /\ End(t)
    /\ UNCHANGED tables

\* The sessions whose rows t waits for: all of them are held by others.
AwaitedSessions(t) ==
    LET rows == CASE pc[t] = "logout" -> {s \in seen[t] : session[s] # None}
                  [] pc[t] = "commit" -> Unlocked(t)
                  [] OTHER -> {}
    IN IF \E s \in rows : holder[s] = None THEN {} ELSE rows

AwaitsActor(t) ==
    /\ pc[t] \in {"create", "audit", "commit"}
    /\ pc[t] = "commit" => Unlocked(t) = {}
    /\ ~ActorReferable(t)

\* The transactions that keep t waiting.
Blockers(t) ==
    {h \in Requests \ {t} :
        \/ pc[t] = "bootLock" /\ bootLock = h
        \/ pc[t] \in {"login", "target"} /\ lock[req[t].target] = h
        \/ pc[t] = "admins" /\ \E u \in scan[t] : lock[u] = h /\ \A v \in scan[t] : u <= v
        \/ \E s \in AwaitedSessions(t) : holder[s] = h
        \/ AwaitsActor(t) /\ lock[req[t].actor] = h}

\* PostgreSQL aborts a transaction that waits in a cycle.
DeadlockDetected(t) ==
    /\ \E S \in SUBSET Requests :
        /\ t \in S
        /\ \A x \in S : \E y \in S : y \in Blockers(x)
        /\ \A x \in S : \E y \in S : x \in Blockers(y)
    /\ End(t)
    /\ UNCHANGED tables

StartAny(t) ==
    \/ StartBootstrap(t) \/ StartLogin(t) \/ StartLogout(t) \/ StartCreate(t)
    \/ StartUpdate(t) \/ StartReset(t) \/ StartChange(t)

Work(t) ==
    \/ BootstrapLock(t) \/ BootstrapUnavailable(t) \/ BootstrapInsert(t)
    \/ CreateLoginSession(t)
    \/ LockOwnSession(t) \/ RevokedAlready(t) \/ RevokeSession(t)
    \/ CreateUser(t) \/ CreateConflict(t)
    \/ ScanAdmins(t) \/ LockAdmin(t) \/ LockTarget(t) \/ UpdateRefused(t)
    \/ WriteTarget(t) \/ ChangeRefused(t) \/ LockSession(t) \/ Commit(t)
    \/ DeadlockDetected(t)

Next ==
    \/ \E t \in Requests : StartAny(t) \/ Work(t) \/ Cancel(t)
    \/ \E s \in Sessions : Expire(s)

Spec == Init /\ [][Next]_vars

\* A transaction whose lock is free continues; in a cycle Work is PostgreSQL's
\* deadlock detector.  A lock that is free again and again may still be taken by
\* others each time, so this is strong fairness of the lock queue.  A session
\* expires whatever requests name it one after the other.
FairSpec ==
    /\ Spec
    /\ \A t \in Requests : SF_vars(Work(t))
    /\ \A s \in Sessions : SF_vars(Expire(s))

(***************************************************************************)
(* Properties                                                              *)
(***************************************************************************)
TypeOK ==
    /\ user \in [Users -> UserRow \cup {None}]
    /\ session \in [Sessions -> SessionRow \cup {None}]
    /\ lock \in [Users -> Requests \cup {None}]
    /\ holder \in [Sessions -> Requests \cup {None}]
    /\ bootLock \in Requests \cup {None}
    /\ pc \in [Requests -> Labels]
    /\ req \in [Requests -> Req \cup {None}]
    /\ scan \in [Requests -> SUBSET Users]
    /\ counted \in [Requests -> SUBSET Users]
    /\ seen \in [Requests -> SUBSET Sessions]

\* Once there is an account there is an enabled Admin: concurrent updates never
\* disable or demote the last one together (UpdateUser, ErrLastAdmin).
SomeEnabledAdmin == (\E u \in Users : Exists(u)) => EnabledAdmins # {}

\* At most one account is made by bootstrap, however many requests race: the
\* table is still as empty as the check found it.
OneFounder ==
    [][\A t \in Requests : BootstrapInsert(t) => \A u \in Users : ~Exists(u)]_vars

\* No session outlives a change of its account that was committed after the
\* session: role, status and password changes revoke them all, including those
\* that are being inserted while the change commits.
SessionIsCurrent ==
    \A s \in Sessions : session[s] # None =>
        session[s].version = user[session[s].owner].version

\* Two updates based on the same version do not both take effect: a row changes
\* one version at a time and UpdateUser only from the version it was sent.
NoLostUpdate ==
    [][\A u \in Users : Exists(u) /\ user'[u] # user[u] =>
           /\ user'[u].version = user[u].version + 1
           /\ \E t \in Requests :
                /\ pc[t] = "commit" /\ req[t].target = u
                /\ req[t].kind = "update" => req[t].expected = user[u].version]_vars

\* No request waits for ever, although row locks are taken in conflicting
\* orders: an update of an account holds its row and wants its sessions, a logout
\* holds a session and wants the row.  The requests are alike, so one of them stands for all.
RequestsEnd ==
    LET t == CHOOSE t \in Requests : TRUE IN pc[t] # "idle" ~> pc[t] = "idle"
============================================================================
