----------------------------- MODULE Migrations -----------------------------
(***************************************************************************)
(* internal/migrations and internal/health: `ppr migrate up` of several    *)
(* releases against one database, and the check that `ppr migrate status`  *)
(* and the readiness endpoint make of its ledger.                          *)
(*                                                                         *)
(* A migrator holds a session advisory lock while it compares the ledger   *)
(* with its embedded files and applies what is missing, each file in a     *)
(* transaction of its own.  A check holds no lock: it asks whether the     *)
(* ledger exists in one statement and reads it in the next.                *)
(***************************************************************************)
EXTENDS Integers, FiniteSets

CONSTANTS
    Releases,    \* builds of ppr
    Directory,   \* Directory[r]: the files of the sql directory embedded in r
    Migrators,   \* processes that run migrate up
    Checkers,    \* goroutines and processes that ask for the migration state
    None

VARIABLES
    up,          \* PostgreSQL answers
    initialized, \* the table ppr_schema_migrations exists
    ledger,      \* its rows
    lock,        \* the session that holds the advisory lock
    mpc, build,  \* of a migrator: its next step and its release
    applied,     \*   and the map it read and keeps up to date
    cpc, asked,  \* of a checker: its next step and its release
    answer       \*   and its answer

database == <<up, initialized, ledger, lock>>
migrators == <<mpc, build, applied>>
checkers == <<cpc, asked, answer>>
mvars == <<database, migrators, checkers>>

\* A file is its version, 0 when the name yields no positive one, and its text,
\* which its checksum stands for and which is None when there is nothing in it.
File == [version : Nat, text : STRING \cup {None}]

ASSUME MigrationsAssumption ==
    /\ Directory \in [Releases -> SUBSET File]
    /\ \A r \in Releases : IsFiniteSet(Directory[r])
    /\ None \notin Releases /\ None \notin Migrators
    /\ None \notin {"ready", "not ready"}

(***************************************************************************)
(* Load, validateApplied                                                   *)
(***************************************************************************)
Loads(r) ==
    /\ \A f \in Directory[r] : f.version > 0 /\ f.text # None
    /\ \A f, g \in Directory[r] : f.version = g.version => f = g

\* Every row is a file of the release, under its version and with its checksum.
Validates(r, rows) == rows \subseteq Directory[r]

\* The files Up still has to apply to a ledger with these rows.
Pending(r, rows) ==
    {f \in Directory[r] : \A e \in rows : e.version # f.version}

\* Files are sorted by version: the next one is the least.
Least(files) == CHOOSE f \in files : \A g \in files : f.version <= g.version

MInit ==
    /\ up = TRUE /\ lock = None
    /\ initialized = FALSE /\ ledger = {}
    /\ mpc = [m \in Migrators |-> "idle"]
    /\ build = [m \in Migrators |-> None]
    /\ applied = [m \in Migrators |-> {}]
    /\ cpc = [c \in Checkers |-> "idle"]
    /\ asked = [c \in Checkers |-> None]
    /\ answer = [c \in Checkers |-> None]

(***************************************************************************)
(* Up                                                                      *)
(***************************************************************************)
Step(m, from, to) == mpc[m] = from /\ mpc' = [mpc EXCEPT ![m] = to]

\* The command ends without effect when its files do not load or there is no
\* answer to its ping.
StartUp(m, r) ==
    /\ Step(m, "idle", "lock")
    /\ up /\ Loads(r)
    /\ build' = [build EXCEPT ![m] = r]
    /\ UNCHANGED <<database, applied, checkers>>

\* SELECT pg_advisory_lock waits.
Lock(m) ==
    /\ Step(m, "lock", "create")
    /\ lock = None
    /\ lock' = m
    /\ UNCHANGED <<up, initialized, ledger, build, applied, checkers>>

CreateLedger(m) ==
    /\ Step(m, "create", "read")
    /\ initialized' = TRUE
    /\ UNCHANGED <<up, ledger, lock, build, applied, checkers>>

\* Mutant: versions that the release does not know are passed over.
ReadKnown(m) ==
    /\ Step(m, "read", "apply")
    /\ applied' = [applied EXCEPT ![m] = ledger]
    /\ UNCHANGED <<database, build, checkers>>

ReadApplied(m) ==
    /\ Step(m, "read", IF Validates(build[m], ledger) THEN "apply" ELSE "unlock")
    /\ applied' = [applied EXCEPT ![m] = ledger]
    /\ UNCHANGED <<database, build, checkers>>

Done(m) ==
    /\ Step(m, "apply", "unlock")
    /\ Pending(build[m], applied[m]) = {}
    /\ UNCHANGED <<database, build, applied, checkers>>

\* applyOne executes the file in a transaction.
Execute(m) ==
    /\ Step(m, "apply", "record")
    /\ Pending(build[m], applied[m]) # {}
    /\ UNCHANGED <<database, build, applied, checkers>>

Collides(m) ==
    LET f == Least(Pending(build[m], applied[m]))
    IN  \E e \in ledger : e.version = f.version

\* It records the file and commits.  The reply may be lost with the session.
Record(m) ==
    LET f == Least(Pending(build[m], applied[m]))
    IN  /\ mpc[m] = "record" /\ ~Collides(m)
        /\ ledger' = ledger \cup {f}
        /\ \/ /\ mpc' = [mpc EXCEPT ![m] = "apply"]
              /\ applied' = [applied EXCEPT ![m] = @ \cup {f}]
              /\ UNCHANGED <<lock, build>>
           \/ /\ mpc' = [mpc EXCEPT ![m] = "idle"]
              /\ applied' = [applied EXCEPT ![m] = {}]
              /\ build' = [build EXCEPT ![m] = None]
              /\ lock' = IF lock = m THEN None ELSE lock
        /\ UNCHANGED <<up, initialized, checkers>>

\* Mutant: an error returns the connection to the pool with the lock on it.
UpFailsLocked(m) ==
    /\ mpc[m] \in {"create", "read", "apply", "record"}
    /\ mpc' = [mpc EXCEPT ![m] = "idle"]
    /\ build' = [build EXCEPT ![m] = None]
    /\ applied' = [applied EXCEPT ![m] = {}]
    /\ UNCHANGED <<database, checkers>>

\* A statement fails, or the primary key refuses the row: Up unlocks and returns.
UpFails(m) ==
    /\ mpc[m] \in {"create", "read", "apply", "record"}
    /\ mpc' = [mpc EXCEPT ![m] = "unlock"]
    /\ UNCHANGED <<database, build, applied, checkers>>

SessionEnds(m) ==
    /\ mpc' = [mpc EXCEPT ![m] = "idle"]
    /\ build' = [build EXCEPT ![m] = None]
    /\ applied' = [applied EXCEPT ![m] = {}]
    /\ lock' = IF lock = m THEN None ELSE lock
    /\ UNCHANGED <<up, initialized, ledger, checkers>>

Unlock(m) == mpc[m] = "unlock" /\ SessionEnds(m)

\* The process or its connection ends.  The server rolls back and releases.
Disconnect(m) == mpc[m] \notin {"idle", "unlock"} /\ SessionEnds(m)

(***************************************************************************)
(* Status, CheckCurrent and Readiness.Check                                *)
(***************************************************************************)
StartCheck(c, r) ==
    /\ cpc[c] = "idle" /\ Loads(r)
    /\ cpc' = [cpc EXCEPT ![c] = "ping"]
    /\ asked' = [asked EXCEPT ![c] = r]
    /\ UNCHANGED <<database, migrators, answer>>

Answer(c, state) ==
    /\ cpc' = [cpc EXCEPT ![c] = "answer"]
    /\ answer' = [answer EXCEPT ![c] = state]
    /\ UNCHANGED <<database, migrators, asked>>

\* Neither the ping nor a statement is answered in time.
CheckFails(c) ==
    /\ cpc[c] \in {"ping", "inspect", "read"}
    /\ Answer(c, "not ready")

Ping(c) ==
    /\ cpc[c] = "ping" /\ up
    /\ cpc' = [cpc EXCEPT ![c] = "inspect"]
    /\ UNCHANGED <<database, migrators, asked, answer>>

\* SELECT to_regclass
Inspect(c) ==
    /\ cpc[c] = "inspect" /\ up
    /\ IF initialized
       THEN /\ cpc' = [cpc EXCEPT ![c] = "read"]
            /\ UNCHANGED <<database, migrators, asked, answer>>
       ELSE Answer(c, "not ready")

\* Mutant: the rows are counted and not compared.
CurrentCount(r, rows) == Cardinality(Directory[r]) <= Cardinality(rows)

\* It counts what is pending.
Current(r, rows) ==
    /\ Validates(r, rows)
    /\ Cardinality(Directory[r]) - Cardinality(rows) = 0

ReadState(c) ==
    /\ cpc[c] = "read" /\ up
    /\ Answer(c, IF Current(asked[c], ledger) THEN "ready" ELSE "not ready")

\* The answer reaches who asked, or the process that was to give it ends.
EndCheck(c) ==
    /\ cpc[c] # "idle"
    /\ cpc' = [cpc EXCEPT ![c] = "idle"]
    /\ asked' = [asked EXCEPT ![c] = None]
    /\ answer' = [answer EXCEPT ![c] = None]
    /\ UNCHANGED <<database, migrators>>

(***************************************************************************)
(* PostgreSQL                                                              *)
(***************************************************************************)
\* It stops: every session ends.
Outage ==
    /\ up
    /\ up' = FALSE /\ lock' = None
    /\ mpc' = [m \in Migrators |-> "idle"]
    /\ build' = [m \in Migrators |-> None]
    /\ applied' = [m \in Migrators |-> {}]
    /\ UNCHANGED <<initialized, ledger, checkers>>

Recovery ==
    /\ ~up
    /\ up' = TRUE
    /\ UNCHANGED <<initialized, ledger, lock, migrators, checkers>>

UpStep(m) ==
    \/ Lock(m) \/ CreateLedger(m) \/ ReadApplied(m) \/ Done(m) \/ Execute(m)
    \/ Record(m) \/ UpFails(m) \/ Unlock(m)

CheckStep(c) == CheckFails(c) \/ Ping(c) \/ Inspect(c) \/ ReadState(c)

MNext ==
    \/ \E m \in Migrators :
          (\E r \in Releases : StartUp(m, r)) \/ UpStep(m) \/ Disconnect(m)
    \/ \E c \in Checkers :
          (\E r \in Releases : StartCheck(c, r)) \/ CheckStep(c) \/ EndCheck(c)
    \/ Outage \/ Recovery

MSpec == MInit /\ [][MNext]_mvars

\* A migrator that runs goes on, a statement is answered or times out, and
\* PostgreSQL grants the lock to the session that has waited longest.
MFairSpec ==
    /\ MSpec
    /\ \A m \in Migrators : WF_mvars(UpStep(m)) /\ SF_mvars(Lock(m))
    /\ \A c \in Checkers : WF_mvars(CheckStep(c) \/ EndCheck(c))

(***************************************************************************)
(* Properties                                                              *)
(***************************************************************************)
Files == UNION {Directory[r] : r \in Releases}

MTypeOK ==
    /\ up \in BOOLEAN /\ initialized \in BOOLEAN
    /\ ledger \subseteq Files
    /\ lock \in Migrators \cup {None}
    /\ mpc \in [Migrators ->
                  {"idle", "lock", "create", "read", "apply", "record", "unlock"}]
    /\ build \in [Migrators -> Releases \cup {None}]
    /\ applied \in [Migrators -> SUBSET Files]
    /\ cpc \in [Checkers -> {"idle", "ping", "inspect", "read", "answer"}]
    /\ asked \in [Checkers -> Releases \cup {None}]
    /\ answer \in [Checkers -> {"ready", "not ready", None}]

\* A migrator never meets the work of another one: the file it is about to
\* record is not in the ledger, whoever else migrates and whatever crashed
\* (pg_advisory_lock, Up).
NoCollision == \A m \in Migrators : mpc[m] = "record" => ~Collides(m)

\* The ledger is never a mixture of histories: some release knows all of it,
\* version by version and checksum by checksum (validateApplied).
OneHistory ==
    ledger # {} => \E r \in Releases : Loads(r) /\ Validates(r, ledger)

\* A row is added by a release that knows every row there is, at the moment of
\* the commit and not only when it read the ledger; no row is changed or
\* removed.  So an older release never migrates a database of a newer one.
ExtendsWhatItKnows ==
    [][ledger' # ledger =>
          /\ ledger \subseteq ledger'
          /\ \E m \in Migrators : mpc[m] = "record" /\ Validates(build[m], ledger')]_mvars

\* Who is told that the database is current finds every file of its release in
\* it, with its checksum, also when migrators ran in between (CheckCurrent).
ReadyIsCurrent ==
    \A c \in Checkers : answer[c] = "ready" => Directory[asked[c]] \subseteq ledger

\* Every migration and every check ends, so the lock is never held for good.
MigrationsEnd ==
    /\ \A m \in Migrators : mpc[m] # "idle" ~> mpc[m] = "idle"
    /\ \A c \in Checkers : cpc[c] # "idle" ~> cpc[c] = "idle"
=============================================================================
