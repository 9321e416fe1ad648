-------------------------- MODULE DeploymentProofs --------------------------
(***************************************************************************)
(* Proofs about Migrations and about Deployment, which extends it: for any *)
(* releases, migrators, checks and writes.                                 *)
(***************************************************************************)
EXTENDS Deployment, FiniteSetTheorems, WellFoundedInduction, TLAPS

(***************************************************************************)
(* Migrations: the inductive invariant                                     *)
(***************************************************************************)
\* Past the lock a migrator has it.
LockInv ==
    \A m \in Migrators :
        mpc[m] \in {"create", "read", "apply", "record", "unlock"} => lock = m

BuildInv ==
    \A m \in Migrators : mpc[m] # "idle" => build[m] \in Releases /\ Loads(build[m])

\* What a migrator has read and added is what the ledger holds.
ViewInv ==
    \A m \in Migrators : mpc[m] \in {"apply", "record"} =>
        /\ applied[m] = ledger
        /\ Validates(build[m], ledger)
        /\ mpc[m] = "record" => Pending(build[m], ledger) # {}

CheckInv ==
    /\ \A c \in Checkers : cpc[c] # "idle" => asked[c] \in Releases
    /\ \A c \in Checkers : answer[c] # None => cpc[c] = "answer"
    /\ ReadyIsCurrent

IndInv ==
    /\ MTypeOK /\ LockInv /\ BuildInv /\ ViewInv /\ CheckInv /\ OneHistory

(***************************************************************************)
(* Migrations: lemmas                                                      *)
(***************************************************************************)
LEMMA DirectoryType ==
    ASSUME NEW r \in Releases
    PROVE  IsFiniteSet(Directory[r]) /\ \A f \in Directory[r] : f.version \in Nat
<1>1. Directory[r] \in SUBSET File /\ IsFiniteSet(Directory[r])
    BY MigrationsAssumption
<1>2. \A f \in File : f.version \in Nat
    BY DEF File
<1> QED BY <1>1, <1>2

LEMMA NoneIsNone ==
    None \notin Releases /\ None \notin Migrators /\ None \notin {"ready", "not ready"}
BY MigrationsAssumption

\* Files have a least version.
LEMMA LeastIsOne ==
    ASSUME NEW files, files # {}, \A f \in files : f.version \in Nat
    PROVE  Least(files) \in files
<1> DEFINE V == {f.version : f \in files}
           R == OpToRel(<, Nat)
<1>1. V \subseteq Nat /\ V # {}
    OBVIOUS
<1>2. PICK v \in V : \A w \in V : ~ (<<w, v>> \in R)
    <2> HIDE DEF V, R
    <2> QED BY <1>1, NatLessThanWellFounded, WFMin DEF R
<1>3. \A w \in V : ~ (w < v)
    BY <1>1, <1>2 DEF OpToRel
<1>4. PICK f \in files : f.version = v
    OBVIOUS
<1>5. \A g \in files : f.version <= g.version
    <2> TAKE g \in files
    <2>1. g.version \in V /\ ~ (g.version < v)
        BY <1>3
    <2>2. g.version \in Nat /\ v \in Nat
        BY <2>1, <1>1
    <2> QED BY <2>1, <2>2, <1>4
<1> QED BY <1>5 DEF Least

\* What a loaded release still has to apply extends a ledger that it knows, and
\* does not meet a row of it.
LEMMA NextFile ==
    ASSUME NEW r \in Releases, NEW rows, Pending(r, rows) # {}
    PROVE  /\ Least(Pending(r, rows)) \in Directory[r]
           /\ \A e \in rows : e.version # Least(Pending(r, rows)).version
<1>1. \A f \in Pending(r, rows) : f \in Directory[r] /\ f.version \in Nat
    BY DirectoryType DEF Pending
<1>2. Least(Pending(r, rows)) \in Pending(r, rows)
    <2> HIDE DEF Pending
    <2> QED BY <1>1, LeastIsOne
<1> QED BY <1>2 DEF Pending

\* To count what is pending is to compare, once the rows have been compared.
LEMMA CountIsEnough ==
    ASSUME NEW r \in Releases, NEW rows, Current(r, rows)
    PROVE  Directory[r] \subseteq rows
<1>1. IsFiniteSet(Directory[r]) /\ rows \in SUBSET Directory[r]
    BY DirectoryType DEF Current, Validates
<1>2. IsFiniteSet(rows)
    BY <1>1, FS_Subset
<1>3. Cardinality(Directory[r]) \in Nat /\ Cardinality(rows) \in Nat
    BY <1>1, <1>2, FS_CardinalityType
<1>4. Cardinality(Directory[r]) = Cardinality(rows)
    BY <1>3 DEF Current
<1> QED BY <1>1, <1>4, FS_Subset

(***************************************************************************)
(* Migrations: Init and every step                                         *)
(***************************************************************************)
LEMMA InitInv == MInit => IndInv
<1> SUFFICES ASSUME MInit PROVE IndInv
    OBVIOUS
<1> USE DEF MInit
<1>1. MTypeOK
    BY NoneIsNone DEF MTypeOK
<1>2. LockInv /\ BuildInv /\ ViewInv
    BY DEF LockInv, BuildInv, ViewInv
<1>3. CheckInv
    BY NoneIsNone DEF CheckInv, ReadyIsCurrent
<1>4. OneHistory
    BY DEF OneHistory
<1> QED BY <1>1, <1>2, <1>3, <1>4 DEF IndInv

\* The steps of a migrator that do not commit.
LEMMA MigratorStep ==
    ASSUME IndInv, NEW m \in Migrators,
           \/ \E r \in Releases : StartUp(m, r)
           \/ Lock(m) \/ CreateLedger(m) \/ ReadApplied(m) \/ Done(m)
           \/ Execute(m) \/ UpFails(m) \/ Unlock(m) \/ Disconnect(m)
    PROVE  IndInv' /\ ledger' = ledger
<1> USE NoneIsNone DEF IndInv, database, checkers
<1>1. ledger' = ledger
    BY DEF StartUp, Lock, CreateLedger, ReadApplied, Done, Execute, UpFails, Unlock,
           Disconnect, SessionEnds
<1>2. MTypeOK'
    BY DEF MTypeOK, StartUp, Lock, CreateLedger, ReadApplied, Done, Execute, UpFails,
           Unlock, Disconnect, SessionEnds, Step
<1>3. LockInv' /\ BuildInv'
    BY DEF MTypeOK, LockInv, BuildInv, StartUp, Lock, CreateLedger, ReadApplied, Done,
           Execute, UpFails, Unlock, Disconnect, SessionEnds, Step
<1>4. ViewInv'
    <2> SUFFICES ASSUME NEW n \in Migrators, mpc'[n] \in {"apply", "record"}
                 PROVE  /\ applied'[n] = ledger'
                        /\ Validates(build'[n], ledger')
                        /\ mpc'[n] = "record" => Pending(build'[n], ledger') # {}
        BY DEF ViewInv, Validates, Pending
    <2> QED
        BY <1>1 DEF MTypeOK, ViewInv, StartUp, Lock, CreateLedger, ReadApplied, Done, Execute,
               UpFails, Unlock, Disconnect, SessionEnds, Step
<1>5. UNCHANGED checkers
    BY DEF StartUp, Lock, CreateLedger, ReadApplied, Done, Execute, UpFails, Unlock,
           Disconnect, SessionEnds
<1>6. CheckInv' /\ OneHistory'
    BY <1>1, <1>5 DEF CheckInv, ReadyIsCurrent, OneHistory, Validates
<1> QED BY <1>1, <1>2, <1>3, <1>4, <1>6

\* The commit of a file.
LEMMA RecordStep ==
    ASSUME IndInv, NEW m \in Migrators, Record(m)
    PROVE  /\ IndInv'
           /\ ledger \subseteq ledger'
           /\ mpc[m] = "record" /\ Validates(build[m], ledger')
<1> USE NoneIsNone DEF IndInv
<1> DEFINE f == Least(Pending(build[m], ledger))
<1>1. /\ mpc[m] = "record" /\ lock = m /\ applied[m] = ledger
      /\ build[m] \in Releases /\ Loads(build[m]) /\ Validates(build[m], ledger)
      /\ ledger' = ledger \cup {f}
    BY DEF Record, LockInv, BuildInv, ViewInv
<1>2. f \in Directory[build[m]]
    BY <1>1, NextFile DEF ViewInv
<1>3. Validates(build[m], ledger') /\ ledger \subseteq ledger'
    BY <1>1, <1>2 DEF Validates
<1> HIDE DEF f
<1>4. MTypeOK'
    <2>0. f \in Files
        BY <1>1, <1>2, Zenon DEF Files
    <2>1. ledger' \subseteq Files
        BY <1>1, <2>0 DEF MTypeOK
    <2>2. applied'[m] \subseteq Files
        BY <1>1, <1>2, <2>1 DEF MTypeOK, Record, f
    <2> QED BY <2>1, <2>2 DEF MTypeOK, Record, checkers
<1>5. \A n \in Migrators \ {m} : mpc[n] \notin {"create", "read", "apply", "record", "unlock"}
    BY <1>1 DEF LockInv
<1>6. LockInv' /\ BuildInv'
    BY <1>1, <1>5 DEF LockInv, BuildInv, MTypeOK, Record
<1>7. ViewInv'
    <2> SUFFICES ASSUME NEW n \in Migrators, mpc'[n] \in {"apply", "record"}
                 PROVE  /\ applied'[n] = ledger'
                        /\ Validates(build'[n], ledger')
                        /\ mpc'[n] = "record" => Pending(build'[n], ledger') # {}
        BY DEF ViewInv, Validates, Pending
    <2>1. n = m /\ mpc'[m] = "apply" /\ build'[m] = build[m]
        BY <1>5 DEF Record, MTypeOK
    <2>2. applied'[m] = ledger'
        BY <2>1, <1>1 DEF Record, MTypeOK, f
    <2> QED BY <2>1, <2>2, <1>3
<1>8. CheckInv'
    BY <1>3 DEF CheckInv, ReadyIsCurrent, Record, checkers
<1>9. OneHistory'
    BY <1>1, <1>3 DEF OneHistory
<1> QED BY <1>1, <1>3, <1>4, <1>6, <1>7, <1>8, <1>9

\* The steps of a check.
LEMMA CheckerStep ==
    ASSUME IndInv, NEW c \in Checkers,
           \/ \E r \in Releases : StartCheck(c, r)
           \/ CheckStep(c) \/ EndCheck(c)
    PROVE  IndInv' /\ ledger' = ledger
<1> USE NoneIsNone DEF IndInv
<1>1. UNCHANGED <<database, migrators>>
    BY DEF StartCheck, CheckStep, CheckFails, Ping, Inspect, ReadState, Answer, EndCheck
<1>2. ledger' = ledger /\ LockInv' /\ BuildInv' /\ ViewInv' /\ OneHistory'
    BY <1>1 DEF database, migrators, LockInv, BuildInv, ViewInv, OneHistory
<1>3. MTypeOK'
    BY <1>1 DEF MTypeOK, database, migrators, StartCheck, CheckStep, CheckFails, Ping,
           Inspect, ReadState, Answer, EndCheck
<1>4. CheckInv'
    <2>1. CASE \E r \in Releases : StartCheck(c, r)
        BY <2>1, <1>2 DEF MTypeOK, CheckInv, ReadyIsCurrent, StartCheck
    <2>2. CASE CheckFails(c) \/ Ping(c) \/ Inspect(c)
        BY <2>2, <1>2 DEF MTypeOK, CheckInv, ReadyIsCurrent, CheckFails, Ping, Inspect, Answer
    <2>3. CASE ReadState(c)
        <3>1. Current(asked[c], ledger) => Directory[asked[c]] \subseteq ledger
            BY <2>3, CountIsEnough DEF CheckInv, ReadState
        <3> QED
            BY <2>3, <3>1, <1>2 DEF MTypeOK, CheckInv, ReadyIsCurrent, ReadState, Answer
    <2>4. CASE EndCheck(c)
        BY <2>4, <1>2 DEF MTypeOK, CheckInv, ReadyIsCurrent, EndCheck
    <2> QED BY <2>1, <2>2, <2>3, <2>4 DEF CheckStep
<1> QED BY <1>2, <1>3, <1>4

LEMMA ServerStep ==
    ASSUME IndInv, Outage \/ Recovery
    PROVE  IndInv' /\ ledger' = ledger
<1> USE NoneIsNone DEF IndInv, Outage, Recovery, checkers, migrators
<1>1. ledger' = ledger
    OBVIOUS
<1>2. MTypeOK'
    BY DEF MTypeOK
<1>3. LockInv' /\ BuildInv' /\ ViewInv'
    BY DEF LockInv, BuildInv, ViewInv
<1>4. CheckInv' /\ OneHistory'
    BY DEF CheckInv, ReadyIsCurrent, OneHistory
<1> QED BY <1>1, <1>2, <1>3, <1>4

LEMMA StutterStep ==
    ASSUME IndInv, UNCHANGED mvars
    PROVE  IndInv' /\ ledger' = ledger
BY DEF IndInv, MTypeOK, LockInv, BuildInv, ViewInv, CheckInv, ReadyIsCurrent, OneHistory,
       mvars, database, checkers, migrators

\* Every step keeps the invariant and adds to the ledger, if at all, as a release
\* that knows it.
LEMMA EveryStep ==
    ASSUME IndInv, [MNext]_mvars
    PROVE  /\ IndInv'
           /\ ledger' # ledger =>
                 /\ ledger \subseteq ledger'
                 /\ \E m \in Migrators : mpc[m] = "record" /\ Validates(build[m], ledger')
BY MigratorStep, RecordStep, CheckerStep, ServerStep, StutterStep DEF MNext, UpStep

\* Under the lock the next file is new to the ledger.
LEMMA LockedAlone == IndInv => NoCollision
<1> SUFFICES ASSUME IndInv, NEW m \in Migrators, mpc[m] = "record"
             PROVE  ~Collides(m)
    BY DEF NoCollision
<1>1. build[m] \in Releases /\ applied[m] = ledger /\ Pending(build[m], ledger) # {}
    BY DEF IndInv, BuildInv, ViewInv
<1> QED BY <1>1, NextFile DEF Collides

(***************************************************************************)
(* Migrations: theorems                                                    *)
(***************************************************************************)
LEMMA Inductive == MSpec => []IndInv
<1>1. MInit => IndInv
    BY InitInv
<1>2. IndInv /\ [MNext]_mvars => IndInv'
    BY EveryStep
<1> QED BY <1>1, <1>2, PTL DEF MSpec

\* Every variable keeps its type.
THEOREM TypeCorrect == MSpec => []MTypeOK
<1>1. IndInv => MTypeOK
    BY DEF IndInv
<1> QED BY <1>1, Inductive, PTL

\* Whatever migrators run and crash, none meets a row of another one (Up).
THEOREM LockSafe == MSpec => []NoCollision
BY LockedAlone, Inductive, PTL

\* Some release knows the whole ledger (validateApplied).
THEOREM HistorySafe == MSpec => []OneHistory
<1>1. IndInv => OneHistory
    BY DEF IndInv
<1> QED BY <1>1, Inductive, PTL

\* An answer of readiness is never ahead of the database (CheckCurrent).
THEOREM ReadySafe == MSpec => []ReadyIsCurrent
<1>1. IndInv => ReadyIsCurrent
    BY DEF IndInv, CheckInv
<1> QED BY <1>1, Inductive, PTL

\* Only a release that knows the whole ledger adds to it (Up).
THEOREM ExtensionSafe == MSpec => ExtendsWhatItKnows
<1>1. IndInv /\ [MNext]_mvars =>
        [ledger' # ledger =>
            /\ ledger \subseteq ledger'
            /\ \E m \in Migrators : mpc[m] = "record" /\ Validates(build[m], ledger')]_mvars
    BY EveryStep
<1> QED BY <1>1, Inductive, PTL DEF MSpec, ExtendsWhatItKnows

(***************************************************************************)
(* Deployment: the inductive invariant                                     *)
(***************************************************************************)
\* What is in place at every step of a rehost.
RehostInv ==
    /\ rpc \in {"idle", "retain", "restart", "rewait"} /\ "rehost" \notin cut => target = kept
    /\ rpc = "swap" => target = kept
    /\ rpc \in {"stop", "start", "wait", "tail"} => target = candidate
    /\ rpc = "tail" => kept = candidate
    /\ rpc \in {"swap", "stop", "start", "wait", "rollback", "remove", "restore"} =>
           previous = kept

\* Who answers the probe of a candidate is the candidate.
ProbeInv ==
    /\ rpc \in {"start", "wait"} => running \in {None, candidate}
    /\ cpc[Probe] # "idle" => Waiting
    /\ rpc = "wait" /\ cpc[Probe] # "idle" => asked[Probe] = candidate

\* While a backup that nothing meets reads, nothing serves.
BackupInv ==
    /\ bpc # "idle" /\ alone => rpc \in {"idle", "tail"}
    /\ bpc \in {"dump", "archive"} /\ alone => service = "stopped"
    /\ bpc \in {"idle", "stop", "dump"} => ~crossed
    /\ alone => ~crossed

DInv == TypeOK /\ RehostInv /\ ProbeInv /\ BackupInv /\ BackupIsOnePoint

(***************************************************************************)
(* Deployment: the composition is one of Migrations                        *)
(***************************************************************************)
LEMMA ProbeIsChecker == Probe \in Checkers
BY DeploymentAssumption

LEMMA OneMore == \A n \in Nat : n + 1 \in Nat
OBVIOUS

LEMMA ComposesInit == Init => MInit
BY DEF Init

LEMMA ComposesStep ==
    ASSUME TypeOK, [Next]_vars
    PROVE  [MNext]_mvars
<1> USE ProbeIsChecker
<1>1. CASE Operators
    BY <1>1 DEF Operators, MNext
<1>2. CASE ServeExits \/ StopUnit \/ StopService
    BY <1>2 DEF ServeExits, StopUnit, StopService, CutOff, MNext, CheckStep
<1>3. CASE Ask
    <2>1. running \in Releases
        BY <1>3 DEF Ask, TypeOK, Binary
    <2> QED BY <1>3, <2>1 DEF Ask, MNext
<1>4. CASE Ready \/ AskAgain \/ GiveUp \/ CommandFails \/ Interrupted
    BY <1>4 DEF Ready, AskAgain, GiveUp, CommandFails, Interrupted, HangUp, NoSuccess,
                Answered, MNext
<1>5. CASE \/ Restart \/ Write \/ (\E r \in Releases : Rehost(r)) \/ NoTarget \/ Retain
           \/ Swap \/ StartUnit \/ Remove \/ Restore \/ RollbackCommandFails \/ TailEnds
           \/ Backup \/ Dump \/ Archive \/ BackupFails \/ Cleanup \/ BackupKilled
    BY <1>5 DEF Restart, Write, Rehost, NoTarget, Retain, Swap, StartUnit, Remove, Restore,
                RollbackCommandFails, TailEnds, Backup, Dump, Archive, BackupFails,
                Cleanup, BackupKilled, BackupEnds
<1>6. CASE UNCHANGED vars
    BY <1>6 DEF vars
<1> QED BY <1>1, <1>2, <1>3, <1>4, <1>5, <1>6 DEF Next, RehostStep, BackupStep

(***************************************************************************)
(* Deployment: Init and every step                                         *)
(***************************************************************************)
LEMMA DInitInv == Init => DInv
<1> SUFFICES ASSUME Init PROVE DInv
    OBVIOUS
<1>1. Installed \in Releases
    BY DeploymentAssumption
<1>2. TypeOK
    <2>1. MTypeOK
        BY ComposesInit, InitInv DEF IndInv
    <2> QED BY <1>1, <2>1, NoneIsNone DEF Init, TypeOK, Binary
<1>3. cpc[Probe] = "idle"
    BY ProbeIsChecker DEF Init, MInit
<1> QED
    BY <1>2, <1>3 DEF DInv, Init, RehostInv, ProbeInv, BackupInv, BackupIsOnePoint

\* Steps of Migrations that leave the host alone.
LEMMA OperatorsStep ==
    ASSUME DInv, Operators, MTypeOK'
    PROVE  DInv'
<1> USE DEF DInv, dvars, binaries, unit, rehost, backup
<1>1. UNCHANGED dvars /\ TypeOK'
    BY DEF Operators, TypeOK
<1>2. cpc'[Probe] # "idle" => cpc[Probe] # "idle" /\ asked' = asked
    <2>1. CASE CheckStep(Probe)
        BY <2>1, ProbeIsChecker DEF CheckStep, CheckFails, Ping, Inspect, ReadState, Answer
    <2>2. CASE \E m \in Migrators :
                 (\E r \in Releases : StartUp(m, r)) \/ UpStep(m) \/ Disconnect(m)
        BY <2>2 DEF UpStep, StartUp, Lock, CreateLedger, ReadApplied, Done, Execute, Record,
                    UpFails, Unlock, Disconnect, SessionEnds, checkers
    <2>3. CASE Outage \/ Recovery
        BY <2>3 DEF Outage, Recovery, checkers
    <2> QED BY <2>1, <2>2, <2>3 DEF Operators
<1>3. RehostInv' /\ ProbeInv' /\ BackupInv' /\ BackupIsOnePoint'
    BY <1>1, <1>2 DEF RehostInv, ProbeInv, BackupInv, BackupIsOnePoint, Waiting
<1> QED BY <1>1, <1>3

\* The steps of systemd and of the process.
LEMMA UnitStep ==
    ASSUME DInv, ServeExits \/ Restart \/ Write, MTypeOK'
    PROVE  DInv'
<1> USE NoneIsNone DEF DInv, mvars, checkers, binaries, unit, rehost, backup
<1>1. CASE ServeExits
    <2> USE <1>1 DEF ServeExits
    <2>1. cpc'[Probe] # "idle" => cpc[Probe] # "idle" /\ asked' = asked
        BY ProbeIsChecker DEF CutOff, CheckFails, Answer
    <2>2. TypeOK'
        BY DEF TypeOK, Binary
    <2>3. RehostInv' /\ ProbeInv' /\ BackupInv' /\ BackupIsOnePoint'
        BY <2>1 DEF RehostInv, ProbeInv, BackupInv, BackupIsOnePoint, Waiting
    <2> QED BY <2>2, <2>3
<1>2. CASE Restart
    <2> USE <1>2 DEF Restart, Started
    <2>1. TypeOK'
        BY DEF TypeOK, Binary
    <2>2. RehostInv' /\ ProbeInv' /\ BackupInv' /\ BackupIsOnePoint'
        BY DEF RehostInv, ProbeInv, BackupInv, BackupIsOnePoint, Waiting
    <2> QED BY <2>1, <2>2
<1>3. CASE Write
    <2> USE <1>3 DEF Write
    <2>1. TypeOK'
        BY DEF TypeOK
    <2>2. RehostInv' /\ ProbeInv' /\ BackupInv' /\ BackupIsOnePoint'
        BY DEF RehostInv, ProbeInv, BackupInv, BackupIsOnePoint, Waiting
    <2> QED BY <2>1, <2>2
<1> QED BY <1>1, <1>2, <1>3

\* The steps of a rehost that neither stop the unit nor have to do with the probe.
LEMMA InstallStep ==
    ASSUME DInv, MTypeOK',
           \/ \E r \in Releases : Rehost(r)
           \/ NoTarget \/ Retain \/ Swap \/ StartUnit \/ Remove \/ Restore
           \/ RollbackCommandFails \/ TailEnds
    PROVE  DInv' /\ (rpc' = "tail" => rpc = "tail")
<1> USE NoneIsNone DEF DInv, mvars, checkers, binaries, unit, rehost, backup, Goto
<1>1. CASE \E r \in Releases : Rehost(r)
    <2>1. PICK r \in Releases : Rehost(r)
        BY <1>1
    <2>2. alone' \in BOOLEAN /\ (alone' => alone /\ bpc = "idle")
        BY <2>1 DEF Rehost
    <2>3. /\ UNCHANGED <<mvars, binaries, unit, attempt, kept, cut, bpc, wasActive, crossed>>
          /\ rpc = "idle" /\ rpc' = "retain" /\ candidate' = r
        BY <2>1 DEF Rehost
    <2>4. TypeOK'
        BY <2>2, <2>3 DEF TypeOK, Binary
    <2>5. RehostInv' /\ ProbeInv' /\ BackupInv' /\ BackupIsOnePoint'
        BY <2>2, <2>3 DEF RehostInv, ProbeInv, BackupInv, BackupIsOnePoint, Waiting
    <2> QED BY <2>3, <2>4, <2>5
<1>2. CASE Retain
    BY <1>2 DEF Retain, TypeOK, Binary, RehostInv, ProbeInv, BackupInv, BackupIsOnePoint, Waiting
<1>3. CASE Swap
    BY <1>3 DEF Swap, TypeOK, RehostInv, ProbeInv, BackupInv, BackupIsOnePoint, Waiting
<1>4. CASE StartUnit
    <2> USE <1>4 DEF StartUnit, Started
    <2>1. TypeOK'
        BY DEF TypeOK, Binary
    <2>2. RehostInv' /\ ProbeInv' /\ BackupInv' /\ BackupIsOnePoint'
        BY DEF TypeOK, RehostInv, ProbeInv, BackupInv, BackupIsOnePoint, Waiting
    <2> QED BY <2>1, <2>2
<1>5. CASE Remove
    BY <1>5 DEF Remove, TypeOK, Binary, RehostInv, ProbeInv, BackupInv, BackupIsOnePoint, Waiting
<1>6. CASE Restore
    BY <1>6 DEF Restore, TypeOK, Binary, RehostInv, ProbeInv, BackupInv, BackupIsOnePoint, Waiting
<1>7. CASE RollbackCommandFails
    <2> USE <1>7 DEF RollbackCommandFails, LeftDown
    <2>1. TypeOK'
        BY DEF TypeOK
    <2>2. RehostInv' /\ ProbeInv' /\ BackupInv' /\ BackupIsOnePoint'
        BY DEF TypeOK, RehostInv, ProbeInv, BackupInv, BackupIsOnePoint, Waiting
    <2> QED BY <2>1, <2>2
<1>8. CASE NoTarget \/ TailEnds
    <2>1. /\ UNCHANGED <<mvars, binaries, unit, kept, cut, backup>>
          /\ rpc \in {"retain", "tail"} /\ rpc' = "idle" /\ candidate' = None /\ attempt' = 0
        BY <1>8 DEF NoTarget, TailEnds, End
    <2>2. TypeOK'
        BY <2>1 DEF TypeOK, Binary
    <2>3. RehostInv' /\ ProbeInv' /\ BackupInv' /\ BackupIsOnePoint'
        BY <2>1 DEF RehostInv, ProbeInv, BackupInv, BackupIsOnePoint, Waiting
    <2> QED BY <2>1, <2>2, <2>3
<1> QED BY <1>1, <1>2, <1>3, <1>4, <1>5, <1>6, <1>7, <1>8

\* Stopping the unit, by rehost, by a rollback or by a backup.
LEMMA StopStep ==
    ASSUME DInv, MTypeOK', StopUnit \/ StopService
    PROVE  DInv' /\ (rpc' = "tail" => rpc = "tail")
<1> USE NoneIsNone DEF DInv, mvars, checkers, binaries, unit, rehost, backup, Stopped
<1>1. cpc'[Probe] = "answer" => cpc[Probe] # "idle" /\ asked' = asked
    BY ProbeIsChecker DEF StopUnit, StopService, CutOff, CheckFails, Answer
<1>2. cpc'[Probe] \in {"idle", "answer"}
    BY ProbeIsChecker DEF StopUnit, StopService, CutOff, CheckFails, Answer, TypeOK, MTypeOK
<1>3. CASE StopUnit
    <2>1. TypeOK'
        BY <1>3 DEF StopUnit, Goto, TypeOK, Binary
    <2>2. cpc[Probe] = "idle"
        BY <1>3 DEF StopUnit, Goto, ProbeInv, Waiting
    <2>3. RehostInv' /\ ProbeInv' /\ BackupInv' /\ BackupIsOnePoint'
        BY <1>1, <1>2, <1>3, <2>2
           DEF StopUnit, Goto, RehostInv, ProbeInv, BackupInv, BackupIsOnePoint, Waiting
    <2> QED BY <1>3, <2>1, <2>3 DEF StopUnit, Goto
<1>4. CASE StopService
    <2>1. TypeOK'
        BY <1>4 DEF StopService, TypeOK, Binary
    <2>3. RehostInv' /\ ProbeInv' /\ BackupInv' /\ BackupIsOnePoint'
        BY <1>1, <1>2, <1>4
           DEF StopService, RehostInv, ProbeInv, BackupInv, BackupIsOnePoint, Waiting
    <2> QED BY <1>4, <2>1, <2>3 DEF StopService
<1> QED BY <1>3, <1>4

\* What the probe is told, and the end of the wait.
LEMMA ProbeStep ==
    ASSUME DInv, IndInv, MTypeOK', Ask \/ Ready \/ AskAgain \/ GiveUp \/ CommandFails \/ Interrupted
    PROVE  /\ DInv'
           /\ rpc # "tail" /\ rpc' = "tail" =>
                 /\ Directory[candidate] \subseteq ledger'
                 /\ asked[Probe] = candidate /\ target' = candidate
<1> USE NoneIsNone DEF DInv, binaries, unit, backup
<1>1. CASE Ask
    <2>1. asked'[Probe] = running /\ Waiting /\ UNCHANGED dvars /\ service = "active"
        BY <1>1, ProbeIsChecker DEF Ask, StartCheck, TypeOK, MTypeOK
    <2>2. TypeOK'
        BY <2>1 DEF dvars, rehost, TypeOK
    <2>3. RehostInv' /\ ProbeInv' /\ BackupInv' /\ BackupIsOnePoint'
        BY <2>1 DEF dvars, rehost, TypeOK, RehostInv, ProbeInv, BackupInv, BackupIsOnePoint,
                    Waiting
    <2> QED BY <2>1, <2>2, <2>3 DEF dvars, rehost
<1>2. CASE Ready
    <2>1. cpc'[Probe] = "idle" /\ ledger' = ledger
        BY <1>2, ProbeIsChecker DEF Ready, Answered, EndCheck, database, TypeOK, MTypeOK
    <2>2. cpc[Probe] # "idle" /\ Directory[asked[Probe]] \subseteq ledger
        BY <1>2, ProbeIsChecker DEF Ready, Answered, IndInv, CheckInv, ReadyIsCurrent
    <2>3. rpc = "wait" => asked[Probe] = candidate /\ target = candidate
        BY <2>2 DEF ProbeInv, RehostInv
    <2>4. kept' \in Releases
        BY <1>2 DEF Ready, TypeOK, Binary
    <2>5. TypeOK'
        BY <1>2, <2>4 DEF Ready, End, TypeOK, Binary
    <2>6. RehostInv' /\ ProbeInv' /\ BackupInv' /\ BackupIsOnePoint'
        BY <1>2, <2>1, <2>3 DEF Ready, End, TypeOK, RehostInv, ProbeInv, BackupInv,
                                BackupIsOnePoint, Waiting
    <2> QED BY <1>2, <2>1, <2>2, <2>3, <2>5, <2>6 DEF Ready, End, Waiting
<1>3. CASE AskAgain
    <2>1. cpc'[Probe] # "idle" => cpc[Probe] # "idle" /\ asked' = asked
        BY <1>3, ProbeIsChecker
           DEF AskAgain, NoSuccess, Answered, EndCheck, mvars, checkers, TypeOK, MTypeOK
    <2>2. attempt' \in Nat
        <3>1. attempt \in Nat
            BY DEF TypeOK
        <3>2. attempt' = attempt + 1
            BY <1>3 DEF AskAgain
        <3> QED BY <3>1, <3>2, OneMore
    <2>3. UNCHANGED <<binaries, unit, rpc, candidate, kept, cut, backup>>
        BY <1>3 DEF AskAgain
    <2>4. TypeOK'
        BY <2>2, <2>3 DEF TypeOK
    <2>5. RehostInv' /\ ProbeInv' /\ BackupInv' /\ BackupIsOnePoint'
        BY <2>1, <2>3 DEF RehostInv, ProbeInv, BackupInv, BackupIsOnePoint, Waiting
    <2> QED BY <2>3, <2>4, <2>5
<1>4. CASE GiveUp
    <2>1. cpc'[Probe] = "idle"
        BY <1>4, ProbeIsChecker
           DEF GiveUp, NoSuccess, Answered, EndCheck, mvars, checkers, TypeOK, MTypeOK
    <2>2. TypeOK'
        BY <1>4 DEF GiveUp, End, Waiting, TypeOK, Binary
    <2>3. RehostInv' /\ ProbeInv' /\ BackupInv' /\ BackupIsOnePoint'
        BY <1>4, <2>1 DEF GiveUp, End, TypeOK, RehostInv, ProbeInv, BackupInv,
                          BackupIsOnePoint, Waiting
    <2> QED BY <1>4, <2>2, <2>3 DEF GiveUp, End, Waiting
<1>5. CASE CommandFails
    <2>1. cpc'[Probe] = "idle"
        BY <1>5, ProbeIsChecker
           DEF CommandFails, HangUp, EndCheck, mvars, checkers, TypeOK, MTypeOK
    <2>2. TypeOK'
        <3>1. UNCHANGED <<binaries, unit, kept, cut, backup>> /\ attempt' = 0
            BY <1>5 DEF CommandFails, End
        <3>2. CASE rpc = "retain"
            <4>1. rpc' = "idle" /\ candidate' = None
                BY <1>5, <3>2 DEF CommandFails, End
            <4> QED BY <3>1, <4>1 DEF TypeOK, Binary
        <3>3. CASE rpc # "retain"
            <4>1. rpc' = "rollback" /\ candidate' = candidate /\ rpc # "idle"
                BY <1>5, <3>3 DEF CommandFails, End
            <4> QED BY <3>1, <4>1 DEF TypeOK, Binary
        <3> QED BY <3>2, <3>3
    <2>3. RehostInv' /\ ProbeInv' /\ BackupInv' /\ BackupIsOnePoint'
        BY <1>5, <2>1 DEF CommandFails, End, TypeOK, RehostInv, ProbeInv, BackupInv,
                          BackupIsOnePoint, Waiting
    <2> QED BY <1>5, <2>2, <2>3 DEF CommandFails, End
<1>6. CASE Interrupted
    <2>1. cpc'[Probe] = "idle"
        BY <1>6, ProbeIsChecker
           DEF Interrupted, HangUp, EndCheck, mvars, checkers, TypeOK, MTypeOK
    <2>2. /\ UNCHANGED <<binaries, unit, kept, backup>>
          /\ attempt' = 0 /\ rpc' = "idle" /\ candidate' = None
          /\ cut \subseteq cut' /\ cut' \subseteq cut \cup {"rehost", "unit"}
          /\ rpc \notin {"retain", "swap", "restart", "rewait"} => "rehost" \in cut'
        BY <1>6 DEF Interrupted, End, LeftDown
    <2>3. TypeOK'
        BY <2>2 DEF TypeOK, Binary
    <2>4. RehostInv' /\ ProbeInv' /\ BackupInv' /\ BackupIsOnePoint'
        BY <2>1, <2>2 DEF RehostInv, ProbeInv, BackupInv, BackupIsOnePoint, Waiting
    <2> QED BY <2>2, <2>3, <2>4
<1> QED BY <1>1, <1>2, <1>3, <1>4, <1>5, <1>6

\* The steps of a backup that leave the unit alone, and its end.
LEMMA SaveStep ==
    ASSUME DInv, MTypeOK', Backup \/ Dump \/ Archive \/ BackupFails \/ Cleanup \/ BackupKilled
    PROVE  DInv' /\ (rpc' = "tail" => rpc = "tail")
<1> USE NoneIsNone DEF DInv, mvars, checkers, binaries, unit, rehost
<1>1. CASE Backup
    <2>1. /\ alone' \in BOOLEAN /\ wasActive' \in BOOLEAN
          /\ alone' => rpc \in {"idle", "tail"} /\ service # "restarting"
        BY <1>1 DEF Backup
    <2>2. UNCHANGED <<mvars, binaries, unit, rehost, crossed, cut>> /\ bpc = "idle"
        BY <1>1 DEF Backup
    <2>3. bpc' \in {"stop", "dump"} /\ (bpc' = "dump" => service # "active")
        BY <1>1 DEF Backup
    <2>4. TypeOK'
        BY <2>1, <2>2, <2>3 DEF TypeOK
    <2>5. RehostInv' /\ ProbeInv' /\ BackupInv' /\ BackupIsOnePoint'
        <3>1. ~crossed /\ crossed' = crossed
            BY <2>2 DEF BackupInv
        <3>2. alone' /\ bpc' = "dump" => service' = "stopped"
            BY <2>1, <2>2, <2>3 DEF TypeOK
        <3>3. RehostInv' /\ ProbeInv'
            BY <2>2 DEF RehostInv, ProbeInv, Waiting
        <3>4. ~crossed'
            BY <3>1
        <3>5. bpc' \in {"dump", "archive"} => bpc' = "dump"
            BY <2>3
        <3>6. alone' => rpc' \in {"idle", "tail"}
            BY <2>1, <2>2
        <3>7. BackupInv' /\ BackupIsOnePoint'
            BY <3>2, <3>4, <3>5, <3>6, Zenon DEF BackupInv, BackupIsOnePoint
        <3> QED BY <3>3, <3>7
    <2> QED BY <2>2, <2>4, <2>5
<1>2. CASE Dump
    BY <1>2 DEF Dump, TypeOK, RehostInv, ProbeInv, BackupInv, BackupIsOnePoint, Waiting
<1>3. CASE Archive
    <2>1. /\ UNCHANGED <<mvars, binaries, unit, rehost, wasActive, crossed, alone, cut>>
          /\ bpc = "archive" /\ bpc' = "finish"
        BY <1>3 DEF Archive
    <2>2. TypeOK'
        BY <2>1 DEF TypeOK
    <2>3. RehostInv' /\ ProbeInv'
        BY <2>1 DEF RehostInv, ProbeInv, Waiting
    <2>4. (alone' => ~crossed') /\ (alone' => rpc' \in {"idle", "tail"})
        BY <2>1 DEF BackupInv
    <2>5. bpc' \notin {"idle", "stop", "dump", "archive"}
        BY <2>1
    <2>6. BackupInv' /\ BackupIsOnePoint'
        BY <2>4, <2>5, Zenon DEF BackupInv, BackupIsOnePoint
    <2> QED BY <2>1, <2>2, <2>3, <2>6
<1>4. CASE BackupFails
    <2> USE <1>4 DEF BackupFails
    <2>1. TypeOK'
        BY DEF TypeOK
    <2>2. RehostInv' /\ ProbeInv' /\ BackupInv' /\ BackupIsOnePoint'
        BY DEF RehostInv, ProbeInv, BackupInv, BackupIsOnePoint, Waiting
    <2> QED BY <2>1, <2>2
<1>5. CASE Cleanup
    <2> USE <1>5 DEF Cleanup, BackupEnds, Started
    <2>1. TypeOK'
        BY DEF TypeOK, Binary
    <2>2. RehostInv' /\ ProbeInv' /\ BackupInv' /\ BackupIsOnePoint'
        BY DEF TypeOK, RehostInv, ProbeInv, BackupInv, BackupIsOnePoint, Waiting
    <2> QED BY <2>1, <2>2
<1>6. CASE BackupKilled
    <2> USE <1>6 DEF BackupKilled, BackupEnds, LeftDown
    <2>1. TypeOK'
        BY DEF TypeOK
    <2>2. RehostInv' /\ ProbeInv' /\ BackupInv' /\ BackupIsOnePoint'
        BY DEF TypeOK, RehostInv, ProbeInv, BackupInv, BackupIsOnePoint, Waiting
    <2> QED BY <2>1, <2>2
<1> QED BY <1>1, <1>2, <1>3, <1>4, <1>5, <1>6

LEMMA DEveryStep ==
    ASSUME DInv, IndInv, IndInv', [Next]_vars
    PROVE  /\ DInv'
           /\ rpc # "tail" /\ rpc' = "tail" =>
                 /\ Directory[candidate] \subseteq ledger'
                 /\ asked[Probe] = candidate /\ target' = candidate
<1>0. MTypeOK'
    BY DEF IndInv
<1>1. CASE Operators
    BY <1>0, <1>1, OperatorsStep DEF Operators, dvars, rehost
<1>2. CASE ServeExits \/ Restart \/ Write
    <2>1. rpc' = rpc
        BY <1>2 DEF ServeExits, Restart, Write, rehost
    <2> QED BY <1>0, <1>2, <2>1, UnitStep
<1>3. CASE \/ \E r \in Releases : Rehost(r)
           \/ NoTarget \/ Retain \/ Swap \/ StartUnit \/ Remove \/ Restore
           \/ RollbackCommandFails \/ TailEnds
    BY <1>0, <1>3, InstallStep
<1>4. CASE StopUnit \/ StopService
    BY <1>0, <1>4, StopStep
<1>5. CASE Ask \/ Ready \/ AskAgain \/ GiveUp \/ CommandFails \/ Interrupted
    BY <1>0, <1>5, ProbeStep
<1>6. CASE Backup \/ Dump \/ Archive \/ BackupFails \/ Cleanup \/ BackupKilled
    BY <1>0, <1>6, SaveStep
<1>7. CASE UNCHANGED vars
    BY <1>0, <1>7 DEF vars, mvars, checkers, dvars, binaries, unit, rehost, backup,
                      DInv, TypeOK, RehostInv, ProbeInv, BackupInv, BackupIsOnePoint, Waiting
<1> QED BY <1>1, <1>2, <1>3, <1>4, <1>5, <1>6, <1>7 DEF Next, RehostStep, BackupStep

LEMMA DInductive == Spec => [](IndInv /\ DInv)
<1>1. Init => IndInv /\ DInv
    BY ComposesInit, InitInv, DInitInv
<1>2. IndInv /\ DInv /\ [Next]_vars => (IndInv /\ DInv)'
    <2> SUFFICES ASSUME IndInv, DInv, [Next]_vars PROVE IndInv' /\ DInv'
        OBVIOUS
    <2>1. IndInv'
        BY ComposesStep, EveryStep DEF DInv
    <2> QED BY <2>1, DEveryStep
<1> QED BY <1>1, <1>2, PTL DEF Spec

(***************************************************************************)
(* Deployment: theorems                                                    *)
(***************************************************************************)
\* Every state of the host, its scripts and its database is well formed.
THEOREM HostTypeCorrect == Spec => []TypeOK
<1>1. DInv => TypeOK
    BY DEF DInv
<1> QED BY <1>1, DInductive, PTL

\* A rehost that is not cut short ends with the release that it verified, or with
\* the one that it found, in place, whichever of its commands fail: the previous
\* binary is kept unchanged from its copy to its return (rehost-ppr.sh, finish
\* and rollback_binary).
THEOREM RollbackSafe == Spec => []RollsBack
<1>1. DInv => RollsBack
    BY DEF DInv, RehostInv, RollsBack
<1> QED BY <1>1, DInductive, PTL

\* A rehost that reports success has been answered by its own candidate, over a
\* database with all of its migrations (rehost-ppr.sh, wait_until_ready).
THEOREM VerifiedSafe == Spec => VerifiedIsCurrent
<1>1. IndInv /\ DInv /\ (IndInv /\ DInv)' /\ [Next]_vars =>
          [rpc # "tail" /\ rpc' = "tail" =>
              /\ Directory[candidate] \subseteq ledger'
              /\ asked[Probe] = candidate /\ target' = candidate]_vars
    BY DEveryStep
<1> QED BY <1>1, DInductive, PTL DEF Spec, VerifiedIsCurrent

\* A backup that meets neither a rehost nor a pending restart holds one point in
\* time (backup-ppr.sh).
THEOREM BackupSafe == Spec => []BackupIsOnePoint
<1>1. DInv => BackupIsOnePoint
    BY DEF DInv
<1> QED BY <1>1, DInductive, PTL

\* Composed with the host, the migrations keep what they promise: the ledger is
\* one history, and who is told ready finds its release in it.
THEOREM HostKeepsMigrations == Spec => [](OneHistory /\ ReadyIsCurrent /\ NoCollision)
<1>1. IndInv => OneHistory /\ ReadyIsCurrent /\ NoCollision
    BY LockedAlone DEF IndInv, CheckInv
<1> QED BY <1>1, DInductive, PTL
=============================================================================
