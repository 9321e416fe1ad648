----------------------------- MODULE Deployment -----------------------------
(***************************************************************************)
(* One host: ppr.service under systemd, the rehost and the backup script   *)
(* and the operators' migrate up, over the database of Migrations.         *)
(*                                                                         *)
(* The scripts are processes of their own.  Rehosts exclude each other by  *)
(* flock; nothing excludes a backup from a rehost or either of them from a *)
(* migration.  serve does not look at the ledger when it starts: only the  *)
(* readiness endpoint does, and rehost asks it after the restart.          *)
(***************************************************************************)
EXTENDS Migrations

CONSTANTS
    Probe,       \* the check that rehost makes with curl
    Attempts,    \* how often it asks
    Installed    \* the release that is in place at the beginning

VARIABLES
    target, previous,   \* /opt/ppr/bin/ppr and ppr.previous
    service, running,   \* the state of the unit and the release of its process
    rpc, candidate,     \* rehost-ppr: its next step and the release it built
    attempt,            \*   and how often it has asked
    kept,               \* ghost: what it found in place, or what it verified
    cut,                \* ghost: what a script has left because it was cut short
    bpc, wasActive,     \* backup-ppr: its next step and service_was_active
    crossed,            \* ghost: something was written between dump and archive
    alone               \* ghost: no rehost and no pending restart meets it

binaries == <<target, previous>>
unit == <<service, running>>
rehost == <<rpc, candidate, attempt, kept>>
backup == <<bpc, wasActive, crossed, alone>>
dvars == <<binaries, unit, rehost, backup, cut>>
vars == <<mvars, dvars>>

ASSUME DeploymentAssumption ==
    /\ Probe \in Checkers /\ Attempts \in Nat \ {0}
    /\ Installed \in Releases /\ Loads(Installed)

Init ==
    /\ MInit
    /\ target = Installed /\ previous = None /\ kept = Installed /\ cut = {}
    /\ service = "active" /\ running = Installed
    /\ rpc = "idle" /\ candidate = None /\ attempt = 0
    /\ bpc = "idle" /\ wasActive = FALSE /\ crossed = FALSE /\ alone = TRUE

(***************************************************************************)
(* systemd and the process                                                 *)
(***************************************************************************)
\* systemctl start, on any state of the unit.  Without a binary the start fails
\* and is tried again, as after an exit with an error (Restart=on-failure).
Started ==
    /\ IF service = "active" THEN UNCHANGED unit
       ELSE /\ service' = IF target = None THEN "restarting" ELSE "active"
            /\ running' = target
    /\ cut' = cut \ {"unit"}

\* systemctl stop.  A pending automatic restart is dropped.
Stopped == service' = "stopped" /\ running' = None

\* Who ends now leaves the unit as it is.
LeftDown == IF service = "stopped" THEN {"unit"} ELSE {}

\* curl fails when the process that was to answer it ends.
CutOff ==
    IF cpc[Probe] \in {"ping", "inspect", "read"} THEN CheckFails(Probe) ELSE UNCHANGED mvars

\* serve ends with an error: it cannot listen, its configuration is refused, it
\* is killed.
ServeExits ==
    /\ service = "active"
    /\ service' = "restarting" /\ running' = None
    /\ CutOff
    /\ UNCHANGED <<binaries, rehost, backup, cut>>

\* RestartSec later.
Restart ==
    /\ service = "restarting" /\ target # None
    /\ Started
    /\ UNCHANGED <<mvars, binaries, rehost, backup>>

\* A request commits its rows and its files: what matters is whether a backup has
\* its dump and not yet its archive.
Write ==
    /\ service = "active"
    /\ crossed' = (crossed \/ bpc = "archive")
    /\ UNCHANGED <<mvars, binaries, unit, rehost, bpc, wasActive, alone, cut>>

(***************************************************************************)
(* rehost-ppr.sh                                                           *)
(***************************************************************************)
Goto(from, to) == rpc = from /\ rpc' = to

End(to) ==
    /\ rpc' = to /\ attempt' = 0
    /\ candidate' = IF to = "idle" THEN None ELSE candidate

\* It has the flock, and its tests and its build have passed.
Rehost(r) ==
    /\ Goto("idle", "retain") /\ Loads(r)
    /\ candidate' = r
    /\ alone' = (alone /\ bpc = "idle")
    /\ UNCHANGED <<mvars, binaries, unit, attempt, kept, cut,
                   bpc, wasActive, crossed>>

\* An interrupted rollback may have left nothing in place: this one gives up.
NoTarget ==
    /\ rpc = "retain" /\ target = None
    /\ End("idle")
    /\ UNCHANGED <<mvars, binaries, unit, kept, cut, backup>>

Retain ==
    /\ Goto("retain", "swap") /\ target # None
    /\ previous' = target
    /\ kept' = target /\ cut' = cut \ {"rehost"}
    /\ UNCHANGED <<mvars, target, unit, candidate, attempt, backup>>

Swap ==
    /\ Goto("swap", "stop")
    /\ target' = candidate
    /\ UNCHANGED <<mvars, previous, unit, candidate, attempt, kept, cut, backup>>

\* rehost-service stops and starts the unit; a rollback does so itself.
StopUnit ==
    /\ Goto("stop", "start") \/ Goto("rollback", "remove")
    /\ Stopped /\ CutOff
    /\ UNCHANGED <<binaries, candidate, attempt, kept, cut, backup>>

StartUnit ==
    /\ Goto("start", "wait") \/ Goto("restart", "rewait")
    /\ Started
    /\ attempt' = 0
    /\ UNCHANGED <<mvars, binaries, candidate, kept, backup>>

Waiting == rpc \in {"wait", "rewait"}

Ask ==
    /\ Waiting /\ service = "active"
    /\ StartCheck(Probe, running)
    /\ UNCHANGED dvars

Answered == cpc[Probe] = "answer" /\ EndCheck(Probe)

\* Mutant: any answer will do.
Alive ==
    /\ Waiting /\ Answered
    /\ End(IF rpc = "wait" THEN "tail" ELSE "idle")
    /\ kept' = IF rpc = "wait" THEN candidate ELSE kept
    /\ UNCHANGED <<binaries, unit, cut, backup>>

\* deployment_verified, and the log is shown; or the previous binary is ready
\* again.
Ready ==
    /\ Waiting /\ answer[Probe] = "ready" /\ Answered
    /\ End(IF rpc = "wait" THEN "tail" ELSE "idle")
    /\ kept' = IF rpc = "wait" THEN candidate ELSE kept
    /\ UNCHANGED <<binaries, unit, cut, backup>>

\* curl is answered 503, by nobody or not within its --max-time.
NoSuccess ==
    \/ answer[Probe] # "ready" /\ EndCheck(Probe)
    \/ service # "active" /\ cpc[Probe] = "idle" /\ UNCHANGED mvars

\* Mutant: it asks until it is answered otherwise.
AskForever ==
    /\ Waiting /\ NoSuccess /\ service = "active"
    /\ UNCHANGED <<binaries, unit, rehost, cut, backup>>

\* Not ready: it asks again a second later while systemctl is-active says so.
AskAgain ==
    /\ Waiting /\ NoSuccess /\ service = "active" /\ attempt + 1 < Attempts
    /\ attempt' = attempt + 1
    /\ UNCHANGED <<binaries, unit, rpc, candidate, kept, cut, backup>>

GiveUp ==
    /\ Waiting /\ NoSuccess /\ (service = "active" => attempt + 1 >= Attempts)
    /\ End(IF rpc = "wait" THEN "rollback" ELSE "idle")
    /\ UNCHANGED <<binaries, unit, kept, cut, backup>>

\* rollback_binary moves the target away and the previous binary into its place.
Remove ==
    /\ Goto("remove", "restore")
    /\ target' = None
    /\ UNCHANGED <<mvars, previous, unit, candidate, attempt, kept, cut, backup>>

Restore ==
    /\ Goto("restore", "restart")
    /\ target' = previous /\ previous' = None
    /\ UNCHANGED <<mvars, unit, candidate, attempt, kept, cut, backup>>

RehostStep ==
    \/ NoTarget \/ Retain \/ Swap \/ StopUnit \/ StartUnit \/ Ask \/ Ready \/ AskAgain
    \/ GiveUp \/ Remove \/ Restore

\* The script ends while its curl may be under way.
HangUp == IF cpc[Probe] = "idle" THEN UNCHANGED mvars ELSE EndCheck(Probe)

\* Mutant: candidate_installed is set after the restart.
CommandFailsLate ==
    /\ rpc \in {"retain", "swap", "stop", "start", "wait"}
    /\ End(IF rpc = "wait" THEN "rollback" ELSE "idle")
    /\ HangUp
    /\ UNCHANGED <<binaries, unit, kept, cut, backup>>

\* A command fails, be it because of a signal: the exit trap sees its status and
\* rolls back what has been installed and not verified.
CommandFails ==
    /\ rpc \in {"retain", "swap", "stop", "start", "wait"}
    /\ End(IF rpc = "retain" THEN "idle" ELSE "rollback")
    /\ HangUp
    /\ UNCHANGED <<binaries, unit, kept, cut, backup>>

\* The rollback passes over a command of its own that fails (set +e).
RollbackCommandFails ==
    /\ \/ Goto("rollback", "remove") /\ UNCHANGED cut
       \/ Goto("remove", "restore") /\ UNCHANGED cut
       \/ Goto("restore", "restart") /\ cut' = cut \cup {"rehost"}
       \/ Goto("restart", "rewait") /\ cut' = cut \cup LeftDown
    /\ UNCHANGED <<mvars, binaries, unit, candidate, attempt, kept, backup>>

\* A signal ends the script itself.  The exit trap then sees the status of the
\* last command that ended, which is 0, and rolls nothing back; in the rollback,
\* or on SIGKILL, there is no trap.
Interrupted ==
    /\ rpc \notin {"idle", "tail"}
    /\ End("idle")
    /\ HangUp
    /\ cut' = cut \cup LeftDown \cup
           (IF rpc \in {"retain", "swap", "restart", "rewait"} THEN {} ELSE {"rehost"})
    /\ UNCHANGED <<binaries, unit, kept, backup>>

\* journalctl -f, under the flock, until the operator ends it; with --no-tail at once.
TailEnds ==
    /\ rpc = "tail"
    /\ End("idle")
    /\ UNCHANGED <<mvars, binaries, unit, kept, cut, backup>>

(***************************************************************************)
(* backup-ppr.sh                                                           *)
(***************************************************************************)
\* systemctl is-active.
Backup ==
    /\ bpc = "idle"
    /\ bpc' = IF service = "active" THEN "stop" ELSE "dump"
    /\ wasActive' = (service = "active")
    /\ alone' = (rpc \in {"idle", "tail"} /\ service # "restarting")
    /\ UNCHANGED <<mvars, binaries, unit, rehost, crossed, cut>>

\* Mutant: the unit is asked to stop and not waited for.
StopNoBlock ==
    /\ bpc = "stop" /\ bpc' = "dump"
    /\ UNCHANGED <<mvars, binaries, unit, rehost, wasActive, crossed, alone, cut>>

StopService ==
    /\ bpc = "stop" /\ bpc' = "dump"
    /\ Stopped /\ CutOff
    /\ UNCHANGED <<binaries, rehost, wasActive, crossed, alone, cut>>

Dump ==
    /\ bpc = "dump" /\ up /\ initialized /\ bpc' = "archive"
    /\ UNCHANGED <<mvars, binaries, unit, rehost, wasActive, crossed, alone, cut>>

Archive ==
    /\ bpc = "archive" /\ bpc' = "finish"
    /\ UNCHANGED <<mvars, binaries, unit, rehost, wasActive, crossed, alone, cut>>

\* A command fails or a signal ends the script: both reach the exit trap.
BackupFails ==
    /\ bpc \in {"stop", "dump", "archive", "finish"} /\ bpc' = "cleanup"
    /\ crossed' = FALSE
    /\ UNCHANGED <<mvars, binaries, unit, rehost, wasActive, alone, cut>>

BackupEnds ==
    /\ bpc' = "idle"
    /\ wasActive' = FALSE /\ crossed' = FALSE /\ alone' = TRUE
    /\ UNCHANGED <<mvars, binaries, rehost>>

\* Mutant: the unit is started at the end of the script and not by its trap.
CleanupUntrapped ==
    /\ bpc \in {"finish", "cleanup"}
    /\ IF wasActive /\ bpc = "finish" THEN Started ELSE UNCHANGED <<unit, cut>>
    /\ BackupEnds

\* The exit trap starts the unit again.
Cleanup ==
    /\ bpc \in {"finish", "cleanup"}
    /\ IF wasActive THEN Started ELSE UNCHANGED <<unit, cut>>
    /\ BackupEnds

\* SIGKILL, a second signal in the trap, or its systemctl start fails.
BackupKilled ==
    /\ bpc # "idle"
    /\ cut' = cut \cup LeftDown
    /\ UNCHANGED unit
    /\ BackupEnds

BackupStep == StopService \/ Dump \/ Archive \/ BackupFails \/ Cleanup \/ BackupKilled

(***************************************************************************)
(* The composition.  Of Migrations, all but the start and the end of the   *)
(* probe, which rehost makes.                                              *)
(***************************************************************************)
Operators ==
    /\ \/ \E m \in Migrators :
             (\E r \in Releases : StartUp(m, r)) \/ UpStep(m) \/ Disconnect(m)
       \/ CheckStep(Probe)
       \/ Outage \/ Recovery
    /\ UNCHANGED dvars

Next ==
    \/ Operators
    \/ ServeExits \/ Restart \/ Write
    \/ (\E r \in Releases : Rehost(r)) \/ RehostStep
    \/ CommandFails \/ RollbackCommandFails \/ Interrupted \/ TailEnds
    \/ Backup \/ BackupStep

Spec == Init /\ [][Next]_vars

\* rehost goes on: its curl has --max-time and systemctl the timeouts of the unit;
\* systemd restarts.  pg_dump, psql, tar and journalctl -f have no bound, and no
\* fairness.
FairSpec ==
    /\ Spec
    /\ WF_vars(RehostStep) /\ WF_vars(StopService \/ Cleanup) /\ WF_vars(Restart)

(***************************************************************************)
(* Properties                                                              *)
(***************************************************************************)
Binary == Releases \cup {None}

TypeOK ==
    /\ MTypeOK
    /\ target \in Binary /\ previous \in Binary
    /\ service \in {"active", "restarting", "stopped"}
    /\ running \in Binary /\ (running # None <=> service = "active")
    /\ rpc \in {"idle", "retain", "swap", "stop", "start", "wait", "tail",
                "rollback", "remove", "restore", "restart", "rewait"}
    /\ candidate \in Binary /\ (candidate # None <=> rpc # "idle")
    /\ attempt \in Nat
    /\ kept \in Releases /\ cut \subseteq {"rehost", "unit"}
    /\ bpc \in {"idle", "stop", "dump", "archive", "finish", "cleanup"}
    /\ wasActive \in BOOLEAN /\ crossed \in BOOLEAN /\ alone \in BOOLEAN

\* A rehost that comes to its end, whatever commands failed on the way, leaves in
\* place the release that it verified or the one that it found: a candidate that
\* did not become ready is not left behind (finish, rollback_binary).  Only a
\* signal between the swap and the rollback's last mv, or a failure of that mv,
\* leaves something else.
RollsBack == rpc = "idle" /\ "rehost" \notin cut => target = kept

\* A rehost is not reported as verified before every migration of its release is
\* in the database, and it was this release that answered (wait_until_ready,
\* Readiness.Check).
VerifiedIsCurrent ==
    [][rpc # "tail" /\ rpc' = "tail" =>
          /\ Directory[candidate] \subseteq ledger'
          /\ asked[Probe] = candidate /\ target' = candidate]_vars

\* Dump and archive of a backup hold the same writes, if no rehost ran beside it
\* and no automatic restart was pending when it looked at the unit.
BackupIsOnePoint == alone /\ bpc = "finish" => ~crossed

\* docs/guides/BACKUP_AND_RESTORE.md, line 10: "The maintenance stop prevents new
\* metadata or file finalization from crossing the recovery point."
RecoveryPoint == bpc = "finish" => ~crossed

\* A unit that a script stopped is started again although commands fail, scripts
\* overlap and serve exits, if the dumps and archives of backups end and no
\* script is killed, or fails to start it, while it is down.
ServiceReturns ==
    (bpc \in {"dump", "archive"} ~> bpc \notin {"dump", "archive"})
        => (service = "stopped" ~> service # "stopped" \/ "unit" \in cut)

\* Every rehost comes to its end, or to the log of what it has verified, whatever
\* is stopped, restarted or out of reach meanwhile (the 30 attempts of
\* wait_until_ready).
RehostEnds == rpc # "idle" ~> rpc \in {"idle", "tail"}
=============================================================================
