# Formal model of the project progress register

This directory holds TLA+ modules that model the concurrent core of the
register (a Go modular monolith over PostgreSQL and a private attachment
directory), of its migrations and deployment scripts and of the browsers that talk to it, TLC configurations that check them on small instances, and proofs
checked by TLAPS. `PROJECT.json` lists components, runs, mutants, the source lines behind
every definition, findings, hazards and theorems.

    tlc -config MCAttachments.cfg MCAttachments.tla
    tlapm AttachmentsProofs.tla

## Inventory of the system

All durable state is in PostgreSQL, except the bytes of attachments. Every
handler is a goroutine of the HTTP server; it runs one or a few transactions at
READ COMMITTED. One more goroutine reconciles attachments each minute. There
are no queues, caches or messages between components: they interact through
calls inside one request and through rows, row locks and files that several
requests share. Outside the process, `ppr migrate up` and the scripts of the host
act on the same database and on the unit that runs it, and browsers keep a cookie and
the CSRF token of each page.

| component | state | operations | what is hard | correct when |
|---|---|---|---|---|
| progress attachments (`internal/progress`) | `progress_updates`, `progress_attachments` (pending, available, failed), audit events | Create, completeAttachments, Reconcile, Download | two stores without a common transaction, stops between steps, retries, request against reconciler | available rows have bytes, pending rows can be finished, retries change nothing, bytes and rows do not leak |
| attachment store (`internal/filestore`) | `.staging/<key>.part`, `data/<prefix>/<key>` | Stage, Finalize, Open, DiscardStaged, CleanupOrphans | test and rename are two calls, cleanup works on an old list | bytes of a row are never removed, orphans are |
| accounts and sessions (`internal/identity`) | `users`, `sessions` | bootstrap, login, create, update, reset, change, logout | decisions on rows read before, row locks in conflicting orders | an enabled Admin remains, one bootstrap, sessions end with a change, no lost update |
| login throttle (`internal/identity`) | `login_throttles` | IsLoginBlocked, RecordLoginFailure, cleared by a login | unlocked test, times taken before the lock | few passwords are tried in a window, a refusal has a recent cause |
| projects (`internal/projects`) | `projects`, `project_members`, `project_geofences` | update, add and remove member, replace geofence | removal and deactivation against task writes in flight | one current geofence, versions move one by one |
| tasks (`internal/projects`) | `tasks`, `task_responsibilities`, `task_revisions` | create, edit (V1 and V2) | snapshots older than locks | responsible users are members, revisions reconstruct history |
| progress text and evidence (`internal/progress`) | `progress_updates`, `progress_update_revisions` | Create, Update | geofence replaced between evaluation and commit | evidence names the geofence that was current |
| review (`internal/progress`, `internal/projects`) | `update_comments`, `accepted_suggestions`, `task_assessments` | comment, accept, assess | two acceptances or assessments at once | one acceptance per comment, assessment versions without gap |
| timeline, dashboard, audit queries | none; the cursor is the client's | keyset pages | rows that commit out of the order of their times | a walk lists all it found, once, in order |
| migrations (`internal/migrations`) | `ppr_schema_migrations`, an advisory lock | Load, Up, Status, CheckCurrent | migrators of different releases, lost sessions and replies, checks without the lock | one history, ready means current |
| process (`cmd/ppr`) | none | serve, migrate, reconciliation loop | shutdown | loop starts again after a restart |
| scripts | binaries, the systemd unit, backup directories | backup, restore, rehost | a step fails or is interrupted, scripts, restarts and migrations meet | only a verified binary stays, the unit comes back, files and database of a backup agree |
| HTTP layer (`internal/httpserver`) | in the browser: the session cookie, the token of each page | the route table, login, logout | tabs share a cookie, accounts change while a request is under way, answers are late or lost | a change is made as the account that was shown, and by one that was entitled to it |
| configuration, Markdown, web assets | none | parsing, rendering | none of their own | not modelled |

PostgreSQL is external. What the modules assume of it: a transaction's writes
appear at its commit; `FOR UPDATE` excludes `FOR UPDATE` and `FOR SHARE`, and
`FOR SHARE` only the former; a foreign key takes `FOR KEY SHARE`; a locking
SELECT takes its snapshot first and then waits, after which it reads a row that
*was changed* again while its sub-selects keep the snapshot; one of the
transactions that wait in a cycle is aborted.

## Plan

1. `Attachments`, refining `AttachmentLifecycle`, with `AttachmentsProofs`: done.
2. `Accounts` with its part of `IdentityProofs`: done.
3. `Projects` with `ProjectsProofs`: done.
4. `Progress` with `ProgressProofs`: done.
5. `Review` with `ReviewProofs`: done.
6. `Migrations`, and `Deployment`, the host composed with them, with
   `DeploymentProofs`: done.
7. `Gateway` with `GatewayProofs`: done.
8. `LoginThrottle`, with its part of `IdentityProofs`, and `Timeline` with
   `TimelineProofs`: done.
9. Left: the restore script.

## Modules

### Attachments and AttachmentLifecycle

`Attachments` follows a POST with files through `Service.Create`: `Begin`,
`Stage` for each file, one action for each outcome of the CreateUpdate
transaction (`CreateRefused`, `CreateConflict`, `CreateDuplicate`,
`CreateCommitted`, `CreateUnacknowledged`), the deferred discard, and then
`completeAttachments`, which shares its steps with the reconciler (`Inspect`,
`Rename`, `Mark` and their failures): `Store.Finalize` is a stat and a rename, and
other processes run between them. `ListPending` to `CleanupDone` are the
reconciler's own steps; `ReadRow` and `OpenFinal` are a download. `Crash` stops
the process: rows and files stay, requests die, the reconciler starts a new pass.

State: `row` and `updates` are the two tables, `availAudits` and `failAudits` count
audit events, `staging`, `old` and `stored` are the directories, `pc`, `cur`,
`todo`, `ask`, `staged`, `keep` and `entries` are locals of goroutines.

Abstractions. The request hash is the number of files: what matters is whether a
retry sends the same. Attachments of an update and directory entries are taken in any
order, the code has one. Random keys are never drawn twice. Everything for which
CreateUpdate may be refused (access, inactive project, changed geofence, database
error) is one refusal that may happen at any time. A file gets older than a day
only between two passes and when no request holds it: the server's read and write
timeouts are ten minutes (`cmd/ppr/main.go`), and a pass takes far less than a day.
`MarkAttachmentFailed` appends its audit event even when the row has become
available meanwhile, so that `OutcomeAuditedOnce` speaks of failure events only for failed
rows.

`AttachmentLifecycle` is what the component promises of each key: record, store,
publish or abandon. `ImplementsLifecycle` maps `state` to `row` and keeps
`stored`.

### Accounts

One action for each statement that can wait for a lock, of bootstrap, login, logout,
CreateUser, UpdateUser, ResetPassword and ChangePassword. `lock` are the row locks of `users`, `holder` those
of `sessions`. `scan` and `counted` are the
progress of `lockEnabledAdmins`: the admins its snapshot saw, locked in the order
of ids, counted if they still qualify when locked. `seen` are the sessions that
the revoking UPDATE found when it began, in the step that takes the account's lock; `LockSession` locks them one
after the other, waiting for a logout that holds one and leaving out one that is gone by then. In the same way
bootstrap's check belongs to the step that takes the advisory lock. Logout is `StartLogout`, `LockOwnSession` (or
`RevokedAlready`) and `RevokeSession`, whose audit event refers to the account and so waits for the `FOR UPDATE` of
an UpdateUser (`ActorReferable`). That is a cycle of waits: the logout holds the session and wants the account,
the update holds the account and wants the session. `Blockers` has every wait, and `DeadlockDetected` ends one
transaction of a cycle. A commit is one step. Authorization is decided in the
`Start...` actions on the row of that time, as in the code, and not again.
Passwords are abstracted: a login starts when the password fits the row read and
the account is enabled in that row. `session[s].version` is the account's version when
the login committed; it is not a column but lets `SessionIsCurrent` say that a
session never outlives a change.

A session that expires is `Expire`; while a request names it, expiry makes no difference to that request. `Cancel` is a client that goes
away, a database error or a stop: the rollback frees the locks.

### Projects

One project, its members, geofence version and active flag, its tasks, and the
accounts' eligibility, which another component changes (`ChangeUser`). Operations of
Admins take the project row `FOR UPDATE`; `UpdateProject`, `ReplaceGeofence` and
`RemoveMember` wait for nothing else and commit in the step that takes the lock;
AddMember reads the account `FOR SHARE` first. Task requests decide on access with the
snapshot of `lockAuthorizedProject` (the guard `Authorized` at the start), wait for
the project `FOR SHARE`, and then lock and validate. `saw` is the assignment that
UpdateTask's locking SELECT returns: it is taken before the wait for the task. The
two statements before that wait, the grant of the project lock and the snapshot, are
one step: task writers do not exclude each other there, and a removal is excluded from
the grant on.

An expected version is the version shown when the request starts; with `Ahead` > 0
a client may also guess the next one, which no run does (see Divergences). UpdateProject changes the active flag in the
model (names are left out). `MaxVersion` bounds the version of tasks, and the sum of
project and geofence version.

### Progress

The updates of one task. `Create` is `StartCreate`, its two tries of `GetTaskPolicy` and
evaluation, and the transaction of CreateUpdate: `Snapshot` and then `LockForCreate`
are the one statement of `lockAuthorizedTask`, whose snapshot gives membership and geofence
before it waits for the project row, of which it reads the active flag again; `PolicyChanged` is
the recheck that sends Create around its loop, `PolicyConflict` the second such end;
`FindNone`, `Replay` and `HashConflict` are the look for the key, `CreateUpdate` and
`InsertConflict` the insert. An edit locks the project (`LockForUpdate`), then its row
(`LockRow`), and writes revision and text in one commit. `ReplaceGeofence`, `UpdateProject`
and `ChangeMember` are the transactions of `internal/projects`, each one step that needs the
project row for itself. Tasks do not change here, so that only the project's lock counts.

State: `update` and `revision` are the tables, `shared` and `rowLock` the row locks, `attempt`,
`evidence` and `verified` are locals of Create, `seen` is the geofence that its transaction saw.

Abstractions. `evaluateEvidence` is modelled by what it does, on a line in place of the
globe: distances matter, not angles. The request hash is the record of what it covers.
An update has at most one file, an image or a video, of which the source counts;
`Attachments` has the files. That revisions are unique per version never
decides, since their author holds the row lock.

### Review

Comments, acceptances and assessments of one task. Every request locks the project
`FOR SHARE`, then the task, `FOR SHARE` (`ShareTask`) or, to assess, `FOR UPDATE` (`LockTask`);
an acceptance then locks its comment. `events` counts audit events, since no
duplicate of one may be written. Updates under which comments hang never go away and are left
out, as are texts; CreateComment's foreign key waits at most for an edit of its update,
which waits for nothing. A request's start is the snapshot of its first statement. `Blockers`
is who waits for whom.

### Migrations

`StartUp` to `Unlock` are the statements of `Runner.Up` for one process: the session lock, the
ledger's table, `readApplied` with `validateApplied`, then each missing file in a transaction of its own
(`Execute`, `Record`). A commit may be acknowledged or take the session with it; `UpFails` is an
error that still unlocks, `Disconnect` the end of process or connection, `Outage` that of PostgreSQL. A
check (`StartCheck`, `Ping`, `Inspect`, `ReadState`) is `Readiness.Check` over `CheckCurrent`: it
takes no lock and reads in two statements. A release is the set of files embedded in it; the SQL of a
file is a step that succeeds or fails.

### Deployment

Extends `Migrations` with the unit `ppr.service`, `rehost-ppr.sh` from the retention of the old binary
on, `backup-ppr.sh`, and the requests that write. Rehost's readiness test is the checker `Probe`, asked by
`Ask` of the release that runs and answered to `Ready`, `AskAgain` or `GiveUp`; an exit of the process cuts it
off. Behind the verification the script shows the log under its flock until the operator ends it (`TailEnds`).
What can go wrong is four things. `CommandFails` is a command that fails, be it because of a signal: the exit
trap sees its status and goes to the rollback (`StopUnit`, `Remove`, `Restore`, `StartUnit`) from the moment
`candidate_installed` is set. `RollbackCommandFails` is a command of the rollback, which runs behind `set +e` and
goes on: after a `stop` that failed the old process still answers. `Interrupted` is a signal that ends the
script itself: its trap finds the status of the last command, which was 0, and does not roll back, and in the
rollback, or on SIGKILL, there is no trap. `BackupKilled` is the same of a backup, whose trap
otherwise starts the unit whatever failed (`BackupFails`, `Cleanup`). A rehost that finds no binary gives up (`NoTarget`).
`kept`, `cut`, `crossed` and `alone` are ghosts: the release that a rehost found in place or has verified; what the last scripts left
because they were cut short, the `"rehost"` without its rollback or the `"unit"` stopped; whether something was
written between the dump and the archive of a backup; and whether the backup met no rehost and no pending restart. Nothing in the
code excludes a backup from a rehost, nor either from a migration, and neither does the model.

### Gateway

The route table of `server.go` as operations: what each does, its gate (`requireApplicationAccess`,
`requireAdmin`, the session alone), whether it checks a CSRF token and whether its answer carries one.
A tab sends one request at a time; the handler looks up the session in `Admit` with the token
check and the gate, and its effect comes later, as the transaction of the service does. Answers are
delivered later still, in any order, or lost; what they set in the cookie acts on the browser as it is
then. `could` is a ghost: the request was entitled to its deed at some moment since it was sent.
Refusals of bodies, error mapping, probes, static files and the setup pages, which are closed once there
is an account, are left out, and what operations do to projects is in their modules.

### LoginThrottle

The row of one identifier and client: `Check` and `Throttled` are `IsLoginBlocked`, `Verify` the
password, `ReadClock` to `LockRow` are `RecordLoginFailure` with the time that `recordFailure` read before
it, `RowIsGone` what happens when a success deleted the row between its two statements. `Tick` passes time
between any two steps. `ClearOnLogin` is what `CreateLoginSession` does to the row; the rest of Login is in
`Accounts`. `IdentityProofs` extends both, so that the specification here is `LSpec` and no name is in both.
`recent` and `guesses` are ghosts.

### Timeline

Transactions that insert events with `clock_timestamp()` and commit later, and walks that read pages: `Page`
is the one statement with its cursor condition, order and limit, and the row over the limit that makes
`next_cursor`. `Oldest` are walks of a task's timeline, `Newest` of the audit, which only differ in order.
`listed` and `begun` are ghosts.

## Runs

| run | instance | shows |
|---|---|---|
| `attachments` | 3 keys, one idempotency key, 2 requests of up to 2 files, a download, one restart, file and database faults | five properties below |
| `attachments_live` | 2 keys, 2 requests of one file, a restart, lost replies | `PendingResolved`, `OrphanRemoved` |
| `attachments_race` | as above, no fault at all | violation of `FailedHasNoBytes` |
| `accounts` | 2 accounts, 2 transactions, 1 session, 2 versions, fairness | five properties below |
| `projects` | 2 accounts, an Admin, 1 task, 2 transactions | five properties below |
| `progress` | 2 users and an Admin, 1 key, 2 updates, 2 requests, a location, 2 geofences one of which contains it | four properties below |
| `review` | 2 Admins, a user, a comment, 3 requests, 2 assessments | four properties below |
| `migrations` | 2 migrators, a checker, 5 releases: a successor, a hotfix with a gap, a branch with the same version, one that does not load | three properties below |
| `deployment` | 2 releases, the second with one more migration, a migrator, a rehost that asks twice, a backup, failures and signals everywhere, fairness | five properties below |
| `gateway` | 2 users, 2 sessions, 2 tabs in one or two browsers, all routes | `ActsAsShown`, `EntitledInTime` |
| `throttle` | 2 attempts at once, 2 failures allowed, window and block of 2, a clock of 6 | `TriesAreBounded`, `RefusedForCause` |
| `timeline` | 2 transactions of up to 2 of 4 events, a clock of 2 values, pages of 2 | `WalkIsComplete`, `WalkInOrder`, `VersionsInOrder` |

Bounds. Two requests with one key are the smallest case of a retry beside its
original, and two files the smallest with a partial failure; a third key lets one
update's two files and another request's copy exist together. Every
conflict of transactions here is between two of them, and the last-Admin rule needs two
accounts; its requests are alike, so `RequestsEnd` follows one of them. Deeper counters (versions, crashes) repeat what the first values show. In
`progress` one of the users creates updates (`Authors`), edits are by everyone; one key makes every two
creates collide, and two replacements of the geofence exhaust Create's two attempts. In `review`
three requests can wait in a chain over the task and a comment. The releases of
`migrations` are every way in which two sets of files can differ. In `deployment` two
questions tell the first from the last; migrations that both releases have are left out, and writes are not counted: what
matters is whether one falls between dump and archive. In `gateway` two tabs reach
every case of a cookie replaced under a page; sessions are not used twice, so that each run of it ends
with two logins, and every request meets every change of an account. In `throttle` the clock passes
one window and one block with the failures that open the next, and `MaxCount` only limits invalid
input, which needs no check of the block. Four events with two times have ties on either side of a
page's end.
Symmetry is used on keys, requests, readers, tabs, browsers, sessions and, in `projects` and `gateway`, accounts, never with liveness.
`CHECK_DEADLOCK FALSE` is set for the attachment runs only: their requests are sent once and
finish, and keys run out. The other models start new requests for ever and are checked for deadlock.

Fairness. `attachments_live`: goroutines are scheduled (weak fairness of a request
once it has been sent, and of the reconciler, whose loop in `cmd/ppr/main.go` has no exit but
shutdown); a file ages (strong fairness, because the ticker leaves a minute between passes
again and again); clients owe nothing. The run has no permanent file-system or database
error: a row whose error persists ends every pass before the rows after it, so
that `PendingResolved` would fail for those too; the code accepts this as a deferred pass.
`accounts`: transactions that can run again and again do (strong fairness,
for the lock queue, and for the deadlock detector, which is the only work of a transaction in a cycle), and a session
expires in the end, whatever requests name it one after the other (strong). `migrations`: a migrator that has begun goes on
(weak), a statement is answered or times out, and the server grants an advisory lock to the session that
has waited longest (strong). `deployment`: a rehost that has begun goes on, as its curl is bounded by `--max-time`
(a probe without an answer is a disjunct of `NoSuccess`), its polling by 30 attempts and `systemctl` by the timeouts of the unit; of a backup, only the stop and the trap (weak fairness of
`StopService \/ Cleanup`); systemd restarts after `RestartSec`. `pg_dump`, `psql`,
`tar` and `journalctl -f` have no bound and no fairness: `ServiceReturns` has it as a condition that dumps and
archives end, and `RehostEnds` ends where the log begins. Operators owe nothing:
no migration, rehost or backup ever has to begin.

What the passing runs check:

- `AvailableHasBytes`, `DownloadFindsBytes`, `PendingHasBytes`: rows and
  files agree, whatever request, retry, reconciler and restart do in between; `SuccessIsSettled`: no
  early success; `ImplementsLifecycle`: refinement of `AttachmentLifecycle`.
- `SomeEnabledAdmin`, `OneFounder`, `SessionIsCurrent`, `NoLostUpdate`, `RequestsEnd` (accounts).
- `ResponsibleAreMembers`, `RevisionsComplete`, `AssignedAreEligible`, `InactiveIsReadOnly`,
  `NoLostUpdate` (projects).
- `OnePerKey`, `VerifiedInside`, `RevisionsComplete`, `InactiveIsReadOnly` (progress): what holds although
  geofence, activity and membership change between the transactions of a request.
- `AcceptedOnce`, `InsertsSucceed`, `NoLostAssessment`, `NoDeadlock` (review).
- `ExtendsWhatItKnows`, `ReadyIsCurrent`, `MigrationsEnd` (migrations).
- `RollsBack`: a rehost that is not cut short between its swap and the end of its rollback leaves the binary that it verified
  or the one that it found, whatever commands fail; `VerifiedIsCurrent`, `BackupIsOnePoint`, `ServiceReturns`,
  `RehostEnds` (deployment).
- `ActsAsShown`, `EntitledInTime` (gateway); `TriesAreBounded`, `RefusedForCause` (throttle); `WalkIsComplete`,
  `WalkInOrder`, `VersionsInOrder` (timeline): the order of times is that of versions, up to equal times, which the
  listing orders by id.

Each is broken by a mutant of the model in `PROJECT.json`, an operator with the comment
"Mutant" that leaves out a lock, a guard or a reset the way a change of the code could.

## Divergences

Where code and documents differ. The first is the run `attachments_race`; the others can be repeated with the configuration
named, of the MC module that its name begins with. TLC answers each with a counterexample.

| configuration | property | document | code |
|---|---|---|---|
| `MCAttachmentsRace.cfg` | `FailedHasNoBytes` | `ATTACHMENT_STORAGE.md`, line 40: "If neither staged nor final bytes exist, the row becomes `failed`" | Request and reconciler finalize one file at the same time: the one that renames second sees ENOENT (`filestore/store.go:139`, `:147`) and, if it is the reconciler, marks the row failed although its bytes are stored. |
| `MCAttachmentsLostAck.cfg` | `PendingHasBytes` | line 36: "After the database owns a pending row, staged bytes are retained for reconciliation." | A commit whose reply is lost (`progress/postgres.go:237`) leaves `ownedByDatabase` false, and Create discards the bytes of a pending row, which can only fail. |
| `MCProjectsRemoved.cfg` | `WritersAreMembers` | `POSTGRESQL.md`, line 43: "concurrent membership removal cannot cross the command boundary" | A task request that waits for the project row while its author is removed still writes: its EXISTS keeps the snapshot (`projects/task_postgres.go:229`). `ResponsibleAreMembers` holds nevertheless. |
| `MCProgressGeofence.cfg` | `GeofenceStillCurrent` | `POSTGRESQL.md`, line 45: progress creation "confirms the evaluated geofence is still current" | A create that waits for the project row while the geofence is replaced does not notice: the project row is read again, the joined geofence keeps the snapshot (`progress/postgres.go:374`), so that the comparison at line 156 finds what was evaluated. A replacement before that statement is noticed (`PolicyChanged`). |
| `MCProgressText.cfg` | `TextIsNeverGated` | plan 0006, line 13: "Location never gates a text-only progress submission" | In a project with a geofence an update without a location is always answered with a conflict: its evidence has no geofence, and CreateUpdate compares that with the project's (`progress/postgres.go:156`). |
| `MCProgressRetry.cfg` | `IdenticalRetryIsSafe` | `FRONTEND_INTEGRATION.md`, line 1077, lists "an identical progress-create request with the same key and files" as a safe retry | After a replacement of the geofence it is answered with a conflict, as the request hash covers the evidence (`progress/service.go:186`). |
| `MCDeploymentRestart.cfg` | `RecoveryPoint` | `BACKUP_AND_RESTORE.md`, line 10: "The maintenance stop prevents new metadata or file finalization from crossing the recovery point." | A unit that has exited and waits for systemd's restart is not active when the backup asks (`backup-ppr.sh:38`), is not stopped, and comes back between dump and archive. |
| `MCGatewayLogout.cfg` | `LogoutRevokes` | plan 0002, line 72: "Logout revokes the current session, records audit, clears the cookie" | When the look-up of the session fails, as with an error of the database, the handler clears the cookie and answers `logged_out` while the session stays live (`httpserver/auth.go:142`). |

One more of the kind of `MCProjectsRemoved.cfg` has no configuration. A client that sends an edit of a task with the
version that an edit still in flight will make gets a revision whose previous assignment is
not the one before it: `RevisionsComplete` of `Projects` fails with `Ahead = 1`, against line 48 of
`DOMAIN_MODEL.md`.

Met while modelling, and not stated as properties:

- Throttle: the window is fixed, not sliding (plan 0002, line 28). A failure whose time is at the end of a window lifts a
  block that is running; one whose row a success deletes meanwhile is an internal error, neither counted nor audited.
  Invalid input is counted without a look at the block.
- Timeline: an event that commits behind the cursor is missing from that walk.
- Login checks password and status on a row read before `CreateLoginSession`, which checks neither; later requests look the
  account up again. A ChangePassword in flight during an Admin's reset clears `must_change_password`.
- Logout and an update of the same account can wait for each other (`identity/postgres.go:206` and `:211` against `:364` and
  `:389`). PostgreSQL aborts one of them, which is answered with an internal error; an Admin's update may be the one.
- Rehost: the rollback depends on the status that the exit trap sees (`rehost-ppr.sh:136`, `:146`). A signal that ends
  the script between two commands, or while bash itself waits, finds the status 0, and the candidate stays in place
  unverified. The rollback itself has no trap (`:137`): ended behind its `stop`, it leaves the unit stopped, and
  between its two renames no binary; the next rehost then gives up (`:170`), and if it does find one keeps that as the
  previous binary. A `stop` of the rollback that fails (`set +e`) leaves the candidate's process running, which may then answer
  for the "previous binary restored and ready" (`:126`).
- Backup: `pg_dump`, `psql` and `tar` have no timeout while the unit is stopped.
- Backup: the manifest's `schema_contract` is read after the dump, in a statement of its own. A backup that ends during a
  rollback starts the unit that the rollback has stopped. A rollback after the new release's migrations
  leaves the old binary never ready (`PRODUCTION_DEPLOYMENT.md`, line 124).
- Migrations: a release may fill a gap below versions that are applied.

## Proofs

| module | proves, of | from |
|---|---|---|
| `AttachmentsProofs` | `TypeOK`, `AvailableHasBytes`, `StoredIsRecorded`, `DownloadFindsBytes`, `SuccessIsSettled`, `HistoryKept`, `OutcomeAuditedOnce`, the refinement, and `PendingHasBytes` when no reply to a commit is lost, for all keys, requests, readers, file limits and fault sets | `SetsAssumption` |
| `IdentityProofs` | of `Accounts`: `TypeOK`, `SomeEnabledAdmin`, `OneFounder`, `SessionIsCurrent`, `NoLostUpdate`, for all accounts, requests and versions; of `LoginThrottle`: `LTypeOK`, `TriesAreBounded`, `RefusedForCause`, for all numbers of attempts and failures and all times | `AccountsAssumption`, `ThrottleAssumption` |
| `ProjectsProofs` | `TypeOK`, `ResponsibleAreMembers`, `AssignedAreEligible`, `NoLostUpdate`, `InactiveIsReadOnly`, and `RevisionsComplete` when `Ahead = 0`, for all accounts, tasks, requests and bounds | `ProjectsAssumption` |
| `ProgressProofs` | `TypeOK`, the run's four properties, `NoLostEdit`, `ReplayIsMine`, for all geofences, locations, keys and versions | `ProgressAssumption` |
| `ReviewProofs` | `TypeOK`, the run's four properties and `InactiveIsReadOnly`, for all numbers of requests | `ReviewAssumption` |
| `DeploymentProofs` | of `Migrations`: `MTypeOK`, `NoCollision`, `OneHistory`, `ReadyIsCurrent`, `ExtendsWhatItKnows`, for all releases and migrators; of `Deployment`: `TypeOK`, `RollsBack`, `VerifiedIsCurrent`, `BackupIsOnePoint`, and that the host keeps what `Migrations` promises | `MigrationsAssumption`, `DeploymentAssumption` |
| `GatewayProofs` | `TypeOK`, `ActsAsShown`, `EntitledInTime`, for all users, sessions, tabs and browsers | nothing |
| `TimelineProofs` | `TypeOK`, `WalkIsComplete`, `VersionsInOrder`, `WalkInOrder`, and that pages are full, for all writers, walks, ids and limits | `TimelineAssumption` |

None of these is inductive. Each inductive invariant was checked on the instance of its run before it was
proved. What they add is what each control point knows:

- Attachments: a finalizer at `mark` works on a key whose bytes are stored, keys in its `todo` list are recorded,
  and keys that a request still owns are recorded by nobody else unless a reply was lost. `AuditSafe` counts the
  events of a row against its state. `SettledInv` keeps what a request still has to complete on its list, and
  `OwnInv` the files of requests young and unrecorded, and a pass off the old files that were pending when it began.
- Accounts: accounts counted by a transaction are locked by it and still enabled Admins, so that the
  target of one that removes an Admin has a companion; a transaction past its check holds the target at the
  expected version; one between bootstrap's check and its insert holds the advisory lock while there is no
  account; every live session of an account that is about to change is among those that its revocation saw, and locked by it when it commits.
- Projects: a task writer holds the project shared, and so it is active and nobody leaves it; behind the task's row lock
  the version is the one that the request named; validated members are locked, so they stay enabled; the sub-select that is
  older than the lock is right if the version still is the one that the client was shown, which is where `Ahead = 0`
  is needed.
- Progress: behind the evaluation, evidence and verification belong to the geofence that the evidence
  names; behind `lockAuthorizedTask` the project is held and so active; behind `LockRow` the row is the request's
  own at the expected version; no revision is ahead of its update, so that an edit extends the history by exactly one.
- Review: `HolderInv` says where a request is that holds a lock, which gives `NoDeadlock`: who holds a lock
  `FOR UPDATE` waits for nothing, who holds the task `FOR SHARE` at most for a comment. `AcceptInv` and
  `AssessInv` say what a lock protects, `NumberInv` that assessments are numbered without a gap.
- Migrations: who is past the lock holds it, so that its copy of the ledger is the ledger, and every file
  it still has to apply is missing from it. Readiness follows from `Current`, which compares the number of rows: equal for
  finite sets of which one contains the other only if they are the same.
- Deployment: the steps of the host map to steps of `Migrations` or leave it alone (`ComposesStep`); from `Retain` until
  the rollback ends `previous` is the release that was kept, which its last rename puts back, and until the rollback the
  probe is answered by the candidate; between dump and
  archive of a backup that nothing meets the unit is stopped.
- Gateway: what is admitted is entitled at that moment, since every route has the gate that its deed needs (`RoutesFit`);
  an admitted write carries the session whose token its page holds, and the page of a tab stays while it waits.
- LoginThrottle: each failure that is counted was recorded after its window was opened, so that a block rests on that
  many of the last ones (`RecentInv`). Until a window is closed, that is, until its block outlasts it, a failure with a time in the
  window closes it or stays below the failures allowed; only attempts with an earlier time (`Early`) are recorded beyond, each at most once.
  After that nobody passes the check in time, and only attempts under way then (`Late`) are recorded. The potential
  `guesses + Cardinality(Early)`, then `guesses + Cardinality(Late)`, does not exceed the bound.
- Timeline: the cursor is the last event that is listed, and every event of `begun` is listed or follows it (`WalkInv`).
  That a page takes the least rows of what is left, and has `Limit` of them if any stays out, is a fact about finite
  orders (`FirstIsFirst`), and that the next version exists one about counting (`NextVersionIsNext`). Events of one row: who
  writes one holds the row, and all those committed have lower versions and earlier times (`ObjectInv`).

Only model-checked: liveness (`PendingResolved`, `OrphanRemoved`, `RequestsEnd`, `MigrationsEnd`, `ServiceReturns`,
`RehostEnds`), which needs fairness and ENABLED and is out of the prover's reach. No module uses recursive operators.

## Not modelled

Configuration, Markdown, media types, hashing, decoding and rendering are pure functions. The filters of the audit and
the dashboard are single statements that read. `restore-ppr.sh` runs by hand on a stopped host with empty targets. The
part of `rehost-ppr.sh` before it retains the old binary (tests, build, flock) changes nothing. SIGKILL is among the signals that are modelled; a loss of
power, which also ends the unit and the database, is not. CreateProject is the initial state of `Projects`.
