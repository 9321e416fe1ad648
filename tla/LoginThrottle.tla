---------------------------- MODULE LoginThrottle ----------------------------
(***************************************************************************)
(* Login of internal/identity and its throttle: the row of login_throttles *)
(* for one identifier and one client, and the attempts that meet at it.    *)
(*                                                                         *)
(* The block is looked up in a statement of its own, before the password   *)
(* is verified; a failure is recorded in a transaction that starts later,  *)
(* with a time read before that transaction; a success deletes the row.    *)
(* Time passes between any two steps.  The rest of Login is in Accounts;   *)
(* what both modules would define has another name here.                   *)
(***************************************************************************)
EXTENDS Integers, Sequences, FiniteSets

CONSTANTS
    Attempts,    \* login handlers that run at the same time
    MaxFailures, \* maxLoginFailures
    Window,      \* loginWindow
    Block,       \* loginBlock
    MaxTime,     \* bound of the clock
    MaxCount,    \* bound: no invalid input is sent at this failure_count
    Absent

VARIABLES
    now,
    row,         \* window_started_at, failure_count and blocked_until, or Absent
    lpc, input,  \* of an attempt: its next step and what was sent to it
    stamp,       \*   and the time it read for its failure
    outcome,     \* what it is answered
    recent,      \* ghost: when the last failures since a success were recorded
    guesses      \* ghost: wrong passwords recorded in the window of the row

attempts == <<lpc, input, stamp, outcome>>
ghosts == <<recent, guesses>>
lvars == <<now, row, attempts, ghosts>>

Inputs ==
    {"invalid",  \* no identifier, or one or a password that is too long
     "wrong",    \* no such account, disabled, or not its password
     "right"}

ASSUME ThrottleAssumption ==
    /\ IsFiniteSet(Attempts) /\ Attempts # {}
    /\ MaxFailures \in Nat \ {0} /\ Window \in Nat \ {0} /\ Block \in Nat \ {0}
    /\ MaxTime \in Nat /\ MaxCount \in Nat
    /\ Absent \notin [start : Nat, count : Nat, blocked : Nat]
    /\ Absent # "throttled"

LInit ==
    /\ now = 1 /\ row = Absent
    /\ lpc = [a \in Attempts |-> "idle"]
    /\ input = [a \in Attempts |-> Absent]
    /\ stamp = [a \in Attempts |-> 0]
    /\ outcome = [a \in Attempts |-> Absent]
    /\ recent = <<>> /\ guesses = 0

Tick ==
    /\ now < MaxTime
    /\ now' = now + 1
    /\ UNCHANGED <<row, attempts, ghosts>>

(***************************************************************************)
(* Service.Login                                                           *)
(***************************************************************************)
Proceed(a, label) == lpc' = [lpc EXCEPT ![a] = label]

\* An attempt that ends keeps its answer until the next one begins.
Ends(a, answer) ==
    /\ Proceed(a, "idle")
    /\ input' = [input EXCEPT ![a] = Absent]
    /\ stamp' = [stamp EXCEPT ![a] = 0]
    /\ outcome' = [outcome EXCEPT ![a] = answer]

Login(a, i) ==
    /\ lpc[a] = "idle"
    /\ i = "invalid" /\ row # Absent => row.count < MaxCount
    /\ Proceed(a, IF i = "invalid" THEN "fail" ELSE "check")
    /\ input' = [input EXCEPT ![a] = i]
    /\ outcome' = [outcome EXCEPT ![a] = Absent]
    /\ UNCHANGED <<now, row, stamp, ghosts>>

\* COALESCE(blocked_until > now, false); NULL is 0 here.
IsLoginBlocked == row # Absent /\ row.blocked > now

Check(a) ==
    /\ lpc[a] = "check" /\ ~IsLoginBlocked
    /\ Proceed(a, "verify")
    /\ UNCHANGED <<now, row, input, stamp, outcome, ghosts>>

\* The refusal is audited and not counted.
Throttled(a) ==
    /\ lpc[a] = "check" /\ IsLoginBlocked
    /\ Ends(a, "throttled")
    /\ UNCHANGED <<now, row, ghosts>>

\* FindUserByIdentifier and Verify, which takes long.
Verify(a) ==
    /\ lpc[a] = "verify"
    /\ Proceed(a, IF input[a] = "right" THEN "session" ELSE "fail")
    /\ UNCHANGED <<now, row, input, stamp, outcome, ghosts>>

\* recordFailure reads the clock and calls RecordLoginFailure.
ReadClock(a) ==
    /\ lpc[a] = "fail"
    /\ Proceed(a, "insert")
    /\ stamp' = [stamp EXCEPT ![a] = now]
    /\ UNCHANGED <<now, row, input, outcome, ghosts>>

(***************************************************************************)
(* RecordLoginFailure                                                      *)
(***************************************************************************)
\* Mutant: the count goes on in the next window.
ReopenedKeepsCount(r, t) ==
    IF t >= r.start + Window THEN [r EXCEPT !.start = t, !.blocked = 0] ELSE r

\* A time at the end of the window or after it opens a new one, which forgets
\* the block too.
Reopened(r, t) ==
    IF t >= r.start + Window THEN [start |-> t, count |-> 0, blocked |-> 0] ELSE r

\* Mutant: the failure after the last one that is allowed blocks.
CountedLate(r, t) ==
    LET n == Reopened(r, t)
    IN  [n EXCEPT !.count = @ + 1,
                  !.blocked = IF n.count > MaxFailures /\ t + Block > @ THEN t + Block ELSE @]

\* From the last failure that is allowed on, each one blocks; the later end stays.
Counted(r, t) ==
    LET n == Reopened(r, t)
    IN  [n EXCEPT !.count = @ + 1,
                  !.blocked = IF n.count + 1 >= MaxFailures /\ t + Block > @
                              THEN t + Block ELSE @]

Remember(times, t) ==
    LET all == Append(times, t) IN IF Len(all) > MaxFailures THEN Tail(all) ELSE all

\* The row is written and the failure audited, in one transaction.
Record(a, r) ==
    /\ row' = Counted(r, stamp[a])
    /\ recent' = Remember(recent, now)
    /\ guesses' = (IF Reopened(r, stamp[a]).count = 0 THEN 0 ELSE guesses)
                  + (IF input[a] = "wrong" THEN 1 ELSE 0)
    /\ Ends(a, "invalid credentials")
    /\ UNCHANGED now

\* INSERT ... ON CONFLICT DO NOTHING makes the row, which no other transaction
\* sees before it is counted and committed...
InsertRow(a) ==
    /\ lpc[a] = "insert" /\ row = Absent
    /\ Record(a, [start |-> stamp[a], count |-> 0, blocked |-> 0])

\* ...or does nothing.
RowExists(a) ==
    /\ lpc[a] = "insert" /\ row # Absent
    /\ Proceed(a, "lock")
    /\ UNCHANGED <<now, row, input, stamp, outcome, ghosts>>

\* SELECT ... FOR UPDATE waits for the transactions before it.
LockRow(a) ==
    /\ lpc[a] = "lock" /\ row # Absent
    /\ Record(a, row)

\* A success has deleted the row meanwhile: the failure is an error, neither
\* counted nor audited.
RowIsGone(a) ==
    /\ lpc[a] = "lock" /\ row = Absent
    /\ Ends(a, "internal error")
    /\ UNCHANGED <<now, row, ghosts>>

(***************************************************************************)
(* CreateLoginSession                                                      *)
(***************************************************************************)
ClearOnLogin(a) ==
    /\ lpc[a] = "session"
    /\ row' = Absent
    /\ recent' = <<>> /\ guesses' = 0
    /\ Ends(a, "logged in")
    /\ UNCHANGED now

\* The database or the client fails.
Fails(a) ==
    /\ lpc[a] # "idle"
    /\ Ends(a, "internal error")
    /\ UNCHANGED <<now, row, ghosts>>

Step(a) ==
    \/ Check(a) \/ Throttled(a) \/ Verify(a) \/ ReadClock(a)
    \/ InsertRow(a) \/ RowExists(a) \/ LockRow(a) \/ RowIsGone(a)
    \/ ClearOnLogin(a) \/ Fails(a)

LNext == Tick \/ \E a \in Attempts : (\E i \in Inputs : Login(a, i)) \/ Step(a)

LSpec == LInit /\ [][LNext]_lvars

(***************************************************************************)
(* Properties                                                              *)
(***************************************************************************)
LTypeOK ==
    /\ now \in Nat
    /\ row \in [start : Nat, count : Nat, blocked : Nat] \cup {Absent}
    /\ lpc \in [Attempts -> {"idle", "check", "verify", "fail", "insert", "lock", "session"}]
    /\ input \in [Attempts -> Inputs \cup {Absent}]
    /\ stamp \in [Attempts -> Nat]
    /\ outcome \in [Attempts -> {Absent, "throttled", "invalid credentials",
                                 "internal error", "logged in"}]
    /\ recent \in Seq(Nat)
    /\ guesses \in Nat

\* Nobody is refused for failures that a success has cleared or that are too
\* old: when an attempt is refused, as many failures as block were recorded
\* since the last success and within the last window and block together,
\* however late they were recorded and with whatever time (RecordLoginFailure,
\* IsLoginBlocked).
RefusedForCause ==
    [][\A a \in Attempts : outcome[a] # "throttled" /\ outcome'[a] = "throttled" =>
           /\ Len(recent) = MaxFailures
           /\ now - recent[1] < Window + Block]_lvars

\* The check before the verification is not under the lock, so more passwords
\* than allowed may be tried at once, but not many more: in one window those of
\* the attempts that were on their way when the window was opened, and when it
\* was closed.
TriesAreBounded ==
    Block >= Window => guesses <= MaxFailures + 2 * (Cardinality(Attempts) - 1)
=============================================================================
