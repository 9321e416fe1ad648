------------------------------ MODULE Timeline ------------------------------
(***************************************************************************)
(* The pages of a task's timeline (projects/timeline*.go) and of the       *)
(* Admins' audit (identity/audit_query.go), read while transactions write  *)
(* the events that they list.                                              *)
(*                                                                         *)
(* A row takes its time from clock_timestamp() when it is inserted and is  *)
(* seen when its transaction commits, so events appear in another order    *)
(* than that of their times.  A page is one statement: what is committed   *)
(* when it starts, behind the position of the cursor.  The server keeps    *)
(* nothing between the pages of a walk.                                    *)
(***************************************************************************)
EXTENDS Integers, FiniteSets

CONSTANTS
    Ids,       \* event ids; they are random, their order is that of the integers
    Objects,   \* rows whose versions are written under a lock: tasks, updates
    Writers,   \* transactions that run at the same time
    Oldest,    \* walks of a timeline, the oldest event first
    Newest,    \* walks of the audit, the newest event first
    Limit,     \* of a page
    PerWrite,  \* bound: events of a transaction, the audit event among them
    MaxTime,   \* bound of the clock
    MaxWalks,  \* bound: walks at the same time; they have nothing in common
    None

Walks == Oldest \cup Newest

VARIABLES
    now,
    events,            \* the committed rows
    wpc, object,       \* of a transaction: its next step and the row it locks
    version, pending,  \*   the version it writes and its rows
    state, cursor,     \* of a walk: its state and next_cursor
    page,              \*   the last page
    listed,            \*   ghost: all its pages
    begun              \*   ghost: what was committed when it began

writers == <<wpc, object, version, pending>>
walks == <<state, cursor, page, listed, begun>>
vars == <<now, events, writers, walks>>

\* Events of comments and downloads have no object and version 0.
Event == [time : Nat, id : Ids, object : Objects \cup {None}, version : Nat]

ASSUME TimelineAssumption ==
    /\ Ids \subseteq Int /\ IsFiniteSet(Ids)
    /\ Limit \in Nat \ {0} /\ PerWrite \in Nat
    /\ MaxTime \in Nat /\ MaxWalks \in Nat
    /\ Oldest \cap Newest = {}
    /\ None \notin Objects /\ None \notin Event

Init ==
    /\ now = 0 /\ events = {}
    /\ wpc = [w \in Writers |-> "idle"]
    /\ object = [w \in Writers |-> None]
    /\ version = [w \in Writers |-> 0]
    /\ pending = [w \in Writers |-> {}]
    /\ state = [d \in Walks |-> "idle"]
    /\ cursor = [d \in Walks |-> None]
    /\ page = [d \in Walks |-> {}]
    /\ listed = [d \in Walks |-> {}]
    /\ begun = [d \in Walks |-> {}]

Tick ==
    /\ now < MaxTime
    /\ now' = now + 1
    /\ UNCHANGED <<events, writers, walks>>

(***************************************************************************)
(* The transactions that write events                                      *)
(***************************************************************************)
Begin(w, o) ==
    /\ wpc[w] = "idle"
    /\ wpc' = [wpc EXCEPT ![w] = IF o = None THEN "write" ELSE "lock"]
    /\ object' = [object EXCEPT ![w] = o]
    /\ UNCHANGED <<now, events, version, pending, walks>>

Versions(o) == {e.version : e \in {f \in events : f.object = o}}
NextVersion(o) ==
    CHOOSE v \in 1..(Cardinality(events) + 1) :
        v \notin Versions(o) /\ \A u \in 1..(v - 1) : u \in Versions(o)

\* Mutant: the version is read without FOR UPDATE.
ReadVersion(w) ==
    /\ wpc[w] = "lock"
    /\ wpc' = [wpc EXCEPT ![w] = "write"]
    /\ version' = [version EXCEPT ![w] = NextVersion(object[w])]
    /\ UNCHANGED <<now, events, object, pending, walks>>

\* SELECT version ... FOR UPDATE
LockObject(w) ==
    /\ wpc[w] = "lock"
    /\ \A v \in Writers \ {w} : object[v] = object[w] => wpc[v] # "write"
    /\ wpc' = [wpc EXCEPT ![w] = "write"]
    /\ version' = [version EXCEPT ![w] = NextVersion(object[w])]
    /\ UNCHANGED <<now, events, object, pending, walks>>

Used == {e.id : e \in events \cup UNION {pending[v] : v \in Writers}}

\* A row of the transaction, with the time of its statement.
Insert(w, i) ==
    /\ wpc[w] = "write" /\ Cardinality(pending[w]) < PerWrite
    /\ i \notin Used
    /\ pending' = [pending EXCEPT ![w] = @ \cup
          {[time |-> now, id |-> i, object |-> object[w], version |-> version[w]]}]
    /\ UNCHANGED <<now, events, wpc, object, version, walks>>

EndWrite(w) ==
    /\ wpc' = [wpc EXCEPT ![w] = "idle"]
    /\ object' = [object EXCEPT ![w] = None]
    /\ version' = [version EXCEPT ![w] = 0]
    /\ pending' = [pending EXCEPT ![w] = {}]

Commit(w) ==
    /\ wpc[w] = "write" /\ pending[w] # {}
    /\ events' = events \cup pending[w]
    /\ EndWrite(w)
    /\ UNCHANGED <<now, walks>>

Rollback(w) ==
    /\ wpc[w] # "idle"
    /\ EndWrite(w)
    /\ UNCHANGED <<now, events, walks>>

(***************************************************************************)
(* Pages                                                                   *)
(***************************************************************************)
Later(e, f) == e.time > f.time \/ (e.time = f.time /\ e.id > f.id)

\* ORDER BY occurred_at, event_id; of the audit, both DESC.
Follows(d, e, f) == IF d \in Oldest THEN Later(e, f) ELSE Later(f, e)

\* Mutant: events with the time of the cursor are taken for listed.
ContinuesLater(d, e) ==
    cursor[d] = None \/ IF d \in Oldest THEN e.time > cursor[d].time
                                        ELSE e.time < cursor[d].time

\* Mutant: the position of the cursor is included.
ContinuesAt(d, e) == cursor[d] = None \/ ~Follows(d, cursor[d], e)

\* The condition of the statement on the cursor.
Continues(d, e) == cursor[d] = None \/ Follows(d, e, cursor[d])

Rest(d) == {e \in events : Continues(d, e)}

\* LIMIT: the rows that have fewer than Limit before them.
First(d, rows) == {e \in rows : Cardinality({f \in rows : Follows(d, e, f)}) < Limit}

LastOf(d, rows) == CHOOSE e \in rows : \A f \in rows \ {e} : Follows(d, e, f)

\* A walk begins without a cursor.
BeginWalk(d) ==
    /\ state[d] = "idle" /\ Cardinality({x \in Walks : state[x] # "idle"}) < MaxWalks
    /\ state' = [state EXCEPT ![d] = "more"]
    /\ begun' = [begun EXCEPT ![d] = events]
    /\ UNCHANGED <<now, events, writers, cursor, page, listed>>

\* One row over the limit is asked for.  If it is there, the last row that is
\* listed makes next_cursor, and the client passes it on unchanged.
Page(d) ==
    LET rows == First(d, Rest(d))
    IN  /\ state[d] = "more"
        /\ page' = [page EXCEPT ![d] = rows]
        /\ listed' = [listed EXCEPT ![d] = @ \cup rows]
        /\ IF rows # Rest(d)
           THEN /\ cursor' = [cursor EXCEPT ![d] = LastOf(d, rows)]
                /\ UNCHANGED state
           ELSE /\ state' = [state EXCEPT ![d] = "listed"]
                /\ UNCHANGED cursor
        /\ UNCHANGED <<now, events, writers, begun>>

\* The client goes away, or a page is refused or fails: it starts again.
EndWalk(d) ==
    /\ state[d] # "idle"
    /\ state' = [state EXCEPT ![d] = "idle"]
    /\ cursor' = [cursor EXCEPT ![d] = None]
    /\ page' = [page EXCEPT ![d] = {}]
    /\ listed' = [listed EXCEPT ![d] = {}]
    /\ begun' = [begun EXCEPT ![d] = {}]
    /\ UNCHANGED <<now, events, writers>>

Next ==
    \/ Tick
    \/ \E w \in Writers :
          \/ \E o \in Objects \cup {None} : Begin(w, o)
          \/ LockObject(w) \/ Commit(w) \/ Rollback(w)
          \/ \E i \in Ids : Insert(w, i)
    \/ \E d \in Walks : BeginWalk(d) \/ Page(d) \/ EndWalk(d)

Spec == Init /\ [][Next]_vars

(***************************************************************************)
(* Properties                                                              *)
(***************************************************************************)
TypeOK ==
    /\ now \in Nat
    /\ events \subseteq Event /\ IsFiniteSet(events)
    /\ wpc \in [Writers -> {"idle", "lock", "write"}]
    /\ object \in [Writers -> Objects \cup {None}]
    /\ version \in [Writers -> Nat]
    /\ pending \in [Writers -> SUBSET Event]
    /\ state \in [Walks -> {"idle", "more", "listed"}]
    /\ cursor \in [Walks -> Event \cup {None}]
    /\ page \in [Walks -> SUBSET Event]
    /\ listed \in [Walks -> SUBSET Event]
    /\ begun \in [Walks -> SUBSET Event]

\* A walk that comes to a page without next_cursor has listed every event that
\* was committed when it began, whatever commits meanwhile, late or with equal
\* times (GetTaskTimeline, ListAudit).
WalkIsComplete ==
    \A d \in Walks : state[d] = "listed" => begun[d] \subseteq listed[d]

\* No event is listed twice, and each page follows all those before it.
WalkInOrder ==
    [][\A d \in Walks : page'[d] # page[d] =>
           \A e \in page'[d], f \in listed[d] : Follows(d, e, f)]_vars

\* No event of a row has a time before that of an earlier version of the row,
\* although each takes its time inside its transaction (UpdateTask,
\* CreateAssessment).  Events with equal times are listed in the order of their
\* ids, whatever their versions.
VersionsInOrder ==
    \A e, f \in events :
        e.object = f.object /\ e.version < f.version => e.time <= f.time
=============================================================================
