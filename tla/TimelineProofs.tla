--------------------------- MODULE TimelineProofs ---------------------------
(***************************************************************************)
(* Proofs about Timeline: for any writers, walks, objects and limit.       *)
(***************************************************************************)
EXTENDS Timeline, FiniteSetTheorems, WellFoundedInduction, TLAPS

(***************************************************************************)
(* The inductive invariant                                                 *)
(***************************************************************************)
Written == events \cup UNION {pending[w] : w \in Writers}

\* Rows are there only while they are written, and have the row and the
\* version of their transaction.
PendingInv ==
    /\ \A w \in Writers :
          /\ IsFiniteSet(pending[w])
          /\ wpc[w] # "write" => pending[w] = {} /\ version[w] = 0
          /\ wpc[w] = "idle" => object[w] = None
          /\ wpc[w] = "lock" => object[w] # None
          /\ object[w] = None => version[w] = 0
          /\ \A e \in pending[w] : e.object = object[w] /\ e.version = version[w]
    /\ \A e \in events : e.object = None => e.version = 0

\* Ids tell rows apart, and no row is newer than the clock.
RowsInv ==
    /\ \A e, f \in Written : e.id = f.id => e = f
    /\ \A e \in Written : e.time <= now

\* One transaction at a time writes versions of an object, the next after those
\* committed, which have no gap.
ObjectInv ==
    /\ \A v, w \in Writers :
          wpc[v] = "write" /\ wpc[w] = "write" /\ object[v] = object[w]
          /\ object[v] # None => v = w
    /\ \A e \in events : e.object # None =>
          e.version > 0 /\ \A u \in 1..(e.version - 1) : u \in Versions(e.object)
    /\ \A w \in Writers : wpc[w] = "write" /\ object[w] # None =>
          /\ version[w] > 0
          /\ \A u \in 1..(version[w] - 1) : u \in Versions(object[w])
          /\ \A e \in events : e.object = object[w] =>
                e.version < version[w] /\ \A f \in pending[w] : e.time <= f.time

\* The cursor is the last event listed, and what is left to list follows it.
WalkInv ==
    \A d \in Walks :
        /\ begun[d] \subseteq events /\ listed[d] \subseteq events
        /\ state[d] = "idle" => cursor[d] = None
        /\ cursor[d] = None /\ state[d] # "listed" => listed[d] = {}
        /\ cursor[d] # None =>
              /\ cursor[d] \in listed[d]
              /\ state[d] = "more" =>
                    \A f \in listed[d] \ {cursor[d]} : Follows(d, cursor[d], f)
        /\ state[d] = "more" =>
              \A e \in begun[d] : e \in listed[d] \/ Continues(d, e)

\* A page has at most Limit rows, and one with a cursor has as many.
PageInv ==
    \A d \in Walks :
        /\ Cardinality(page[d]) <= Limit
        /\ state[d] = "more" /\ cursor[d] # None => Cardinality(page[d]) = Limit

TInv ==
    /\ TypeOK /\ PendingInv /\ RowsInv /\ ObjectInv /\ WalkInv /\ PageInv
    /\ WalkIsComplete /\ VersionsInOrder

(***************************************************************************)
(* Lemmas: finite sets and orders                                          *)
(***************************************************************************)
LEMMA LeastOf ==
    ASSUME NEW V \in SUBSET Nat, V # {}
    PROVE  \E v \in V : \A w \in V : v <= w
<1> DEFINE R == OpToRel(<, Nat)
<1>1. PICK v \in V : \A w \in V : ~ (<<w, v>> \in R)
    <2> HIDE DEF R
    <2> QED BY NatLessThanWellFounded, WFMin DEF R
<1>2. \A w \in V : ~ (w < v)
    BY <1>1 DEF OpToRel
<1> QED BY <1>2

LEMMA FiniteHasMinimal ==
    ASSUME NEW S, IsFiniteSet(S), S # {}, NEW R,
           \A x \in S : <<x, x>> \notin R,
           \A x, y, z \in S : <<x, y>> \in R /\ <<y, z>> \in R => <<x, z>> \in R
    PROVE  \E m \in S : \A x \in S : <<x, m>> \notin R
<1> DEFINE Below(x) == {y \in S : <<y, x>> \in R}
           N == {Cardinality(Below(x)) : x \in S}
<1>1. \A x \in S : IsFiniteSet(Below(x)) /\ Cardinality(Below(x)) \in Nat
    <2> TAKE x \in S
    <2>1. Below(x) \in SUBSET S
        OBVIOUS
    <2> HIDE DEF Below
    <2>2. IsFiniteSet(Below(x))
        BY <2>1, FS_Subset
    <2> QED BY <2>2, FS_CardinalityType
<1>2. N \in SUBSET Nat /\ N # {}
    <2> HIDE DEF Below
    <2> QED BY <1>1
<1>3. PICK m \in S : \A x \in S : Cardinality(Below(m)) <= Cardinality(Below(x))
    <2>1. PICK v \in N : \A w \in N : v <= w
        <3> HIDE DEF N
        <3> QED BY <1>2, LeastOf
    <2> HIDE DEF Below
    <2> QED BY <2>1
<1>4. ASSUME NEW x \in S, <<x, m>> \in R
      PROVE  FALSE
    <2>1. Below(x) \in SUBSET Below(m) /\ x \in Below(m) /\ x \notin Below(x)
        BY <1>4
    <2> HIDE DEF Below
    <2>2. Cardinality(Below(x)) <= Cardinality(Below(m))
          /\ Cardinality(Below(m)) # Cardinality(Below(x))
        BY <1>1, <2>1, FS_Subset
    <2> QED BY <1>1, <1>3, <2>2
<1> QED BY <1>4

(***************************************************************************)
(* Lemmas: versions                                                        *)
(***************************************************************************)
LEMMA EventType ==
    ASSUME NEW e \in Event
    PROVE  e.time \in Nat /\ e.id \in Ids /\ e.id \in Int /\ e.version \in Nat
           /\ e.object \in Objects \cup {None} /\ e # None
BY TimelineAssumption DEF Event

\* The next version is there to be chosen, and those before it are taken.
LEMMA NextVersionIsNext ==
    ASSUME TypeOK, NEW o
    PROVE  /\ NextVersion(o) \in Nat \ {0}
           /\ NextVersion(o) \notin Versions(o)
           /\ \A u \in 1..(NextVersion(o) - 1) : u \in Versions(o)
<1> DEFINE n == Cardinality(events)
           rows == {f \in events : f.object = o}
           free == {v \in 1..(n + 1) : v \notin Versions(o)}
<1>1. n \in Nat
    BY FS_CardinalityType DEF TypeOK
<1>2. IsFiniteSet(rows) /\ Cardinality(rows) <= n
    BY FS_Subset DEF TypeOK
<1>3. IsFiniteSet(Versions(o)) /\ Cardinality(Versions(o)) <= Cardinality(rows)
    <2> DEFINE g == [e \in rows |-> e.version]
    <2>1. g \in Surjection(rows, Versions(o))
        BY DEF Surjection, Versions
    <2> HIDE DEF g, rows
    <2> QED BY <1>2, <2>1, FS_Surjection
<1>4. free # {}
    <2> SUFFICES ASSUME free = {}
                 PROVE  FALSE
        OBVIOUS
    <2>1. 1..(n + 1) \in SUBSET Versions(o)
        OBVIOUS
    <2>2. Cardinality(1..(n + 1)) = n + 1
        BY <1>1, FS_Interval
    <2>3. Cardinality(1..(n + 1)) <= Cardinality(Versions(o))
        BY <1>3, <2>1, FS_Subset
    <2>4. Cardinality(Versions(o)) \in Nat /\ Cardinality(rows) \in Nat
        BY <1>2, <1>3, FS_CardinalityType
    <2> HIDE DEF n, rows
    <2> QED BY <1>1, <1>2, <1>3, <2>2, <2>3, <2>4
<1>5. PICK v \in free : \A w \in free : v <= w
    <2>1. free \in SUBSET Nat
        BY <1>1
    <2> HIDE DEF free
    <2> QED BY <1>4, <2>1, LeastOf
<1>6. \A u \in 1..(v - 1) : u \in Versions(o)
    BY <1>1, <1>5
<1>7. NextVersion(o) \in 1..(n + 1)
      /\ NextVersion(o) \notin Versions(o)
      /\ \A u \in 1..(NextVersion(o) - 1) : u \in Versions(o)
    BY <1>5, <1>6 DEF NextVersion
<1> QED BY <1>1, <1>7

(***************************************************************************)
(* Lemmas: the order of a walk and its pages                               *)
(***************************************************************************)
LEMMA FollowsIsStrict ==
    ASSUME NEW d, NEW e \in Event, NEW f \in Event
    PROVE  /\ ~Follows(d, e, e)
           /\ ~(Follows(d, e, f) /\ Follows(d, f, e))
           /\ e.id # f.id => Follows(d, e, f) \/ Follows(d, f, e)
BY EventType DEF Follows, Later

LEMMA FollowsIsTransitive ==
    ASSUME NEW d, NEW e \in Event, NEW f \in Event, NEW g \in Event,
           Follows(d, e, f), Follows(d, f, g)
    PROVE  Follows(d, e, g)
BY EventType DEF Follows, Later

\* A set of rows that their ids tell apart has a first and a last one.
LEMMA RowsHaveEnds ==
    ASSUME NEW d, NEW rows \in SUBSET Event, IsFiniteSet(rows), rows # {},
           \A e, f \in rows : e.id = f.id => e = f
    PROVE  /\ \E e \in rows : \A f \in rows \ {e} : Follows(d, f, e)
           /\ \E e \in rows : \A f \in rows \ {e} : Follows(d, e, f)
<1> DEFINE After == {p \in rows \X rows : Follows(d, p[1], p[2])}
           Before == {p \in rows \X rows : Follows(d, p[2], p[1])}
<1>1. PICK m \in rows : \A x \in rows : <<x, m>> \notin After
    <2>1. \A x \in rows : <<x, x>> \notin After
        BY FollowsIsStrict
    <2>2. \A x, y, z \in rows : <<x, y>> \in After /\ <<y, z>> \in After
              => <<x, z>> \in After
        BY FollowsIsTransitive
    <2> HIDE DEF After
    <2> QED BY <2>1, <2>2, FiniteHasMinimal
<1>2. PICK l \in rows : \A x \in rows : <<x, l>> \notin Before
    <2>1. \A x \in rows : <<x, x>> \notin Before
        BY FollowsIsStrict
    <2>2. \A x, y, z \in rows : <<x, y>> \in Before /\ <<y, z>> \in Before
              => <<x, z>> \in Before
        BY FollowsIsTransitive
    <2> HIDE DEF Before
    <2> QED BY <2>1, <2>2, FiniteHasMinimal
<1>3. \A f \in rows \ {l} : Follows(d, f, l)
    <2> TAKE f \in rows \ {l}
    <2>1. ~Follows(d, l, f)
        BY <1>2
    <2> QED BY <2>1, FollowsIsStrict
<1>4. \A f \in rows \ {m} : Follows(d, m, f)
    <2> TAKE f \in rows \ {m}
    <2>1. ~Follows(d, f, m)
        BY <1>1
    <2> QED BY <2>1, FollowsIsStrict
<1> QED BY <1>3, <1>4

Preceding(d, rows, e) == {f \in rows : Follows(d, e, f)}

LEMMA PrecedingIsFinite ==
    ASSUME NEW d, NEW rows, IsFiniteSet(rows), NEW e
    PROVE  /\ IsFiniteSet(Preceding(d, rows, e))
           /\ Cardinality(Preceding(d, rows, e)) \in Nat
<1>1. Preceding(d, rows, e) \in SUBSET rows
    BY DEF Preceding
<1> QED BY <1>1, FS_Subset, FS_CardinalityType

\* What a page lists of the rows that are left: rows that precede all the
\* others, Limit of them if any is left out.
LEMMA FirstIsFirst ==
    ASSUME NEW d, NEW rows \in SUBSET Event, IsFiniteSet(rows),
           \A e, f \in rows : e.id = f.id => e = f
    PROVE  /\ First(d, rows) \subseteq rows /\ IsFiniteSet(First(d, rows))
           /\ rows # {} => First(d, rows) # {}
           /\ \A e \in rows \ First(d, rows), f \in First(d, rows) : Follows(d, e, f)
           /\ Cardinality(First(d, rows)) <= Limit
           /\ rows # First(d, rows) => Cardinality(First(d, rows)) = Limit
<1> DEFINE P == First(d, rows)
<1>1. P \in SUBSET rows /\ IsFiniteSet(P) /\ Cardinality(P) \in Nat
      /\ P = {e \in rows : Cardinality(Preceding(d, rows, e)) < Limit}
    <2>1. P \in SUBSET rows
        BY DEF First
    <2>2. IsFiniteSet(P)
        BY <2>1, FS_Subset
    <2> QED BY <2>1, <2>2, FS_CardinalityType DEF First, Preceding
<1> HIDE DEF P
<1>2. Limit \in Nat \ {0}
    BY TimelineAssumption
<1>3. ASSUME rows # {}
      PROVE  P # {}
    <2>1. PICK e \in rows : \A f \in rows \ {e} : Follows(d, f, e)
        BY <1>3, RowsHaveEnds
    <2>2. Preceding(d, rows, e) = {}
        BY <2>1, FollowsIsStrict DEF Preceding
    <2>3. Cardinality(Preceding(d, rows, e)) = 0
        BY <2>2, FS_EmptySet
    <2> QED BY <1>1, <1>2, <2>3
<1>4. ASSUME NEW e \in rows \ P, NEW f \in P
      PROVE  Follows(d, e, f)
    <2> SUFFICES ASSUME ~Follows(d, e, f)
                 PROVE  FALSE
        OBVIOUS
    <2>1. e # f /\ e \in Event /\ f \in Event /\ f \in rows
        BY <1>1
    <2>2. Follows(d, f, e)
        BY <2>1, FollowsIsStrict
    <2>3. Preceding(d, rows, e) \in SUBSET Preceding(d, rows, f)
        BY <2>1, <2>2, FollowsIsTransitive DEF Preceding
    <2>4. Cardinality(Preceding(d, rows, e)) <= Cardinality(Preceding(d, rows, f))
        BY <2>3, PrecedingIsFinite, FS_Subset
    <2> QED BY <1>1, <1>2, <2>1, <2>4, PrecedingIsFinite
<1>5. Cardinality(P) <= Limit
    <2>1. CASE P = {}
        BY <2>1, <1>2, FS_EmptySet
    <2>2. CASE P # {}
        <3>1. PICK l \in P : \A f \in P \ {l} : Follows(d, l, f)
            BY <1>1, <2>2, RowsHaveEnds
        <3>2. P \ {l} \in SUBSET Preceding(d, rows, l)
            BY <1>1, <3>1 DEF Preceding
        <3>3. Cardinality(P \ {l}) <= Cardinality(Preceding(d, rows, l))
            BY <3>2, PrecedingIsFinite, FS_Subset
        <3>4. Cardinality(P \ {l}) = Cardinality(P) - 1
            BY <1>1, FS_RemoveElement
        <3>5. Cardinality(Preceding(d, rows, l)) < Limit
            BY <1>1
        <3> QED BY <1>1, <1>2, <3>3, <3>4, <3>5, PrecedingIsFinite
    <2> QED BY <2>1, <2>2
<1>6. ASSUME rows # P
      PROVE  Limit <= Cardinality(P)
    <2> DEFINE Q == rows \ P
    <2>1. Q # {} /\ Q \in SUBSET Event /\ IsFiniteSet(Q) /\ Q \in SUBSET rows
        <3>1. Q # {} /\ Q \in SUBSET rows
            BY <1>1, <1>6
        <3> QED BY <3>1, FS_Subset
    <2>2. PICK e \in Q : \A f \in Q \ {e} : Follows(d, f, e)
        <3> HIDE DEF Q
        <3> QED BY <2>1, RowsHaveEnds
    <2>3. Preceding(d, rows, e) \in SUBSET P
        BY <2>1, <2>2, FollowsIsStrict DEF Preceding
    <2>4. Cardinality(Preceding(d, rows, e)) <= Cardinality(P)
        BY <1>1, <2>3, FS_Subset
    <2>5. ~(Cardinality(Preceding(d, rows, e)) < Limit)
        BY <1>1, <2>2
    <2> QED BY <1>1, <1>2, <2>4, <2>5, PrecedingIsFinite
<1> QED BY <1>1, <1>2, <1>3, <1>4, <1>5, <1>6 DEF P

LEMMA LastIsLast ==
    ASSUME NEW d, NEW rows \in SUBSET Event, IsFiniteSet(rows), rows # {},
           \A e, f \in rows : e.id = f.id => e = f
    PROVE  /\ LastOf(d, rows) \in rows
           /\ \A f \in rows \ {LastOf(d, rows)} : Follows(d, LastOf(d, rows), f)
BY RowsHaveEnds DEF LastOf

(***************************************************************************)
(* Init and every step                                                     *)
(***************************************************************************)
LEMMA InitInv == Init => TInv
<1> SUFFICES ASSUME Init
             PROVE  TInv
    OBVIOUS
<1> USE DEF Init
<1>1. TypeOK
    BY FS_EmptySet DEF TypeOK
<1>2. PendingInv
    BY FS_EmptySet DEF PendingInv
<1>3. RowsInv /\ ObjectInv
    BY DEF RowsInv, ObjectInv, Written
<1>4. WalkInv
    BY DEF WalkInv
<1>5. PageInv
    BY FS_EmptySet, TimelineAssumption DEF PageInv
<1>6. WalkIsComplete /\ VersionsInOrder
    BY DEF WalkIsComplete, VersionsInOrder
<1> QED BY <1>1, <1>2, <1>3, <1>4, <1>5, <1>6 DEF TInv

\* A step of the writers that commits nothing disturbs no walk.
LEMMA WalksApart ==
    ASSUME TInv, events' = events, walks' = walks
    PROVE  WalkInv' /\ PageInv' /\ WalkIsComplete' /\ VersionsInOrder'
BY DEF TInv, WalkInv, PageInv, WalkIsComplete, VersionsInOrder, walks, Continues

LEMMA TickInv ==
    ASSUME TInv, Tick
    PROVE  TInv'
<1> USE DEF Tick, writers
<1>1. TypeOK'
    BY DEF TInv, TypeOK, walks
<1>2. PendingInv' /\ ObjectInv'
    BY DEF TInv, PendingInv, ObjectInv, Versions
<1>3. RowsInv'
    <2>1. \A e \in Written : e.time \in Nat
        BY EventType DEF TInv, TypeOK, Written
    <2> QED BY <2>1 DEF TInv, TypeOK, RowsInv, Written
<1> QED BY <1>1, <1>2, <1>3, WalksApart DEF TInv

LEMMA BeginInv ==
    ASSUME TInv, NEW w \in Writers, NEW o \in Objects \cup {None}, Begin(w, o)
    PROVE  TInv'
<1> USE DEF Begin, TInv
<1>1. TypeOK'
    BY DEF TypeOK, walks
<1>2. PendingInv' /\ RowsInv'
    BY TimelineAssumption DEF TypeOK, PendingInv, RowsInv, Written
<1>3. ObjectInv'
    BY DEF TypeOK, PendingInv, ObjectInv, Versions
<1> QED BY <1>1, <1>2, <1>3, WalksApart

LEMMA LockObjectInv ==
    ASSUME TInv, NEW w \in Writers, LockObject(w)
    PROVE  TInv'
<1> USE DEF LockObject, TInv
<1> DEFINE o == object[w]
           v == NextVersion(o)
<1>1. v \in Nat \ {0} /\ v \notin Versions(o) /\ \A u \in 1..(v - 1) : u \in Versions(o)
    BY NextVersionIsNext
<1>2. wpc' = [wpc EXCEPT ![w] = "write"] /\ version' = [version EXCEPT ![w] = v]
    OBVIOUS
<1> HIDE DEF v
<1>3. TypeOK'
    BY <1>1, <1>2 DEF TypeOK, walks
<1>4. PendingInv' /\ RowsInv'
    BY <1>1, <1>2, TimelineAssumption DEF TypeOK, PendingInv, RowsInv, Written
<1>5. ObjectInv'
    <2>1. \A e \in events : e.object = o => e.version < v
        <3> SUFFICES ASSUME NEW e \in events, e.object = o, ~(e.version < v)
                     PROVE  FALSE
            OBVIOUS
        <3>1. e.version \in Versions(o) /\ e.version \in Nat
            BY EventType DEF Versions, TypeOK
        <3>2. v \in 1..(e.version - 1)
            BY <1>1, <3>1
        <3>3. o # None
            BY DEF PendingInv
        <3> QED BY <1>1, <3>2, <3>3 DEF ObjectInv
    <2>2. pending[w] = {}
        BY DEF PendingInv
    <2>3. \A x \in Writers : x # w /\ object[x] = o => wpc[x] # "write"
        OBVIOUS
    <2>4. \A x, y \in Writers :
              wpc'[x] = "write" /\ wpc'[y] = "write" /\ object'[x] = object'[y]
              /\ object'[x] # None => x = y
        BY <1>2, <2>3 DEF TypeOK, ObjectInv
    <2>5. \A p : Versions(p)' = Versions(p)
        BY DEF Versions
    <2>6. \A x \in Writers : wpc'[x] = "write" /\ object'[x] # None =>
              /\ version'[x] > 0
              /\ \A u \in 1..(version'[x] - 1) : u \in Versions(object[x])
              /\ \A e \in events : e.object = object[x] =>
                    e.version < version'[x] /\ \A f \in pending[x] : e.time <= f.time
        <3> TAKE x \in Writers
        <3>1. CASE x = w
            BY <1>1, <1>2, <2>1, <2>2, <3>1 DEF TypeOK
        <3>2. CASE x # w
            BY <1>2, <3>2 DEF TypeOK, ObjectInv
        <3> QED BY <3>1, <3>2
    <2> QED BY <2>4, <2>5, <2>6 DEF ObjectInv
<1> QED BY <1>3, <1>4, <1>5, WalksApart

LEMMA InsertInv ==
    ASSUME TInv, NEW w \in Writers, NEW i \in Ids, Insert(w, i)
    PROVE  TInv'
<1> USE DEF Insert, TInv
<1> DEFINE r == [time |-> now, id |-> i, object |-> object[w], version |-> version[w]]
<1>1. r \in Event /\ r.time = now /\ r.id = i /\ r.object = object[w] /\ r.version = version[w]
    BY DEF TypeOK, Event
<1>2. pending' = [pending EXCEPT ![w] = pending[w] \cup {r}]
    OBVIOUS
<1> HIDE DEF r
<1>3. TypeOK'
    BY <1>1, <1>2 DEF TypeOK, walks
<1>4. PendingInv'
    <2>1. IsFiniteSet(pending[w] \cup {r})
        BY FS_AddElement DEF PendingInv
    <2>2. pending' \in [Writers -> SUBSET Event]
          /\ pending'[w] = pending[w] \cup {r}
          /\ \A x \in Writers \ {w} : pending'[x] = pending[x]
        BY <1>2, <1>3 DEF TypeOK
    <2>3. \A e \in pending'[w] : e.object = object[w] /\ e.version = version[w]
        BY <1>1, <2>2 DEF PendingInv
    <2>4. \A x \in Writers :
              /\ IsFiniteSet(pending'[x])
              /\ wpc[x] # "write" => pending'[x] = {} /\ version[x] = 0
              /\ \A e \in pending'[x] : e.object = object[x] /\ e.version = version[x]
        BY <2>1, <2>2, <2>3 DEF PendingInv
    <2> QED BY <2>4 DEF PendingInv
<1>5. RowsInv'
    <2>1. Written' = Written \cup {r}
        BY <1>2 DEF TypeOK, Written
    <2>2. \A e \in Written : e.id # r.id
        BY <1>1 DEF Used, Written
    <2> QED BY <1>1, <2>1, <2>2 DEF TypeOK, RowsInv
<1>6. ObjectInv'
    <2>1. \A e \in events : e.time <= r.time
        BY <1>1 DEF RowsInv, Written
    <2>2. \A p : Versions(p)' = Versions(p)
        BY DEF Versions
    <2> QED BY <1>2, <2>1, <2>2 DEF TypeOK, ObjectInv
<1> QED BY <1>3, <1>4, <1>5, <1>6, WalksApart

LEMMA RollbackInv ==
    ASSUME TInv, NEW w \in Writers, Rollback(w)
    PROVE  TInv'
<1> USE DEF Rollback, EndWrite, TInv
<1>1. TypeOK'
    BY DEF TypeOK, walks
<1>2. PendingInv' /\ RowsInv'
    BY FS_EmptySet DEF TypeOK, PendingInv, RowsInv, Written
<1>3. ObjectInv'
    BY DEF TypeOK, ObjectInv, Versions
<1> QED BY <1>1, <1>2, <1>3, WalksApart

LEMMA CommitInv ==
    ASSUME TInv, NEW w \in Writers, Commit(w)
    PROVE  TInv'
<1> USE DEF Commit, EndWrite, TInv
<1>1. TypeOK'
    BY FS_Union DEF TypeOK, PendingInv, walks
<1>2. PendingInv'
    BY FS_EmptySet DEF TypeOK, PendingInv
<1>3. RowsInv'
    BY DEF TypeOK, RowsInv, Written
<1>4. \A p : Versions(p) \subseteq Versions(p)'
    BY DEF Versions
<1>5. ObjectInv'
    <2>1. \A e \in events' : e.object # None =>
              e.version > 0 /\ \A u \in 1..(e.version - 1) : u \in Versions(e.object)'
        BY <1>4 DEF PendingInv, ObjectInv
    <2>2. ASSUME NEW x \in Writers, wpc'[x] = "write", object'[x] # None
          PROVE  /\ version'[x] > 0
                 /\ \A u \in 1..(version'[x] - 1) : u \in Versions(object[x])'
                 /\ \A e \in events' : e.object = object'[x] =>
                       e.version < version'[x] /\ \A f \in pending'[x] : e.time <= f.time
        <3>1. x # w
            BY <2>2 DEF TypeOK
        <3>2. wpc[x] = "write" /\ object'[x] = object[x] /\ version'[x] = version[x]
              /\ pending'[x] = pending[x] /\ object[x] # None
            BY <2>2, <3>1 DEF TypeOK
        <3>3. object[w] # object[x]
            BY <3>1, <3>2 DEF ObjectInv
        <3>4. \A e \in pending[w] : e.object # object[x]
            BY <3>3 DEF PendingInv
        <3> QED BY <1>4, <3>2, <3>4 DEF ObjectInv
    <2>3. \A x, y \in Writers :
              wpc'[x] = "write" /\ wpc'[y] = "write" /\ object'[x] = object'[y]
              /\ object'[x] # None => x = y
        BY DEF TypeOK, ObjectInv
    <2>4. \A x \in Writers : wpc'[x] = "write" => object'[x] = object[x]
        BY DEF TypeOK
    <2> QED BY <2>1, <2>2, <2>3, <2>4 DEF ObjectInv
<1>6. WalkInv' /\ PageInv' /\ WalkIsComplete'
    BY DEF WalkInv, PageInv, WalkIsComplete, walks, Continues
<1>7. VersionsInOrder'
    <2> SUFFICES ASSUME NEW e \in events', NEW f \in events',
                        e.object = f.object, e.version < f.version
                 PROVE  e.time <= f.time
        BY DEF VersionsInOrder
    <2>1. e \in events \/ e \in pending[w]
        OBVIOUS
    <2>2. f \in events \/ f \in pending[w]
        OBVIOUS
    <2>3. e.version \in Nat /\ f.version \in Nat
        BY <2>1, <2>2, EventType DEF TypeOK
    <2>4. CASE e.object = None
        <3>1. \A g \in events : g.object = None => g.version = 0
            BY DEF PendingInv
        <3>2. \A g \in pending[w] : g.object = None => g.version = 0
            BY DEF PendingInv
        <3>3. e.version = 0 /\ f.version = 0
            BY <2>1, <2>2, <2>4, <3>1, <3>2
        <3> QED BY <3>3
    <2>5. CASE e.object # None
        <3>1. CASE e \in events /\ f \in events
            BY <3>1 DEF VersionsInOrder
        <3>2. CASE e \in pending[w] /\ f \in events
            BY <2>3, <2>5, <3>2, EventType DEF TypeOK, PendingInv, ObjectInv
        <3>3. CASE e \in events /\ f \in pending[w]
            BY <2>5, <3>3 DEF PendingInv, ObjectInv
        <3>4. CASE e \in pending[w] /\ f \in pending[w]
            BY <2>3, <3>4 DEF PendingInv
        <3> QED BY <2>1, <2>2, <3>1, <3>2, <3>3, <3>4
    <2> QED BY <2>4, <2>5
<1> QED BY <1>1, <1>2, <1>3, <1>5, <1>6, <1>7

\* A step of a walk writes nothing.
LEMMA WritersApart ==
    ASSUME TInv, UNCHANGED <<now, events, writers>>
    PROVE  PendingInv' /\ RowsInv' /\ ObjectInv' /\ VersionsInOrder'
BY DEF TInv, PendingInv, RowsInv, ObjectInv, VersionsInOrder, writers, Written, Versions

LEMMA BeginWalkInv ==
    ASSUME TInv, NEW d \in Walks, BeginWalk(d)
    PROVE  TInv'
<1> USE DEF BeginWalk, TInv
<1>1. TypeOK'
    BY DEF TypeOK, writers
<1>2. WalkInv' /\ PageInv' /\ WalkIsComplete'
    BY DEF TypeOK, WalkInv, PageInv, WalkIsComplete, Continues
<1> QED BY <1>1, <1>2, WritersApart

LEMMA EndWalkInv ==
    ASSUME TInv, NEW d \in Walks, EndWalk(d)
    PROVE  TInv'
<1> USE DEF EndWalk, TInv
<1>1. TypeOK'
    BY TimelineAssumption DEF TypeOK, writers
<1>2. WalkInv' /\ WalkIsComplete'
    BY DEF TypeOK, WalkInv, WalkIsComplete, Continues
<1>3. PageInv'
    BY FS_EmptySet, TimelineAssumption DEF TypeOK, PageInv
<1> QED BY <1>1, <1>2, <1>3, WritersApart

\* The rows that are left to list are as FirstIsFirst asks.
LEMMA RestIsRows ==
    ASSUME TInv, NEW d \in Walks
    PROVE  /\ Rest(d) \in SUBSET Event /\ Rest(d) \in SUBSET events
           /\ IsFiniteSet(Rest(d))
           /\ \A e, f \in Rest(d) : e.id = f.id => e = f
<1>1. Rest(d) \in SUBSET events
    BY DEF Rest
<1>2. IsFiniteSet(Rest(d))
    BY <1>1, FS_Subset DEF TInv, TypeOK
<1> QED BY <1>1, <1>2 DEF TInv, TypeOK, RowsInv, Written

\* What is left follows what is listed.
LEMMA RestFollowsListed ==
    ASSUME TInv, NEW d \in Walks, state[d] = "more",
           NEW e \in Rest(d), NEW f \in listed[d]
    PROVE  Follows(d, e, f)
<1> USE DEF TInv, WalkInv
<1>1. cursor[d] # None /\ cursor[d] \in listed[d]
    OBVIOUS
<1>2. Follows(d, e, cursor[d])
    BY <1>1 DEF Rest, Continues
<1>3. e \in Event /\ f \in Event /\ cursor[d] \in Event
    BY <1>1, RestIsRows DEF TypeOK
<1>4. CASE f = cursor[d]
    BY <1>2, <1>4
<1>5. CASE f # cursor[d]
    BY <1>1, <1>2, <1>3, <1>5, FollowsIsTransitive
<1> QED BY <1>4, <1>5

LEMMA PageStepInv ==
    ASSUME TInv, NEW d \in Walks, Page(d)
    PROVE  TInv'
<1> DEFINE left == Rest(d)
           rows == First(d, left)
           last == LastOf(d, rows)
<1>1. /\ left \in SUBSET Event /\ left \in SUBSET events /\ IsFiniteSet(left)
      /\ \A e, f \in left : e.id = f.id => e = f
    BY RestIsRows
<1>2. /\ rows \subseteq left /\ IsFiniteSet(rows)
      /\ left # {} => rows # {}
      /\ \A e \in left \ rows, f \in rows : Follows(d, e, f)
      /\ Cardinality(rows) <= Limit
      /\ left # rows => Cardinality(rows) = Limit
    <2> HIDE DEF left
    <2> QED BY <1>1, FirstIsFirst
<1>3. /\ state[d] = "more"
      /\ page' = [page EXCEPT ![d] = rows]
      /\ listed' = [listed EXCEPT ![d] = listed[d] \cup rows]
      /\ rows # left => cursor' = [cursor EXCEPT ![d] = last] /\ state' = state
      /\ rows = left => state' = [state EXCEPT ![d] = "listed"] /\ cursor' = cursor
      /\ UNCHANGED <<now, events, writers, begun>>
    BY DEF Page
<1>4. \A e \in left, f \in listed[d] : Follows(d, e, f)
    BY <1>3, RestFollowsListed
<1>5. \A e \in begun[d] : e \in listed[d] \/ e \in left
    BY <1>3 DEF TInv, WalkInv, Rest
<1>6. ASSUME rows # left
      PROVE  /\ last \in rows /\ last # None
             /\ \A f \in rows \ {last} : Follows(d, last, f)
    <2>1. /\ rows \in SUBSET Event /\ rows # {}
          /\ \A e, f \in rows : e.id = f.id => e = f
        BY <1>1, <1>2, <1>6
    <2>2. last \in rows /\ \A f \in rows \ {last} : Follows(d, last, f)
        <3> HIDE DEF rows
        <3> QED BY <1>2, <2>1, LastIsLast
    <2> QED BY <2>1, <2>2, EventType
<1> HIDE DEF left, rows, last
<1>7. TypeOK'
    BY <1>1, <1>2, <1>3, <1>6 DEF TInv, TypeOK, writers
<1>8. ASSUME NEW x \in Walks, x # d
      PROVE  /\ state'[x] = state[x] /\ cursor'[x] = cursor[x] /\ page'[x] = page[x]
             /\ listed'[x] = listed[x] /\ begun'[x] = begun[x]
    BY <1>3, <1>8 DEF TInv, TypeOK
<1>9. /\ page'[d] = rows /\ listed'[d] = listed[d] \cup rows /\ begun'[d] = begun[d]
      /\ rows # left => cursor'[d] = last /\ state'[d] = "more"
      /\ rows = left => state'[d] = "listed" /\ cursor'[d] = cursor[d]
    BY <1>3 DEF TInv, TypeOK
<1>10. WalkInv'
    <2>1. begun'[d] \subseteq events' /\ listed'[d] \subseteq events'
        BY <1>1, <1>2, <1>3, <1>9 DEF TInv, WalkInv
    <2>2. ASSUME rows # left
          PROVE  /\ cursor'[d] \in listed'[d] /\ cursor'[d] # None
                 /\ \A f \in listed'[d] \ {cursor'[d]} : Follows(d, cursor'[d], f)
        BY <1>2, <1>4, <1>6, <1>9, <2>2
    <2>3. ASSUME rows # left, NEW e \in begun'[d], e \notin listed'[d]
          PROVE  Continues(d, e)'
        <3>1. e \in left \ rows
            BY <1>5, <1>9, <2>3
        <3>2. Follows(d, e, last)
            BY <1>2, <1>6, <2>3, <3>1
        <3> QED BY <1>9, <2>3, <3>2 DEF Continues
    <2>4. cursor'[d] # None => cursor'[d] \in listed'[d]
        BY <1>9, <2>2 DEF TInv, WalkInv
    <2>5. \A x \in Walks \ {d} : \A e : Continues(x, e)' = Continues(x, e)
        BY <1>8 DEF Continues
    <2>6. ASSUME NEW x \in Walks
          PROVE  /\ begun'[x] \subseteq events' /\ listed'[x] \subseteq events'
                 /\ state'[x] = "idle" => cursor'[x] = None
                 /\ cursor'[x] = None /\ state'[x] # "listed" => listed'[x] = {}
                 /\ cursor'[x] # None =>
                       /\ cursor'[x] \in listed'[x]
                       /\ state'[x] = "more" =>
                             \A f \in listed'[x] \ {cursor'[x]} : Follows(x, cursor'[x], f)
                 /\ state'[x] = "more" =>
                       \A e \in begun'[x] : e \in listed'[x] \/ Continues(x, e)'
        <3>1. CASE x = d
            BY <1>9, <2>1, <2>2, <2>3, <2>4, <3>1
        <3>2. CASE x # d
            BY <1>3, <1>8, <2>5, <3>2 DEF TInv, WalkInv
        <3> QED BY <3>1, <3>2
    <2> QED BY <2>6 DEF WalkInv
<1>11. PageInv'
    BY <1>2, <1>8, <1>9 DEF TInv, PageInv
<1>12. WalkIsComplete'
    BY <1>2, <1>5, <1>8, <1>9 DEF TInv, WalkIsComplete
<1> QED BY <1>3, <1>7, <1>10, <1>11, <1>12, WritersApart DEF TInv

LEMMA Inductive == TInv /\ [Next]_vars => TInv'
<1> SUFFICES ASSUME TInv, [Next]_vars
             PROVE  TInv'
    OBVIOUS
<1>1. CASE Tick
    BY <1>1, TickInv
<1>2. ASSUME NEW w \in Writers,
             \/ \E o \in Objects \cup {None} : Begin(w, o)
             \/ LockObject(w) \/ Commit(w) \/ Rollback(w)
             \/ \E i \in Ids : Insert(w, i)
      PROVE  TInv'
    BY <1>2, BeginInv, LockObjectInv, InsertInv, CommitInv, RollbackInv
<1>3. ASSUME NEW d \in Walks, BeginWalk(d) \/ Page(d) \/ EndWalk(d)
      PROVE  TInv'
    BY <1>3, BeginWalkInv, PageStepInv, EndWalkInv
<1>4. CASE UNCHANGED vars
    <2>1. TypeOK'
        BY <1>4 DEF TInv, TypeOK, vars, writers, walks
    <2> QED BY <1>4, <2>1, WalksApart, WritersApart DEF TInv, vars
<1> QED BY <1>1, <1>2, <1>3, <1>4 DEF Next

LEMMA Invariant == Spec => []TInv
BY InitInv, Inductive, PTL DEF Spec

(***************************************************************************)
(* Theorems                                                                *)
(***************************************************************************)
\* Every variable of the transactions and of the walks keeps its type.
THEOREM TypeCorrect == Spec => []TypeOK
<1>1. TInv => TypeOK
    BY DEF TInv
<1> QED BY <1>1, Invariant, PTL

\* A walk that comes to a page without next_cursor has listed all that was
\* committed when it began, whatever commits late or with the time of a cursor
\* (GetTaskTimeline, ListAudit).
THEOREM WalkComplete == Spec => []WalkIsComplete
<1>1. TInv => WalkIsComplete
    BY DEF TInv
<1> QED BY <1>1, Invariant, PTL

\* The order of times is the order of versions, up to equal times: the row of
\* the object is locked from the look at its version to the commit of its event,
\* and the time of the event is taken in between (UpdateTask, CreateAssessment).
THEOREM VersionsOrdered == Spec => []VersionsInOrder
<1>1. TInv => VersionsInOrder
    BY DEF TInv
<1> QED BY <1>1, Invariant, PTL

\* A page is never longer than its limit, and as long while next_cursor says
\* that there is more (the row over the limit that the query asks for).
THEOREM PagesAreFull == Spec => []PageInv
<1>1. TInv => PageInv
    BY DEF TInv
<1> QED BY <1>1, Invariant, PTL

\* Each page follows all that was listed before it, so that no event is listed
\* twice: the position of the cursor is the last of what is listed.
THEOREM WalkOrdered == Spec => WalkInOrder
<1>1. ASSUME TInv, [Next]_vars
      PROVE  [\A d \in Walks : page'[d] # page[d] =>
                  \A e \in page'[d], f \in listed[d] : Follows(d, e, f)]_vars
    <2> SUFFICES ASSUME NEW d \in Walks, page'[d] # page[d],
                        NEW e \in page'[d], NEW f \in listed[d], Next
                 PROVE  Follows(d, e, f)
        BY <1>1 DEF vars, walks
    <2>1. PICK x \in Walks : Page(x) \/ EndWalk(x)
        BY DEF Next, Tick, Begin, LockObject, Insert, Commit, Rollback, BeginWalk, walks
    <2>2. x = d
        BY <1>1, <2>1 DEF Page, EndWalk, TInv, TypeOK
    <2>3. CASE Page(d)
        <3>1. state[d] = "more" /\ page'[d] = First(d, Rest(d))
            BY <1>1, <2>3 DEF Page, TInv, TypeOK
        <3>2. e \in Rest(d)
            BY <3>1 DEF First
        <3> QED BY <1>1, <3>1, <3>2, RestFollowsListed
    <2>4. CASE EndWalk(d)
        BY <1>1, <2>4 DEF EndWalk, TInv, TypeOK
    <2> QED BY <2>1, <2>2, <2>3, <2>4
<1> QED BY <1>1, Invariant, PTL DEF Spec, WalkInOrder
=============================================================================
