-------------------------- MODULE DashboardProofs --------------------------
(* Machine-checked proofs about Dashboard, for every number of jobs and of *)
(* requests, every page size and every limit that is asked for.            *)
EXTENDS Dashboard, FiniteSetTheorems, TLAPS

-----------------------------------------------------------------------------
(* The listing, of any table *)

Tables == [Jobs -> Absent \cup RowStates]

(* Matching and Position, with the table as a parameter. *)
Listed(table, f) == {j \in Jobs : table[j] \in f}

Place(table, j, f) == Cardinality({i \in Listed(table, f) : i < j})

LEMMA ListingIsFinite ==
    ASSUME NEW table, NEW f
    PROVE  /\ Jobs \subseteq Nat
           /\ IsFiniteSet(Jobs)
           /\ IsFiniteSet(Listed(table, f))
           /\ Cardinality(Listed(table, f)) \in Nat
           /\ \A j \in Jobs : /\ IsFiniteSet({i \in Listed(table, f) : i < j})
                              /\ Place(table, j, f) \in Nat
<1>1. Jobs \subseteq Nat /\ IsFiniteSet(Jobs)
    BY FS_Interval, DashboardAssumption DEF Jobs
<1>2. /\ IsFiniteSet(Listed(table, f))
      /\ \A j \in Jobs : IsFiniteSet({i \in Listed(table, f) : i < j})
    BY <1>1, FS_Subset DEF Listed
<1> QED BY <1>1, <1>2, FS_CardinalityType DEF Place

(* The places are in the order of the listing, and end where it ends. *)
LEMMA PlacesInOrder ==
    ASSUME NEW table, NEW f, NEW i \in Listed(table, f), NEW j \in Jobs, i < j
    PROVE  Place(table, i, f) < Place(table, j, f)
<1> DEFINE before(k) == {h \in Listed(table, f) : h < k}
<1>1. i \in Jobs /\ Listed(table, f) \subseteq Nat /\ j \in Nat
    BY ListingIsFinite DEF Listed
<1>2. IsFiniteSet(before(i)) /\ IsFiniteSet(before(j))
    BY <1>1, ListingIsFinite
<1>3. before(i) \cup {i} \subseteq before(j) /\ i \notin before(i)
    BY <1>1
<1>4. Cardinality(before(i) \cup {i}) = Cardinality(before(i)) + 1
    <2> HIDE DEF before
    <2> QED BY <1>2, <1>3, FS_AddElement
<1>5. Cardinality(before(i) \cup {i}) <= Cardinality(before(j))
    <2> HIDE DEF before
    <2> QED BY <1>2, <1>3, FS_Subset
<1>6. Cardinality(before(i)) \in Nat /\ Cardinality(before(j)) \in Nat
    BY <1>2, FS_CardinalityType
<1> QED BY <1>4, <1>5, <1>6 DEF Place

LEMMA PlacesDiffer ==
    ASSUME NEW table, NEW f, NEW i \in Listed(table, f), NEW j \in Listed(table, f),
           Place(table, i, f) = Place(table, j, f)
    PROVE  i = j
<1>1. i \in Jobs /\ j \in Jobs /\ i \in Nat /\ j \in Nat
    BY ListingIsFinite DEF Listed
<1>2. Place(table, i, f) \in Nat
    BY <1>1, ListingIsFinite
<1>3. i < j \/ j < i \/ i = j
    BY <1>1
<1> QED BY <1>1, <1>2, <1>3, PlacesInOrder

LEMMA PlacesEnd ==
    ASSUME NEW table, NEW f, NEW j \in Listed(table, f)
    PROVE  Place(table, j, f) < Cardinality(Listed(table, f))
<1> DEFINE before == {h \in Listed(table, f) : h < j}
<1>1. j \in Jobs /\ j \in Nat
    BY ListingIsFinite DEF Listed
<1>2. IsFiniteSet(before) /\ IsFiniteSet(Listed(table, f))
    BY <1>1, ListingIsFinite
<1>3. before \cup {j} \subseteq Listed(table, f) /\ j \notin before
    BY <1>1
<1>4. Cardinality(before \cup {j}) = Cardinality(before) + 1
    <2> HIDE DEF before
    <2> QED BY <1>2, <1>3, FS_AddElement
<1>5. Cardinality(before \cup {j}) <= Cardinality(Listed(table, f))
    <2> HIDE DEF before
    <2> QED BY <1>2, <1>3, FS_Subset
<1>6. Cardinality(before) \in Nat /\ Cardinality(Listed(table, f)) \in Nat
    BY <1>2, FS_CardinalityType
<1> QED BY <1>4, <1>5, <1>6 DEF Place

LEMMA AtMostBoth ==
    ASSUME NEW S, IsFiniteSet(S), NEW T, IsFiniteSet(T)
    PROVE  /\ IsFiniteSet(S \cup T) /\ Cardinality(S \cup T) \in Nat
           /\ Cardinality(S \cup T) <= Cardinality(S) + Cardinality(T)
<1>1. /\ IsFiniteSet(S \cup T) /\ IsFiniteSet(S \cap T)
      /\ Cardinality(S \cup T) = Cardinality(S) + Cardinality(T) - Cardinality(S \cap T)
    BY FS_Union, FS_Subset
<1>2. /\ Cardinality(S) \in Nat /\ Cardinality(T) \in Nat
      /\ Cardinality(S \cap T) \in Nat /\ Cardinality(S \cup T) \in Nat
    BY <1>1, FS_CardinalityType
<1> QED BY <1>1, <1>2

(* A job that comes moves the others down, each job that goes moves them up *)
(* by one place.                                                           *)
LEMMA PlacesMove ==
    ASSUME NEW table \in Tables, NEW f, NEW D \in SUBSET Jobs, NEW s,
           NEW after, after = [i \in Jobs |-> IF i \in D THEN s ELSE table[i]], NEW i \in Jobs
    PROVE  /\ s \in f => Place(table, i, f) <= Place(after, i, f)
           /\ Place(table, i, f) <= Place(after, i, f) + Cardinality(D \cap Listed(table, f))
<1> DEFINE was == {h \in Listed(table, f) : h < i}
           is == {h \in Listed(after, f) : h < i}
           gone == D \cap Listed(table, f)
<1>1. IsFiniteSet(was) /\ IsFiniteSet(is) /\ Cardinality(was) \in Nat /\ Cardinality(is) \in Nat
    BY ListingIsFinite, FS_CardinalityType
<1>2. IsFiniteSet(gone) /\ Cardinality(gone) \in Nat
    BY ListingIsFinite, FS_Subset, FS_CardinalityType
<1>3. ASSUME s \in f PROVE was \subseteq is
    BY <1>3 DEF Listed, Tables
<1>4. was \subseteq is \cup gone
    BY DEF Listed, Tables
<1> HIDE DEF was, is, gone
<1>5. s \in f => Cardinality(was) <= Cardinality(is)
    BY <1>1, <1>3, FS_Subset
<1>6. /\ IsFiniteSet(is \cup gone) /\ Cardinality(is \cup gone) \in Nat
      /\ Cardinality(is \cup gone) <= Cardinality(is) + Cardinality(gone)
    BY <1>1, <1>2, AtMostBoth
<1>7. Cardinality(was) <= Cardinality(is \cup gone)
    BY <1>4, <1>6, FS_Subset
<1>8. Cardinality(was) <= Cardinality(is) + Cardinality(gone)
    BY <1>1, <1>2, <1>6, <1>7
<1> QED BY <1>5, <1>8 DEF Place, was, is, gone

(* As many listed jobs as there are places for them. *)
LEMMA PlacesFit ==
    ASSUME NEW table, NEW f, NEW N \in SUBSET Listed(table, f), NEW a \in Nat, NEW n \in Nat,
           \A i \in N : Place(table, i, f) >= a /\ Place(table, i, f) < a + n
    PROVE  IsFiniteSet(N) /\ Cardinality(N) \in Nat /\ Cardinality(N) <= n
<1> DEFINE places == a..(a + n - 1)
           place == [i \in N |-> Place(table, i, f)]
<1>1. \A i \in N : i \in Listed(table, f) /\ i \in Jobs /\ Place(table, i, f) \in Nat
    BY ListingIsFinite DEF Listed
<1>2. \A i \in N : Place(table, i, f) \in places
    BY <1>1
<1>3. \A i, k \in N : Place(table, i, f) = Place(table, k, f) => i = k
    BY <1>1, PlacesDiffer
<1>4. place \in Injection(N, places)
    BY <1>2, <1>3 DEF Injection, IsInjective
<1>5. IsFiniteSet(places) /\ Cardinality(places) = n
    <2>1. a \in Int /\ a + n - 1 \in Int
        OBVIOUS
    <2>2. IsFiniteSet(places) /\ Cardinality(places) = IF a > a + n - 1 THEN 0 ELSE a + n - 1 - a + 1
        BY <2>1, FS_Interval
    <2> HIDE DEF places
    <2> QED BY <2>2
<1>6. IsFiniteSet(N) /\ Cardinality(N) <= Cardinality(places)
    BY <1>4, <1>5, FS_Injection
<1> QED BY <1>5, <1>6, FS_CardinalityType

-----------------------------------------------------------------------------
(* Logs *)

(* The later log m has lost only events older than all it has, and has     *)
(* gained only events newer than all of l.                                 *)
Grown(l, m) ==
    /\ \A d \in l \ m : m # {} /\ \A e \in m : d < e
    /\ \A e \in m \ l : \A d \in l : d < e

(* What the timeline may lack. *)
NotBehind(due, shown) == \A d \in due \ shown : shown # {} /\ \A e \in shown : d < e

LEMMA NotBehindLater ==
    ASSUME NEW due \in SUBSET Nat, NEW l \in SUBSET Nat, NEW m \in SUBSET Nat,
           NotBehind(due, l), Grown(l, m)
    PROVE  NotBehind(due, m)
<1> SUFFICES ASSUME NEW d \in due \ m PROVE m # {} /\ \A e \in m : d < e
    BY DEF NotBehind
<1>1. CASE d \in l
    BY <1>1 DEF Grown
<1>2. CASE d \notin l
    <2>1. PICK x \in l : TRUE
        BY <1>2 DEF NotBehind
    <2>2. \A e \in l : d < e
        BY <1>2 DEF NotBehind
    <2>3. m # {}
        BY <2>1 DEF Grown
    <2>4. ASSUME NEW e \in m, e \notin l PROVE d < e
        <3>1. x < e /\ d < x
            BY <2>1, <2>2, <2>4 DEF Grown
        <3>2. d \in Nat /\ x \in Nat /\ e \in Nat
            BY <2>1
        <3> QED BY <3>1, <3>2
    <2> QED BY <2>2, <2>3, <2>4
<1> QED BY <1>1, <1>2

LEMMA UnchangedIsGrown == ASSUME NEW l PROVE Grown(l, l)
BY DEF Grown

(* The newest event of a log is not trimmed, whatever the cap. *)
LEMMA KeptIsGrown ==
    ASSUME NEW n \in Nat, NEW l \in SUBSET (1..n), l # {} => n \in l, NEW cap \in Nat
    PROVE  /\ Kept(l, cap) \subseteq l
           /\ l # {} => n \in Kept(l, cap)
           /\ Grown(l, Kept(l, cap))
<1> DEFINE newer(e) == {d \in l : d > e}
<1>1. \A d \in l : d \in Nat /\ d <= n
    OBVIOUS
<1>2. IsFiniteSet(l)
    <2>1. IsFiniteSet(1..n)
        BY FS_Interval
    <2> QED BY <2>1, FS_Subset
<1>3. \A e : IsFiniteSet(newer(e)) /\ Cardinality(newer(e)) \in Nat
    BY <1>2, FS_Subset, FS_CardinalityType
<1>4. CASE cap = 0
    BY <1>4, UnchangedIsGrown DEF Kept
<1>5. CASE cap # 0
    <2>1. Kept(l, cap) = {e \in l : Cardinality(newer(e)) < cap}
        BY <1>5 DEF Kept
    <2>2. ASSUME l # {} PROVE n \in Kept(l, cap)
        <3>1. newer(n) = {}
            <4>1. \A d \in l : ~(d > n)
                BY <1>1
            <4> QED BY <4>1
        <3>2. Cardinality(newer(n)) = 0
            BY <3>1, FS_EmptySet
        <3>3. n \in l /\ Cardinality(newer(n)) < cap
            BY <1>5, <2>2, <3>2
        <3> HIDE DEF newer
        <3> QED BY <2>1, <3>3
    <2>3. ASSUME NEW d \in l, d \notin Kept(l, cap), NEW e \in Kept(l, cap) PROVE d < e
        <3>1. d \in Nat /\ e \in Nat /\ e \in l
            BY <1>1, <2>1
        <3>2. ~(Cardinality(newer(d)) < cap) /\ Cardinality(newer(e)) < cap
            BY <2>1, <2>3
        <3>3. ASSUME e <= d PROVE FALSE
            <4>1. newer(d) \subseteq newer(e)
                <5>1. ASSUME NEW x \in l, x > d PROVE x > e
                    <6>1. x \in Nat
                        BY <1>1
                    <6> QED BY <3>1, <3>3, <5>1, <6>1
                <5> QED BY <5>1
            <4>2. Cardinality(newer(d)) <= Cardinality(newer(e))
                BY <1>3, <4>1, FS_Subset
            <4>3. Cardinality(newer(d)) \in Nat /\ Cardinality(newer(e)) \in Nat
                BY <1>3
            <4> HIDE DEF newer
            <4> QED BY <3>2, <4>2, <4>3
        <3> QED BY <3>1, <3>3
    <2>4. Kept(l, cap) \subseteq l
        BY <2>1
    <2> QED BY <2>2, <2>3, <2>4 DEF Grown
<1> QED BY <1>4, <1>5

LEMMA AppendedIsGrown ==
    ASSUME NEW n \in Nat, NEW l \in SUBSET (1..n)
    PROVE  Grown(l, l \cup {n + 1})
BY DEF Grown

-----------------------------------------------------------------------------
(* What holds of one request, in any table *)

(* The client of a walk has still to ask for the places from here on. *)
Reach(q) == IF q.pc = "page" THEN q.offset ELSE q.offset + q.limit

(* Jobs that the client has passed without seeing them. *)
Missed(q, table) ==
    {j \in q.steady \ q.got : q.pc = "done" \/ Place(table, j, q.filter) < Reach(q)}

(* A requeue has seen the present state of its job; the row is its own     *)
(* from the UPDATE on; its answer is true.                                 *)
RequeueInv(q, table) ==
    /\ q.pc # "done" => table[q.job] \in q.seen
    /\ q.pc \in {"read", "get", "update"} => ~q.did
    /\ q.pc \in {"back", "log"} => q.did
    /\ q.pc = "done" =>
        /\ q.answer = "200" => q.did
        /\ q.answer \in {"400", "415"} => ~q.did
        /\ q.answer = "404" => q.seen \cap Absent # {}
        /\ q.answer = "409" => \E s \in q.seen : s \in RowStates \ {"dead_letter"}

(* The jobs that never left are listed now; those that a walk has passed   *)
(* without seeing them are no more than the others that left.              *)
WalkInv(q, table) ==
    /\ q.pc # "done" => q.steady \subseteq Listed(table, q.filter)
    /\ Cardinality(Missed(q, table)) <= q.left

(* As long as the job is not cut, its log is as good as the one that was    *)
(* stored with the row.                                                    *)
ReadInv(q, table, logs) ==
    /\ q.pc = "first" => q.row = "none"
    /\ q.row # "none" /\ ~q.cut =>
        /\ q.pc = "second" => table[q.job] \in q.filter /\ NotBehind(q.due, logs[q.job])
        /\ q.pc = "done" => NotBehind(q.due, q.shown)

RequestInv(q, table, logs) ==
    \/ q \in NewRequest
    \/ q \in RequeueRequest /\ RequeueInv(q, table)
    \/ q \in WalkRequest /\ WalkInv(q, table)
    \/ q \in ReadRequest /\ ReadInv(q, table, logs)

LEMMA MissedIsFinite ==
    ASSUME NEW q \in WalkRequest, NEW table
    PROVE  IsFiniteSet(Missed(q, table)) /\ Cardinality(Missed(q, table)) \in Nat
<1>1. Missed(q, table) \subseteq Jobs
    BY DEF Missed, WalkRequest
<1> QED BY <1>1, ListingIsFinite, FS_Subset, FS_CardinalityType

(* Fewer are missed. *)
LEMMA FewerMissed ==
    ASSUME NEW q \in WalkRequest, NEW table, NEW p \in WalkRequest, NEW after,
           Missed(p, after) \subseteq Missed(q, table)
    PROVE  Cardinality(Missed(p, after)) <= Cardinality(Missed(q, table))
BY MissedIsFinite, FS_Subset

LEMMA OneMore ==
    ASSUME NEW S, IsFiniteSet(S), NEW x
    PROVE  IsFiniteSet(S \cup {x}) /\ Cardinality(S \cup {x}) <= Cardinality(S) + 1
<1>1. Cardinality(S) \in Nat
    BY FS_CardinalityType
<1>2. CASE x \in S
    <2>1. S \cup {x} = S
        BY <1>2
    <2>2. IsFiniteSet(S \cup {x}) /\ Cardinality(S \cup {x}) = Cardinality(S)
        BY <2>1
    <2> QED BY <1>1, <2>2
<1>3. CASE x \notin S
    BY <1>1, <1>3, FS_AddElement
<1> QED BY <1>2, <1>3

-----------------------------------------------------------------------------
(* What others do to a request *)

(* A request that notes nothing, of a table that stays. *)
LEMMA Unmoved ==
    ASSUME NEW q, NEW table, NEW logsNow \in [Jobs -> SUBSET Nat], NEW logsThen \in [Jobs -> SUBSET Nat],
           \A j \in Jobs : Grown(logsNow[j], logsThen[j]),
           RequestInv(q, table, logsNow)
    PROVE  RequestInv(q, table, logsThen)
<1>1. CASE q \in ReadRequest /\ ReadInv(q, table, logsNow)
    <2>1. q.job \in Jobs /\ q.due \in SUBSET Nat
        BY <1>1 DEF ReadRequest
    <2>2. NotBehind(q.due, logsNow[q.job]) => NotBehind(q.due, logsThen[q.job])
        BY <2>1, NotBehindLater
    <2> QED BY <1>1, <2>2 DEF RequestInv, ReadInv
<1> QED BY <1>1 DEF RequestInv

LEMMA RequeueNotes ==
    ASSUME NEW q \in RequeueRequest, state \in Tables, RequeueInv(q, state),
           NEW D \in SUBSET Jobs, NEW s \in RowStates \cup {"deleted"},
           NEW after, after = [i \in Jobs |-> IF i \in D THEN s ELSE state[i]]
    PROVE  Noted(q, D, s) \in RequeueRequest /\ RequeueInv(Noted(q, D, s), after)
<1>1. q.pc # "new" /\ q.kind = "requeue" /\ q.job \in Jobs
    BY DEF RequeueRequest
<1>2. CASE q.pc = "done" \/ q.job \notin D
    <2>1. Noted(q, D, s) = q
        BY <1>1, <1>2 DEF Noted
    <2> QED BY <1>1, <1>2, <2>1 DEF RequeueInv, Tables
<1>3. CASE q.pc # "done" /\ q.job \in D
    <2>1. Noted(q, D, s) = [q EXCEPT !.seen = @ \cup {s}]
        BY <1>1, <1>3 DEF Noted
    <2>2. [q EXCEPT !.seen = @ \cup {s}] \in RequeueRequest
        BY DEF RequeueRequest, Absent
    <2> QED BY <1>1, <1>3, <2>1, <2>2 DEF RequeueInv, Tables, RequeueRequest
<1> QED BY <1>2, <1>3

LEMMA ReadNotes ==
    ASSUME NEW q \in ReadRequest, state \in Tables,
           NEW logsNow \in [Jobs -> SUBSET Nat], NEW logsThen \in [Jobs -> SUBSET Nat],
           ReadInv(q, state, logsNow),
           NEW D \in SUBSET Jobs, NEW s \in RowStates \cup {"deleted"},
           NEW after, after = [i \in Jobs |-> IF i \in D THEN s ELSE state[i]],
           \A i \in Jobs : Grown(logsNow[i], logsThen[i]) \/ (i \in D /\ s = "deleted")
    PROVE  Noted(q, D, s) \in ReadRequest /\ ReadInv(Noted(q, D, s), after, logsThen)
<1>1. q.pc # "new" /\ q.kind = "read" /\ q.job \in Jobs /\ q.due \in SUBSET Nat
    BY DEF ReadRequest
<1>2. \/ q.job \in D /\ s = "deleted"
      \/ NotBehind(q.due, logsNow[q.job]) => NotBehind(q.due, logsThen[q.job])
    BY <1>1, NotBehindLater
<1>3. CASE q.pc = "done" \/ q.job \notin D
    <2>1. Noted(q, D, s) = q
        BY <1>1, <1>3 DEF Noted
    <2> QED BY <1>1, <1>2, <1>3, <2>1 DEF ReadInv, Tables
<1>4. CASE q.pc # "done" /\ q.job \in D
    <2>1. Noted(q, D, s) = [q EXCEPT !.cut = @ \/ s \notin q.filter]
        BY <1>1, <1>4 DEF Noted
    <2>2. [q EXCEPT !.cut = @ \/ s \notin q.filter] \in ReadRequest
        BY DEF ReadRequest
    <2>3. "deleted" \notin q.filter
        BY DEF ReadRequest, Filters, RowStates
    <2> QED BY <1>1, <1>2, <1>4, <2>1, <2>2, <2>3 DEF ReadInv, Tables, ReadRequest
<1> QED BY <1>3, <1>4

(* Of the jobs that stay, one at most comes into the reach of the walk for  *)
(* each that goes, because no two have the same place.                     *)
LEMMA WalkNotes ==
    ASSUME NEW q \in WalkRequest, state \in Tables, WalkInv(q, state),
           NEW D \in SUBSET Jobs, NEW s \in RowStates \cup {"deleted"},
           NEW after, after = [i \in Jobs |-> IF i \in D THEN s ELSE state[i]]
    PROVE  Noted(q, D, s) \in WalkRequest /\ WalkInv(Noted(q, D, s), after)
<1> DEFINE p == Noted(q, D, s)
<1>1. /\ q.pc \in {"page", "count", "done"} /\ q.kind = "walk"
      /\ q.offset \in Nat /\ q.limit \in Nat /\ q.left \in Nat
      /\ q.steady \subseteq Jobs /\ q.got \subseteq Jobs
    BY DEF WalkRequest
<1>2. Reach(q) \in Nat
    BY <1>1 DEF Reach
<1>3. \A i \in Jobs : Place(state, i, q.filter) \in Nat /\ Place(after, i, q.filter) \in Nat
    BY ListingIsFinite
<1>4. q.pc # "done" => q.steady \subseteq Listed(state, q.filter)
    BY DEF WalkInv
<1>5. Cardinality(Missed(q, state)) \in Nat /\ Cardinality(Missed(q, state)) <= q.left
    BY MissedIsFinite DEF WalkInv
<1>6. \A i, table : q.pc # "done" =>
        (i \in Missed(q, table) <=> /\ i \in q.steady \ q.got /\ i \in Jobs
                                    /\ Place(table, i, q.filter) < Reach(q))
    BY <1>1 DEF Missed
<1>7. CASE q.pc = "done"
    <2>1. p = q
        BY <1>7 DEF Noted
    <2>2. Missed(q, after) = Missed(q, state)
        BY <1>7 DEF Missed
    <2> QED BY <1>5, <1>7, <2>1, <2>2 DEF WalkInv
<1>8. CASE q.pc # "done" /\ s \in q.filter
    <2>1. p = q
        BY <1>1, <1>8 DEF Noted
    <2>2. q.steady \subseteq Listed(after, q.filter)
        BY <1>4, <1>8 DEF Listed, Tables
    <2>3. \A i \in Jobs : Place(state, i, q.filter) <= Place(after, i, q.filter)
        BY <1>8, PlacesMove
    <2>4. ASSUME NEW i \in Missed(q, after) PROVE i \in Missed(q, state)
        <3>1. i \in q.steady \ q.got /\ i \in Jobs /\ Place(after, i, q.filter) < Reach(q)
            BY <1>8, <1>6
        <3>2. Place(state, i, q.filter) < Reach(q)
            <4>1. /\ Place(state, i, q.filter) \in Nat /\ Place(after, i, q.filter) \in Nat
                  /\ Place(state, i, q.filter) <= Place(after, i, q.filter)
                BY <1>3, <2>3, <3>1, Zenon
            <4> QED BY <1>2, <3>1, <4>1
        <3> QED BY <1>8, <1>6, <3>1, <3>2
    <2>5. Cardinality(Missed(q, after)) <= Cardinality(Missed(q, state))
        BY <2>4, FewerMissed
    <2>6. Cardinality(Missed(q, after)) \in Nat
        BY MissedIsFinite
    <2>7. Cardinality(Missed(q, after)) <= q.left
        BY <1>1, <1>5, <2>5, <2>6
    <2>8. WalkInv(q, after)
        BY <2>2, <2>7 DEF WalkInv
    <2> QED BY <2>1, <2>8
<1>9. CASE q.pc # "done" /\ s \notin q.filter
    <2> DEFINE gone == D \cap Listed(state, q.filter)
               n == Cardinality(gone)
               more == Missed(p, after) \ Missed(q, state)
    <2>1. p = [q EXCEPT !.steady = @ \ D, !.left = @ + n]
        BY <1>1, <1>9 DEF Noted, Matching, Listed
    <2>2. n \in Nat
        BY ListingIsFinite, FS_Subset, FS_CardinalityType
    <2> HIDE DEF n
    <2>3. q.left + n \in Nat
        BY <1>1, <2>2
    <2>4. /\ p \in WalkRequest /\ p.pc = q.pc /\ p.filter = q.filter /\ p.got = q.got
          /\ Reach(p) = Reach(q) /\ p.steady = q.steady \ D /\ p.left = q.left + n
        BY <1>1, <2>1, <2>3 DEF WalkRequest, Reach
    <2> HIDE DEF p
    <2>5. p.steady \subseteq Listed(after, p.filter)
        BY <1>1, <1>4, <1>9, <2>4 DEF Listed
    <2>6. ASSUME NEW i \in more
          PROVE  /\ i \in Listed(state, q.filter)
                 /\ Place(state, i, q.filter) >= Reach(q)
                 /\ Place(state, i, q.filter) < Reach(q) + n
        <3>1. /\ i \in q.steady \ q.got /\ i \in Jobs
              /\ Place(after, i, q.filter) < Reach(q)
            BY <1>1, <1>9, <2>4 DEF Missed
        <3>2. ~(Place(state, i, q.filter) < Reach(q))
            BY <1>6, <1>9, <3>1
        <3>3. Place(state, i, q.filter) <= Place(after, i, q.filter) + n
            BY <3>1, PlacesMove DEF n
        <3>4. Place(state, i, q.filter) \in Nat /\ Place(after, i, q.filter) \in Nat
            BY <1>3, <3>1
        <3> QED BY <1>2, <1>4, <1>9, <2>2, <3>1, <3>2, <3>3, <3>4
    <2>7. IsFiniteSet(more) /\ Cardinality(more) \in Nat /\ Cardinality(more) <= n
        <3>1. more \in SUBSET Listed(state, q.filter)
            BY <2>6
        <3> HIDE DEF more
        <3> QED BY <1>2, <2>2, <2>6, <3>1, PlacesFit
    <2>8. /\ IsFiniteSet(Missed(q, state) \cup more)
          /\ Cardinality(Missed(q, state) \cup more) \in Nat
          /\ Cardinality(Missed(q, state) \cup more) <= Cardinality(Missed(q, state)) + Cardinality(more)
        BY <2>7, MissedIsFinite, AtMostBoth
    <2>9. /\ Cardinality(Missed(p, after)) \in Nat
          /\ Cardinality(Missed(p, after)) <= Cardinality(Missed(q, state) \cup more)
        BY <2>4, <2>8, MissedIsFinite, FS_Subset
    <2>10. Cardinality(Missed(p, after)) <= q.left + n
        BY <1>1, <1>5, <2>2, <2>7, <2>8, <2>9
    <2>11. WalkInv(p, after)
        BY <2>4, <2>5, <2>10 DEF WalkInv
    <2> QED BY <2>4, <2>11 DEF p
<1> QED BY <1>7, <1>8, <1>9

(* A change of the table that every request notes. *)
LEMMA Moved ==
    ASSUME NEW q, state \in Tables,
           NEW logsNow \in [Jobs -> SUBSET Nat], NEW logsThen \in [Jobs -> SUBSET Nat],
           RequestInv(q, state, logsNow),
           NEW D \in SUBSET Jobs, NEW s \in RowStates \cup {"deleted"},
           NEW after, after = [i \in Jobs |-> IF i \in D THEN s ELSE state[i]],
           \A i \in Jobs : Grown(logsNow[i], logsThen[i]) \/ (i \in D /\ s = "deleted")
    PROVE  RequestInv(Noted(q, D, s), after, logsThen)
<1>1. CASE q \in NewRequest
    BY <1>1 DEF NewRequest, Noted, RequestInv
<1>2. CASE q \in RequeueRequest /\ RequeueInv(q, state)
    BY <1>2, RequeueNotes DEF RequestInv
<1>3. CASE q \in WalkRequest /\ WalkInv(q, state)
    BY <1>3, WalkNotes DEF RequestInv
<1>4. CASE q \in ReadRequest /\ ReadInv(q, state, logsNow)
    BY <1>4, ReadNotes DEF RequestInv
<1> QED BY <1>1, <1>2, <1>3, <1>4 DEF RequestInv

-----------------------------------------------------------------------------
(* The inductive invariant *)

AnyRequest == NewRequest \cup RequeueRequest \cup WalkRequest \cup ReadRequest

(* The request q has requeued job j itself. *)
Requeued(q, j) == q.pc # "new" /\ q.kind = "requeue" /\ q.job = j /\ q.did

RequeuedBy(j) == {r \in Requests : Requeued(req[r], j)}

Types ==
    /\ state \in Tables /\ changes \in Nat
    /\ log \in [Jobs -> SUBSET Nat] /\ last \in [Jobs -> Nat]
    /\ deaths \in [Jobs -> Nat]
    /\ req \in [Requests -> AnyRequest]

(* A dead job has one death more than requests that requeued it. *)
DeathsInv ==
    \A j \in Jobs :
        /\ IsFiniteSet(RequeuedBy(j))
        /\ Cardinality(RequeuedBy(j)) + (IF state[j] = "dead_letter" THEN 1 ELSE 0) <= deaths[j]

(* A log that is not empty has the latest event of its job. *)
LogsInv ==
    \A j \in Jobs : log[j] \in SUBSET (1..last[j]) /\ (log[j] # {} => last[j] \in log[j])

IInv ==
    /\ Types
    /\ LogsInv
    /\ DeathsInv
    /\ \A r \in Requests : RequestInv(req[r], state, log)

LEMMA InvariantInit == Init => IInv
<1> SUFFICES ASSUME Init PROVE IInv
    OBVIOUS
<1>1. \A r \in Requests : req[r] \in NewRequest
    BY DEF Init, NewRequest
<1>2. Types /\ LogsInv
    <2>1. last \in [Jobs -> {0, 1}] /\ log = [j \in Jobs |-> 1..last[j]]
        BY DEF Init
    <2>2. \A j \in Jobs : log[j] \in SUBSET Nat /\ (log[j] # {} => last[j] \in log[j])
        BY <2>1
    <2>3. log \in [Jobs -> SUBSET Nat] /\ last \in [Jobs -> Nat] /\ LogsInv
        BY <2>1, <2>2 DEF LogsInv
    <2> QED BY <1>1, <2>3 DEF Init, Types, Tables, AnyRequest, Absent
<1>3. \A j \in Jobs : RequeuedBy(j) = {}
    BY <1>1 DEF RequeuedBy, Requeued, NewRequest
<1>4. DeathsInv
    <2>1. \A j \in Jobs : deaths[j] = IF state[j] = "dead_letter" THEN 1 ELSE 0
        BY DEF Init
    <2> QED BY <1>3, <2>1, FS_EmptySet DEF DeathsInv
<1> QED BY <1>1, <1>2, <1>4 DEF IInv, RequestInv

LEMMA NotedKeeps ==
    ASSUME NEW q \in AnyRequest, NEW D \in SUBSET Jobs, NEW s, NEW i
    PROVE  Requeued(Noted(q, D, s), i) <=> Requeued(q, i)
<1>1. CASE q \in NewRequest
    BY <1>1 DEF NewRequest, Noted
<1>2. CASE q \in RequeueRequest
    BY <1>2 DEF RequeueRequest, Noted, Requeued
<1>3. CASE q \in WalkRequest
    BY <1>3 DEF WalkRequest, Noted, Requeued
<1>4. CASE q \in ReadRequest
    BY <1>4 DEF ReadRequest, Noted, Requeued
<1> QED BY <1>1, <1>2, <1>3, <1>4 DEF AnyRequest

(* Events are added, or none. *)
LogsGrow ==
    /\ log' \in [Jobs -> SUBSET Nat] /\ last' \in [Jobs -> Nat] /\ LogsInv'
    /\ \A j \in Jobs : Grown(log[j], log'[j])

LEMMA LogsKept == IInv /\ UNCHANGED <<log, last>> => LogsGrow
BY UnchangedIsGrown DEF IInv, Types, LogsInv, LogsGrow

LEMMA LogsAppended ==
    ASSUME IInv, NEW j \in Jobs, AppendEvent(j)
    PROVE  LogsGrow
<1>1. log \in [Jobs -> SUBSET Nat] /\ last \in [Jobs -> Nat] /\ LogsInv
    BY DEF IInv, Types
<1>2. /\ last' = [last EXCEPT ![j] = last[j] + 1]
      /\ log' = [log EXCEPT ![j] = log[j] \cup {last[j] + 1}]
    BY DEF AppendEvent
<1>3. last' \in [Jobs -> Nat] /\ last'[j] = last[j] + 1
    BY <1>1, <1>2
<1>4. log' \in [Jobs -> SUBSET Nat] /\ log'[j] = log[j] \cup {last[j] + 1}
    BY <1>1, <1>2
<1>5. \A i \in Jobs : i # j => log'[i] = log[i] /\ last'[i] = last[i]
    BY <1>1, <1>2
<1>6. /\ last[j] \in Nat /\ log[j] \in SUBSET (1..last[j])
      /\ log'[j] \in SUBSET (1..last'[j]) /\ last'[j] \in log'[j]
    BY <1>1, <1>3, <1>4 DEF LogsInv
<1>7. LogsInv'
    BY <1>1, <1>5, <1>6 DEF LogsInv
<1>8. ASSUME NEW i \in Jobs PROVE Grown(log[i], log'[i])
    BY <1>4, <1>5, <1>6, AppendedIsGrown, UnchangedIsGrown
<1> QED BY <1>3, <1>4, <1>7, <1>8 DEF LogsGrow

(* A request goes on, and claims no requeue; the table stays as it is, and *)
(* events may be added.                                                    *)
LEMMA RequestGoesOn ==
    ASSUME IInv, NEW r \in Requests, NEW q \in AnyRequest, req' = [req EXCEPT ![r] = q],
           UNCHANGED <<state, changes, deaths>>, LogsGrow,
           RequestInv(q, state, log'),
           \A j \in Jobs : Requeued(q, j) => Requeued(req[r], j)
    PROVE  IInv'
<1>1. Types' /\ LogsInv'
    BY DEF IInv, Types, LogsGrow
<1>2. ASSUME NEW i \in Requests PROVE RequestInv(req'[i], state', log')
    <2>1. CASE i = r
        BY <2>1 DEF IInv, Types
    <2>2. CASE i # r
        <3>1. req'[i] = req[i] /\ RequestInv(req[i], state, log)
            BY <2>2 DEF IInv, Types
        <3>2. RequestInv(req[i], state, log')
            BY <3>1, Unmoved DEF IInv, Types, LogsGrow
        <3> QED BY <3>1, <3>2
    <2> QED BY <2>1, <2>2
<1>3. ASSUME NEW j \in Jobs
      PROVE  /\ IsFiniteSet(RequeuedBy(j)')
             /\ Cardinality(RequeuedBy(j)') + (IF state'[j] = "dead_letter" THEN 1 ELSE 0) <= deaths'[j]
    <2>1. RequeuedBy(j)' \subseteq RequeuedBy(j)
        BY DEF RequeuedBy, IInv, Types
    <2>2. /\ IsFiniteSet(RequeuedBy(j))
          /\ Cardinality(RequeuedBy(j)) + (IF state[j] = "dead_letter" THEN 1 ELSE 0) <= deaths[j]
        BY DEF IInv, DeathsInv
    <2>3. IsFiniteSet(RequeuedBy(j)') /\ Cardinality(RequeuedBy(j)') <= Cardinality(RequeuedBy(j))
        BY <2>1, <2>2, FS_Subset
    <2>4. /\ Cardinality(RequeuedBy(j)) \in Nat /\ Cardinality(RequeuedBy(j)') \in Nat
          /\ deaths[j] \in Nat
        BY <2>2, <2>3, FS_CardinalityType DEF IInv, Types
    <2> QED BY <2>2, <2>3, <2>4
<1> QED BY <1>1, <1>2, <1>3 DEF IInv, DeathsInv

(* The table changes, and every request notes it. *)
LEMMA RequestsNote ==
    ASSUME Types, NEW requests \in [Requests -> AnyRequest],
           \A r \in Requests : RequestInv(requests[r], state, log),
           NEW D \in SUBSET Jobs, NEW s \in RowStates \cup {"deleted"},
           Move(D, s, requests), log' \in [Jobs -> SUBSET Nat],
           \A i \in Jobs : Grown(log[i], log'[i]) \/ (i \in D /\ s = "deleted")
    PROVE  /\ state' \in Tables
           /\ req' \in [Requests -> AnyRequest]
           /\ \A r \in Requests : RequestInv(req'[r], state', log')
           /\ \A i \in Jobs : RequeuedBy(i)' = {r \in Requests : Requeued(requests[r], i)}
<1>1. /\ state' = [i \in Jobs |-> IF i \in D THEN s ELSE state[i]]
      /\ req' = [r \in Requests |-> Noted(requests[r], D, s)]
    BY DEF Move
<1>2. state' \in Tables
    BY <1>1 DEF Types, Tables, Absent
<1>3. ASSUME NEW r \in Requests PROVE RequestInv(req'[r], state', log') /\ req'[r] \in AnyRequest
    <2>1. req'[r] = Noted(requests[r], D, s)
        BY <1>1
    <2>2. RequestInv(Noted(requests[r], D, s), state', log')
        BY <1>1, Moved DEF Types
    <2> QED BY <2>1, <2>2 DEF RequestInv, AnyRequest
<1>4. req' \in [Requests -> AnyRequest]
    BY <1>1, <1>3
<1>5. ASSUME NEW i \in Jobs
      PROVE  RequeuedBy(i)' = {r \in Requests : Requeued(requests[r], i)}
    <2>1. ASSUME NEW r \in Requests PROVE Requeued(req'[r], i) <=> Requeued(requests[r], i)
        BY <1>1, NotedKeeps
    <2> QED BY <2>1 DEF RequeuedBy
<1> QED BY <1>2, <1>3, <1>4, <1>5

-----------------------------------------------------------------------------
(* The steps of others *)

(* The balance of the deaths of one job, in numbers. *)
LEMMA ChangeStep ==
    ASSUME IInv, NEW j \in Jobs, Change(j)
    PROVE  IInv'
<1>1. PICK old \in Absent \cup RowStates, new \in RowStates :
        /\ <<old, new>> \in Steps /\ state[j] = old /\ Move({j}, new, req)
        /\ deaths' = [deaths EXCEPT ![j] = @ + (CASE new = "dead_letter" -> 1
                                                  [] old = "dead_letter" -> -1
                                                  [] OTHER -> 0)]
    <2>1. PICK step \in Steps :
            /\ state[j] = step[1] /\ Move({j}, step[2], req)
            /\ deaths' = [deaths EXCEPT ![j] = @ + (CASE step[2] = "dead_letter" -> 1
                                                      [] step[1] = "dead_letter" -> -1
                                                      [] OTHER -> 0)]
        BY DEF Change
    <2>2. step = <<step[1], step[2]>> /\ step[1] \in Absent \cup RowStates /\ step[2] \in RowStates
        BY DEF Steps, Absent, RowStates
    <2> QED BY <2>1, <2>2
<1>2. changes' = changes + 1 /\ UNCHANGED <<log, last>>
    BY DEF Change
<1>3. LogsGrow
    BY <1>2, LogsKept
<1>4. new \in RowStates \cup {"deleted"}
    BY <1>1
<1>5. /\ state' \in Tables
      /\ req' \in [Requests -> AnyRequest]
      /\ \A r \in Requests : RequestInv(req'[r], state', log')
      /\ \A i \in Jobs : RequeuedBy(i)' = RequeuedBy(i)
    <2>1. log' \in [Jobs -> SUBSET Nat]
        BY <1>3 DEF LogsGrow
    <2>2. \A i \in Jobs : Grown(log[i], log'[i]) \/ (i \in {j} /\ new = "deleted")
        BY <1>3 DEF LogsGrow
    <2>3. req \in [Requests -> AnyRequest] /\ \A r \in Requests : RequestInv(req[r], state, log)
        BY DEF IInv, Types
    <2>4. Types /\ Move({j}, new, req) /\ {j} \in SUBSET Jobs
        BY <1>1 DEF IInv
    <2>5. /\ state' \in Tables
          /\ req' \in [Requests -> AnyRequest]
          /\ \A r \in Requests : RequestInv(req'[r], state', log')
          /\ \A i \in Jobs : RequeuedBy(i)' = {r \in Requests : Requeued(req[r], i)}
        BY <1>4, <2>1, <2>2, <2>3, <2>4, RequestsNote, Zenon
    <2> QED BY <2>5 DEF RequeuedBy
<1>6. state' = [state EXCEPT ![j] = new]
    BY <1>1 DEF Move, IInv, Types, Tables
<1> DEFINE dead(i) == IF state[i] = "dead_letter" THEN 1 ELSE 0
           deadThen(i) == IF state'[i] = "dead_letter" THEN 1 ELSE 0
<1>7. ASSUME NEW i \in Jobs
      PROVE  deaths'[i] = deaths[i] + deadThen(i) - dead(i)
    <2>1. CASE i # j
        BY <1>1, <1>6, <2>1 DEF IInv, Types, Tables
    <2>2. CASE i = j
        <3>1. state[j] = old /\ state'[j] = new
            BY <1>1, <1>6 DEF IInv, Types, Tables
        <3>2. deaths[j] \in Nat /\
              deaths'[j] = deaths[j] + (CASE new = "dead_letter" -> 1
                                          [] old = "dead_letter" -> -1
                                          [] OTHER -> 0)
            BY <1>1 DEF IInv, Types
        <3>3. ~(old = "dead_letter" /\ new = "dead_letter")
            BY <1>1 DEF Steps
        <3> QED BY <2>2, <3>1, <3>2, <3>3
    <2> QED BY <2>1, <2>2
<1>8. ASSUME NEW i \in Jobs
      PROVE  /\ IsFiniteSet(RequeuedBy(i)') /\ deaths'[i] \in Nat
             /\ Cardinality(RequeuedBy(i)') + deadThen(i) <= deaths'[i]
    <2>1. IsFiniteSet(RequeuedBy(i)) /\ Cardinality(RequeuedBy(i)) + dead(i) <= deaths[i]
        BY DEF IInv, DeathsInv
    <2>2. Cardinality(RequeuedBy(i)) \in Nat /\ deaths[i] \in Nat
        BY <2>1, FS_CardinalityType DEF IInv, Types
    <2> QED BY <1>5, <1>7, <2>1, <2>2
<1>9. deaths' \in [Jobs -> Nat]
    BY <1>1, <1>8 DEF IInv, Types
<1>10. Types' /\ LogsInv'
    BY <1>2, <1>5, <1>9, <1>3 DEF IInv, Types, LogsGrow
<1> QED BY <1>5, <1>8, <1>10 DEF IInv, DeathsInv

LEMMA LogStep ==
    ASSUME IInv, NEW j \in Jobs, Log(j)
    PROVE  IInv'
<1>1. AppendEvent(j) /\ UNCHANGED <<state, changes, deaths, req>>
    BY DEF Log
<1>2. LogsGrow
    BY <1>1, LogsAppended
<1>3. ASSUME NEW r \in Requests PROVE RequestInv(req'[r], state', log')
    BY <1>1, <1>2, Unmoved DEF IInv, Types, LogsGrow
<1>4. DeathsInv'
    BY <1>1 DEF IInv, DeathsInv, RequeuedBy
<1> QED BY <1>1, <1>2, <1>3, <1>4 DEF IInv, Types, LogsGrow

(* The jobs that stay keep their newest events. *)
LEMMA PruneStep ==
    ASSUME IInv, Prune
    PROVE  IInv'
<1>1. PICK old \in SUBSET Jobs, cap \in Nat :
        /\ Move(old, "deleted", req)
        /\ log' = [j \in Jobs |-> IF j \in old THEN {} ELSE Kept(log[j], cap)]
    BY DashboardAssumption DEF Prune
<1>2. changes' = changes + 1 /\ UNCHANGED <<last, deaths>>
    BY DEF Prune
<1>3. ASSUME NEW j \in Jobs
      PROVE  /\ log'[j] \in SUBSET (1..last'[j]) /\ log'[j] \in SUBSET Nat
             /\ log'[j] # {} => last'[j] \in log'[j]
             /\ Grown(log[j], log'[j]) \/ j \in old
    <2>1. /\ last[j] \in Nat /\ log[j] \in SUBSET (1..last[j])
          /\ log[j] # {} => last[j] \in log[j]
        BY DEF IInv, Types, LogsInv
    <2>2. last'[j] = last[j] /\ log'[j] = IF j \in old THEN {} ELSE Kept(log[j], cap)
        BY <1>1, <1>2
    <2>3. CASE j \in old
        BY <2>2, <2>3
    <2>4. CASE j \notin old
        <3>1. /\ Kept(log[j], cap) \subseteq log[j]
              /\ log[j] # {} => last[j] \in Kept(log[j], cap)
              /\ Grown(log[j], Kept(log[j], cap))
            BY <2>1, KeptIsGrown
        <3> QED BY <2>1, <2>2, <2>4, <3>1
    <2> QED BY <2>3, <2>4
<1>4. log' \in [Jobs -> SUBSET Nat] /\ LogsInv'
    <2>1. DOMAIN log' = Jobs /\ log' = [j \in Jobs |-> log'[j]]
        BY <1>1
    <2> QED BY <1>3, <2>1 DEF LogsInv
<1>5. /\ state' \in Tables
      /\ req' \in [Requests -> AnyRequest]
      /\ \A r \in Requests : RequestInv(req'[r], state', log')
      /\ \A i \in Jobs : RequeuedBy(i)' = RequeuedBy(i)
    <2>1. \A i \in Jobs : Grown(log[i], log'[i]) \/ (i \in old /\ "deleted" = "deleted")
        BY <1>3
    <2>2. "deleted" \in RowStates \cup {"deleted"}
        OBVIOUS
    <2>3. req \in [Requests -> AnyRequest] /\ \A r \in Requests : RequestInv(req[r], state, log)
        BY DEF IInv, Types
    <2> QED BY <1>1, <1>4, <2>1, <2>2, <2>3, RequestsNote DEF IInv, RequeuedBy
<1>6. Types'
    BY <1>2, <1>4, <1>5 DEF IInv, Types
<1>7. ASSUME NEW i \in Jobs
      PROVE  /\ IsFiniteSet(RequeuedBy(i)')
             /\ Cardinality(RequeuedBy(i)') + (IF state'[i] = "dead_letter" THEN 1 ELSE 0) <= deaths'[i]
    <2>1. /\ IsFiniteSet(RequeuedBy(i))
          /\ Cardinality(RequeuedBy(i)) + (IF state[i] = "dead_letter" THEN 1 ELSE 0) <= deaths[i]
        BY DEF IInv, DeathsInv
    <2>2. Cardinality(RequeuedBy(i)) \in Nat /\ deaths[i] \in Nat
        BY <2>1, FS_CardinalityType DEF IInv, Types
    <2>3. state'[i] = "dead_letter" => state[i] = "dead_letter"
        BY <1>1 DEF Move, IInv, Types, Tables
    <2> QED BY <1>2, <1>5, <2>1, <2>2, <2>3
<1> QED BY <1>4, <1>6, <1>7, <1>5 DEF IInv, DeathsInv

-----------------------------------------------------------------------------
(* The steps of a requeue *)

LEMMA RequeueOf ==
    ASSUME IInv, NEW r \in Requests, NEW pc, pc # "new", Requeueing(r, pc)
    PROVE  /\ req[r] \in RequeueRequest /\ RequeueInv(req[r], state)
           /\ req[r].pc = pc /\ req[r].job \in Jobs
<1>1. req[r].pc = pc /\ req[r].kind = "requeue" /\ RequestInv(req[r], state, log)
    BY DEF Requeueing, IInv
<1>2. req[r] \in RequeueRequest /\ RequeueInv(req[r], state)
    BY <1>1 DEF RequestInv, NewRequest, WalkRequest, ReadRequest
<1> QED BY <1>1, <1>2 DEF RequeueRequest

(* A requeue that goes on without the table. *)
LEMMA RequeueGoesOn ==
    ASSUME IInv, NEW r \in Requests, req[r] \in RequeueRequest,
           NEW q \in RequeueRequest, RequeueInv(q, state), req' = [req EXCEPT ![r] = q],
           q.job = req[r].job, q.did = req[r].did,
           UNCHANGED <<state, changes, deaths>>,
           LogsGrow
    PROVE  IInv'
<1>1. \A j \in Jobs : Requeued(q, j) => Requeued(req[r], j)
    BY DEF Requeued, RequeueRequest
<1>2. q \in AnyRequest /\ RequestInv(q, state, log')
    BY DEF AnyRequest, RequestInv
<1> QED BY <1>1, <1>2, RequestGoesOn

LEMMA RequeueBeginsStep ==
    ASSUME IInv, NEW r \in Requests, RequeueBegins(r)
    PROVE  IInv'
<1>1. PICK j \in Jobs, refusal \in {"none", "400", "415"} :
        LET q == [kind |-> "requeue", pc |-> "read", job |-> j, did |-> FALSE,
                  seen |-> {state[j]}, answer |-> "none"]
        IN  req' = [req EXCEPT ![r] = IF refusal = "none" THEN q ELSE Answer(q, refusal)]
    BY DEF RequeueBegins
<1> DEFINE new == [kind |-> "requeue", pc |-> "read", job |-> j, did |-> FALSE,
                   seen |-> {state[j]}, answer |-> "none"]
           q == IF refusal = "none" THEN new ELSE Answer(new, refusal)
<1>2. UNCHANGED <<state, log, last, changes, deaths>>
    BY DEF RequeueBegins
<1>3. state[j] \in Absent \cup RowStates
    BY DEF IInv, Types, Tables
<1>4. q \in RequeueRequest /\ RequeueInv(q, state)
    BY <1>3 DEF Answer, RequeueRequest, RequeueInv
<1>5. ~q.did
    BY DEF Answer
<1>6. req' = [req EXCEPT ![r] = q]
    BY <1>1
<1> HIDE DEF q
<1> QED BY <1>2, <1>4, <1>5, <1>6, LogsKept, RequestGoesOn DEF AnyRequest, RequestInv, Requeued

LEMMA RequeueReadsStep ==
    ASSUME IInv, NEW r \in Requests, RequeueReads(r) \/ RequeueGets(r)
    PROVE  IInv'
<1> DEFINE q == req[r]
<1>1. /\ q \in RequeueRequest /\ RequeueInv(q, state) /\ q.pc \in {"read", "get"}
      /\ q.job \in Jobs
    BY RequeueOf DEF RequeueReads, RequeueGets
<1>2. UNCHANGED <<state, log, last, changes, deaths>>
    BY DEF RequeueReads, RequeueGets
<1>3. state[q.job] \in Absent \cup RowStates /\ state[q.job] \in q.seen
    BY <1>1 DEF IInv, Types, Tables, RequeueInv
<1>4. \/ \E pc \in {"get", "update", "again"} : Goto(r, pc)
      \/ /\ state[q.job] # "dead_letter"
         /\ req' = [req EXCEPT ![r] =
                     Answer(q, IF state[q.job] \in Absent THEN "404" ELSE "409")]
      \/ req' = [req EXCEPT ![r] = Answer(q, "500")]
    BY DEF RequeueReads, RequeueGets, Answer
<1>5. ASSUME NEW pc \in {"get", "update", "again"}, Goto(r, pc) PROVE IInv'
    <2> DEFINE p == [q EXCEPT !.pc = pc]
    <2>1. p \in RequeueRequest /\ RequeueInv(p, state) /\ p.job = q.job /\ p.did = q.did
        BY <1>1 DEF RequeueRequest, RequeueInv
    <2>2. req' = [req EXCEPT ![r] = p]
        BY <1>5 DEF Goto
    <2> HIDE DEF p
    <2> QED BY <1>1, <1>2, <2>1, <2>2, LogsKept, RequeueGoesOn
<1>6. ASSUME NEW code \in {"404", "409", "500"}, req' = [req EXCEPT ![r] = Answer(q, code)],
             code = "404" => state[q.job] \in Absent,
             code = "409" => state[q.job] \notin Absent \cup {"dead_letter"}
      PROVE  IInv'
    <2> DEFINE p == Answer(q, code)
    <2>1. p \in RequeueRequest /\ p.job = q.job /\ p.did = q.did /\ p.seen = q.seen
          /\ p.pc = "done" /\ p.answer = code
        BY <1>1, <1>6 DEF RequeueRequest, Answer
    <2>2. RequeueInv(p, state)
        BY <1>3, <1>6, <2>1 DEF RequeueInv, RowStates
    <2> HIDE DEF p
    <2>3. req' = [req EXCEPT ![r] = p]
        BY <1>6 DEF p
    <2> QED BY <1>1, <1>2, <2>1, <2>2, <2>3, LogsKept, RequeueGoesOn
<1>7. CASE \E pc \in {"get", "update", "again"} : Goto(r, pc)
    BY <1>5, <1>7
<1>8. CASE /\ state[q.job] # "dead_letter"
           /\ req' = [req EXCEPT ![r] =
                       Answer(q, IF state[q.job] \in Absent THEN "404" ELSE "409")]
    <2>1. CASE state[q.job] \in Absent
        BY <1>6, <1>8, <2>1
    <2>2. CASE state[q.job] \notin Absent
        BY <1>6, <1>8, <2>2
    <2> QED BY <2>1, <2>2
<1>9. CASE req' = [req EXCEPT ![r] = Answer(q, "500")]
    BY <1>6, <1>9
<1> QED BY <1>4, <1>7, <1>8, <1>9

(* The UPDATE: the row is a dead letter, so its death is still free. *)
LEMMA RequeueUpdatesStep ==
    ASSUME IInv, NEW r \in Requests, RequeueUpdates(r)
    PROVE  IInv'
<1> DEFINE q == req[r]
<1>1. q \in RequeueRequest /\ RequeueInv(q, state) /\ q.pc = "update" /\ q.job \in Jobs
    BY RequeueOf DEF RequeueUpdates
<1>2. UNCHANGED <<log, last, changes, deaths>>
    BY DEF RequeueUpdates
<1>3. CASE Goto(r, "again") /\ UNCHANGED state
    <2> DEFINE p == [q EXCEPT !.pc = "again"]
    <2>1. p \in RequeueRequest /\ RequeueInv(p, state) /\ p.job = q.job /\ p.did = q.did
        BY <1>1 DEF RequeueRequest, RequeueInv
    <2>2. req' = [req EXCEPT ![r] = p]
        BY <1>3 DEF Goto
    <2> HIDE DEF p
    <2> QED BY <1>1, <1>2, <1>3, <2>1, <2>2, LogsKept, RequeueGoesOn
<1>4. CASE /\ MatchesRow(q.job)
           /\ Move({q.job}, RequeuedState, [req EXCEPT ![r].pc = "back", ![r].did = TRUE])
    <2> DEFINE p == [q EXCEPT !.pc = "back", !.did = TRUE]
               requests == [req EXCEPT ![r] = p]
               j == q.job
    <2>1. p \in RequeueRequest /\ RequeueInv(p, state) /\ p.job = j /\ p.did /\ p.pc = "back"
          /\ p.kind = "requeue"
        BY <1>1 DEF RequeueRequest, RequeueInv
    <2>2. Move({j}, "pending", requests) /\ state[j] = "dead_letter"
        <3>1. [req EXCEPT ![r].pc = "back", ![r].did = TRUE] = requests
            BY DEF IInv, Types
        <3> QED BY <1>4, <3>1 DEF RequeuedState, MatchesRow
    <2> HIDE DEF p
    <2>3. requests \in [Requests -> AnyRequest]
        BY <2>1 DEF IInv, Types, AnyRequest
    <2>4. ASSUME NEW i \in Requests PROVE RequestInv(requests[i], state, log)
        BY <2>1 DEF IInv, Types, RequestInv
    <2>5. LogsGrow
        BY <1>2, LogsKept
    <2>6. /\ log' \in [Jobs -> SUBSET Nat]
          /\ \A i \in Jobs : Grown(log[i], log'[i]) \/ (i \in {j} /\ "pending" = "deleted")
        BY <2>5 DEF LogsGrow
    <2>7. "pending" \in RowStates \cup {"deleted"} /\ {j} \in SUBSET Jobs /\ j \in Jobs /\ Types
        BY <1>1 DEF RowStates, IInv
    <2>8. /\ state' \in Tables
          /\ req' \in [Requests -> AnyRequest]
          /\ \A i \in Requests : RequestInv(req'[i], state', log')
          /\ \A i \in Jobs : RequeuedBy(i)' = {h \in Requests : Requeued(requests[h], i)}
        <3> HIDE DEF requests, j
        <3> QED BY <2>2, <2>3, <2>4, <2>6, <2>7, RequestsNote, Zenon
    <2>9. state' = [state EXCEPT ![j] = "pending"]
        BY <2>2 DEF Move, IInv, Types, Tables
    <2>10. ASSUME NEW i \in Jobs
           PROVE  /\ IsFiniteSet(RequeuedBy(i)')
                  /\ Cardinality(RequeuedBy(i)')
                        + (IF state'[i] = "dead_letter" THEN 1 ELSE 0) <= deaths'[i]
        <3>1. /\ IsFiniteSet(RequeuedBy(i))
              /\ Cardinality(RequeuedBy(i)) + (IF state[i] = "dead_letter" THEN 1 ELSE 0) <= deaths[i]
            BY DEF IInv, DeathsInv
        <3>2. Cardinality(RequeuedBy(i)) \in Nat /\ deaths[i] \in Nat
            BY <3>1, FS_CardinalityType DEF IInv, Types
        <3>3. CASE i # j
            <4>1. RequeuedBy(i)' = RequeuedBy(i)
                BY <2>1, <2>8, <3>3 DEF RequeuedBy, IInv, Types, Requeued, RequeueRequest
            <4>2. state'[i] = state[i]
                BY <2>9, <3>3 DEF IInv, Types, Tables
            <4> QED BY <1>2, <3>1, <3>2, <4>1, <4>2
        <3>4. CASE i = j
            <4>1. RequeuedBy(i)' \subseteq RequeuedBy(i) \cup {r}
                BY <2>8 DEF RequeuedBy, IInv, Types
            <4>2. state[i] = "dead_letter" /\ state'[i] = "pending"
                BY <2>2, <2>7, <2>9, <3>4 DEF IInv, Types, Tables
            <4>3. /\ IsFiniteSet(RequeuedBy(i) \cup {r})
                  /\ Cardinality(RequeuedBy(i) \cup {r}) <= Cardinality(RequeuedBy(i)) + 1
                BY <3>1, OneMore
            <4>4. /\ IsFiniteSet(RequeuedBy(i)')
                  /\ Cardinality(RequeuedBy(i)') <= Cardinality(RequeuedBy(i) \cup {r})
                BY <4>1, <4>3, FS_Subset
            <4>5. Cardinality(RequeuedBy(i)') \in Nat /\ Cardinality(RequeuedBy(i) \cup {r}) \in Nat
                BY <4>3, <4>4, FS_CardinalityType
            <4>6. Cardinality(RequeuedBy(i)') <= deaths[i]
                BY <3>1, <3>2, <4>2, <4>3, <4>4, <4>5
            <4> QED BY <1>2, <4>2, <4>4, <4>5, <4>6, <3>2
        <3> QED BY <3>3, <3>4
    <2>11. Types' /\ LogsInv'
        BY <1>2, <2>5, <2>8 DEF IInv, Types, LogsGrow
    <2> QED BY <2>8, <2>10, <2>11 DEF IInv, DeathsInv
<1> QED BY <1>3, <1>4 DEF RequeueUpdates

LEMMA RequeueEndsStep ==
    ASSUME IInv, NEW r \in Requests,
           RequeueReadsBack(r) \/ RequeueLogs(r) \/ RequeueReadsAgain(r)
    PROVE  IInv'
<1> DEFINE q == req[r]
<1>1. /\ q \in RequeueRequest /\ RequeueInv(q, state) /\ q.pc \in {"back", "log", "again"}
      /\ q.job \in Jobs
    BY RequeueOf DEF RequeueReadsBack, RequeueLogs, RequeueReadsAgain
<1>2. UNCHANGED <<state, changes, deaths>>
    BY DEF RequeueReadsBack, RequeueLogs, RequeueReadsAgain
<1>3. state[q.job] \in Absent \cup RowStates /\ state[q.job] \in q.seen
    BY <1>1 DEF IInv, Types, Tables, RequeueInv
<1>4. LogsGrow
    <2>1. UNCHANGED <<log, last>> \/ AppendEvent(q.job)
        BY DEF RequeueReadsBack, RequeueLogs, RequeueReadsAgain
    <2> QED BY <1>1, <2>1, LogsKept, LogsAppended
<1>5. ASSUME NEW pc \in {"log", "again"}, Goto(r, pc), pc = "log" => q.pc = "back" PROVE IInv'
    <2> DEFINE p == [q EXCEPT !.pc = pc]
    <2>1. p \in RequeueRequest /\ RequeueInv(p, state) /\ p.job = q.job /\ p.did = q.did
        BY <1>1, <1>5 DEF RequeueRequest, RequeueInv
    <2>2. req' = [req EXCEPT ![r] = p]
        BY <1>5 DEF Goto
    <2> HIDE DEF p
    <2> QED BY <1>1, <1>2, <1>4, <2>1, <2>2, RequeueGoesOn
<1>6. ASSUME NEW code \in {"200", "404", "409", "500"}, req' = [req EXCEPT ![r] = Answer(q, code)],
             code = "200" => q.did,
             code = "404" => state[q.job] \in Absent,
             code = "409" => state[q.job] \notin Absent \cup {"dead_letter"}
      PROVE  IInv'
    <2> DEFINE p == Answer(q, code)
    <2>1. p \in RequeueRequest /\ p.job = q.job /\ p.did = q.did /\ p.seen = q.seen
          /\ p.pc = "done" /\ p.answer = code
        BY <1>1, <1>6 DEF RequeueRequest, Answer
    <2>2. RequeueInv(p, state)
        BY <1>3, <1>6, <2>1 DEF RequeueInv, RowStates
    <2> HIDE DEF p
    <2>3. req' = [req EXCEPT ![r] = p]
        BY <1>6 DEF p
    <2> QED BY <1>1, <1>2, <1>4, <2>1, <2>2, <2>3, RequeueGoesOn
<1>7. CASE RequeueReadsBack(r)
    <2>1. q.pc = "back" /\ \E pc \in {"log", "again"} : Goto(r, pc)
        BY <1>7 DEF RequeueReadsBack, Requeueing
    <2> QED BY <1>5, <2>1
<1>8. CASE RequeueLogs(r)
    <2>1. q.pc = "log" /\ q.did
        BY <1>1, <1>8 DEF RequeueLogs, Requeueing, RequeueInv
    <2>2. req' = [req EXCEPT ![r] = Answer(q, "200")] \/ Goto(r, "again")
        BY <1>8 DEF RequeueLogs, Answer
    <2> QED BY <1>5, <1>6, <2>1, <2>2
<1>9. CASE RequeueReadsAgain(r)
    <2>1. PICK code \in {AnswerAfterError(state[q.job]), "500"} :
            req' = [req EXCEPT ![r] = Answer(q, code)]
        BY <1>9 DEF RequeueReadsAgain, Answer
    <2>2. /\ code \in {"404", "409", "500"}
          /\ code = "404" => state[q.job] \in Absent
          /\ code = "409" => state[q.job] \notin Absent \cup {"dead_letter"}
        BY <2>1 DEF AnswerAfterError
    <2> QED BY <1>6, <2>1, <2>2
<1> QED BY <1>7, <1>8, <1>9

-----------------------------------------------------------------------------
(* The steps of a walk *)

LEMMA PageLimitInRange ==
    ASSUME NEW asked PROVE PageLimit(asked) \in 1..MaxPageSize
BY DashboardAssumption DEF PageLimit

(* A walk that goes on. *)
LEMMA WalkGoesOn ==
    ASSUME IInv, NEW r \in Requests, NEW q \in WalkRequest, WalkInv(q, state),
           req' = [req EXCEPT ![r] = q], UNCHANGED <<state, log, last, changes, deaths>>
    PROVE  IInv'
<1>1. \A j \in Jobs : Requeued(q, j) => Requeued(req[r], j)
    BY DEF Requeued, WalkRequest
<1>2. q \in AnyRequest /\ RequestInv(q, state, log')
    BY DEF AnyRequest, RequestInv
<1> QED BY <1>1, <1>2, LogsKept, RequestGoesOn

LEMMA WalkBeginsStep ==
    ASSUME IInv, NEW r \in Requests, WalkBegins(r)
    PROVE  IInv'
<1>1. PICK f \in Filters, asked \in AskedLimits :
        req' = [req EXCEPT ![r] =
                 [kind |-> "walk", pc |-> "page", filter |-> f, limit |-> PageLimit(asked),
                  offset |-> 0, got |-> {}, steady |-> Matching(f), left |-> 0]]
    BY DEF WalkBegins
<1> DEFINE p == [kind |-> "walk", pc |-> "page", filter |-> f, limit |-> PageLimit(asked),
                 offset |-> 0, got |-> {}, steady |-> Matching(f), left |-> 0]
<1>2. UNCHANGED <<state, log, last, changes, deaths>>
    BY DEF WalkBegins
<1>3. p \in WalkRequest
    BY PageLimitInRange DEF WalkRequest, Matching
<1>4. Missed(p, state) = {}
    <2>1. \A j \in Jobs : Place(state, j, f) \in Nat
        BY ListingIsFinite
    <2> QED BY <2>1 DEF Missed, Reach, Matching
<1>5. WalkInv(p, state)
    BY <1>4, FS_EmptySet DEF WalkInv, Matching, Listed
<1> HIDE DEF p
<1> QED BY <1>1, <1>2, <1>3, <1>5, WalkGoesOn DEF p

LEMMA WalkOf ==
    ASSUME IInv, NEW r \in Requests, NEW pc, pc # "new", Walking(r, pc)
    PROVE  req[r] \in WalkRequest /\ WalkInv(req[r], state) /\ req[r].pc = pc
<1>1. req[r].pc = pc /\ req[r].kind = "walk" /\ RequestInv(req[r], state, log)
    BY DEF Walking, IInv
<1> QED BY <1>1 DEF RequestInv, NewRequest, RequeueRequest, ReadRequest

(* The page has every listed job of the places that come into reach. *)
LEMMA WalkReadsPageStep ==
    ASSUME IInv, NEW r \in Requests, WalkReadsPage(r)
    PROVE  IInv'
<1> DEFINE q == req[r]
           p == [q EXCEPT !.pc = "count", !.got = @ \cup Page(q.filter, q.limit, q.offset)]
<1>1. q \in WalkRequest /\ WalkInv(q, state) /\ q.pc = "page"
    BY WalkOf DEF WalkReadsPage
<1>2. q.offset \in Nat /\ q.limit \in Nat /\ q.steady \subseteq Jobs /\ q.left \in Nat
    BY <1>1 DEF WalkRequest
<1>3. req' = [req EXCEPT ![r] = p] /\ UNCHANGED <<state, log, last, changes, deaths>>
    BY DEF WalkReadsPage
<1>4. Page(q.filter, q.limit, q.offset) \subseteq Jobs
    BY DEF Page, Matching
<1>5. /\ p \in WalkRequest /\ p.pc = "count" /\ p.filter = q.filter /\ p.steady = q.steady
      /\ p.got = q.got \cup Page(q.filter, q.limit, q.offset) /\ p.left = q.left
      /\ Reach(p) = q.offset + q.limit /\ Reach(q) = q.offset
    BY <1>1, <1>4 DEF WalkRequest, Reach
<1> HIDE DEF p
<1>6. ASSUME NEW j \in Missed(p, state) PROVE j \in Missed(q, state)
    <2>1. /\ j \in q.steady \ q.got /\ j \in Jobs /\ j \notin Page(q.filter, q.limit, q.offset)
          /\ Place(state, j, q.filter) < q.offset + q.limit
        BY <1>2, <1>5 DEF Missed
    <2>2. j \in Listed(state, q.filter)
        BY <1>1, <2>1 DEF WalkInv
    <2>3. Place(state, j, q.filter) \in Nat
        BY <2>1, ListingIsFinite
    <2>4. Place(state, j, q.filter) \notin q.offset..(q.offset + q.limit - 1)
        BY <2>1, <2>2 DEF Page, Position, Matching, Place, Listed
    <2>5. Place(state, j, q.filter) < q.offset
        BY <1>2, <2>1, <2>3, <2>4
    <2> QED BY <1>1, <1>5, <2>1, <2>5 DEF Missed
<1>7. Cardinality(Missed(p, state)) <= Cardinality(Missed(q, state))
    BY <1>1, <1>5, <1>6, FewerMissed
<1>8. Cardinality(Missed(q, state)) <= q.left /\ q.steady \subseteq Listed(state, q.filter)
    BY <1>1 DEF WalkInv
<1>9. Cardinality(Missed(p, state)) \in Nat /\ Cardinality(Missed(q, state)) \in Nat
    BY <1>1, <1>5, MissedIsFinite
<1>10. Cardinality(Missed(p, state)) <= p.left
    BY <1>2, <1>5, <1>7, <1>8, <1>9
<1>11. WalkInv(p, state)
    BY <1>5, <1>8, <1>10 DEF WalkInv
<1> QED BY <1>3, <1>5, <1>11, WalkGoesOn

(* When there is no next page, every listed job is within reach. *)
LEMMA WalkReadsTotalStep ==
    ASSUME IInv, NEW r \in Requests, WalkReadsTotal(r)
    PROVE  IInv'
<1> DEFINE q == req[r]
           next == q.offset + q.limit
<1>1. q \in WalkRequest /\ WalkInv(q, state) /\ q.pc = "count"
    BY WalkOf DEF WalkReadsTotal
<1>2. q.offset \in Nat /\ q.limit \in Nat /\ q.steady \subseteq Jobs /\ Reach(q) = next
    BY <1>1 DEF WalkRequest, Reach
<1>3. UNCHANGED <<state, log, last, changes, deaths>>
    BY DEF WalkReadsTotal
<1>4. Cardinality(Missed(q, state)) <= q.left /\ q.steady \subseteq Listed(state, q.filter)
    BY <1>1 DEF WalkInv
<1>5. CASE next < Cardinality(Matching(q.filter))
    <2> DEFINE p == [q EXCEPT !.pc = "page", !.offset = next]
    <2>1. req' = [req EXCEPT ![r] = p]
        BY <1>5 DEF WalkReadsTotal
    <2>2. /\ p \in WalkRequest /\ p.pc = "page" /\ p.filter = q.filter /\ p.steady = q.steady
          /\ p.got = q.got /\ p.left = q.left /\ Reach(p) = next
        <3>1. next \in Nat
            BY <1>2
        <3> HIDE DEF next
        <3> QED BY <1>1, <3>1 DEF WalkRequest, Reach
    <2> HIDE DEF p
    <2>3. Missed(p, state) = Missed(q, state)
        BY <1>1, <1>2, <2>2 DEF Missed
    <2>4. WalkInv(p, state)
        BY <1>4, <2>2, <2>3 DEF WalkInv
    <2> QED BY <1>3, <2>1, <2>2, <2>4, WalkGoesOn
<1>6. CASE ~(next < Cardinality(Matching(q.filter)))
    <2> DEFINE p == [q EXCEPT !.pc = "done"]
    <2>1. req' = [req EXCEPT ![r] = p]
        BY <1>6 DEF WalkReadsTotal
    <2>2. /\ p \in WalkRequest /\ p.pc = "done" /\ p.steady = q.steady
          /\ p.got = q.got /\ p.left = q.left
        BY <1>1 DEF WalkRequest
    <2> HIDE DEF p
    <2>3. ASSUME NEW j \in Missed(p, state) PROVE j \in Missed(q, state)
        <3>1. j \in q.steady \ q.got /\ j \in Jobs /\ j \in Listed(state, q.filter)
            BY <1>2, <1>4, <2>2 DEF Missed
        <3>2. Matching(q.filter) = Listed(state, q.filter)
            BY DEF Matching, Listed
        <3>3. /\ Place(state, j, q.filter) < Cardinality(Listed(state, q.filter))
              /\ Place(state, j, q.filter) \in Nat /\ Cardinality(Listed(state, q.filter)) \in Nat
            BY <3>1, PlacesEnd, ListingIsFinite
        <3>4. next \in Nat /\ ~(next < Cardinality(Listed(state, q.filter)))
            BY <1>2, <1>6, <3>2
        <3>5. Place(state, j, q.filter) < next
            BY <3>3, <3>4
        <3> QED BY <1>2, <3>1, <3>5 DEF Missed
    <2>4. Cardinality(Missed(p, state)) <= Cardinality(Missed(q, state))
        BY <1>1, <2>2, <2>3, FewerMissed
    <2>5. Cardinality(Missed(p, state)) \in Nat /\ Cardinality(Missed(q, state)) \in Nat
        BY <1>1, <2>2, MissedIsFinite
    <2>6. p.left \in Nat
        BY <2>2 DEF WalkRequest
    <2>7. Cardinality(Missed(p, state)) <= p.left
        BY <1>4, <2>2, <2>4, <2>5, <2>6
    <2>8. WalkInv(p, state)
        BY <2>2, <2>7 DEF WalkInv
    <2> QED BY <1>3, <2>1, <2>2, <2>8, WalkGoesOn
<1> QED BY <1>5, <1>6

-----------------------------------------------------------------------------
(* The steps of a read *)

LEMMA ReadGoesOn ==
    ASSUME IInv, NEW r \in Requests, NEW q \in ReadRequest, ReadInv(q, state, log),
           req' = [req EXCEPT ![r] = q], UNCHANGED <<state, log, last, changes, deaths>>
    PROVE  IInv'
<1>1. \A j \in Jobs : Requeued(q, j) => Requeued(req[r], j)
    BY DEF Requeued, ReadRequest
<1>2. q \in AnyRequest /\ RequestInv(q, state, log')
    BY DEF AnyRequest, RequestInv
<1> QED BY <1>1, <1>2, LogsKept, RequestGoesOn

LEMMA ReadBeginsStep ==
    ASSUME IInv, NEW r \in Requests, ReadBegins(r)
    PROVE  IInv'
<1>1. PICK f \in Filters, j \in Jobs :
        req' = [req EXCEPT ![r] =
                 [kind |-> "read", pc |-> "first", filter |-> f, job |-> j, row |-> "none",
                  shown |-> {}, due |-> {}, cut |-> FALSE]]
    BY DEF ReadBegins
<1> DEFINE p == [kind |-> "read", pc |-> "first", filter |-> f, job |-> j, row |-> "none",
                 shown |-> {}, due |-> {}, cut |-> FALSE]
<1>2. UNCHANGED <<state, log, last, changes, deaths>>
    BY DEF ReadBegins
<1>3. p \in ReadRequest /\ ReadInv(p, state, log)
    BY DEF ReadRequest, ReadInv
<1> HIDE DEF p
<1> QED BY <1>1, <1>2, <1>3, ReadGoesOn DEF p

LEMMA ReadStatementStep ==
    ASSUME IInv, NEW r \in Requests, ReadStatement(r)
    PROVE  IInv'
<1> DEFINE q == req[r]
<1>1. q.pc \in {"first", "second"} /\ UNCHANGED <<state, log, last, changes, deaths>>
    BY DEF ReadStatement
<1>2. q \in ReadRequest /\ ReadInv(q, state, log)
    BY <1>1 DEF IInv, RequestInv, NewRequest, RequeueRequest, WalkRequest
<1>3. q.job \in Jobs /\ q.filter \subseteq RowStates /\ log[q.job] \in SUBSET Nat
    BY <1>2 DEF ReadRequest, Filters, IInv, Types, RowStates
<1>4. CASE /\ q.pc = "first" /\ state[q.job] \in q.filter
           /\ req' = [req EXCEPT ![r] = [q EXCEPT !.pc = "second", !.row = state[q.job],
                                                  !.due = log[q.job], !.cut = FALSE]]
    <2> DEFINE p == [q EXCEPT !.pc = "second", !.row = state[q.job],
                              !.due = log[q.job], !.cut = FALSE]
    <2>1. p \in ReadRequest
        BY <1>2, <1>3, <1>4 DEF ReadRequest
    <2>2. ReadInv(p, state, log)
        BY <1>2, <1>3, <1>4 DEF ReadInv, ReadRequest, NotBehind
    <2> HIDE DEF p
    <2> QED BY <1>1, <1>4, <2>1, <2>2, ReadGoesOn DEF p
<1>5. CASE q.pc = "first" /\ req' = [req EXCEPT ![r] = [q EXCEPT !.pc = "done"]]
    <2> DEFINE p == [q EXCEPT !.pc = "done"]
    <2>1. p \in ReadRequest
        BY <1>2 DEF ReadRequest
    <2>2. ReadInv(p, state, log)
        BY <1>2, <1>5 DEF ReadInv, ReadRequest
    <2> HIDE DEF p
    <2> QED BY <1>1, <1>5, <2>1, <2>2, ReadGoesOn DEF p
<1>6. ASSUME q.pc = "second", NEW shown \in {log[q.job], {}},
             state[q.job] \in q.filter => shown = log[q.job],
             req' = [req EXCEPT ![r] = [q EXCEPT !.pc = "done", !.shown = shown]]
      PROVE  IInv'
    <2> DEFINE p == [q EXCEPT !.pc = "done", !.shown = shown]
    <2>1. p \in ReadRequest
        BY <1>2, <1>3, <1>6 DEF ReadRequest
    <2>2. ReadInv(p, state, log)
        BY <1>2, <1>3, <1>6 DEF ReadInv, ReadRequest
    <2> HIDE DEF p
    <2> QED BY <1>1, <1>6, <2>1, <2>2, ReadGoesOn DEF p
<1>7. CASE q.pc = "first"
    BY <1>4, <1>5, <1>7 DEF ReadStatement, Statements, Following
<1>8. CASE q.pc = "second"
    BY <1>6, <1>8 DEF ReadStatement, Statements, Following
<1> QED BY <1>1, <1>7, <1>8

-----------------------------------------------------------------------------
(* Theorems *)

LEMMA InvariantStep == IInv /\ [Next]_vars => IInv'
<1> SUFFICES ASSUME IInv, [Next]_vars PROVE IInv'
    OBVIOUS
<1>1. ASSUME (\E j \in Jobs : Change(j) \/ Log(j)) \/ Prune PROVE IInv'
    BY <1>1, ChangeStep, LogStep, PruneStep
<1>2. ASSUME NEW r \in Requests, RequestNext(r) PROVE IInv'
    BY <1>2, RequeueBeginsStep, RequeueReadsStep, RequeueUpdatesStep, RequeueEndsStep,
       WalkBeginsStep, WalkReadsPageStep, WalkReadsTotalStep, ReadBeginsStep, ReadStatementStep
       DEF RequestNext
<1>3. CASE UNCHANGED vars
    <2>1. UNCHANGED <<state, log, last, changes, deaths, req>>
        BY <1>3 DEF vars
    <2> QED BY <2>1 DEF IInv, Types, LogsInv, DeathsInv, RequeuedBy
<1> QED BY <1>1, <1>2, <1>3 DEF Next

LEMMA Invariance == Spec => []IInv
BY InvariantInit, InvariantStep, PTL DEF Spec

(* The variables and the locals of the requests keep their types. *)
THEOREM TypeCorrect == Spec => []TypeOK
<1>1. IInv => TypeOK
    BY DEF IInv, Types, LogsInv, TypeOK, Tables, AnyRequest
<1> QED BY Invariance, <1>1, PTL

(* Whatever changes between the statements of a requeue, its answer is one *)
(* that the table deserved at some moment of the request.                  *)
THEOREM AnswersTrueHolds == Spec => []AnswersTrue
<1>1. IInv => AnswersTrue
    <2> SUFFICES ASSUME IInv, NEW r \in Done("requeue")
                 PROVE  /\ req[r].answer = "200" => req[r].did
                        /\ req[r].answer \in {"400", "415"} => ~req[r].did
                        /\ req[r].answer = "404" => req[r].seen \cap Absent # {}
                        /\ req[r].answer = "409" =>
                            \E s \in req[r].seen : s \in RowStates \ {"dead_letter"}
        BY DEF AnswersTrue
    <2>1. r \in Requests /\ Requeueing(r, "done")
        BY DEF Done, Requeueing
    <2>2. req[r].pc = "done" /\ RequeueInv(req[r], state)
        BY <2>1, RequeueOf
    <2> QED BY <2>2 DEF RequeueInv
<1> QED BY Invariance, <1>1, PTL

(* No death of a job is requeued twice, by any number of requests and      *)
(* other processes.                                                        *)
THEOREM OneRequeuePerDeathHolds == Spec => []OneRequeuePerDeath
<1>1. IInv => OneRequeuePerDeath
    <2> SUFFICES ASSUME IInv, NEW j \in Jobs
                 PROVE  Cardinality({r \in Begun : req[r].kind = "requeue"
                                        /\ req[r].job = j /\ req[r].did}) <= deaths[j]
        BY DEF OneRequeuePerDeath
    <2>1. {r \in Begun : req[r].kind = "requeue" /\ req[r].job = j /\ req[r].did} = RequeuedBy(j)
        BY DEF Begun, RequeuedBy, Requeued
    <2>2. /\ IsFiniteSet(RequeuedBy(j))
          /\ Cardinality(RequeuedBy(j)) + (IF state[j] = "dead_letter" THEN 1 ELSE 0) <= deaths[j]
        BY DEF IInv, DeathsInv
    <2>3. Cardinality(RequeuedBy(j)) \in Nat /\ deaths[j] \in Nat
        BY <2>2, FS_CardinalityType DEF IInv, Types
    <2>4. Cardinality(RequeuedBy(j)) <= deaths[j]
        BY <2>2, <2>3
    <2> QED BY <2>1, <2>4
<1> QED BY Invariance, <1>1, PTL

(* A client that walks the pages, of whatever size, misses at most one job *)
(* that matched all the time for each job that ceased to match.            *)
THEOREM MissedAtMostLeftHolds == Spec => []MissedAtMostLeft
<1>1. IInv => MissedAtMostLeft
    <2> SUFFICES ASSUME IInv, NEW r \in Done("walk")
                 PROVE  Cardinality(req[r].steady \ req[r].got) <= req[r].left
        BY DEF MissedAtMostLeft
    <2>1. r \in Requests /\ Walking(r, "done")
        BY DEF Done, Walking
    <2>2. req[r].pc = "done" /\ WalkInv(req[r], state)
        BY <2>1, WalkOf
    <2>3. Missed(req[r], state) = req[r].steady \ req[r].got
        BY <2>2 DEF Missed
    <2> QED BY <2>2, <2>3 DEF WalkInv
<1> QED BY Invariance, <1>1, PTL

(* The timeline beside a row is never older than the row, and has no gap,  *)
(* whatever retention trims between the two statements, unless the job was *)
(* deleted or left the filter.                                             *)
THEOREM TimelineNotBehindHolds == Spec => []TimelineNotBehind
<1>1. IInv => TimelineNotBehind
    <2> SUFFICES ASSUME IInv, NEW r \in Done("read"), req[r].row # "none", ~req[r].cut
                 PROVE  NotBehind(req[r].due, req[r].shown)
        BY DEF TimelineNotBehind, NotBehind
    <2>1. r \in Requests /\ req[r].pc = "done" /\ req[r].kind = "read"
        BY DEF Done
    <2>2. req[r] \in ReadRequest /\ ReadInv(req[r], state, log)
        BY <2>1 DEF IInv, RequestInv, NewRequest, RequeueRequest, WalkRequest
    <2> QED BY <2>1, <2>2 DEF ReadInv
<1> QED BY Invariance, <1>1, PTL

=============================================================================
