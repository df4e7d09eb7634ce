--------------------------- MODULE DispatchProofs ---------------------------
(* Machine-checked proofs about DispatchOrder, for every set of jobs,      *)
(* kinds, priorities, run times and skews, and every aging interval: how   *)
(* far a job can get ahead of another that is ready.                       *)
EXTENDS DispatchOrder, CommonLemmas

(* Every step keeps the types of the columns. *)
LEMMA TypeStep == TypeOK /\ [Next]_vars => TypeOK'
<1> SUFFICES ASSUME TypeOK, [Next]_vars PROVE TypeOK'
    OBVIOUS
<1> USE DispatchAssumption DEF TypeOK, rowVars
<1>1. CASE Tick
    BY <1>1 DEF Tick
<1>2. ASSUME NEW j \in Jobs, Enqueue(j) PROVE TypeOK'
    BY <1>2 DEF Enqueue, States
<1>3. ASSUME NEW j \in Jobs, EndLease(j) \/ RequeueJob(j) PROVE TypeOK'
    BY <1>3 DEF EndLease, RequeueJob, States
<1>4. ASSUME NEW k \in Kinds, LeaseJob(k) PROVE TypeOK'
    BY <1>4 DEF LeaseJob, States
<1>5. CASE UNCHANGED vars
    BY <1>5 DEF vars
<1> QED BY <1>1, <1>2, <1>3, <1>4, <1>5 DEF Next

(* The columns that the order reads keep their types. *)
THEOREM TypeCorrect == Spec => []TypeOK
<1>1. Init => TypeOK
    BY DEF Init, TypeOK, States
<1> QED BY <1>1, TypeStep, PTL DEF Spec

-----------------------------------------------------------------------------
(* Integer division *)

(* Truncation is off by less than a point, toward zero. *)
LEMMA TruncatedBounds ==
    ASSUME NEW a \in Int, NEW n \in Nat \ {0}
    PROVE  /\ Truncated(a, n) \in Int
           /\ a < n * Truncated(a, n) + n
           /\ n * Truncated(a, n) - n < a
           /\ a >= 0 => Truncated(a, n) >= 0 /\ n * Truncated(a, n) <= a
           /\ a < 0  => Truncated(a, n) <= 0 /\ a <= n * Truncated(a, n)
<1>1. ASSUME NEW b \in Nat
      PROVE  b \div n \in Nat /\ n * (b \div n) <= b /\ b < n * (b \div n) + n
    OBVIOUS
<1>2. CASE a >= 0
    <2>1. Truncated(a, n) = a \div n
        BY <1>2 DEF Truncated
    <2>2. a \div n \in Nat /\ n * (a \div n) <= a /\ a < n * (a \div n) + n
        BY <1>1, <1>2
    <2> QED BY <1>2, <2>1, <2>2
<1>3. CASE a < 0
    <2> DEFINE q == (-a) \div n
    <2>1. Truncated(a, n) = -q
        BY <1>3 DEF Truncated
    <2>2. q \in Nat /\ n * q <= -a /\ -a < n * q + n
        BY <1>1, <1>3
    <2>3. n * (-q) = -(n * q)
        BY <2>2
    <2> HIDE DEF q
    <2> QED BY <1>3, <2>1, <2>2, <2>3
<1> QED BY <1>2, <1>3

(* A multiple grows with its factor. *)
LEMMA Multiples ==
    ASSUME NEW n \in Nat, NEW x \in Int, NEW y \in Int, x <= y
    PROVE  n * x <= n * y
OBVIOUS

(* Whoever has more points has waited longer. *)
LEMMA TruncatedMonotone ==
    ASSUME NEW a \in Int, NEW b \in Int, NEW n \in Nat \ {0},
           Truncated(a, n) > Truncated(b, n)
    PROVE  a > b
<1> DEFINE p == Truncated(a, n)
           q == Truncated(b, n)
<1>1. /\ p \in Int /\ q \in Int /\ n \in Nat
      /\ n * p - n < a /\ b < n * q + n
      /\ a >= 0 => n * p <= a
      /\ b < 0 => b <= n * q
      /\ a < 0 => p <= 0
      /\ b >= 0 => q >= 0
    BY TruncatedBounds
<1>2. p > q
    OBVIOUS
<1> HIDE DEF p, q
<1>3. n * (q + 1) <= n * p
    BY <1>1, <1>2, Multiples
<1>4. n * (q + 1) = n * q + n
    BY <1>1
<1>5. n * q + n <= n * p
    BY <1>1, <1>3, <1>4
<1> QED BY <1>1, <1>2, <1>5

-----------------------------------------------------------------------------
(* The order *)

(* What the order compares are integers. *)
LEMMA Compared ==
    ASSUME TypeOK, NEW j \in Jobs
    PROVE  /\ ReadyTime(j) \in Int /\ Boost(j) \in Int /\ priority[j] \in Int
           /\ clock - ReadyTime(j) \in Int
           /\ TextRank(ReadyTime(j)) \in Int
<1>1. ReadyTime(j) \in Int /\ clock \in Int /\ priority[j] \in Int
    <2>1. created[j] \in Nat /\ runAt[j] \in Nat \cup {NullTime} /\ clock \in Nat
        BY DEF TypeOK
    <2>2. priority[j] \in Priorities
        BY DEF TypeOK
    <2>3. ReadyTime(j) \in Int
        BY <2>1 DEF ReadyTime
    <2>4. priority[j] \in Int
        BY <2>2, DispatchAssumption
    <2> QED BY <2>1, <2>3, <2>4
<1>2. Boost(j) \in Int
    BY <1>1, TruncatedBounds, DispatchAssumption DEF Boost
<1> QED BY <1>1, <1>2, RankBounds

(* What it takes to come first: more points, or as many points and at      *)
(* least the same priority, or to have become ready first.                 *)
LEMMA BeforeByCases ==
    ASSUME TypeOK, NEW j \in Jobs, NEW k \in Jobs, Before(k, j)
    PROVE  \/ priority[k] + Boost(k) > priority[j] + Boost(j)
           \/ /\ priority[k] + Boost(k) = priority[j] + Boost(j)
              /\ \/ priority[k] > priority[j]
                 \/ priority[k] = priority[j] /\ TextLeq(ReadyTime(k), ReadyTime(j))
<1>1. PICK i \in 1..5 :
        /\ SortKey(k)[i] < SortKey(j)[i]
        /\ \A h \in 1..(i - 1) : SortKey(k)[h] = SortKey(j)[h]
    BY DEF Before
<1>2. ASSUME NEW l \in Jobs
      PROVE  /\ SortKey(l)[1] = -(priority[l] + Boost(l))
             /\ SortKey(l)[2] = -priority[l]
             /\ SortKey(l)[3] = TextRank(ReadyTime(l))
    BY DEF SortKey
<1>3. /\ priority[j] \in Int /\ Boost(j) \in Int /\ TextRank(ReadyTime(j)) \in Int
      /\ priority[k] \in Int /\ Boost(k) \in Int /\ TextRank(ReadyTime(k)) \in Int
    BY Compared
<1>4. CASE i = 1
    BY <1>1, <1>2, <1>3, <1>4
<1>5. CASE i = 2
    <2>1. SortKey(k)[1] = SortKey(j)[1]
        BY <1>1, <1>5
    <2> QED BY <1>1, <1>2, <1>3, <1>5, <2>1
<1>6. CASE i >= 3
    <2>1. SortKey(k)[1] = SortKey(j)[1] /\ SortKey(k)[2] = SortKey(j)[2]
        BY <1>1, <1>6
    <2>2. SortKey(k)[3] <= SortKey(j)[3]
        <3>1. CASE i = 3
            BY <1>1, <1>2, <1>3, <3>1
        <3>2. CASE i > 3
            BY <1>1, <1>2, <1>3, <3>2
        <3> QED BY <1>6, <3>1, <3>2
    <2> QED BY <1>2, <1>3, <2>1, <2>2 DEF TextLeq
<1> QED BY <1>4, <1>5, <1>6

(* A job that is leased although another was ready came before it. *)
LEMMA LeasedIsFirst ==
    ASSUME TypeOK, [Next]_vars, NEW j \in Jobs, NEW k \in Jobs, Overtakes(k, j)
    PROVE  Before(k, j)
<1>1. state[k] = "pending" /\ state'[k] = "leased" /\ k # j /\ kind[j] = kind[k] /\ Ready(j)
    BY DEF Overtakes
<1>2. ASSUME NEW i \in Jobs, Enqueue(i) \/ EndLease(i) \/ RequeueJob(i) PROVE FALSE
    BY <1>1, <1>2 DEF Enqueue, EndLease, RequeueJob, TypeOK
<1>3. PICK t \in Kinds : LeaseJob(t)
    BY <1>1, <1>2 DEF Next, Tick, vars
<1>4. PICK l \in {i \in Jobs : kind[i] = t /\ Ready(i)} :
        /\ \A i \in {i \in Jobs : kind[i] = t /\ Ready(i)} \ {l} : Before(l, i)
        /\ state' = [state EXCEPT ![l] = "leased"]
    BY <1>3 DEF LeaseJob
<1>5. l = k
    BY <1>1, <1>4 DEF TypeOK
<1> QED BY <1>1, <1>4, <1>5

-----------------------------------------------------------------------------

(* A lease between two jobs of one priority. *)
LEMMA SamePriorityStep ==
    ASSUME TypeOK, [Next]_vars, NEW j \in Jobs, NEW k \in Jobs,
           Overtakes(k, j), priority[k] = priority[j]
    PROVE  ReadyTime(k) < ReadyTime(j) + TicksPerSecond
<1>1. /\ ReadyTime(j) \in Int /\ Boost(j) \in Int /\ priority[j] \in Int
      /\ ReadyTime(k) \in Int /\ Boost(k) \in Int /\ clock \in Int
    BY Compared DEF TypeOK
<1>2. Boost(k) > Boost(j) \/ TextLeq(ReadyTime(k), ReadyTime(j))
    BY <1>1, LeasedIsFirst, BeforeByCases
<1>3. CASE Boost(k) > Boost(j)
    <2>1. AgingInterval \in Nat \ {0}
        BY <1>3, DispatchAssumption DEF Boost
    <2>2. Truncated(clock - ReadyTime(k), AgingInterval)
            > Truncated(clock - ReadyTime(j), AgingInterval)
        BY <1>3, <2>1 DEF Boost
    <2>3. clock - ReadyTime(k) > clock - ReadyTime(j)
        BY <1>1, <2>1, <2>2, TruncatedMonotone
    <2> QED BY <1>1, <2>3, TicksAssumption
<1>4. CASE TextLeq(ReadyTime(k), ReadyTime(j))
    BY <1>1, <1>4, TextOrder
<1> QED BY <1>2, <1>3, <1>4

(* Jobs of one priority are leased in the order in which they became ready *)
(* up to a second, whatever the aging interval.                            *)
THEOREM SamePriorityInOrderHolds == Spec => SamePriorityInOrder
<1> DEFINE Step == \A j, k \in Jobs :
        Overtakes(k, j) /\ priority[k] = priority[j]
            => ReadyTime(k) < ReadyTime(j) + TicksPerSecond
<1>1. TypeOK /\ [Next]_vars => [Step]_vars
    <2> SUFFICES ASSUME TypeOK, [Next]_vars, NEW j \in Jobs, NEW k \in Jobs,
                        Overtakes(k, j), priority[k] = priority[j]
                 PROVE  ReadyTime(k) < ReadyTime(j) + TicksPerSecond
        OBVIOUS
    <2> QED BY SamePriorityStep
<1> QED BY <1>1, TypeCorrect, PTL DEF Spec, SamePriorityInOrder

(* A ready job is overtaken only by jobs that become ready within a time   *)
(* that the difference of the priorities fixes: no stream of jobs of       *)
(* higher priority starves it.                                             *)
THEOREM OvertakingBoundedHolds == Spec => OvertakingBounded
<1> DEFINE Step == \A j, k \in Jobs : Overtakes(k, j) =>
        IF AgingInterval = 0
        THEN priority[k] >= priority[j]
        ELSE ReadyTime(k) - ReadyTime(j) < Advantage(k, j)
<1>1. TypeOK /\ [Next]_vars => [Step]_vars
    <2> SUFFICES ASSUME TypeOK, [Next]_vars, NEW j \in Jobs, NEW k \in Jobs, Overtakes(k, j)
                 PROVE  IF AgingInterval = 0
                        THEN priority[k] >= priority[j]
                        ELSE ReadyTime(k) - ReadyTime(j) < Advantage(k, j)
        OBVIOUS
    <2>1. /\ ReadyTime(j) \in Int /\ Boost(j) \in Int /\ priority[j] \in Int
          /\ ReadyTime(k) \in Int /\ Boost(k) \in Int /\ priority[k] \in Int
          /\ clock \in Int
        BY Compared DEF TypeOK
    <2>2. priority[k] + Boost(k) >= priority[j] + Boost(j)
        BY <2>1, LeasedIsFirst, BeforeByCases
    <2>3. CASE AgingInterval = 0
        BY <2>1, <2>2, <2>3 DEF Boost
    <2>4. CASE AgingInterval # 0
        <3> DEFINE n == AgingInterval
                   a == clock - ReadyTime(k)
                   b == clock - ReadyTime(j)
        <3>1. n \in Nat \ {0}
            BY <2>4, DispatchAssumption
        <3>2. Boost(k) = Truncated(a, n) /\ Boost(j) = Truncated(b, n)
            BY <2>4 DEF Boost
        <3>3. a \in Int /\ b \in Int /\ ReadyTime(k) - ReadyTime(j) = b - a
            BY <2>1
        <3> HIDE DEF n, a, b
        <3>4. b < n * Boost(j) + n
            BY <3>1, <3>2, <3>3, TruncatedBounds
        <3>5. ASSUME NEW c \in {1, 2}, n * Boost(k) - n * (c - 1) <= a
              PROVE  b - a < n * (priority[k] - priority[j] + c)
            <4>1. n * (Boost(j) - Boost(k) + c) <= n * (priority[k] - priority[j] + c)
                BY <2>1, <2>2, <3>1, Multiples
            <4>2. n * (Boost(j) - Boost(k) + c) = n * Boost(j) - n * Boost(k) + n * c
                BY <2>1, <3>1
            <4>3. n * (c - 1) = n * c - n
                BY <3>1
            <4>4. n * Boost(j) \in Int /\ n * Boost(k) \in Int /\ n * c \in Int
                BY <2>1, <3>1
            <4>5. n * (priority[k] - priority[j] + c) \in Int
                BY <2>1, <3>1
            <4> QED BY <3>1, <3>3, <3>4, <3>5, <4>1, <4>2, <4>3, <4>4, <4>5
        <3>6. CASE ReadyTime(k) > clock
            <4>1. n * Boost(k) - n < a
                BY <3>1, <3>2, <3>3, TruncatedBounds
            <4>2. b - a < n * (priority[k] - priority[j] + 2)
                BY <2>1, <3>1, <3>3, <3>5, <4>1
            <4> QED BY <2>4, <3>3, <3>6, <4>2 DEF Advantage, n
        <3>7. CASE ~(ReadyTime(k) > clock)
            <4>1. a >= 0
                BY <2>1, <3>7 DEF a
            <4>2. n * Boost(k) <= a
                BY <3>1, <3>2, <3>3, <4>1, TruncatedBounds
            <4>3. b - a < n * (priority[k] - priority[j] + 1)
                BY <2>1, <3>1, <3>3, <3>5, <4>2
            <4> QED BY <2>4, <3>3, <3>7, <4>3 DEF Advantage, n
        <3> QED BY <3>6, <3>7
    <2> QED BY <2>3, <2>4
<1> QED BY <1>1, TypeCorrect, PTL DEF Spec, OvertakingBounded

(* No job is leased a second or more before its run time, and none at all  *)
(* if times have no fractions.                                             *)
THEOREM LeasedNearRunAtHolds == Spec => LeasedNearRunAt
<1> DEFINE Step == \A k \in Jobs : state[k] = "pending" /\ state'[k] = "leased" =>
        runAt[k] < clock + TicksPerSecond /\ (TicksPerSecond = 1 => runAt[k] <= clock)
<1>1. TypeOK /\ [Next]_vars => [Step]_vars
    <2> SUFFICES ASSUME TypeOK, [Next]_vars, NEW k \in Jobs,
                        state[k] = "pending", state'[k] = "leased"
                 PROVE  /\ runAt[k] < clock + TicksPerSecond
                        /\ TicksPerSecond = 1 => runAt[k] <= clock
        OBVIOUS
    <2>1. clock \in Nat /\ runAt[k] \in Int
        BY DEF TypeOK, NullTime
    <2>2. Ready(k)
        <3>1. ASSUME NEW i \in Jobs, Enqueue(i) \/ EndLease(i) \/ RequeueJob(i) PROVE FALSE
            BY <3>1 DEF Enqueue, EndLease, RequeueJob, TypeOK
        <3>2. PICK t \in Kinds : LeaseJob(t)
            BY <3>1 DEF Next, Tick, vars
        <3> QED BY <3>2 DEF LeaseJob, TypeOK
    <2>3. CASE runAt[k] = NullTime
        BY <2>1, <2>3, TicksAssumption DEF NullTime
    <2>4. CASE TextLeq(runAt[k], clock)
        <3>1. runAt[k] < clock + TicksPerSecond
            BY <2>1, <2>4, TextOrder
        <3>2. ASSUME TicksPerSecond = 1 PROVE runAt[k] <= clock
            BY <2>1, <2>4, <3>2, RankWithoutFraction DEF TextLeq
        <3> QED BY <3>1, <3>2
    <2> QED BY <2>2, <2>3, <2>4 DEF Ready
<1> QED BY <1>1, TypeCorrect, PTL DEF Spec, LeasedNearRunAt

-----------------------------------------------------------------------------

(* Among the pending jobs there is one whose text of the ready time no     *)
(* other is below.                                                         *)
LEMMA OldestExists ==
    ASSUME TypeOK, Pending # {}
    PROVE  \E i \in Pending : \A j \in Pending : TextLeq(ReadyTime(i), ReadyTime(j))
<1>1. \A j \in Pending : ReadyTime(j) \in Nat
    BY DEF TypeOK, Pending, ReadyTime
<1> DEFINE R == {TextRank(ReadyTime(j)) : j \in Pending}
<1>2. R \in SUBSET Nat /\ R # {}
    BY <1>1, RankBounds
<1>3. PICK m \in R : \A k \in R : m <= k
    <2> HIDE DEF R
    <2> QED BY <1>2, LeastElement
<1> QED BY <1>3 DEF TextLeq

(* Of jobs of one kind and priority, the one whose wait the metrics report *)
(* is leased first, up to a second, if it has waited so long.              *)
THEOREM LeasesTheOldestHolds == Spec => LeasesTheOldest
<1> DEFINE Step == \A k \in Jobs :
        /\ state[k] = "pending" /\ state'[k] = "leased"
        /\ \A j \in Pending : kind[j] = kind[k] /\ priority[j] = priority[k]
        /\ OldestReadyTime + TicksPerSecond <= clock
        => ReadyTime(k) < OldestReadyTime + TicksPerSecond
<1>1. TypeOK /\ [Next]_vars => [Step]_vars
    <2> SUFFICES ASSUME TypeOK, [Next]_vars, NEW k \in Jobs,
                        state[k] = "pending", state'[k] = "leased",
                        \A j \in Pending : kind[j] = kind[k] /\ priority[j] = priority[k],
                        OldestReadyTime + TicksPerSecond <= clock
                 PROVE  ReadyTime(k) < OldestReadyTime + TicksPerSecond
        OBVIOUS
    <2>1. PICK j \in Pending : OldestReadyTime = ReadyTime(j)
        <3>1. Pending # {}
            BY DEF Pending
        <3> QED BY <3>1, OldestExists DEF OldestReadyTime
    <2>2. j \in Jobs /\ state[j] = "pending" /\ ReadyTime(j) \in Int /\ clock \in Int
        BY DEF TypeOK, Pending, ReadyTime
    <2>3. TextLeq(ReadyTime(j), clock)
        <3>1. CASE TextLeq(clock, ReadyTime(j))
            <4>1. clock < ReadyTime(j) + TicksPerSecond
                BY <2>2, <3>1, TextOrder
            <4> QED BY <2>1, <2>2, <4>1, TicksAssumption
        <3>2. TextRank(ReadyTime(j)) \in Int /\ TextRank(clock) \in Int
            BY <2>2, RankBounds
        <3> QED BY <3>1, <3>2 DEF TextLeq
    <2>4. Ready(j)
        BY <2>2, <2>3 DEF Ready, ReadyTime
    <2>5. CASE j = k
        BY <2>1, <2>2, <2>5, TicksAssumption
    <2>6. CASE j # k
        <3>1. Overtakes(k, j) /\ priority[k] = priority[j]
            BY <2>1, <2>4, <2>6 DEF Overtakes
        <3> QED BY <2>1, <2>2, <3>1, SamePriorityStep
    <2> QED BY <2>5, <2>6
<1> QED BY <1>1, TypeCorrect, PTL DEF Spec, LeasesTheOldest

=============================================================================
