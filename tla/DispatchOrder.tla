--------------------------- MODULE DispatchOrder ---------------------------
(***************************************************************************)
(* Which ready job a worker leases next: the ORDER BY that pendingOrderBy  *)
(* builds, with priority, aging, run time and tie breakers, over a table   *)
(* whose rows are enqueued, leased, failed and requeued while time passes. *)
(*                                                                         *)
(* Only the columns that the order reads are kept.  How a lease ends is    *)
(* LeaseProtocol's subject; here it ends in any of the ways it can.        *)
(*                                                                         *)
(* Times are ticks, as in Timestamps.  SQLite divides julian days, which   *)
(* are doubles; the division is exact here, so a point may come a fraction *)
(* of a millisecond earlier or later in the code.                          *)
(***************************************************************************)
EXTENDS Timestamps, FiniteSets

CONSTANTS
    Jobs,           \* job ids, as numbers: ids break ties
    Kinds,
    Priorities,
    RunAts,         \* values of the run-at option, NullTime when absent
    Skews,          \* how far the clock of an enqueuing process can be ahead
    AgingInterval,  \* WithAgingInterval in ticks, 0 when aging is disabled
    MaxTime         \* bound: the clock stops here

ASSUME DispatchAssumption ==
    /\ Jobs \subseteq Nat
    /\ Priorities \subseteq Int
    /\ RunAts \subseteq Nat \cup {NullTime}
    /\ Skews \subseteq Nat
    /\ AgingInterval \in Nat
    /\ MaxTime \in Nat

VARIABLES
    clock,      \* time.Now() of the workers
    \* columns of the jobs table
    state, kind, priority, created, runAt

rowVars == <<kind, priority, created, runAt>>
vars == <<clock, state, rowVars>>

States == {"unborn", "pending", "leased", "completed", "dead_letter"}

TypeOK ==
    /\ clock \in Nat
    /\ state \in [Jobs -> States]
    /\ kind \in [Jobs -> Kinds]
    /\ priority \in [Jobs -> Priorities]
    /\ created \in [Jobs -> Nat]
    /\ runAt \in [Jobs -> Nat \cup {NullTime}]

Init ==
    /\ clock = 0
    /\ state = [j \in Jobs |-> "unborn"]
    /\ kind \in [Jobs -> Kinds]
    /\ priority \in [Jobs -> Priorities]
    /\ created = [j \in Jobs |-> 0]
    /\ runAt = [j \in Jobs |-> NullTime]

Tick ==
    /\ clock < MaxTime
    /\ clock' = clock + 1
    /\ UNCHANGED <<state, rowVars>>

-----------------------------------------------------------------------------
(* The order *)

(* COALESCE(run_at, created_at) *)
ReadyTime(j) == IF runAt[j] = NullTime THEN created[j] ELSE runAt[j]

(* CAST(a / b AS INTEGER) drops the fraction, also of a negative number. *)
Truncated(a, b) == IF a >= 0 THEN a \div b ELSE -((-a) \div b)

(* Mutant: aging is measured from created_at although the job is delayed. *)
BoostFromCreation(j) ==
    IF AgingInterval = 0 THEN 0 ELSE Truncated(clock - created[j], AgingInterval)

(* The points that a job has gained by waiting. *)
Boost(j) ==
    IF AgingInterval = 0 THEN 0 ELSE Truncated(clock - ReadyTime(j), AgingInterval)

(* Mutant: the newest of equal jobs comes first. *)
SortKeyNewestFirst(j) ==
    <<-(priority[j] + Boost(j)), -priority[j], -TextRank(ReadyTime(j)), TextRank(created[j]), j>>

(* The columns of the ORDER BY, those in descending order negated.  Without *)
(* aging the first column repeats the second.                               *)
SortKey(j) ==
    <<-(priority[j] + Boost(j)), -priority[j], TextRank(ReadyTime(j)), TextRank(created[j]), j>>

(* Row j comes before row k. *)
Before(j, k) ==
    \E i \in 1..5 :
        /\ SortKey(j)[i] < SortKey(k)[i]
        /\ \A h \in 1..(i - 1) : SortKey(j)[h] = SortKey(k)[h]

(* Mutant: the run time is not asked for. *)
ReadyAtOnce(j) == state[j] = "pending"

(* WHERE state = 'pending' AND (run_at IS NULL OR run_at <= now) *)
Ready(j) ==
    /\ state[j] = "pending"
    /\ runAt[j] = NullTime \/ TextLeq(runAt[j], clock)

-----------------------------------------------------------------------------
(* Operations *)

(* Enqueue: the row gets the clock of the process that enqueues it. *)
Enqueue(j) ==
    /\ state[j] = "unborn"
    /\ state' = [state EXCEPT ![j] = "pending"]
    /\ \E s \in Skews : created' = [created EXCEPT ![j] = clock + s]
    /\ \E t \in RunAts : runAt' = [runAt EXCEPT ![j] = t]
    /\ UNCHANGED <<clock, kind, priority>>

(* LeaseJob: the first ready row of the worker's kind. *)
LeaseJob(k) ==
    LET candidates == {j \in Jobs : kind[j] = k /\ Ready(j)} IN
    /\ \E j \in candidates :
        /\ \A i \in candidates \ {j} : Before(j, i)
        /\ state' = [state EXCEPT ![j] = "leased"]
    /\ UNCHANGED <<clock, rowVars>>

(* Mutant: a job whose attempts are used up is marked failed. *)
EndLeaseFailed(j) ==
    /\ state[j] = "leased"
    /\ \E s \in {"completed", "pending", "failed"} : state' = [state EXCEPT ![j] = s]
    /\ UNCHANGED <<clock, rowVars>>

(* completeJob, failJob or recovery: run_at and created_at stay as they are. *)
EndLease(j) ==
    /\ state[j] = "leased"
    /\ \E s \in {"completed", "pending", "dead_letter"} : state' = [state EXCEPT ![j] = s]
    /\ UNCHANGED <<clock, rowVars>>

(* RequeueJob: neither does a new attempt budget change them. *)
RequeueJob(j) ==
    /\ state[j] = "dead_letter"
    /\ state' = [state EXCEPT ![j] = "pending"]
    /\ UNCHANGED <<clock, rowVars>>

Next ==
    \/ Tick
    \/ \E j \in Jobs : Enqueue(j) \/ EndLease(j) \/ RequeueJob(j)
    \/ \E k \in Kinds : LeaseJob(k)

Spec == Init /\ [][Next]_vars

-----------------------------------------------------------------------------
(* Queries that read the same order *)

Pending == {j \in Jobs : state[j] = "pending"}

(* The ready time of the comment on GetOldestPendingReadyTime, "the earlier *)
(* of run_at and created_at"; a mutant of the statement below it.          *)
EarliestTime ==
    LET earlier(j) == IF runAt[j] # NullTime /\ runAt[j] < created[j] THEN runAt[j] ELSE created[j]
    IN  CHOOSE t \in {earlier(j) : j \in Pending} :
            \A j \in Pending : TextLeq(t, earlier(j))

(* GetOldestPendingReadyTime, when a job is pending; the metrics report how *)
(* long ago it was.                                                         *)
OldestReadyTime ==
    CHOOSE t \in {ReadyTime(j) : j \in Pending} :
        \A j \in Pending : TextLeq(t, ReadyTime(j))

-----------------------------------------------------------------------------
(* Properties *)

(* The step leases k although j was ready for the same worker. *)
Overtakes(k, j) ==
    /\ k # j
    /\ state[k] = "pending" /\ state'[k] = "leased"
    /\ kind[j] = kind[k] /\ Ready(j)

(* How far ahead of j the ready time of k must not be when k is leased     *)
(* first: an aging interval for each point of priority and one for the     *)
(* fraction that truncation drops, two if the ready time of k is not there *)
(* yet, because a negative wait is truncated the other way.                *)
Advantage(k, j) ==
    AgingInterval * (priority[k] - priority[j] + (IF ReadyTime(k) > clock THEN 2 ELSE 1))

(* "Aging prevents a constant high-priority stream from starving other     *)
(* work": only jobs that become ready within a fixed time can be leased    *)
(* before a ready job, however many come, and a job of lower priority must *)
(* have waited longer for it.  Without aging the priority decides.         *)
OvertakingBounded ==
    [][\A j, k \in Jobs : Overtakes(k, j) =>
        IF AgingInterval = 0
        THEN priority[k] >= priority[j]
        ELSE ReadyTime(k) - ReadyTime(j) < Advantage(k, j)]_vars

(* Jobs of one priority are leased in the order in which they became       *)
(* ready, up to the fractions of a second that the texts sort wrongly, with *)
(* aging and without.                                                      *)
SamePriorityInOrder ==
    [][\A j, k \in Jobs :
        Overtakes(k, j) /\ priority[k] = priority[j]
            => ReadyTime(k) < ReadyTime(j) + TicksPerSecond]_vars

(* A delayed job is not leased before its run time, except for the         *)
(* fraction of a second by which the texts mislead the comparison.         *)
LeasedNearRunAt ==
    [][\A k \in Jobs : state[k] = "pending" /\ state'[k] = "leased" =>
        runAt[k] < clock + TicksPerSecond /\ (TicksPerSecond = 1 => runAt[k] <= clock)]_vars

(* "matching the lease ordering": of jobs of one kind and priority, a       *)
(* worker leases the one whose wait the metrics report, up to the fractions *)
(* of a second, once that wait is a second long.  "The earlier of run_at   *)
(* and created_at", which the same comment says, would break this, and is  *)
(* not what the statement reads: the oldest time can be in the future,     *)
(* that of a delayed job.  Then its age is negative, and workers pass it   *)
(* by.                                                                     *)
LeasesTheOldest ==
    [][\A k \in Jobs :
        /\ state[k] = "pending" /\ state'[k] = "leased"
        /\ \A j \in Pending : kind[j] = kind[k] /\ priority[j] = priority[k]
        /\ OldestReadyTime + TicksPerSecond <= clock
        => ReadyTime(k) < OldestReadyTime + TicksPerSecond]_vars
=============================================================================
