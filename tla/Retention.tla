----------------------------- MODULE Retention -----------------------------
(***************************************************************************)
(* What retention removes, and the callers that it can surprise: prune     *)
(* transactions of the prune command and of the workers, the log of the    *)
(* runs, jobs that end and are requeued meanwhile, events that are still   *)
(* on their way, and Enqueue with idempotency keys.                        *)
(*                                                                         *)
(* A prune reads the clock, then waits for the write lock; its transaction *)
(* is one step, because SQLite has one writer.  Enqueue inserts, and when  *)
(* the key is taken looks the holder up in a second statement.             *)
(*                                                                         *)
(* The events of a job are counted, not kept: EventLog keeps them.  A job  *)
(* is "live" while it is pending or leased.                                *)
(***************************************************************************)
EXTENDS Timestamps, FiniteSets, Sequences, Functions

CONSTANTS
    Jobs,           \* the job ids that newID will return
    Keys,           \* idempotency keys
    NoKey,          \* a job or a call without one
    Callers,        \* callers of Enqueue, one call each
    NoJob,          \* a call that has not returned, or not got to a job
    Failed,         \* a call that returned an error although its row is stored
    Vanished,       \* "reported a conflict but no job was found"
    MaxJobAge,      \* the policies' age limit in ticks
    Policies,       \* subsets of {"age", "cap"}: the limits that are given
    MaxEventsPerJob,
    MaxTime,        \* bound: the clock stops here
    MaxEvents,      \* bound: number of events that callers append
    MaxRuns         \* bound: number of prune transactions

ASSUME RetentionAssumption ==
    /\ IsFiniteSet(Jobs)
    /\ NoKey \notin Keys
    /\ {NoJob, Failed, Vanished} \cap Jobs = {}
    /\ NoJob # Failed /\ NoJob # Vanished /\ Failed # Vanished
    /\ MaxJobAge \in Nat \ {0}
    /\ MaxEventsPerJob \in Nat \ {0}
    /\ Policies \subseteq SUBSET {"age", "cap"}

Sources == {"manual", "auto"}

VARIABLES
    clock,
    \* columns of the jobs table; updated_at is kept for finished jobs only,
    \* no statement modelled here reads it of others
    state, key, updated,
    \* rows of the events table per job, and events that a caller has still
    \* to append
    events, owed,
    runs,       \* the retention_runs table, in the order of its ids
    started,    \* per source: the clock that a running prune has read
    \* calls of Enqueue: program counter, key, result
    epc, ekey, got,
    appended    \* history: events ever appended

jobVars   == <<state, key, updated>>
eventVars == <<events, owed, appended>>
pruneVars == <<runs, started>>
callVars  == <<epc, ekey, got>>
vars == <<clock, jobVars, eventVars, pruneVars, callVars>>

(* StateFailed is stored by nobody. *)
Terminal == {"completed", "dead_letter"}

TypeOK ==
    /\ clock \in Nat
    /\ state \in [Jobs -> {"unborn", "live", "deleted"} \cup Terminal]
    /\ key \in [Jobs -> Keys \cup {NoKey}]
    /\ updated \in [Jobs -> Nat]
    /\ events \in [Jobs -> Nat] /\ owed \in [Jobs -> Nat] /\ appended \in Nat
    /\ runs \in Seq([source: Sources, jobs: Nat, events: Nat])
    /\ started \in [Sources -> Nat \cup {NullTime}]
    /\ epc \in [Callers -> {"new", "find", "log", "done"}]
    /\ ekey \in [Callers -> Keys \cup {NoKey}]
    /\ got \in [Callers -> Jobs \cup {NoJob, Failed, Vanished}]

Init ==
    /\ clock = 0
    /\ state = [j \in Jobs |-> "unborn"]
    /\ key = [j \in Jobs |-> NoKey]
    /\ updated = [j \in Jobs |-> 0]
    /\ events = [j \in Jobs |-> 0] /\ owed = [j \in Jobs |-> 0] /\ appended = 0
    /\ runs = <<>>
    /\ started = [s \in Sources |-> NullTime]
    /\ epc = [c \in Callers |-> "new"]
    /\ ekey = [c \in Callers |-> NoKey]
    /\ got = [c \in Callers |-> NoJob]

(* Time passes. *)
Tick ==
    /\ clock < MaxTime
    /\ clock' = clock + 1
    /\ UNCHANGED <<jobVars, eventVars, pruneVars, callVars>>

(* Rows of the jobs table. *)
Stored == {j \in Jobs : state[j] \notin {"unborn", "deleted"}}

-----------------------------------------------------------------------------
(* Enqueue with idempotency keys *)

(* Mutant: only unfinished jobs count. *)
HoldsLive(j, k) == k # NoKey /\ state[j] = "live" /\ key[j] = k

(* Row j has the key k; NULL equals nothing. *)
HoldsKey(j, k) == k # NoKey /\ j \in Stored /\ key[j] = k

(* InsertJob, a new row: the key is free. *)
Insert(c) ==
    /\ epc[c] = "new"
    /\ \E j \in Jobs, k \in Keys \cup {NoKey} :
        /\ state[j] = "unborn"
        /\ \A i \in Jobs : ~HoldsKey(i, k)
        /\ state' = [state EXCEPT ![j] = "live"]
        /\ key' = [key EXCEPT ![j] = k]
        /\ owed' = [owed EXCEPT ![j] = @ + 1]
        /\ ekey' = [ekey EXCEPT ![c] = k]
        /\ got' = [got EXCEPT ![c] = j]
    /\ epc' = [epc EXCEPT ![c] = "log"]
    /\ UNCHANGED <<clock, updated, events, appended, pruneVars>>

(* InsertJob, ON CONFLICT DO NOTHING: the key is taken. *)
Conflict(c) ==
    /\ epc[c] = "new"
    /\ \E k \in Keys :
        /\ \E i \in Jobs : HoldsKey(i, k)
        /\ ekey' = [ekey EXCEPT ![c] = k]
    /\ epc' = [epc EXCEPT ![c] = "find"]
    /\ UNCHANGED <<clock, jobVars, eventVars, pruneVars, got>>

(* Mutant: the lookup finds unfinished jobs only. *)
FoundLive(c) == {j \in Jobs : HoldsLive(j, ekey[c])}

Found(c) == {j \in Jobs : HoldsKey(j, ekey[c])}

(* FindJobByIdempotencyKey, which may fail. *)
Find(c) ==
    /\ epc[c] = "find"
    /\ \/ \E j \in Found(c) : got' = [got EXCEPT ![c] = j]
       \/ Found(c) = {} /\ got' = [got EXCEPT ![c] = Vanished]
       \/ UNCHANGED got
    /\ epc' = [epc EXCEPT ![c] = "done"]
    /\ UNCHANGED <<clock, jobVars, eventVars, pruneVars, ekey>>

(* appendEnqueueEvents; an error is returned although the row is stored. *)
LogEnqueue(c) ==
    /\ epc[c] = "log"
    /\ epc' = [epc EXCEPT ![c] = "done"]
    /\ owed' = [owed EXCEPT ![got[c]] = @ - 1]
    /\ \/ /\ events' = [events EXCEPT ![got[c]] = @ + 1]
          /\ appended' = appended + 1
          /\ UNCHANGED got
       \/ /\ got' = [got EXCEPT ![c] = Failed]
          /\ UNCHANGED <<events, appended>>
    /\ UNCHANGED <<clock, jobVars, pruneVars, ekey>>

-----------------------------------------------------------------------------
(* The life of a job, as far as retention can tell *)

(* lease, retry and recovery; completion, failure; requeue *)
Moves == {"live"} \X ({"live"} \cup Terminal) \cup {<<"dead_letter", "live">>}

(* A statement changes a job; its event is appended later. *)
Change(j) ==
    /\ appended + SumFunction(owed) < MaxEvents
    /\ \E s \in {"live"} \cup Terminal :
        /\ <<state[j], s>> \in Moves
        /\ state' = [state EXCEPT ![j] = s]
        /\ updated' = [updated EXCEPT ![j] = IF s \in Terminal THEN clock ELSE 0]
    /\ owed' = [owed EXCEPT ![j] = @ + 1]
    /\ UNCHANGED <<clock, key, events, appended, pruneVars, callVars>>

(* Mutant: anyone appends the event that a caller of Enqueue appends. *)
OwedByAnyone(j) == owed[j]

(* Events that callers of Enqueue owe are theirs to append. *)
Unlogged(j) == owed[j] - Cardinality({c \in Callers : epc[c] = "log" /\ got[c] = j})

(* The event of a change, for a job that may be deleted by then.  An event  *)
(* that is lost, with its caller or to an error, is owed for ever.          *)
AppendEvent(j) ==
    /\ Unlogged(j) > 0
    /\ owed' = [owed EXCEPT ![j] = @ - 1]
    /\ events' = [events EXCEPT ![j] = @ + 1]
    /\ appended' = appended + 1
    /\ UNCHANGED <<clock, jobVars, pruneVars, callVars>>

-----------------------------------------------------------------------------
(* Retention *)

(* PruneWithSource reads the clock before it begins its transaction. *)
PruneStarts(s) ==
    /\ started[s] = NullTime
    /\ Len(runs) + Cardinality({r \in Sources : started[r] # NullTime}) < MaxRuns
    /\ started' = [started EXCEPT ![s] = clock]
    /\ UNCHANGED <<clock, jobVars, eventVars, runs, callVars>>

(* Mutant: whatever has not been updated for long is removed. *)
OldRows(s) == {j \in Stored : TextLess(updated[j], started[s] - MaxJobAge)}

(* state IN (completed, dead_letter, failed) AND updated_at < cutoff *)
OldTerminal(s) ==
    {j \in Jobs : state[j] \in Terminal /\ TextLess(updated[j], started[s] - MaxJobAge)}

(* Mutant: the trimmed events are not counted. *)
RemovedByAge(kept, trimmed) == SumFunction(events) - SumFunction(kept)

(* Both deletes count. *)
EventsRemoved(kept, trimmed) == SumFunction(events) - SumFunction(trimmed)

(* The transaction: old terminal jobs with their events, then the events   *)
(* beyond the cap of every job that has any, then the record of the run.   *)
PruneCommits(s) ==
    /\ started[s] # NullTime
    /\ \E policy \in Policies :
        LET gone    == IF "age" \in policy THEN OldTerminal(s) ELSE {}
            kept    == [j \in Jobs |-> IF j \in gone THEN 0 ELSE events[j]]
            trimmed == [j \in Jobs |-> IF "cap" \in policy /\ kept[j] > MaxEventsPerJob
                                       THEN MaxEventsPerJob ELSE kept[j]]
        IN  /\ policy # {}
            /\ state' = [j \in Jobs |-> IF j \in gone THEN "deleted" ELSE state[j]]
            /\ updated' = [j \in Jobs |-> IF j \in gone THEN 0 ELSE updated[j]]
            /\ events' = trimmed
            /\ runs' = Append(runs, [source |-> s, jobs |-> Cardinality(gone),
                                     events |-> EventsRemoved(kept, trimmed)])
    /\ started' = [started EXCEPT ![s] = NullTime]
    /\ UNCHANGED <<clock, key, owed, appended, callVars>>

(* An error rolls the transaction back.  A policy without limits returns   *)
(* before it begins.                                                       *)
PruneFails(s) ==
    /\ started[s] # NullTime
    /\ started' = [started EXCEPT ![s] = NullTime]
    /\ UNCHANGED <<clock, jobVars, eventVars, runs, callVars>>

Next ==
    \/ Tick
    \/ \E c \in Callers : Insert(c) \/ Conflict(c) \/ Find(c) \/ LogEnqueue(c)
    \/ \E j \in Jobs : Change(j) \/ AppendEvent(j)
    \/ \E s \in Sources : PruneStarts(s) \/ PruneCommits(s) \/ PruneFails(s)

Spec == Init /\ [][Next]_vars

-----------------------------------------------------------------------------
(* GetRetentionStats: the totals of one source. *)
RetentionStats(s) ==
    LET mine == {n \in DOMAIN runs : runs[n].source = s} IN
    [runs   |-> Cardinality(mine),
     jobs   |-> SumFunctionOnSet([n \in DOMAIN runs |-> runs[n].jobs], mine),
     events |-> SumFunctionOnSet([n \in DOMAIN runs |-> runs[n].events], mine)]

(* The sums that buildSummary shows. *)
Summary ==
    LET manual == RetentionStats("manual")
        auto   == RetentionStats("auto")
    IN  [runs |-> manual.runs + auto.runs, jobs |-> manual.jobs + auto.jobs,
         events |-> manual.events + auto.events]

-----------------------------------------------------------------------------
(* Properties *)

(* The totals that metrics and dashboard report are the rows that are gone: *)
(* however prunes of two sources, trims and late events interleave, every   *)
(* job and every event that was ever stored is either still there or        *)
(* counted once.                                                            *)
RemovedAddUp ==
    /\ Summary.runs = Len(runs)
    /\ Summary.jobs = Cardinality({j \in Jobs : state[j] = "deleted"})
    /\ Summary.events = appended - SumFunction(events)

(* "An idempotency key makes repeated enqueue calls return one durable     *)
(* job": two stored jobs never share a key, and two calls with one key     *)
(* that return different jobs have one between them that retention removed. *)
OneJobPerKey ==
    /\ \A i, j \in Stored : i # j /\ key[i] = key[j] => key[i] = NoKey
    /\ \A c, d \in Callers :
        got[c] \in Jobs /\ got[d] \in Jobs /\ got[c] # got[d] /\ ekey[c] = ekey[d]
            => ekey[c] = NoKey \/ state[got[c]] = "deleted" \/ state[got[d]] = "deleted"

(* Enqueue reports a conflict without a job only when retention removed    *)
(* the job between its two statements, and never returns a job of another  *)
(* key.                                                                    *)
ConflictHasHolder ==
    \A c \in Callers :
        /\ got[c] = Vanished => \E j \in Jobs : state[j] = "deleted" /\ key[j] = ekey[c]
        /\ got[c] \in Jobs => key[got[c]] = ekey[c]

(* Retention removes finished jobs only, also when one is requeued while   *)
(* the prune waits for its turn, and none before its age, except for the   *)
(* fraction of a second by which the texts mislead the comparison.         *)
OnlyOldTerminal ==
    [][\A j \in Jobs : state[j] # "deleted" /\ state'[j] = "deleted" =>
        /\ state[j] \in Terminal
        /\ updated[j] + MaxJobAge < clock + TicksPerSecond]_vars
=============================================================================
