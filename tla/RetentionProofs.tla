-------------------------- MODULE RetentionProofs --------------------------
(* Machine-checked proofs about Retention, for every number of jobs, keys  *)
(* and callers, every policy and every bound: what an idempotency key      *)
(* promises, what a prune may remove, and that what it reports is what is  *)
(* gone.                                                                   *)
EXTENDS Retention, CommonLemmas

(* A prune transaction deletes some of the old finished jobs. *)
LEMMA Removal ==
    ASSUME NEW s \in Sources, PruneCommits(s)
    PROVE  \E gone \in SUBSET OldTerminal(s) :
            /\ state' = [j \in Jobs |-> IF j \in gone THEN "deleted" ELSE state[j]]
            /\ updated' = [j \in Jobs |-> IF j \in gone THEN 0 ELSE updated[j]]
<1>1. PICK policy \in Policies :
        LET gone == IF "age" \in policy THEN OldTerminal(s) ELSE {}
        IN  /\ state' = [j \in Jobs |-> IF j \in gone THEN "deleted" ELSE state[j]]
            /\ updated' = [j \in Jobs |-> IF j \in gone THEN 0 ELSE updated[j]]
    BY DEF PruneCommits
<1> WITNESS (IF "age" \in policy THEN OldTerminal(s) ELSE {}) \in SUBSET OldTerminal(s)
<1> QED BY <1>1

(* Who holds a key and what a call of Enqueue has learnt of it.  A job     *)
(* keeps its key when it is deleted, so a call that met a conflict still   *)
(* finds a row or knows that retention removed it.                         *)
KeyInv ==
    /\ state \in [Jobs -> {"unborn", "live", "deleted"} \cup Terminal]
    /\ key \in [Jobs -> Keys \cup {NoKey}]
    /\ epc \in [Callers -> {"new", "find", "log", "done"}]
    /\ ekey \in [Callers -> Keys \cup {NoKey}]
    /\ got \in [Callers -> Jobs \cup {NoJob, Failed, Vanished}]
    /\ \A i, j \in Stored : i # j /\ key[i] = key[j] => key[i] = NoKey
    /\ \A c \in Callers :
        /\ epc[c] \in {"new", "find"} => got[c] = NoJob
        /\ epc[c] = "find" =>
            /\ ekey[c] # NoKey
            /\ \E j \in Jobs : state[j] # "unborn" /\ key[j] = ekey[c]
        /\ epc[c] = "log" => got[c] \in Jobs
        /\ got[c] \in Jobs => key[got[c]] = ekey[c] /\ state[got[c]] # "unborn"
        /\ got[c] = Vanished => \E j \in Jobs : state[j] = "deleted" /\ key[j] = ekey[c]

LEMMA KeyInit == Init => KeyInv
BY RetentionAssumption DEF Init, KeyInv, Stored, Terminal

(* A step that keeps the keys and the calls, stores no job and brings none *)
(* back keeps the invariant.                                               *)
LEMMA KeysKept ==
    ASSUME KeyInv, UNCHANGED <<key, callVars>>,
           state' \in [Jobs -> {"unborn", "live", "deleted"} \cup Terminal],
           \A j \in Jobs :
                /\ state'[j] = "unborn" <=> state[j] = "unborn"
                /\ state[j] = "deleted" => state'[j] = "deleted"
    PROVE  KeyInv'
<1> USE DEF KeyInv, callVars
<1>1. Stored' \subseteq Stored
    BY DEF Stored
<1>2. \A i, j \in Stored' : i # j /\ key'[i] = key'[j] => key'[i] = NoKey
    BY <1>1
<1>3. ASSUME NEW c \in Callers
      PROVE  /\ epc'[c] \in {"new", "find"} => got'[c] = NoJob
             /\ epc'[c] = "find" =>
                 /\ ekey'[c] # NoKey
                 /\ \E j \in Jobs : state'[j] # "unborn" /\ key'[j] = ekey'[c]
             /\ epc'[c] = "log" => got'[c] \in Jobs
             /\ got'[c] \in Jobs => key'[got'[c]] = ekey'[c] /\ state'[got'[c]] # "unborn"
             /\ got'[c] = Vanished => \E j \in Jobs : state'[j] = "deleted" /\ key'[j] = ekey'[c]
    <2>1. CASE epc[c] = "find"
        <3>1. PICK j \in Jobs : state[j] # "unborn" /\ key[j] = ekey[c]
            BY <2>1
        <3> QED BY <2>1, <3>1, RetentionAssumption
    <2>2. CASE epc[c] # "find" /\ got[c] = Vanished
        <3>1. PICK j \in Jobs : state[j] = "deleted" /\ key[j] = ekey[c]
            BY <2>2
        <3> QED BY <2>2, <3>1, RetentionAssumption
    <2>3. CASE epc[c] # "find" /\ got[c] # Vanished
        BY <2>3
    <2> QED BY <2>1, <2>2, <2>3
<1> QED BY <1>2, <1>3

(* Every step keeps the invariant of the keys. *)
LEMMA KeyStep == KeyInv /\ [Next]_vars => KeyInv'
<1> SUFFICES ASSUME KeyInv, [Next]_vars PROVE KeyInv'
    OBVIOUS
<1> USE RetentionAssumption
<1>1. CASE Tick
    BY <1>1, KeysKept DEF Tick, jobVars, KeyInv
<1>2. ASSUME NEW c \in Callers, Insert(c) PROVE KeyInv'
    <2>1. PICK j \in Jobs, k \in Keys \cup {NoKey} :
            /\ state[j] = "unborn"
            /\ \A i \in Jobs : ~HoldsKey(i, k)
            /\ state' = [state EXCEPT ![j] = "live"]
            /\ key' = [key EXCEPT ![j] = k]
            /\ ekey' = [ekey EXCEPT ![c] = k]
            /\ got' = [got EXCEPT ![c] = j]
        BY <1>2 DEF Insert
    <2>2. epc[c] = "new" /\ epc' = [epc EXCEPT ![c] = "log"]
        BY <1>2 DEF Insert
    <2>3. Stored' = Stored \cup {j} /\ j \notin Stored
        BY <2>1 DEF Stored, KeyInv
    <2>4. \A i \in Stored : i # j /\ key'[i] = key[i] /\ (key[i] = k => k = NoKey)
        BY <2>1, <2>3 DEF HoldsKey, KeyInv, Stored
    <2>5. \A i, h \in Stored' : i # h /\ key'[i] = key'[h] => key'[i] = NoKey
        BY <2>1, <2>3, <2>4 DEF KeyInv
    <2>6. ASSUME NEW d \in Callers, d # c
          PROVE  /\ epc'[d] = epc[d] /\ ekey'[d] = ekey[d] /\ got'[d] = got[d]
                 /\ got[d] \in Jobs => got[d] # j
        BY <2>1, <2>2, <2>6 DEF KeyInv
    <2>7. ASSUME NEW d \in Callers
          PROVE  /\ epc'[d] \in {"new", "find"} => got'[d] = NoJob
                 /\ epc'[d] = "find" =>
                     /\ ekey'[d] # NoKey
                     /\ \E i \in Jobs : state'[i] # "unborn" /\ key'[i] = ekey'[d]
                 /\ epc'[d] = "log" => got'[d] \in Jobs
                 /\ got'[d] \in Jobs => key'[got'[d]] = ekey'[d] /\ state'[got'[d]] # "unborn"
                 /\ got'[d] = Vanished =>
                     \E i \in Jobs : state'[i] = "deleted" /\ key'[i] = ekey'[d]
        <3>1. CASE d = c
            BY <2>1, <2>2, <3>1 DEF KeyInv
        <3>2. CASE d # c
            <4>1. \A i \in Jobs : state[i] # "unborn" => state'[i] = state[i] /\ key'[i] = key[i]
                BY <2>1 DEF KeyInv
            <4> QED BY <2>6, <3>2, <4>1 DEF KeyInv
        <3> QED BY <3>1, <3>2
    <2> QED BY <2>1, <2>2, <2>5, <2>7 DEF KeyInv
<1>3. ASSUME NEW c \in Callers, Conflict(c) PROVE KeyInv'
    <2>1. PICK k \in Keys :
            /\ \E i \in Jobs : HoldsKey(i, k)
            /\ ekey' = [ekey EXCEPT ![c] = k]
        BY <1>3 DEF Conflict
    <2>2. \E i \in Jobs : state[i] # "unborn" /\ key[i] = k
        BY <2>1 DEF HoldsKey, Stored
    <2>3. epc[c] = "new" /\ epc' = [epc EXCEPT ![c] = "find"] /\ UNCHANGED <<jobVars, got>>
        BY <1>3 DEF Conflict
    <2>4. Stored' = Stored
        BY <2>3 DEF Stored, jobVars
    <2> QED BY <2>1, <2>2, <2>3, <2>4 DEF KeyInv, jobVars
<1>4. ASSUME NEW c \in Callers, Find(c) PROVE KeyInv'
    <2>1. epc[c] = "find" /\ epc' = [epc EXCEPT ![c] = "done"] /\ UNCHANGED <<jobVars, ekey>>
        BY <1>4 DEF Find
    <2>2. Stored' = Stored
        BY <2>1 DEF Stored, jobVars
    <2>3. CASE \E j \in Found(c) : got' = [got EXCEPT ![c] = j]
        BY <2>1, <2>2, <2>3 DEF KeyInv, jobVars, Found, HoldsKey, Stored
    <2>4. CASE Found(c) = {} /\ got' = [got EXCEPT ![c] = Vanished]
        <3>1. PICK j \in Jobs : state[j] # "unborn" /\ key[j] = ekey[c]
            BY <2>1 DEF KeyInv
        <3>2. state[j] = "deleted"
            BY <2>1, <2>4, <3>1 DEF KeyInv, Found, HoldsKey, Stored
        <3> QED BY <2>1, <2>2, <2>4, <3>1, <3>2 DEF KeyInv, jobVars
    <2>5. CASE UNCHANGED got
        BY <2>1, <2>2, <2>5 DEF KeyInv, jobVars
    <2> QED BY <1>4, <2>3, <2>4, <2>5 DEF Find
<1>5. ASSUME NEW c \in Callers, LogEnqueue(c) PROVE KeyInv'
    <2>1. /\ epc[c] = "log" /\ epc' = [epc EXCEPT ![c] = "done"] /\ UNCHANGED <<jobVars, ekey>>
          /\ \/ got' = got
             \/ got' = [got EXCEPT ![c] = Failed]
        BY <1>5 DEF LogEnqueue
    <2>2. Stored' = Stored
        BY <2>1 DEF Stored, jobVars
    <2> QED BY <2>1, <2>2 DEF KeyInv, jobVars
<1>6. ASSUME NEW j \in Jobs, Change(j) PROVE KeyInv'
    <2>1. PICK s \in {"live"} \cup Terminal :
            <<state[j], s>> \in Moves /\ state' = [state EXCEPT ![j] = s]
        BY <1>6 DEF Change
    <2>2. state[j] \notin {"unborn", "deleted"} /\ s \notin {"unborn", "deleted"}
        BY <2>1 DEF Moves, Terminal
    <2> QED BY <1>6, <2>1, <2>2, KeysKept DEF Change, KeyInv
<1>7. ASSUME NEW j \in Jobs, AppendEvent(j) PROVE KeyInv'
    BY <1>7, KeysKept DEF AppendEvent, jobVars, KeyInv
<1>8. ASSUME NEW s \in Sources, PruneStarts(s) \/ PruneFails(s) PROVE KeyInv'
    BY <1>8, KeysKept DEF PruneStarts, PruneFails, jobVars, KeyInv
<1>9. ASSUME NEW s \in Sources, PruneCommits(s) PROVE KeyInv'
    <2>1. PICK gone \in SUBSET OldTerminal(s) :
            state' = [j \in Jobs |-> IF j \in gone THEN "deleted" ELSE state[j]]
        BY <1>9, Removal
    <2>2. \A j \in gone : state[j] # "unborn"
        BY <2>1 DEF OldTerminal, Terminal
    <2> QED BY <1>9, <2>1, <2>2, KeysKept DEF PruneCommits, KeyInv
<1>10. CASE UNCHANGED vars
    BY <1>10, KeysKept DEF vars, jobVars, KeyInv
<1> QED BY <1>1, <1>2, <1>3, <1>4, <1>5, <1>6, <1>7, <1>8, <1>9, <1>10 DEF Next

LEMMA KeyInvariant == Spec => []KeyInv
BY KeyInit, KeyStep, PTL DEF Spec

(* Calls of Enqueue with one key return one stored job, whatever retention *)
(* and the other calls do in between: no two stored jobs share a key, and  *)
(* two results differ only if retention removed one of them.               *)
THEOREM OneJobPerKeyHolds == Spec => []OneJobPerKey
<1>1. KeyInv => OneJobPerKey
    <2> SUFFICES ASSUME KeyInv,
                        NEW c \in Callers, NEW d \in Callers,
                        got[c] \in Jobs, got[d] \in Jobs, got[c] # got[d], ekey[c] = ekey[d],
                        state[got[c]] # "deleted", state[got[d]] # "deleted"
                 PROVE  ekey[c] = NoKey
        BY DEF KeyInv, OneJobPerKey
    <2>1. got[c] \in Stored /\ got[d] \in Stored
        BY DEF KeyInv, Stored
    <2>2. key[got[c]] = ekey[c] /\ key[got[d]] = ekey[c]
        BY DEF KeyInv
    <2> QED BY <2>1, <2>2 DEF KeyInv
<1> QED BY KeyInvariant, <1>1, PTL

(* A conflict without a job is reported only of a key whose job retention  *)
(* removed, and no call returns a job of another key.                      *)
THEOREM ConflictHasHolderHolds == Spec => []ConflictHasHolder
<1>1. KeyInv => ConflictHasHolder
    BY DEF KeyInv, ConflictHasHolder
<1> QED BY KeyInvariant, <1>1, PTL

-----------------------------------------------------------------------------

(* What a running prune knows of the time is past. *)
AgeInv ==
    /\ clock \in Nat
    /\ state \in [Jobs -> {"unborn", "live", "deleted"} \cup Terminal]
    /\ updated \in [Jobs -> Nat]
    /\ started \in [Sources -> Nat \cup {NullTime}]
    /\ \A s \in Sources : started[s] <= clock

LEMMA AgeInit == Init => AgeInv
BY DEF Init, AgeInv, NullTime

(* Every step keeps it: the clock only advances. *)
LEMMA AgeStep == AgeInv /\ [Next]_vars => AgeInv'
<1> SUFFICES ASSUME AgeInv, [Next]_vars PROVE AgeInv'
    OBVIOUS
<1> USE DEF AgeInv, jobVars, pruneVars, NullTime
<1>1. CASE Tick
    BY <1>1 DEF Tick
<1>2. ASSUME NEW c \in Callers, Insert(c) PROVE AgeInv'
    BY <1>2 DEF Insert
<1>3. ASSUME NEW c \in Callers, Conflict(c) \/ Find(c) \/ LogEnqueue(c) PROVE AgeInv'
    BY <1>3 DEF Conflict, Find, LogEnqueue
<1>4. ASSUME NEW j \in Jobs, Change(j) PROVE AgeInv'
    BY <1>4 DEF Change
<1>5. ASSUME NEW j \in Jobs, AppendEvent(j) PROVE AgeInv'
    BY <1>5 DEF AppendEvent
<1>6. ASSUME NEW s \in Sources, PruneStarts(s) \/ PruneFails(s) PROVE AgeInv'
    <2>1. \E t \in {clock, NullTime} : started' = [started EXCEPT ![s] = t]
        BY <1>6 DEF PruneStarts, PruneFails
    <2>2. UNCHANGED <<clock, state, updated>>
        BY <1>6 DEF PruneStarts, PruneFails
    <2> QED BY <2>1, <2>2
<1>7. ASSUME NEW s \in Sources, PruneCommits(s) PROVE AgeInv'
    <2>1. PICK gone \in SUBSET OldTerminal(s) :
            /\ state' = [j \in Jobs |-> IF j \in gone THEN "deleted" ELSE state[j]]
            /\ updated' = [j \in Jobs |-> IF j \in gone THEN 0 ELSE updated[j]]
        BY <1>7, Removal
    <2> QED BY <1>7, <2>1 DEF PruneCommits
<1>8. CASE UNCHANGED vars
    BY <1>8 DEF vars
<1> QED BY <1>1, <1>2, <1>3, <1>4, <1>5, <1>6, <1>7, <1>8 DEF Next

(* A job that a prune may select is finished and, up to a second, as old   *)
(* as the policy says, by the clock of the commit too.                     *)
LEMMA OldEnough ==
    ASSUME AgeInv, NEW s \in Sources, NEW j \in OldTerminal(s)
    PROVE  state[j] \in Terminal /\ updated[j] + MaxJobAge < clock + TicksPerSecond
<1>1. updated[j] \in Int /\ started[s] \in Int /\ started[s] <= clock /\ MaxJobAge \in Int
    BY RetentionAssumption DEF AgeInv, OldTerminal, NullTime
<1>2. TextLeq(updated[j], started[s] - MaxJobAge)
    BY <1>1, TextLessIsLeq DEF OldTerminal
<1>3. updated[j] < started[s] - MaxJobAge + TicksPerSecond
    BY <1>1, <1>2, TextOrder
<1> QED BY <1>1, <1>3, TicksAssumption DEF OldTerminal, AgeInv

(* Retention removes nothing but finished jobs, and none before its age,   *)
(* although the prune reads the clock before it may write and jobs are     *)
(* requeued meanwhile.                                                     *)
THEOREM OnlyOldTerminalHolds == Spec => OnlyOldTerminal
<1> DEFINE Step ==
        \A j \in Jobs : state[j] # "deleted" /\ state'[j] = "deleted" =>
            /\ state[j] \in Terminal
            /\ updated[j] + MaxJobAge < clock + TicksPerSecond
<1>1. AgeInv /\ [Next]_vars => [Step]_vars
    <2> SUFFICES ASSUME AgeInv, Next,
                        NEW j \in Jobs, state[j] # "deleted", state'[j] = "deleted"
                 PROVE  state[j] \in Terminal /\ updated[j] + MaxJobAge < clock + TicksPerSecond
        OBVIOUS
    <2>1. ASSUME NEW s \in Sources, PruneCommits(s) PROVE j \in OldTerminal(s)
        <3>1. PICK gone \in SUBSET OldTerminal(s) :
                state' = [i \in Jobs |-> IF i \in gone THEN "deleted" ELSE state[i]]
            BY <2>1, Removal
        <3> QED BY <3>1
    <2>2. ASSUME NEW c \in Callers, Insert(c) PROVE FALSE
        BY <2>2 DEF Insert, AgeInv
    <2>3. ASSUME NEW i \in Jobs, Change(i) PROVE FALSE
        BY <2>3 DEF Change, AgeInv, Terminal
    <2>4. \E s \in Sources : PruneCommits(s)
        BY <2>2, <2>3 DEF Next, Tick, Conflict, Find, LogEnqueue, AppendEvent, PruneStarts,
           PruneFails, jobVars
    <2> QED BY <2>1, <2>4, OldEnough
<1> QED BY AgeInit, AgeStep, <1>1, PTL DEF Spec, OnlyOldTerminal

-----------------------------------------------------------------------------

(* One more element in a sum. *)
LEMMA SumAdd ==
    ASSUME NEW f, NEW g, NEW S, IsFiniteSet(S), NEW x, x \notin S,
           \A y \in S : f[y] = g[y], \A y \in S \cup {x} : g[y] \in Nat
    PROVE  SumFunctionOnSet(g, S \cup {x}) = SumFunctionOnSet(f, S) + g[x]
<1>1. IsFiniteSet(S \cup {x}) /\ (S \cup {x}) \ {x} = S
    BY FS_AddElement
<1>2. SumFunctionOnSet(g, S \cup {x}) = g[x] + SumFunctionOnSet(g, S)
    BY <1>1, SumRemove
<1>3. SumFunctionOnSet(g, S) = SumFunctionOnSet(f, S) /\ SumFunctionOnSet(g, S) \in Nat
    BY SumEqual, SumType
<1> QED BY <1>2, <1>3

Run == [source: Sources, jobs: Nat, events: Nat]

(* The totals of one source are numbers, and a run adds to those of its    *)
(* source alone.                                                           *)
LEMMA StatsOfSource ==
    ASSUME NEW s \in Sources, runs \in Seq(Run)
    PROVE  /\ RetentionStats(s).runs \in Nat
           /\ RetentionStats(s).jobs \in Nat
           /\ RetentionStats(s).events \in Nat
<1> DEFINE mine == {n \in DOMAIN runs : runs[n].source = s}
<1>1. IsFiniteSet(mine)
    BY FS_Interval, FS_Subset
<1>2. Cardinality(mine) \in Nat
    BY <1>1, FS_CardinalityType
<1>3. \A n \in DOMAIN runs : runs[n] \in Run
    OBVIOUS
<1>4. \A n \in mine : /\ [i \in DOMAIN runs |-> runs[i].jobs][n] \in Nat
                      /\ [i \in DOMAIN runs |-> runs[i].events][n] \in Nat
    BY <1>3 DEF Run
<1>5. /\ SumFunctionOnSet([n \in DOMAIN runs |-> runs[n].jobs], mine) \in Nat
      /\ SumFunctionOnSet([n \in DOMAIN runs |-> runs[n].events], mine) \in Nat
    BY <1>1, <1>4, SumType
<1> QED BY <1>2, <1>5 DEF RetentionStats

LEMMA StatsAfterRun ==
    ASSUME runs \in Seq(Run), NEW r \in Run, runs' = Append(runs, r), NEW s \in Sources
    PROVE  RetentionStats(s)' =
            IF r.source = s
            THEN [runs   |-> RetentionStats(s).runs + 1,
                  jobs   |-> RetentionStats(s).jobs + r.jobs,
                  events |-> RetentionStats(s).events + r.events]
            ELSE RetentionStats(s)
<1> DEFINE mine == {n \in DOMAIN runs : runs[n].source = s}
           last == Len(runs) + 1
           jobs == [n \in DOMAIN runs |-> runs[n].jobs]
           removed == [n \in DOMAIN runs |-> runs[n].events]
<1>1. IsFiniteSet(mine)
    BY FS_Interval, FS_Subset
<1>2. /\ DOMAIN runs = 1..Len(runs) /\ DOMAIN runs' = DOMAIN runs \cup {last}
      /\ last \notin DOMAIN runs /\ runs'[last] = r
      /\ \A n \in DOMAIN runs : runs'[n] = runs[n] /\ runs[n] \in Run
    OBVIOUS
<1>3. \A n \in DOMAIN runs : runs[n].jobs \in Nat /\ runs[n].events \in Nat
    BY <1>2 DEF Run
<1>4. r.jobs \in Nat /\ r.events \in Nat
    BY DEF Run
<1>5. /\ \A n \in DOMAIN runs : jobs'[n] = jobs[n] /\ jobs'[n] \in Nat
      /\ \A n \in DOMAIN runs : removed'[n] = removed[n] /\ removed'[n] \in Nat
      /\ jobs'[last] = r.jobs /\ removed'[last] = r.events
    BY <1>2, <1>3
<1> HIDE DEF jobs, removed, last
<1>6. CASE r.source = s
    <2>1. mine' = mine \cup {last} /\ last \notin mine
        BY <1>2, <1>6
    <2>2. Cardinality(mine') = Cardinality(mine) + 1
        BY <1>1, <2>1, FS_AddElement
    <2>3. /\ \A n \in mine : jobs[n] = jobs'[n] /\ removed[n] = removed'[n]
          /\ \A n \in mine \cup {last} : jobs'[n] \in Nat /\ removed'[n] \in Nat
        BY <1>4, <1>5
    <2> HIDE DEF mine
    <2>4. SumFunctionOnSet(jobs', mine \cup {last}) = SumFunctionOnSet(jobs, mine) + jobs'[last]
        BY <1>1, <2>1, <2>3, SumAdd
    <2>5. SumFunctionOnSet(removed', mine \cup {last})
            = SumFunctionOnSet(removed, mine) + removed'[last]
        BY <1>1, <2>1, <2>3, SumAdd
    <2> QED BY <1>5, <1>6, <2>1, <2>2, <2>4, <2>5 DEF RetentionStats, jobs, removed, mine
<1>7. CASE r.source # s
    <2>1. mine' = mine
        BY <1>2, <1>7
    <2>2. \A n \in mine : jobs'[n] = jobs[n] /\ removed'[n] = removed[n]
        BY <1>5
    <2>3. /\ SumFunctionOnSet(jobs', mine) = SumFunctionOnSet(jobs, mine)
          /\ SumFunctionOnSet(removed', mine) = SumFunctionOnSet(removed, mine)
        <3> HIDE DEF mine
        <3> QED BY <1>1, <2>2, SumEqual
    <2> QED BY <1>7, <2>1, <2>3 DEF RetentionStats, jobs, removed
<1> QED BY <1>6, <1>7

(* What a run removed is added to what the summary shows, once. *)
LEMMA SummaryAfterRun ==
    ASSUME NEW r \in Run
    PROVE  runs \in Seq(Run) /\ runs' = Append(runs, r) =>
            /\ Summary.runs' = Summary.runs + 1
            /\ Summary.jobs' = Summary.jobs + r.jobs
            /\ Summary.events' = Summary.events + r.events
<1>1. SUFFICES ASSUME runs \in Seq(Run), runs' = Append(runs, r)
               PROVE  /\ Summary.runs' = Summary.runs + 1
                      /\ Summary.jobs' = Summary.jobs + r.jobs
                      /\ Summary.events' = Summary.events + r.events
    OBVIOUS
<1>2. PICK a \in Sources, b \in Sources : r.source = a /\ a # b
    BY DEF Sources, Run
<1>3. r.jobs \in Nat /\ r.events \in Nat
    BY DEF Run
<1>4. \A s \in Sources : /\ RetentionStats(s).runs \in Nat
                         /\ RetentionStats(s).jobs \in Nat
                         /\ RetentionStats(s).events \in Nat
    BY <1>1, StatsOfSource
<1>5. /\ RetentionStats(a)'.runs = RetentionStats(a).runs + 1
      /\ RetentionStats(a)'.jobs = RetentionStats(a).jobs + r.jobs
      /\ RetentionStats(a)'.events = RetentionStats(a).events + r.events
    BY <1>1, <1>2, StatsAfterRun
<1>6. RetentionStats(b)' = RetentionStats(b)
    BY <1>1, <1>2, StatsAfterRun
<1>7. /\ Summary.runs = RetentionStats(a).runs + RetentionStats(b).runs
      /\ Summary.jobs = RetentionStats(a).jobs + RetentionStats(b).jobs
      /\ Summary.events = RetentionStats(a).events + RetentionStats(b).events
    BY <1>2, <1>4 DEF Summary, Sources
<1>8. /\ Summary'.runs = RetentionStats(a)'.runs + RetentionStats(b)'.runs
      /\ Summary'.jobs = RetentionStats(a)'.jobs + RetentionStats(b)'.jobs
      /\ Summary'.events = RetentionStats(a)'.events + RetentionStats(b)'.events
    <2>1. CASE a = "manual" /\ b = "auto"
        BY <2>1 DEF Summary
    <2>2. CASE a = "auto" /\ b = "manual"
        BY <1>3, <1>4, <1>5, <1>6, <2>2 DEF Summary
    <2> QED BY <1>2, <2>1, <2>2 DEF Sources
<1> QED BY <1>3, <1>4, <1>5, <1>6, <1>7, <1>8

Deleted == {j \in Jobs : state[j] = "deleted"}

(* The types, who still owes the event of an Enqueue, and the balance of    *)
(* what is gone and what the runs have recorded.                            *)
CountInv ==
    /\ TypeOK
    /\ KeyInv
    /\ \A c \in Callers : epc[c] = "log" => owed[got[c]] > 0
    /\ \A c, d \in Callers : c # d /\ epc[c] = "log" /\ epc[d] = "log" => got[c] # got[d]
    /\ RemovedAddUp

LEMMA CountInit == Init => CountInv
<1> SUFFICES ASSUME Init PROVE CountInv
    OBVIOUS
<1>1. TypeOK
    BY DEF Init, TypeOK, NullTime
<1>2. ASSUME NEW s \in Sources
      PROVE  RetentionStats(s) = [runs |-> 0, jobs |-> 0, events |-> 0]
    <2>1. {n \in DOMAIN runs : runs[n].source = s} = {}
        BY DEF Init
    <2> QED BY <2>1, SumEmpty, FS_EmptySet DEF RetentionStats
<1>3. Summary.runs = 0 /\ Summary.jobs = 0 /\ Summary.events = 0
    BY <1>2 DEF Summary, Sources
<1>4. Cardinality({j \in Jobs : state[j] = "deleted"}) = 0
    <2>1. {j \in Jobs : state[j] = "deleted"} = {}
        BY DEF Init
    <2> QED BY <2>1, FS_EmptySet
<1>5. SumFunction(events) = 0
    <2>1. DOMAIN events = Jobs /\ \A j \in Jobs : events[j] = 0
        BY DEF Init
    <2> DEFINE F == {T \in SUBSET Jobs : SumFunctionOnSet(events, T) = 0}
    <2>2. ASSUME NEW T \in SUBSET Jobs, \A x \in T : T \ {x} \in F PROVE T \in F
        <3>1. CASE T = {}
            BY <3>1, SumEmpty
        <3>2. CASE T # {}
            <4>1. IsFiniteSet(T)
                BY RetentionAssumption, FS_Subset
            <4>2. PICK x \in T :
                    SumFunctionOnSet(events, T) = events[x] + SumFunctionOnSet(events, T \ {x})
                BY <3>2, <4>1, SumPick
            <4> QED BY <2>1, <2>2, <4>2
        <3> QED BY <3>1, <3>2
    <2>3. Jobs \in F
        <3> HIDE DEF F
        <3> QED BY <2>2, AllFiniteSets, RetentionAssumption
    <2> QED BY <2>1, <2>3 DEF SumFunction
<1>6. RemovedAddUp
    BY <1>3, <1>4, <1>5 DEF RemovedAddUp, Init
<1> QED BY <1>1, <1>6, KeyInit DEF CountInv, Init

(* The balance, where no run is recorded and no job deleted. *)
LEMMA BalanceKept ==
    ASSUME RemovedAddUp, UNCHANGED runs, Deleted' = Deleted,
           appended' - SumFunction(events)' = appended - SumFunction(events)
    PROVE  RemovedAddUp'
<1>1. Summary' = Summary
    BY DEF Summary, RetentionStats
<1> QED BY <1>1 DEF RemovedAddUp, Deleted

(* An event that is appended is stored. *)
LEMMA BalanceOfAppend ==
    ASSUME TypeOK, NEW j \in Jobs, events' = [events EXCEPT ![j] = @ + 1], appended' = appended + 1
    PROVE  appended' - SumFunction(events)' = appended - SumFunction(events)
<1>1. events \in [Jobs -> Nat] /\ events[j] \in Nat /\ appended \in Nat
    BY DEF TypeOK
<1>2. SumFunction(events') = SumFunction(events) - events[j] + (events[j] + 1)
    <2>1. events' = [events EXCEPT ![j] = events[j] + 1] /\ events[j] + 1 \in Nat
        BY <1>1
    <2>2. IsFiniteSet(Jobs)
        BY RetentionAssumption
    <2>3. ASSUME NEW v \in Nat
          PROVE  SumFunction([events EXCEPT ![j] = v]) = SumFunction(events) - events[j] + v
        BY <1>1, <2>2, SumExcept
    <2> QED BY <2>1, <2>3
<1>3. SumFunction(events) \in Nat
    BY <1>1, SumType, RetentionAssumption DEF SumFunction
<1> QED BY <1>1, <1>2, <1>3

(* The transaction of a prune records what it removes. *)
LEMMA BalanceOfPrune ==
    ASSUME TypeOK, RemovedAddUp, NEW s \in Sources, PruneCommits(s)
    PROVE  TypeOK' /\ RemovedAddUp'
<1>1. PICK policy \in Policies :
        LET gone    == IF "age" \in policy THEN OldTerminal(s) ELSE {}
            kept    == [j \in Jobs |-> IF j \in gone THEN 0 ELSE events[j]]
            trimmed == [j \in Jobs |-> IF "cap" \in policy /\ kept[j] > MaxEventsPerJob
                                       THEN MaxEventsPerJob ELSE kept[j]]
        IN  /\ state' = [j \in Jobs |-> IF j \in gone THEN "deleted" ELSE state[j]]
            /\ updated' = [j \in Jobs |-> IF j \in gone THEN 0 ELSE updated[j]]
            /\ events' = trimmed
            /\ runs' = Append(runs, [source |-> s, jobs |-> Cardinality(gone),
                                     events |-> EventsRemoved(kept, trimmed)])
    BY DEF PruneCommits
<1> DEFINE gone == IF "age" \in policy THEN OldTerminal(s) ELSE {}
           kept == [j \in Jobs |-> IF j \in gone THEN 0 ELSE events[j]]
           r == [source |-> s, jobs |-> Cardinality(gone),
                 events |-> SumFunction(events) - SumFunction(events')]
<1>2. gone \subseteq Jobs /\ gone \cap Deleted = {}
    BY DEF OldTerminal, Deleted, Terminal
<1>3. /\ started[s] # NullTime /\ started' = [started EXCEPT ![s] = NullTime]
      /\ UNCHANGED <<clock, key, owed, appended, epc, ekey, got>>
    BY DEF PruneCommits, callVars
<1>4. state' = [j \in Jobs |-> IF j \in gone THEN "deleted" ELSE state[j]]
    BY <1>1
<1>5. runs' = Append(runs, r)
    BY <1>1 DEF EventsRemoved
<1>6. events' \in [Jobs -> Nat] /\ \A j \in Jobs : events'[j] <= events[j]
    BY <1>1, RetentionAssumption DEF TypeOK
<1>7. IsFiniteSet(Jobs) /\ IsFiniteSet(gone) /\ IsFiniteSet(Deleted)
    BY <1>2, FS_Subset, RetentionAssumption DEF Deleted
<1>8. /\ SumFunction(events) \in Nat /\ SumFunction(events') \in Nat
      /\ SumFunction(events') <= SumFunction(events)
    <2>1. DOMAIN events = Jobs /\ DOMAIN events' = Jobs
        BY <1>6 DEF TypeOK
    <2>2. \A j \in Jobs : events[j] \in Nat /\ events'[j] \in Nat
        BY <1>6 DEF TypeOK
    <2> QED BY <1>6, <1>7, <2>1, <2>2, SumType, SumMonotone DEF SumFunction
<1>9. r \in Run
    BY <1>7, <1>8, FS_CardinalityType DEF Run
<1>10. TypeOK'
    <2>1. runs' \in Seq(Run)
        BY <1>5, <1>9 DEF TypeOK, Run
    <2>2. state' \in [Jobs -> {"unborn", "live", "deleted"} \cup Terminal]
        BY <1>4 DEF TypeOK
    <2>3. updated' \in [Jobs -> Nat]
        BY <1>1 DEF TypeOK
    <2> QED BY <1>3, <1>6, <2>1, <2>2, <2>3 DEF TypeOK, Run
<1>11. Deleted' = Deleted \cup gone
    BY <1>2, <1>4 DEF Deleted
<1>12. Cardinality(Deleted') = Cardinality(Deleted) + Cardinality(gone)
    <2>1. Cardinality(Deleted \cup gone)
            = Cardinality(Deleted) + Cardinality(gone) - Cardinality(Deleted \cap gone)
        <3> HIDE DEF gone
        <3> QED BY <1>7, FS_Union
    <2>2. Deleted \cap gone = {}
        BY <1>2
    <2>3. Cardinality(Deleted) \in Nat /\ Cardinality(gone) \in Nat
        BY <1>7, FS_CardinalityType
    <2> HIDE DEF gone
    <2> QED BY <1>11, <2>1, <2>2, <2>3, FS_EmptySet
<1>13. /\ Summary.runs' = Summary.runs + 1
       /\ Summary.jobs' = Summary.jobs + Cardinality(gone)
       /\ Summary.events' = Summary.events + (SumFunction(events) - SumFunction(events'))
    <2>1. runs \in Seq(Run)
        BY DEF TypeOK, Run
    <2> QED BY <1>5, <1>9, <2>1, SummaryAfterRun
<1>14. Len(runs') = Len(runs) + 1
    BY <1>5 DEF TypeOK
<1>15. appended \in Nat /\ appended' = appended
    BY <1>3 DEF TypeOK
<1>16. /\ Summary.runs = Len(runs) /\ Summary.jobs = Cardinality(Deleted)
       /\ Summary.events = appended - SumFunction(events)
    BY DEF RemovedAddUp, Deleted
<1>17. Summary.runs' = Len(runs')
    BY <1>13, <1>14, <1>16
<1>18. Summary.jobs' = Cardinality(Deleted')
    BY <1>12, <1>13, <1>16
<1>19. Summary.events' = appended' - SumFunction(events')
    <2> HIDE DEF r
    <2> QED BY <1>8, <1>13, <1>15, <1>16
<1> QED BY <1>10, <1>17, <1>18, <1>19 DEF RemovedAddUp, Deleted

LEMMA CountStep == CountInv /\ [Next]_vars => CountInv'
<1> SUFFICES ASSUME CountInv, [Next]_vars PROVE CountInv'
    OBVIOUS
<1> USE DEF jobVars, eventVars, pruneVars, callVars
<1>1. KeyInv'
    BY KeyStep DEF CountInv
<1>2. /\ clock \in Nat /\ key \in [Jobs -> Keys \cup {NoKey}]
      /\ state \in [Jobs -> {"unborn", "live", "deleted"} \cup Terminal]
      /\ updated \in [Jobs -> Nat]
      /\ events \in [Jobs -> Nat] /\ owed \in [Jobs -> Nat] /\ appended \in Nat
      /\ runs \in Seq([source: Sources, jobs: Nat, events: Nat])
      /\ started \in [Sources -> Nat \cup {NullTime}]
      /\ epc \in [Callers -> {"new", "find", "log", "done"}]
      /\ got \in [Callers -> Jobs \cup {NoJob, Failed, Vanished}]
    BY DEF CountInv, TypeOK
<1>3. /\ epc' \in [Callers -> {"new", "find", "log", "done"}]
      /\ ekey' \in [Callers -> Keys \cup {NoKey}]
      /\ got' \in [Callers -> Jobs \cup {NoJob, Failed, Vanished}]
      /\ state' \in [Jobs -> {"unborn", "live", "deleted"} \cup Terminal]
      /\ key' \in [Jobs -> Keys \cup {NoKey}]
    BY <1>1 DEF KeyInv
<1>4. \A c \in Callers : epc[c] = "log" => got[c] \in Jobs /\ owed[got[c]] > 0
    BY DEF CountInv, KeyInv
<1>5. \A c, d \in Callers : c # d /\ epc[c] = "log" /\ epc[d] = "log" => got[c] # got[d]
    BY DEF CountInv
<1> DEFINE Debts ==
        /\ \A c \in Callers : epc[c] = "log" => owed[got[c]] > 0
        /\ \A c, d \in Callers : c # d /\ epc[c] = "log" /\ epc[d] = "log" => got[c] # got[d]
<1>6. CASE Tick
    <2>1. TypeOK'
        BY <1>6, <1>2, <1>3 DEF Tick, TypeOK
    <2>2. RemovedAddUp'
        BY <1>6, BalanceKept DEF Tick, CountInv, Deleted
    <2> QED BY <1>6, <1>1, <2>1, <2>2, <1>4, <1>5 DEF CountInv, Tick
<1>7. ASSUME NEW c \in Callers, Insert(c) PROVE CountInv'
    <2>1. PICK j \in Jobs, k \in Keys \cup {NoKey} :
            /\ state[j] = "unborn"
            /\ state' = [state EXCEPT ![j] = "live"]
            /\ owed' = [owed EXCEPT ![j] = @ + 1]
            /\ got' = [got EXCEPT ![c] = j]
        BY <1>7 DEF Insert
    <2>2. epc' = [epc EXCEPT ![c] = "log"] /\ UNCHANGED <<clock, updated, events, appended, runs, started>>
        BY <1>7 DEF Insert
    <2>3. TypeOK'
        BY <1>2, <1>3, <2>1, <2>2 DEF TypeOK
    <2>4. Deleted' = Deleted
        BY <1>2, <2>1 DEF Deleted
    <2>5. RemovedAddUp'
        BY <2>2, <2>4, BalanceKept DEF CountInv
    <2>6. \A d \in Callers : epc[d] = "log" => got[d] # j
        BY <2>1 DEF CountInv, KeyInv
    <2>7. Debts'
        BY <1>2, <1>4, <1>5, <2>1, <2>2, <2>6
    <2> QED BY <1>1, <2>3, <2>5, <2>7 DEF CountInv
<1>8. ASSUME NEW c \in Callers, Conflict(c) \/ Find(c) PROVE CountInv'
    <2>1. /\ UNCHANGED <<clock, jobVars, eventVars, pruneVars>>
          /\ epc[c] # "log" /\ \E p \in {"find", "done"} : epc' = [epc EXCEPT ![c] = p]
          /\ \A d \in Callers : d # c => got'[d] = got[d]
        BY <1>8, <1>2 DEF Conflict, Find
    <2>2. TypeOK'
        BY <1>2, <1>3, <2>1 DEF TypeOK
    <2>3. RemovedAddUp'
        BY <2>1, BalanceKept DEF CountInv, Deleted
    <2>4. Debts'
        BY <1>2, <1>4, <1>5, <2>1
    <2> QED BY <1>1, <2>2, <2>3, <2>4 DEF CountInv
<1>9. ASSUME NEW c \in Callers, LogEnqueue(c) PROVE CountInv'
    <2>1. /\ epc[c] = "log" /\ epc' = [epc EXCEPT ![c] = "done"]
          /\ owed' = [owed EXCEPT ![got[c]] = @ - 1]
          /\ UNCHANGED <<clock, jobVars, pruneVars, ekey>>
          /\ \A d \in Callers : d # c => got'[d] = got[d]
        BY <1>9, <1>2 DEF LogEnqueue
    <2>2. got[c] \in Jobs /\ owed[got[c]] > 0
        BY <1>4, <2>1
    <2>3. \/ events' = [events EXCEPT ![got[c]] = @ + 1] /\ appended' = appended + 1
          \/ UNCHANGED <<events, appended>>
        BY <1>9 DEF LogEnqueue
    <2>4. owed' \in [Jobs -> Nat] /\ events' \in [Jobs -> Nat] /\ appended' \in Nat
        BY <1>2, <2>1, <2>2, <2>3
    <2>5. TypeOK'
        BY <1>2, <1>3, <2>1, <2>4 DEF TypeOK
    <2>6. appended' - SumFunction(events)' = appended - SumFunction(events)
        BY <2>2, <2>3, BalanceOfAppend DEF CountInv
    <2>7. RemovedAddUp'
        BY <2>1, <2>6, BalanceKept DEF CountInv, Deleted
    <2>8. \A d \in Callers : epc'[d] = "log" => d # c /\ epc[d] = "log" /\ got'[d] = got[d]
        BY <1>2, <2>1
    <2>9. \A d \in Callers : epc'[d] = "log" => owed'[got'[d]] > 0
        BY <1>2, <1>4, <1>5, <2>1, <2>2, <2>8
    <2>10. Debts'
        BY <1>5, <2>8, <2>9
    <2> QED BY <1>1, <2>5, <2>7, <2>10 DEF CountInv
<1>10. ASSUME NEW j \in Jobs, Change(j) PROVE CountInv'
    <2>1. PICK s \in {"live"} \cup Terminal :
            /\ <<state[j], s>> \in Moves
            /\ state' = [state EXCEPT ![j] = s]
            /\ updated' = [updated EXCEPT ![j] = IF s \in Terminal THEN clock ELSE 0]
        BY <1>10 DEF Change
    <2>2. /\ owed' = [owed EXCEPT ![j] = @ + 1]
          /\ UNCHANGED <<clock, key, events, appended, pruneVars, callVars>>
        BY <1>10 DEF Change
    <2>3. state[j] # "deleted" /\ s # "deleted"
        BY <2>1 DEF Moves, Terminal
    <2>4. TypeOK'
        BY <1>2, <1>3, <2>1, <2>2 DEF TypeOK
    <2>5. Deleted' = Deleted
        BY <1>2, <2>1, <2>3 DEF Deleted
    <2>6. RemovedAddUp'
        BY <2>2, <2>5, BalanceKept DEF CountInv
    <2>7. Debts'
        BY <1>2, <1>4, <1>5, <2>2
    <2> QED BY <1>1, <2>4, <2>6, <2>7 DEF CountInv
<1>11. ASSUME NEW j \in Jobs, AppendEvent(j) PROVE CountInv'
    <2>1. /\ Unlogged(j) > 0
          /\ owed' = [owed EXCEPT ![j] = @ - 1]
          /\ events' = [events EXCEPT ![j] = @ + 1]
          /\ appended' = appended + 1
          /\ UNCHANGED <<clock, jobVars, pruneVars, callVars>>
        BY <1>11 DEF AppendEvent
    <2> DEFINE logging == {c \in Callers : epc[c] = "log" /\ got[c] = j}
    <2> DEFINE Settled ==
            owed' \in [Jobs -> Nat] /\ events' \in [Jobs -> Nat] /\ appended' \in Nat /\ Debts'
    <2>2. owed[j] > Cardinality(logging)
        <3>1. owed[j] - Cardinality(logging) > 0
            BY <2>1 DEF Unlogged
        <3>2. IsFiniteSet(logging)
            <4>1. \A c, d \in logging : c = d
                BY <1>5
            <4>2. logging = {} \/ \E c \in logging : logging = {c}
                BY <4>1
            <4> QED BY <4>2, FS_EmptySet, FS_Singleton
        <3>3. Cardinality(logging) \in Nat
            BY <3>2, FS_CardinalityType
        <3> HIDE DEF logging
        <3> QED BY <1>2, <3>1, <3>3
    <2>3. ASSUME logging = {} PROVE Settled
        <3>1. owed[j] > 0
            BY <2>2, <2>3, FS_EmptySet
        <3>2. owed' \in [Jobs -> Nat] /\ events' \in [Jobs -> Nat] /\ appended' \in Nat
            BY <1>2, <2>1, <3>1
        <3>3. Debts'
            BY <1>2, <1>4, <1>5, <2>1, <2>3
        <3> QED BY <3>2, <3>3
    <2>4. ASSUME logging # {} PROVE Settled
        <3>1. PICK c \in Callers : epc[c] = "log" /\ got[c] = j
            BY <2>4
        <3>2. logging = {c}
            BY <1>5, <3>1
        <3>3. Cardinality(logging) = 1
            BY <3>2, FS_Singleton
        <3>4. owed[j] > 1
            BY <2>2, <3>3
        <3>5. owed' \in [Jobs -> Nat] /\ events' \in [Jobs -> Nat] /\ appended' \in Nat
            BY <1>2, <2>1, <3>4
        <3>6. Debts'
            BY <1>2, <1>4, <1>5, <2>1, <3>4
        <3> QED BY <3>5, <3>6
    <2>5. Settled
        BY <2>3, <2>4
    <2>6. TypeOK'
        BY <1>2, <1>3, <2>1, <2>5 DEF TypeOK
    <2>7. appended' - SumFunction(events)' = appended - SumFunction(events)
        BY <2>1, BalanceOfAppend DEF CountInv
    <2>8. RemovedAddUp'
        BY <2>1, <2>7, BalanceKept DEF CountInv, Deleted
    <2> QED BY <1>1, <2>5, <2>6, <2>8 DEF CountInv
<1>12. ASSUME NEW s \in Sources, PruneStarts(s) \/ PruneFails(s) PROVE CountInv'
    <2>1. /\ \E t \in {clock, NullTime} : started' = [started EXCEPT ![s] = t]
          /\ UNCHANGED <<clock, jobVars, eventVars, runs, callVars>>
        BY <1>12 DEF PruneStarts, PruneFails
    <2>2. TypeOK'
        BY <1>2, <1>3, <2>1 DEF TypeOK
    <2>3. RemovedAddUp'
        BY <2>1, BalanceKept DEF CountInv, Deleted
    <2> QED BY <1>1, <1>4, <1>5, <2>1, <2>2, <2>3 DEF CountInv
<1>13. ASSUME NEW s \in Sources, PruneCommits(s) PROVE CountInv'
    <2>1. UNCHANGED <<owed, epc, got>>
        BY <1>13 DEF PruneCommits
    <2>2. TypeOK' /\ RemovedAddUp'
        BY <1>13, BalanceOfPrune DEF CountInv
    <2> QED BY <1>1, <1>4, <1>5, <2>1, <2>2 DEF CountInv
<1>14. CASE UNCHANGED vars
    <2>1. TypeOK'
        BY <1>14, <1>2, <1>3 DEF vars, TypeOK
    <2>2. RemovedAddUp'
        BY <1>14, BalanceKept DEF vars, CountInv, Deleted
    <2> QED BY <1>14, <1>1, <1>4, <1>5, <2>1, <2>2 DEF CountInv, vars
<1> QED BY <1>6, <1>7, <1>8, <1>9, <1>10, <1>11, <1>12, <1>13, <1>14 DEF Next

LEMMA CountInvariant == Spec => []CountInv
BY CountInit, CountStep, PTL DEF Spec

(* The variables keep their types; that nobody appends more events than are *)
(* owed is part of it.                                                      *)
THEOREM TypeCorrect == Spec => []TypeOK
<1>1. CountInv => TypeOK
    BY DEF CountInv
<1> QED BY CountInvariant, <1>1, PTL

(* What the metrics and the dashboard report as removed is what is gone:    *)
(* every job and event that was stored is there or counted once, with any   *)
(* number of jobs, any policies, and both sources pruning while events of   *)
(* deleted jobs still arrive.                                               *)
THEOREM RemovedAddUpHolds == Spec => []RemovedAddUp
<1>1. CountInv => RemovedAddUp
    BY DEF CountInv
<1> QED BY CountInvariant, <1>1, PTL

=============================================================================
