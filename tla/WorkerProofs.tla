---------------------------- MODULE WorkerProofs ----------------------------
(* Machine-checked proofs about WorkerRun, for every concurrency, every    *)
(* number of calls of Run, jobs and goroutines, every budget and payload.  *)
EXTENDS WorkerRun, TLAPS, FiniteSetTheorems

(* The goroutines that have a token. *)
Slots == {g \in Goroutines : gpc[g] \notin {"none", "exit"}}

(* The call that was accepted has got past the filling of the semaphore. *)
Began == \E c \in Calls : rpc[c] \in {"loop", "wait", "returned"}

(* TypeOK but for the counters, which are only known to be integers. *)
Types ==
    /\ running \in BOOLEAN /\ done \in BOOLEAN
    /\ rpc \in [Calls -> CallSteps]
    /\ sem \in Int /\ wg \in Int
    /\ gpc \in [Goroutines -> GoroutineSteps]
    /\ gjob \in [Goroutines -> Jobs \cup {NoJob}]
    /\ tpc \in RetentionSteps
    /\ state \in [Jobs -> {"pending", "leased", "completed", "dead_letter"}]
    /\ retry \in [Jobs -> Nat]
    /\ payload \in [Jobs -> Payloads]
    /\ expired \in SUBSET Jobs
    /\ spoilt \in SUBSET Jobs

(* running lets one call in. *)
OneCall ==
    /\ \A c, d \in Calls : rpc[c] # "new" /\ rpc[d] # "new" => c = d
    /\ ~running => \A c \in Calls : rpc[c] = "new"

(* The tokens and the wait group add up; before that call there is nothing *)
(* to count.                                                               *)
Counters ==
    /\ sem >= 0
    /\ ~Began => Slots = {} /\ Alive = {} /\ tpc = "none" /\ wg = 0
    /\ Began => /\ sem + Cardinality(Slots) = Concurrency
                /\ wg = Cardinality(Alive) + (IF tpc = "none" THEN 0 ELSE 1)

(* What has returned has left nothing behind. *)
Quiet == (\E c \in Calls : rpc[c] = "returned") => Alive = {} /\ tpc = "none"

(* A goroutine has a job while it runs or reports it; the row is leased,   *)
(* its lease does not run out and no other goroutine has it.  Only leases  *)
(* run out.                                                                *)
Holding ==
    /\ \A j \in expired : state[j] = "leased"
    /\ \A g \in Goroutines :
        /\ gjob[g] # NoJob <=> gpc[g] \in {"run", "ack", "fail"}
        /\ gjob[g] # NoJob => state[gjob[g]] = "leased" /\ gjob[g] \notin expired
        /\ \A h \in Goroutines : g # h /\ gjob[g] = gjob[h] => gjob[g] = NoJob

RunInv == Types /\ OneCall /\ Counters /\ Quiet /\ Holding

LEMMA Constants ==
    /\ NoJob \notin Jobs /\ Concurrency \in Nat /\ Budget \in Nat \ {0}
    /\ IsFiniteSet(Goroutines)
    /\ Payloads \subseteq Payload
BY WorkerAssumption

(* The sets of goroutines are finite, and counted by natural numbers. *)
LEMMA Finite ==
    /\ IsFiniteSet(Slots) /\ Cardinality(Slots) \in Nat
    /\ IsFiniteSet(Alive) /\ Cardinality(Alive) \in Nat
    /\ Cardinality({}) = 0
<1>1. Slots \in SUBSET Goroutines /\ Alive \in SUBSET Goroutines
    BY DEF Slots, Alive
<1> QED BY <1>1, Constants, FS_Subset, FS_CardinalityType, FS_EmptySet

LEMMA RunInit == Init => RunInv
<1> SUFFICES ASSUME Init PROVE RunInv
    OBVIOUS
<1>1. Types
    <2>1. running \in BOOLEAN /\ done \in BOOLEAN
        BY Zenon DEF Init
    <2> QED BY <2>1 DEF Init, Types, CallSteps, GoroutineSteps, RetentionSteps
<1>2. OneCall /\ Quiet /\ Holding
    BY DEF Init, OneCall, Quiet, Holding
<1>3. Counters
    BY DEF Init, Counters, Began, Slots, Alive
<1> QED BY <1>1, <1>2, <1>3 DEF RunInv

-----------------------------------------------------------------------------
(* Types *)

LEMMA TypesStep == RunInv /\ [Next]_vars => Types'
<1> SUFFICES ASSUME RunInv, [Next]_vars PROVE Types'
    OBVIOUS
<1> USE Constants DEF RunInv, Types, runVars, jobVars, CallSteps, GoroutineSteps, RetentionSteps
<1>1. ASSUME NEW c \in Calls, Run(c) \/ Spawn(c) \/ SeeDone(c) \/ Return(c) PROVE Types'
    <2>1. CASE Run(c)
        <3>1. running' \in BOOLEAN /\ done' \in BOOLEAN
            BY <2>1, Zenon DEF Run
        <3> QED BY <2>1, <3>1 DEF Run
    <2>2. CASE Spawn(c) \/ SeeDone(c) \/ Return(c)
        BY <2>2 DEF Spawn, SeeDone, Return
    <2> QED BY <1>1, <2>1, <2>2
<1>2. ASSUME NEW c \in Calls, Recover(c) PROVE Types'
    <2>1. /\ rpc' = [rpc EXCEPT ![c] = "loop"] /\ sem' \in Int /\ wg' \in Int
          /\ tpc' \in {"none", "pass"} /\ UNCHANGED <<running, done, gpc, gjob, payload>>
        BY <1>2 DEF Recover, Begin
    <2>2. \A j \in Jobs : Attempted(j) \in {"pending", "dead_letter"}
        BY DEF Attempted
    <2>3. /\ state' \in [Jobs -> {"pending", "leased", "completed", "dead_letter"}]
          /\ retry' \in [Jobs -> Nat] /\ expired' \in SUBSET Jobs /\ spoilt' \in SUBSET Jobs
        BY <1>2, <2>2 DEF Recover, Orphans
    <2> QED BY <2>1, <2>3
<1>3. ASSUME NEW c \in Calls, RecoverFails(c) PROVE Types'
    BY <1>3 DEF RecoverFails, Begin
<1>4. CASE CancelRun
    BY <1>4 DEF CancelRun
<1>5. ASSUME NEW g \in Goroutines, PollCancelled(g) \/ PollFires(g) \/ NoLease(g) \/ LeaseLost(g)
                                    \/ ReportFails(g) \/ GiveBack(g) \/ Exit(g)
      PROVE  Types'
    BY <1>5 DEF PollCancelled, PollFires, NoLease, LeaseLost, ReportFails, GiveBack, Exit,
       Goto, Unheld
<1>6. ASSUME NEW g \in Goroutines, Lease(g) PROVE Types'
    BY <1>6 DEF Lease, Goto
<1>7. ASSUME NEW g \in Goroutines, HandlerReturns(g) PROVE Types'
    <2>1. gjob[g] \in Jobs
        BY <1>7 DEF HandlerReturns, Holding
    <2>2. \E s \in {"ack", "fail"} : gpc' = [gpc EXCEPT ![g] = s]
        BY <1>7 DEF HandlerReturns, Goto
    <2> QED BY <1>7, <2>1, <2>2 DEF HandlerReturns
<1>8. ASSUME NEW g \in Goroutines, Report(g) PROVE Types'
    <2>1. gjob[g] \in Jobs
        BY <1>8 DEF Report, Holding
    <2>2. Attempted(gjob[g]) \in {"pending", "dead_letter"}
        BY DEF Attempted
    <2> QED BY <1>8, <2>1, <2>2 DEF Report, Unheld, Goto
<1>9. CASE RetentionNext
    BY <1>9 DEF RetentionNext, RetentionPass, RetentionFires, RetentionDone, RetentionExits
<1>10. ASSUME NEW j \in Jobs, Expire(j) PROVE Types'
    BY <1>10 DEF Expire
<1>11. CASE Crash \/ Restart
    <2>1. NewProcess
        BY <1>11 DEF Crash, Restart
    <2>2. running' \in BOOLEAN /\ done' \in BOOLEAN
        BY <2>1, Zenon DEF NewProcess
    <2> QED BY <2>1, <2>2 DEF NewProcess
<1>12. CASE UNCHANGED vars
    BY <1>12 DEF vars
<1> QED BY <1>1, <1>2, <1>3, <1>4, <1>5, <1>6, <1>7, <1>8, <1>9, <1>10, <1>11, <1>12
        DEF Next, CallNext, GoroutineNext

-----------------------------------------------------------------------------
(* Calls and counters *)

(* A goroutine at work belongs to a call that is in its loop or waits. *)
LEMMA AtWork ==
    ASSUME RunInv, NEW g \in Goroutines, gpc[g] # "none"
    PROVE  Began /\ g \in Alive /\ \A c \in Calls : rpc[c] # "returned"
BY DEF RunInv, Counters, Quiet, Alive

(* What a step of one goroutine does to the two sets that are counted. *)
LEMMA Counted ==
    ASSUME Types, NEW g \in Goroutines, NEW s, gpc' = [gpc EXCEPT ![g] = s]
    PROVE  /\ s = "none" => Alive' = Alive \ {g}
           /\ s # "none" => Alive' = Alive \cup {g}
           /\ s \in {"none", "exit"} => Slots' = Slots \ {g}
           /\ s \notin {"none", "exit"} => Slots' = Slots \cup {g}
BY DEF Types, Alive, Slots

(* Every step keeps the counters right, lets one call in and leaves        *)
(* nothing behind a call that has returned.                                *)
LEMMA CountersStep == RunInv /\ [Next]_vars => OneCall' /\ Counters' /\ Quiet'
<1> SUFFICES ASSUME RunInv, [Next]_vars PROVE OneCall' /\ Counters' /\ Quiet'
    OBVIOUS
<1>0. Types /\ OneCall /\ Counters /\ Quiet
    BY DEF RunInv
<1> USE <1>0, Constants, Finite DEF runVars
<1>a. ASSUME UNCHANGED <<running, rpc, sem, wg, gpc, tpc>> PROVE OneCall' /\ Counters' /\ Quiet'
    BY <1>a DEF OneCall, Counters, Quiet, Began, Slots, Alive
<1>1. ASSUME NEW c \in Calls, Run(c) PROVE OneCall' /\ Counters' /\ Quiet'
    <2>1. /\ ~running /\ running' = TRUE /\ rpc' = [rpc EXCEPT ![c] = "recover"]
          /\ UNCHANGED <<sem, wg, gpc, tpc>>
        BY <1>1 DEF Run, CanRun
    <2>2. \A d \in Calls : rpc[d] = "new"
        BY <2>1 DEF OneCall
    <2>3. ~Began /\ ~Began'
        BY <2>1, <2>2 DEF Began, Types
    <2> QED BY <2>1, <2>2, <2>3 DEF OneCall, Counters, Quiet, Slots, Alive, Types
<1>2. ASSUME NEW c \in Calls, Recover(c) \/ RecoverFails(c) PROVE OneCall' /\ Counters' /\ Quiet'
    <2>1. /\ rpc[c] = "recover" /\ rpc' = [rpc EXCEPT ![c] = "loop"]
          /\ sem' = Concurrency /\ UNCHANGED <<running, gpc>>
          /\ tpc' = IF Retention = "off" THEN "none" ELSE "pass"
          /\ wg' = IF Retention = "off" THEN wg ELSE wg + 1
        BY <1>2 DEF Recover, RecoverFails, Begin
    <2>2. \A d \in Calls : d # c => rpc[d] = "new"
        BY <2>1 DEF OneCall
    <2>3. ~Began /\ Began'
        BY <2>1, <2>2 DEF Began, Types
    <2>4. Slots' = {} /\ Alive' = {} /\ wg = 0
        BY <2>1, <2>3 DEF Counters, Slots, Alive
    <2>5. Counters'
        BY <2>1, <2>3, <2>4 DEF Counters
    <2> QED BY <2>1, <2>2, <2>5 DEF OneCall, Quiet, Types
<1>3. ASSUME NEW c \in Calls, Spawn(c) PROVE OneCall' /\ Counters' /\ Quiet'
    <2>1. PICK g \in Goroutines : gpc[g] = "none" /\ gpc' = [gpc EXCEPT ![g] = "poll"]
        BY <1>3 DEF Spawn
    <2>2. /\ rpc[c] = "loop" /\ sem > 0 /\ sem' = sem - 1 /\ wg' = wg + 1
          /\ UNCHANGED <<running, rpc, tpc>>
        BY <1>3 DEF Spawn
    <2>3. Began /\ Began' /\ \A d \in Calls : rpc[d] # "returned"
        BY <2>2 DEF Began, OneCall
    <2>4. Alive' = Alive \cup {g} /\ Slots' = Slots \cup {g}
        BY <2>1 DEF Alive, Slots, Types
    <2>5. g \notin Alive /\ g \notin Slots
        BY <2>1 DEF Alive, Slots
    <2>6. Cardinality(Alive') = Cardinality(Alive) + 1 /\ Cardinality(Slots') = Cardinality(Slots) + 1
        BY <2>4, <2>5, FS_AddElement
    <2>7. Counters'
        BY <2>2, <2>3, <2>6 DEF Counters, Types
    <2> QED BY <2>2, <2>3, <2>7 DEF OneCall, Quiet
<1>4. ASSUME NEW c \in Calls, SeeDone(c) PROVE OneCall' /\ Counters' /\ Quiet'
    <2>1. /\ rpc[c] = "loop" /\ rpc' = [rpc EXCEPT ![c] = "wait"]
          /\ UNCHANGED <<running, sem, wg, gpc, tpc>>
        BY <1>4 DEF SeeDone
    <2>2. Began /\ Began' /\ Alive' = Alive /\ Slots' = Slots
        BY <2>1 DEF Began, Types, Alive, Slots
    <2>3. Counters'
        BY <2>1, <2>2 DEF Counters
    <2> QED BY <2>1, <2>2, <2>3 DEF OneCall, Quiet, Types
<1>5. ASSUME NEW c \in Calls, Return(c) PROVE OneCall' /\ Counters' /\ Quiet'
    <2>1. /\ rpc[c] = "wait" /\ wg = 0 /\ rpc' = [rpc EXCEPT ![c] = "returned"]
          /\ UNCHANGED <<running, sem, wg, gpc, tpc>>
        BY <1>5 DEF Return
    <2>2. Began /\ Began' /\ Alive' = Alive /\ Slots' = Slots
        BY <2>1 DEF Began, Types, Alive, Slots
    <2>3. Cardinality(Alive) = 0 /\ tpc = "none"
        BY <2>1, <2>2 DEF Counters
    <2>4. Alive = {}
        BY <2>3, FS_EmptySet
    <2>5. Counters'
        BY <2>1, <2>2 DEF Counters
    <2> QED BY <2>1, <2>2, <2>3, <2>4, <2>5 DEF OneCall, Quiet, Types
<1>6. CASE CancelRun
    BY <1>6, <1>a DEF CancelRun
<1>7. ASSUME NEW g \in Goroutines, NEW s \in GoroutineSteps \ {"none", "exit"},
             gpc[g] \notin {"none", "exit"}, gpc' = [gpc EXCEPT ![g] = s],
             UNCHANGED <<running, rpc, sem, wg, tpc>>
      PROVE  OneCall' /\ Counters' /\ Quiet'
    <2>1. Alive' = Alive /\ Slots' = Slots /\ Began' = Began
        BY <1>7, Counted DEF Alive, Slots, Began
    <2> QED BY <1>7, <2>1 DEF OneCall, Counters, Quiet
<1>8. ASSUME NEW g \in Goroutines,
             \/ PollCancelled(g) \/ PollFires(g) \/ Lease(g) \/ NoLease(g) \/ HandlerReturns(g)
             \/ LeaseLost(g) \/ Report(g) \/ ReportFails(g)
      PROVE  OneCall' /\ Counters' /\ Quiet'
    <2>1. UNCHANGED <<running, rpc, sem, wg, tpc>> /\ gpc[g] \notin {"none", "exit"}
        BY <1>8 DEF PollCancelled, PollFires, Lease, NoLease, HandlerReturns, LeaseLost, Report,
           ReportFails
    <2>2. \E s \in GoroutineSteps \ {"none", "exit"} : gpc' = [gpc EXCEPT ![g] = s]
        BY <1>8 DEF PollCancelled, PollFires, Lease, NoLease, HandlerReturns, LeaseLost, Report,
           ReportFails, Unheld, Goto, GoroutineSteps
    <2> QED BY <1>7, <2>1, <2>2
<1>9. ASSUME NEW g \in Goroutines, GiveBack(g) PROVE OneCall' /\ Counters' /\ Quiet'
    <2>1. /\ gpc[g] = "give" /\ sem' = sem + 1 /\ gpc' = [gpc EXCEPT ![g] = "exit"]
          /\ UNCHANGED <<running, rpc, wg, tpc>>
        BY <1>9 DEF GiveBack, Goto
    <2>2. Began /\ Began' = Began /\ g \in Alive /\ g \in Slots
        BY <2>1, AtWork DEF Began, Slots
    <2>3. Alive' = Alive /\ Slots' = Slots \ {g}
        BY <2>1, <2>2 DEF Alive, Slots, Types
    <2>4. Cardinality(Slots') = Cardinality(Slots) - 1
        BY <2>2, <2>3, FS_RemoveElement
    <2>5. Counters'
        BY <2>1, <2>2, <2>3, <2>4 DEF Counters, Types
    <2> QED BY <2>1, <2>3, <2>5 DEF OneCall, Quiet
<1>10. ASSUME NEW g \in Goroutines, Exit(g) PROVE OneCall' /\ Counters' /\ Quiet'
    <2>1. /\ gpc[g] = "exit" /\ wg' = wg - 1 /\ gpc' = [gpc EXCEPT ![g] = "none"]
          /\ UNCHANGED <<running, rpc, sem, tpc>>
        BY <1>10 DEF Exit, Goto
    <2>2. /\ Began /\ Began' = Began /\ g \in Alive /\ g \notin Slots
          /\ \A c \in Calls : rpc[c] # "returned"
        BY <2>1, AtWork DEF Began, Slots
    <2>3. Alive' = Alive \ {g} /\ Slots' = Slots
        BY <2>1, <2>2 DEF Alive, Slots, Types
    <2>4. Cardinality(Alive') = Cardinality(Alive) - 1
        BY <2>2, <2>3, FS_RemoveElement
    <2>5. Counters'
        BY <2>1, <2>2, <2>3, <2>4 DEF Counters, Types
    <2> QED BY <2>1, <2>2, <2>5 DEF OneCall, Quiet
<1>11. CASE RetentionNext
    <2>1. /\ UNCHANGED <<running, rpc, sem, gpc>> /\ tpc # "none"
          /\ \/ tpc' # "none" /\ wg' = wg
             \/ tpc' = "none" /\ wg' = wg - 1
        BY <1>11 DEF RetentionNext, RetentionPass, RetentionFires, RetentionDone, RetentionExits
    <2>2. Began /\ Began' /\ Alive' = Alive /\ Slots' = Slots
        BY <2>1 DEF Counters, Began, Alive, Slots
    <2>3. \A c \in Calls : rpc[c] # "returned"
        BY <2>1 DEF Quiet
    <2>4. Counters'
        BY <2>1, <2>2 DEF Counters, Types
    <2> QED BY <2>1, <2>3, <2>4 DEF OneCall, Quiet
<1>12. ASSUME NEW j \in Jobs, Expire(j) PROVE OneCall' /\ Counters' /\ Quiet'
    BY <1>12, <1>a DEF Expire
<1>13. CASE Crash \/ Restart
    <2>1. NewProcess
        BY <1>13 DEF Crash, Restart
    <2> QED BY <2>1 DEF NewProcess, OneCall, Counters, Quiet, Began, Slots, Alive
<1>14. CASE UNCHANGED vars
    BY <1>14, <1>a DEF vars
<1> QED BY <1>1, <1>2, <1>3, <1>4, <1>5, <1>6, <1>8, <1>9, <1>10, <1>11, <1>12, <1>13, <1>14
        DEF Next, CallNext, GoroutineNext

-----------------------------------------------------------------------------
(* Jobs in the hands of goroutines *)

(* Nobody runs before the accepted call has recovered, and what is run is  *)
(* leased to one goroutine until that reports or drops it.                 *)
LEMMA HoldingStep == RunInv /\ [Next]_vars => Holding'
<1> SUFFICES ASSUME RunInv, [Next]_vars PROVE Holding'
    OBVIOUS
<1>0. Types /\ OneCall /\ Counters /\ Holding
    BY DEF RunInv
<1> USE <1>0, Constants DEF runVars, jobVars
<1>a. ASSUME UNCHANGED <<gpc, gjob, state, expired>> PROVE Holding'
    BY <1>a DEF Holding
<1>b. ASSUME NEW g \in Goroutines, NEW s, s \notin {"run", "ack", "fail"},
             gpc' = [gpc EXCEPT ![g] = s], gjob' = [gjob EXCEPT ![g] = NoJob],
             UNCHANGED <<state, expired>>
      PROVE  Holding'
    BY <1>b DEF Holding, Types
<1>c. ASSUME NEW g \in Goroutines, NEW s, s \notin {"run", "ack", "fail"},
             gpc[g] \notin {"run", "ack", "fail"},
             gpc' = [gpc EXCEPT ![g] = s], UNCHANGED <<gjob, state, expired>>
      PROVE  Holding'
    BY <1>c DEF Holding, Types
<1>1. ASSUME NEW c \in Calls, Run(c) \/ RecoverFails(c) \/ SeeDone(c) \/ Return(c) PROVE Holding'
    BY <1>1, <1>a DEF Run, RecoverFails, Begin, SeeDone, Return
<1>2. ASSUME NEW c \in Calls, Recover(c) PROVE Holding'
    <2>1. \A j \in Jobs : j \notin expired => state'[j] = state[j]
        BY <1>2 DEF Recover, Orphans, Types
    <2>2. UNCHANGED <<gpc, gjob>> /\ expired' = expired \ Orphans
        BY <1>2 DEF Recover, Begin
    <2>3. \A g \in Goroutines : gjob'[g] # NoJob =>
            gjob[g] \in Jobs /\ gjob[g] \notin expired /\ state[gjob[g]] = "leased"
        BY <2>2 DEF Holding, Types
    <2>4. \A j \in expired' : state'[j] = "leased"
        BY <1>2, <2>2 DEF Recover, Holding, Types
    <2> QED BY <2>1, <2>2, <2>3, <2>4 DEF Holding
<1>3. ASSUME NEW c \in Calls, Spawn(c) PROVE Holding'
    <2>1. PICK g \in Goroutines : gpc[g] = "none" /\ gpc' = [gpc EXCEPT ![g] = "poll"]
        BY <1>3 DEF Spawn
    <2>2. UNCHANGED <<gjob, state, expired>>
        BY <1>3 DEF Spawn
    <2> QED BY <2>1, <2>2, <1>c
<1>4. CASE CancelRun
    BY <1>4, <1>a DEF CancelRun
<1>5. ASSUME NEW g \in Goroutines,
             PollCancelled(g) \/ PollFires(g) \/ NoLease(g) \/ GiveBack(g) \/ Exit(g)
      PROVE  Holding'
    <2>1. gpc[g] \notin {"run", "ack", "fail"} /\ UNCHANGED <<gjob, state, expired>>
        BY <1>5 DEF PollCancelled, PollFires, NoLease, GiveBack, Exit
    <2>2. \E s \in {"lease", "give", "exit", "none"} : gpc' = [gpc EXCEPT ![g] = s]
        BY <1>5 DEF PollCancelled, PollFires, NoLease, GiveBack, Exit, Goto
    <2> QED BY <2>1, <2>2, <1>c
<1>6. ASSUME NEW g \in Goroutines, Lease(g) PROVE Holding'
    <2>1. PICK j \in Jobs :
            /\ state[j] = "pending" /\ state' = [state EXCEPT ![j] = "leased"]
            /\ \/ gpc' = [gpc EXCEPT ![g] = "run"] /\ gjob' = [gjob EXCEPT ![g] = j]
               \/ gpc' = [gpc EXCEPT ![g] = "give"] /\ UNCHANGED gjob
        BY <1>6 DEF Lease, Goto
    <2>2. gpc[g] = "lease" /\ UNCHANGED expired
        BY <1>6 DEF Lease
    <2>3. \A h \in Goroutines : gjob[h] # j
        BY <2>1 DEF Holding, Types
    <2>4. CASE gjob' = [gjob EXCEPT ![g] = j] /\ gpc' = [gpc EXCEPT ![g] = "run"]
        <3>1. gjob'[g] = j /\ gpc'[g] = "run" /\ state'[j] = "leased" /\ j # NoJob /\ j \notin expired'
            BY <2>1, <2>2, <2>4 DEF Types, Holding
        <3>2. \A h \in Goroutines : h # g => gjob'[h] = gjob[h] /\ gpc'[h] = gpc[h]
            BY <2>4 DEF Types
        <3> QED BY <2>1, <2>2, <2>3, <3>1, <3>2 DEF Holding, Types
    <2> QED BY <2>1, <2>2, <2>3, <2>4 DEF Holding, Types
<1>7. ASSUME NEW g \in Goroutines, HandlerReturns(g) PROVE Holding'
    <2>1. \E s \in {"ack", "fail"} : gpc' = [gpc EXCEPT ![g] = s]
        BY <1>7 DEF HandlerReturns, Goto
    <2>2. gpc[g] = "run" /\ UNCHANGED <<gjob, state, expired>>
        BY <1>7 DEF HandlerReturns
    <2> QED BY <2>1, <2>2 DEF Holding, Types
<1>8. ASSUME NEW g \in Goroutines, LeaseLost(g) \/ ReportFails(g) PROVE Holding'
    BY <1>8, <1>b DEF LeaseLost, ReportFails, Unheld, Goto
<1>9. ASSUME NEW g \in Goroutines, Report(g) PROVE Holding'
    <2>1. /\ gpc[g] \in {"ack", "fail"} /\ UNCHANGED expired
          /\ gpc' = [gpc EXCEPT ![g] = "give"] /\ gjob' = [gjob EXCEPT ![g] = NoJob]
        BY <1>9 DEF Report, Unheld, Goto
    <2>2. \A j \in Jobs : j # gjob[g] => state'[j] = state[j]
        BY <1>9 DEF Report, Types
    <2>3. \A h \in Goroutines : h # g /\ gjob[h] # NoJob => gjob[h] \in Jobs /\ gjob[h] # gjob[g]
        BY <2>1 DEF Holding, Types
    <2> QED BY <2>1, <2>2, <2>3 DEF Holding, Types
<1>10. CASE RetentionNext
    BY <1>10, <1>a DEF RetentionNext, RetentionPass, RetentionFires, RetentionDone, RetentionExits
<1>11. ASSUME NEW j \in Jobs, Expire(j) PROVE Holding'
    BY <1>11 DEF Expire, Held, Holding
<1>12. CASE Crash \/ Restart
    BY <1>12 DEF Crash, Restart, NewProcess, Holding
<1>13. CASE UNCHANGED vars
    BY <1>13, <1>a DEF vars
<1> QED BY <1>1, <1>2, <1>3, <1>4, <1>5, <1>6, <1>7, <1>8, <1>9, <1>10, <1>11, <1>12, <1>13
        DEF Next, CallNext, GoroutineNext

(* The inductive invariant holds for ever. *)
THEOREM RunInvariant == Spec => []RunInv
<1>1. RunInv /\ [Next]_vars => RunInv'
    BY TypesStep, CountersStep, HoldingStep DEF RunInv
<1> QED BY RunInit, <1>1, PTL DEF Spec

-----------------------------------------------------------------------------
(* What follows *)

(* The variables of a worker process and the columns of its jobs keep      *)
(* their types; neither the semaphore nor the wait group goes negative.    *)
THEOREM TypeCorrect == Spec => []TypeOK
<1>1. RunInv => TypeOK
    <2> SUFFICES ASSUME RunInv PROVE TypeOK
        OBVIOUS
    <2>1. sem \in Nat /\ wg \in Nat
        BY Finite, Constants DEF RunInv, Types, Counters
    <2> QED BY <2>1 DEF RunInv, Types, TypeOK
<1> QED BY RunInvariant, <1>1, PTL

(* Every way out of processOne gives its token back once, and the wait     *)
(* group counts exactly the goroutines that Run has to wait for.           *)
THEOREM TokensConservedHolds == Spec => []TokensConserved
<1>1. Slots = {g \in Alive : gpc[g] # "exit"}
    BY DEF Slots, Alive
<1>2. RunInv => TokensConserved
    BY <1>1 DEF RunInv, Counters, Began, TokensConserved
<1> QED BY RunInvariant, <1>2, PTL

(* One call of Run at most is accepted, it runs at most Concurrency jobs,  *)
(* no job twice, and nothing of it is left when it has returned.           *)
THEOREM OneRunHolds == Spec => []OneRun
<1>1. ASSUME RunInv PROVE Cardinality({c \in Calls : Accepted(c)}) <= 1
    <2> DEFINE A == {c \in Calls : Accepted(c)}
    <2>1. CASE A = {}
        BY <2>1, FS_EmptySet
    <2>2. ASSUME NEW c \in A PROVE Cardinality(A) <= 1
        <3>1. A = {c}
            BY <1>1, <2>2 DEF RunInv, OneCall, Accepted
        <3>2. Cardinality({c}) = 1
            BY FS_Singleton
        <3> QED BY <3>1, <3>2
    <2> QED BY <2>1, <2>2
<1>2. ASSUME RunInv PROVE Cardinality(Busy) <= Concurrency
    <2>1. Busy \subseteq Slots
        BY DEF Busy, Slots
    <2>2. Cardinality(Busy) \in Nat /\ Cardinality(Busy) <= Cardinality(Slots)
        BY <2>1, Finite, FS_Subset, FS_CardinalityType
    <2>3. Cardinality(Slots) <= Concurrency
        <3>1. sem \in Int /\ sem >= 0
            BY <1>2 DEF RunInv, Counters, Types
        <3>2. Slots = {} \/ sem + Cardinality(Slots) = Concurrency
            BY <1>2 DEF RunInv, Counters
        <3> QED BY <3>1, <3>2, Finite, Constants
    <2> QED BY <2>2, <2>3, Finite, Constants
<1>3. RunInv => OneRun
    BY <1>1, <1>2 DEF RunInv, OneRun, Holding, Quiet
<1> QED BY RunInvariant, <1>3, PTL

-----------------------------------------------------------------------------
(* How jobs end *)

Policy(j) == FromPayload(payload[j])

(* The failures that the payload of a job asks for. *)
Asked(j) ==
    IF Policy(j).mode \in {"error", "panic"} /\ Policy(j).failUntil > 0
    THEN Policy(j).failUntil ELSE 0

(* A job is retried no more often than it asks for, and a goroutine that   *)
(* reports it says what it asks for at this attempt.                       *)
Decided(j) ==
    /\ state[j] \in {"pending", "leased"} => retry[j] < Budget /\ retry[j] <= Asked(j)
    /\ state[j] = "completed" => retry[j] = Asked(j) /\ Asked(j) < Budget
    /\ state[j] = "dead_letter" => retry[j] = Budget /\ Asked(j) >= Budget
    /\ Blocks(Policy(j)) => retry[j] = 0 /\ state[j] \in {"pending", "leased"}

Reported(j) ==
    \A g \in Goroutines : gjob[g] = j =>
        /\ gpc[g] = "ack" => ~Blocks(Policy(j)) /\ retry[j] = Asked(j)
        /\ gpc[g] = "fail" => ~Blocks(Policy(j)) /\ retry[j] + 1 <= Asked(j)

PolicyInv == \A j \in Jobs \ spoilt : Decided(j) /\ Reported(j)

LEMMA AskedType ==
    ASSUME Types, NEW j \in Jobs
    PROVE  Policy(j).failUntil \in Int /\ Asked(j) \in Nat
<1>1. payload[j] \in Payload
    BY Constants DEF Types
<1>2. payload[j].failUntil \in Int
    BY <1>1 DEF Payload
<1>3. Policy(j).failUntil \in Int
    <2>1. CASE payload[j].mode = ""
        <3>1. Policy(j) = [mode |-> "none", failUntil |-> 0, delay |-> FALSE]
            BY <2>1, Zenon DEF Policy, FromPayload
        <3> QED BY <3>1
    <2>2. CASE payload[j].mode # ""
        BY <1>2, <2>2 DEF Policy, FromPayload
    <2> QED BY <2>1, <2>2
<1> QED BY <1>3 DEF Asked

(* What a handler can return while its context has not ended is what the   *)
(* policy asks for.                                                        *)
LEMMA Verdict ==
    ASSUME Types, NEW j \in Jobs, retry[j] <= Asked(j),
           NEW result \in Handle(payload[j], retry[j], FALSE)
    PROVE  /\ ~Blocks(Policy(j))
           /\ result = "ok" => retry[j] = Asked(j)
           /\ result # "ok" => retry[j] + 1 <= Asked(j)
<1>1. retry[j] \in Nat /\ Asked(j) \in Nat
    BY AskedType DEF Types
<1>2. result \in (CASE Blocks(Policy(j))                 -> {}
                    [] Injects(Policy(j), retry[j] + 1)  -> {"err"}
                    [] OTHER                             -> {"ok"})
    BY DEF Handle, Policy
<1>3. ~Blocks(Policy(j)) /\ (Injects(Policy(j), retry[j] + 1) <=> result = "err")
      /\ result \in {"ok", "err"}
    BY <1>2 DEF Blocks, Injects
<1>4. Policy(j).failUntil \in Int
    BY AskedType
<1> QED BY <1>1, <1>3, <1>4 DEF Injects, Asked

(* A step that leaves a job and those who hold it alone. *)
LEMMA Untouched ==
    ASSUME NEW j \in Jobs, Decided(j) /\ Reported(j),
           UNCHANGED payload, state'[j] = state[j], retry'[j] = retry[j],
           \A g \in Goroutines : gjob'[g] = j =>
               gpc'[g] \notin {"ack", "fail"} \/ (gjob[g] = j /\ gpc'[g] = gpc[g])
    PROVE  Decided(j)' /\ Reported(j)'
<1>1. Policy(j)' = Policy(j) /\ Asked(j)' = Asked(j)
    BY DEF Policy, Asked
<1>2. Decided(j)'
    BY <1>1 DEF Decided, Blocks
<1>3. Reported(j)'
    BY <1>1 DEF Reported, Blocks
<1> QED BY <1>2, <1>3

LEMMA PolicyInit == Init => PolicyInv
<1> SUFFICES ASSUME Init, NEW j \in Jobs PROVE Decided(j) /\ Reported(j)
    BY DEF PolicyInv
<1>1. Types
    BY RunInit DEF RunInv
<1>2. Asked(j) \in Nat
    BY <1>1, AskedType
<1>3. Decided(j)
    BY <1>2, Constants DEF Decided, Init
<1>4. Reported(j)
    BY Constants DEF Reported, Init
<1> QED BY <1>3, <1>4

LEMMA PolicyStep == RunInv /\ PolicyInv /\ [Next]_vars => PolicyInv'
<1> SUFFICES ASSUME RunInv, PolicyInv, [Next]_vars, NEW j \in Jobs, j \notin spoilt'
             PROVE  Decided(j)' /\ Reported(j)'
    BY DEF PolicyInv, RunInv, Types
<1>0. Types /\ Holding
    BY DEF RunInv
<1>x. j \notin spoilt => Decided(j) /\ Reported(j)
    BY DEF PolicyInv
<1> USE <1>0, Constants DEF runVars, jobVars
<1>a. ASSUME UNCHANGED <<gpc, gjob, state, retry, payload, spoilt>> PROVE Decided(j)' /\ Reported(j)'
    BY <1>a, <1>x, Untouched
<1>b. ASSUME NEW g \in Goroutines, NEW s, s \notin {"ack", "fail"},
             gpc' = [gpc EXCEPT ![g] = s], gjob' \in {gjob, [gjob EXCEPT ![g] = NoJob]},
             UNCHANGED <<state, retry, payload, spoilt>>
      PROVE  Decided(j)' /\ Reported(j)'
    <2>1. \A h \in Goroutines : gjob'[h] = j =>
            gpc'[h] \notin {"ack", "fail"} \/ (gjob[h] = j /\ gpc'[h] = gpc[h])
        BY <1>b DEF Types
    <2> QED BY <1>b, <1>x, <2>1, Untouched
<1>1. ASSUME NEW c \in Calls, Run(c) \/ RecoverFails(c) \/ SeeDone(c) \/ Return(c)
      PROVE  Decided(j)' /\ Reported(j)'
    BY <1>1, <1>a DEF Run, RecoverFails, Begin, SeeDone, Return
<1>2. ASSUME NEW c \in Calls, Recover(c) PROVE Decided(j)' /\ Reported(j)'
    <2>1. j \notin spoilt /\ j \notin Orphans /\ UNCHANGED <<gpc, gjob, payload>>
        BY <1>2 DEF Recover, Begin
    <2>2. state'[j] = state[j] /\ retry'[j] = retry[j]
        BY <1>2, <2>1 DEF Recover
    <2> QED BY <1>x, <2>1, <2>2, Untouched
<1>3. ASSUME NEW c \in Calls, Spawn(c) PROVE Decided(j)' /\ Reported(j)'
    BY <1>3, <1>b DEF Spawn
<1>4. CASE CancelRun
    BY <1>4, <1>a DEF CancelRun
<1>5. ASSUME NEW g \in Goroutines,
             \/ PollCancelled(g) \/ PollFires(g) \/ NoLease(g) \/ LeaseLost(g)
             \/ ReportFails(g) \/ GiveBack(g) \/ Exit(g)
      PROVE  Decided(j)' /\ Reported(j)'
    <2>1. \E s \in {"lease", "give", "exit", "none"} : gpc' = [gpc EXCEPT ![g] = s]
        BY <1>5 DEF PollCancelled, PollFires, NoLease, LeaseLost, ReportFails, GiveBack, Exit,
           Unheld, Goto
    <2>2. /\ UNCHANGED <<state, retry, payload, spoilt>>
          /\ gjob' \in {gjob, [gjob EXCEPT ![g] = NoJob]}
        BY <1>5 DEF PollCancelled, PollFires, NoLease, LeaseLost, ReportFails, GiveBack, Exit, Unheld
    <2> QED BY <2>1, <2>2, <1>b
<1>6. ASSUME NEW g \in Goroutines, Lease(g) PROVE Decided(j)' /\ Reported(j)'
    <2>1. PICK k \in Jobs :
            /\ state[k] = "pending" /\ state' = [state EXCEPT ![k] = "leased"]
            /\ \/ gpc' = [gpc EXCEPT ![g] = "run"] /\ gjob' = [gjob EXCEPT ![g] = k]
               \/ gpc' = [gpc EXCEPT ![g] = "give"] /\ UNCHANGED gjob
        BY <1>6 DEF Lease, Goto
    <2>2. UNCHANGED <<retry, payload, spoilt>> /\ j \notin spoilt
        BY <1>6 DEF Lease
    <2>3. \A h \in Goroutines : gjob'[h] = j =>
            gpc'[h] \notin {"ack", "fail"} \/ (gjob[h] = j /\ gpc'[h] = gpc[h])
        BY <2>1 DEF Types
    <2>4. CASE k # j
        <3>1. state'[j] = state[j]
            BY <2>1, <2>4 DEF Types
        <3> QED BY <2>2, <2>3, <3>1, <1>x, Untouched
    <2>5. CASE k = j
        <3>1. state[j] = "pending" /\ state'[j] = "leased"
            BY <2>1, <2>5 DEF Types
        <3>2. Policy(j)' = Policy(j) /\ Asked(j)' = Asked(j)
            BY <2>2 DEF Policy, Asked
        <3>3. Decided(j)'
            BY <1>x, <2>2, <3>1, <3>2 DEF Decided, Blocks
        <3>4. Reported(j)'
            BY <1>x, <2>2, <2>3, <3>2 DEF Reported, Blocks
        <3> QED BY <3>3, <3>4
    <2> QED BY <2>4, <2>5
<1>7. ASSUME NEW g \in Goroutines, HandlerReturns(g) PROVE Decided(j)' /\ Reported(j)'
    <2>1. PICK result \in Handle(payload[gjob[g]], retry[gjob[g]], done) :
            /\ gpc' = [gpc EXCEPT ![g] = IF result = "ok" THEN "ack" ELSE "fail"]
            /\ spoilt' = IF result \in Handle(payload[gjob[g]], retry[gjob[g]], FALSE)
                         THEN spoilt ELSE spoilt \cup {gjob[g]}
        BY <1>7 DEF HandlerReturns, Goto
    <2>2. /\ gpc[g] = "run" /\ UNCHANGED <<gjob, state, retry, payload>>
          /\ j \notin spoilt
          /\ gjob[g] = j => result \in Handle(payload[j], retry[j], FALSE)
        BY <1>7, <2>1 DEF HandlerReturns
    <2>3. CASE gjob[g] # j
        <3>1. \A h \in Goroutines : gjob'[h] = j => gjob[h] = j /\ gpc'[h] = gpc[h]
            BY <2>1, <2>2, <2>3 DEF Types
        <3> QED BY <2>2, <3>1, <1>x, Untouched
    <2>4. CASE gjob[g] = j
        <3>1. state[j] = "leased" /\ j # NoJob
            BY <2>4 DEF Holding
        <3>2. \A h \in Goroutines : gjob'[h] = j => h = g
            BY <2>2, <2>4, <3>1 DEF Holding
        <3>3. retry[j] <= Asked(j)
            BY <1>x, <2>2, <3>1 DEF Decided
        <3>4. /\ ~Blocks(Policy(j))
              /\ result = "ok" => retry[j] = Asked(j)
              /\ result # "ok" => retry[j] + 1 <= Asked(j)
            BY <2>1, <2>2, <2>4, <3>3, Verdict
        <3>5. Policy(j)' = Policy(j) /\ Asked(j)' = Asked(j)
            BY <2>2 DEF Policy, Asked
        <3>6. Decided(j)'
            BY <1>x, <2>2, <3>5 DEF Decided, Blocks
        <3>7. gpc'[g] = IF result = "ok" THEN "ack" ELSE "fail"
            BY <2>1 DEF Types
        <3>8. Reported(j)'
            BY <2>2, <3>2, <3>4, <3>5, <3>7 DEF Reported, Blocks
        <3> QED BY <3>6, <3>8
    <2> QED BY <2>3, <2>4
<1>8. ASSUME NEW g \in Goroutines, Report(g) PROVE Decided(j)' /\ Reported(j)'
    <2>1. /\ gpc[g] \in {"ack", "fail"} /\ UNCHANGED <<payload, spoilt>> /\ j \notin spoilt
          /\ gpc' = [gpc EXCEPT ![g] = "give"] /\ gjob' = [gjob EXCEPT ![g] = NoJob]
        BY <1>8 DEF Report, Unheld, Goto
    <2>2. gjob[g] \in Jobs /\ state[gjob[g]] = "leased"
        BY <2>1 DEF Holding, Types
    <2>3. CASE gjob[g] # j
        <3>1. state'[j] = state[j] /\ retry'[j] = retry[j]
            BY <1>8, <2>2, <2>3 DEF Report, Types
        <3>2. \A h \in Goroutines : gjob'[h] = j => gjob[h] = j /\ gpc'[h] = gpc[h]
            BY <2>1 DEF Types
        <3> QED BY <2>1, <3>1, <3>2, <1>x, Untouched
    <2>4. CASE gjob[g] = j
        <3>1. \A h \in Goroutines : gjob'[h] # j
            BY <2>1, <2>2, <2>4 DEF Holding, Types
        <3>2. Policy(j)' = Policy(j) /\ Asked(j)' = Asked(j) /\ Asked(j) \in Nat
            BY <2>1, AskedType DEF Policy, Asked
        <3>3. retry[j] \in Nat /\ retry[j] < Budget /\ retry[j] <= Asked(j) /\ ~Blocks(Policy(j))
              /\ (gpc[g] = "ack" => retry[j] = Asked(j))
              /\ (gpc[g] = "fail" => retry[j] + 1 <= Asked(j))
            BY <1>x, <2>1, <2>2, <2>4 DEF Decided, Reported, Types
        <3>4. \/ gpc[g] = "ack" /\ state'[j] = "completed" /\ retry'[j] = retry[j]
              \/ gpc[g] = "fail" /\ state'[j] = Attempted(j) /\ retry'[j] = retry[j] + 1
            BY <1>8, <2>2, <2>4 DEF Report, Types
        <3>5. Blocks(Policy(j)') = Blocks(Policy(j))
            BY <3>2
        <3>6. Decided(j)'
            BY <3>2, <3>3, <3>4, <3>5 DEF Decided, Attempted
        <3>7. Reported(j)'
            BY <3>1 DEF Reported
        <3> QED BY <3>6, <3>7
    <2> QED BY <2>3, <2>4
<1>9. CASE RetentionNext
    BY <1>9, <1>a DEF RetentionNext, RetentionPass, RetentionFires, RetentionDone, RetentionExits
<1>10. ASSUME NEW k \in Jobs, Expire(k) PROVE Decided(j)' /\ Reported(j)'
    BY <1>10, <1>a DEF Expire
<1>11. CASE Crash \/ Restart
    <2>1. UNCHANGED <<state, retry, payload, spoilt>> /\ \A g \in Goroutines : gjob'[g] # j
        BY <1>11 DEF Crash, Restart, NewProcess
    <2> QED BY <1>x, <2>1, Untouched
<1>12. CASE UNCHANGED vars
    BY <1>12, <1>a DEF vars
<1> QED BY <1>1, <1>2, <1>3, <1>4, <1>5, <1>6, <1>7, <1>8, <1>9, <1>10, <1>11, <1>12
        DEF Next, CallNext, GoroutineNext

(* A job that lost no attempt to a crash, a store error or a shutdown ends *)
(* as its payload says, whatever the interleaving.                         *)
THEOREM PolicyDecidesHolds == Spec => []PolicyDecides
<1>1. PolicyInv => PolicyDecides
    BY DEF PolicyInv, Decided, Asked, Policy, PolicyDecides
<1>2. RunInv /\ PolicyInv /\ [Next]_vars => PolicyInv'
    BY PolicyStep
<1> QED BY RunInvariant, PolicyInit, <1>1, <1>2, PTL DEF Spec
=============================================================================
