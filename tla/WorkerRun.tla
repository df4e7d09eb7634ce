----------------------------- MODULE WorkerRun -----------------------------
(***************************************************************************)
(* One worker process: Worker.Run with its goroutines, from the first call *)
(* to the return, and the processes that are started after it on the same  *)
(* file.                                                                   *)
(*                                                                         *)
(* Run recovers expired leases once, then hands out the tokens of a        *)
(* semaphore, one goroutine per token, until its context ends; then it     *)
(* waits for all of them and for the retention loop.  A goroutine runs     *)
(* processOne for one job and gives its token back in a deferred call.     *)
(*                                                                         *)
(* Go picks among the ready cases of a select at random: after the context *)
(* has ended, Run may still start goroutines and a goroutine may still     *)
(* lease.  Other processes that lease at the same time are the subject of  *)
(* LeaseProtocol; a lease that is held here has its heartbeat and does not *)
(* expire, unless a renewal fails.                                         *)
(***************************************************************************)
EXTENDS FaultInjector, FiniteSets

CONSTANTS
    Calls,          \* calls of Run on one Worker
    Goroutines,     \* ids of goroutines: more than can be alive at once
    Jobs,
    NoJob,          \* the job of a goroutine that has none
    Concurrency,    \* WithConcurrency
    Retention,      \* "off", "once" (no interval) or "loop"
    Payloads,       \* what the jobs' payloads say
    Budget          \* max_attempts of the jobs

ASSUME WorkerAssumption ==
    /\ NoJob \notin Jobs
    /\ Concurrency \in Nat
    /\ IsFiniteSet(Goroutines) /\ Cardinality(Goroutines) > Concurrency
    /\ Retention \in {"off", "once", "loop"}
    /\ Payloads \subseteq Payload
    /\ Budget \in Nat \ {0}

VARIABLES
    running,    \* w.running, set together with w.cancel
    done,       \* the context that Run derived has ended
    rpc,        \* calls: program counter
    sem,        \* tokens in the channel
    wg,         \* counter of the wait group
    gpc, gjob,  \* goroutines: program counter and job
    tpc,        \* the retention goroutine
    \* columns of the jobs table; payload never changes
    state, retry, payload,
    expired,    \* jobs whose leased_until has passed
    spoilt      \* history: jobs that lost an attempt other than in their handler

runVars == <<running, done, rpc>>
jobVars == <<state, retry, payload, expired, spoilt>>
vars    == <<runVars, sem, wg, gpc, gjob, tpc, jobVars>>

CallSteps == {"new", "recover", "loop", "wait", "returned"}

(* "poll" is the select of processOne, "lease" the call after it, "ack" and *)
(* "fail" the report of the outcome; "give" and "exit" are the deferred     *)
(* calls, the token first.                                                  *)
GoroutineSteps == {"none", "poll", "lease", "run", "ack", "fail", "give", "exit"}

RetentionSteps == {"none", "pass", "wait", "exit"}

TypeOK ==
    /\ running \in BOOLEAN /\ done \in BOOLEAN
    /\ rpc \in [Calls -> CallSteps]
    /\ sem \in Nat /\ wg \in Nat
    /\ gpc \in [Goroutines -> GoroutineSteps]
    /\ gjob \in [Goroutines -> Jobs \cup {NoJob}]
    /\ tpc \in RetentionSteps
    /\ state \in [Jobs -> {"pending", "leased", "completed", "dead_letter"}]
    /\ retry \in [Jobs -> Nat]
    /\ payload \in [Jobs -> Payloads]
    /\ expired \in SUBSET Jobs
    /\ spoilt \in SUBSET Jobs

(* NewWorker, and the values that a process starts with. *)
Init ==
    /\ running = FALSE /\ done = FALSE
    /\ rpc = [c \in Calls |-> "new"]
    /\ sem = 0 /\ wg = 0
    /\ gpc = [g \in Goroutines |-> "none"]
    /\ gjob = [g \in Goroutines |-> NoJob]
    /\ tpc = "none"
    /\ state = [j \in Jobs |-> "pending"]
    /\ retry = [j \in Jobs |-> 0]
    /\ payload \in [Jobs -> Payloads]
    /\ expired = {}
    /\ spoilt = {}

-----------------------------------------------------------------------------
(* Run and Stop *)

(* The calls that have got past the check of running. *)
Accepted(c) == rpc[c] \in {"recover", "loop", "wait", "returned"}

Alive   == {g \in Goroutines : gpc[g] # "none"}
Busy    == {g \in Goroutines : gpc[g] \notin {"none", "give", "exit"}}
Held(j) == \E g \in Goroutines : gjob[g] = j

(* Mutant: Run does not look at running. *)
CanRunAgain(c) == rpc[c] = "new"

CanRun(c) == rpc[c] = "new" /\ ~running

(* The part of Run under the mutex; while running is set, a call returns   *)
(* an error and changes nothing.  Nothing resets running.  The context that *)
(* it derives has ended from the start if that of the caller has.          *)
Run(c) ==
    /\ CanRun(c)
    /\ running' = TRUE
    /\ done' \in BOOLEAN
    /\ rpc' = [rpc EXCEPT ![c] = "recover"]
    /\ UNCHANGED <<sem, wg, gpc, gjob, tpc, jobVars>>

(* The semaphore is filled and the retention goroutine started. *)
Begin(c) ==
    /\ rpc' = [rpc EXCEPT ![c] = "loop"]
    /\ sem' = Concurrency
    /\ tpc' = IF Retention = "off" THEN "none" ELSE "pass"
    /\ wg' = IF Retention = "off" THEN wg ELSE wg + 1
    /\ UNCHANGED <<running, done, gpc, gjob>>

(* Mutant: a job whose attempts are used up is marked failed. *)
AttemptedFailed(j) == IF retry[j] + 1 >= Budget THEN "failed" ELSE "pending"

(* The state of a job that has used an attempt. *)
Attempted(j) == IF retry[j] + 1 >= Budget THEN "dead_letter" ELSE "pending"

(* Mutant: recovery asks for leases that have not expired. *)
OrphansUnexpired == {j \in Jobs : state[j] = "leased" /\ j \notin expired}

(* RecoverOrphanedLeases asks for leases past their deadlines. *)
Orphans == {j \in Jobs : state[j] = "leased" /\ j \in expired}

Recover(c) ==
    /\ rpc[c] = "recover"
    /\ Begin(c)
    /\ state' = [j \in Jobs |-> IF j \in Orphans THEN Attempted(j) ELSE state[j]]
    /\ retry' = [j \in Jobs |-> IF j \in Orphans THEN retry[j] + 1 ELSE retry[j]]
    /\ spoilt' = spoilt \cup Orphans
    /\ expired' = expired \ Orphans
    /\ UNCHANGED payload

(* An error of Recover is logged, and Run goes on. *)
RecoverFails(c) ==
    /\ rpc[c] = "recover"
    /\ Begin(c)
    /\ UNCHANGED jobVars

(* case <-sem of the loop *)
Spawn(c) ==
    /\ rpc[c] = "loop" /\ sem > 0
    /\ \E g \in Goroutines : gpc[g] = "none" /\ gpc' = [gpc EXCEPT ![g] = "poll"]
    /\ sem' = sem - 1
    /\ wg' = wg + 1
    /\ UNCHANGED <<runVars, gjob, tpc, jobVars>>

(* case <-ctx.Done() of the loop *)
SeeDone(c) ==
    /\ rpc[c] = "loop" /\ done
    /\ rpc' = [rpc EXCEPT ![c] = "wait"]
    /\ UNCHANGED <<running, done, sem, wg, gpc, gjob, tpc, jobVars>>

(* wg.Wait() returns. *)
Return(c) ==
    /\ rpc[c] = "wait" /\ wg = 0
    /\ rpc' = [rpc EXCEPT ![c] = "returned"]
    /\ UNCHANGED <<running, done, sem, wg, gpc, gjob, tpc, jobVars>>

(* The context of the accepted call ends, by a signal in the work command, *)
(* or Stop is called, which does nothing before Run has set w.cancel.      *)
CancelRun ==
    /\ running /\ ~done
    /\ done' = TRUE
    /\ UNCHANGED <<running, rpc, sem, wg, gpc, gjob, tpc, jobVars>>

-----------------------------------------------------------------------------
(* processOne *)

Goto(g, step) == gpc' = [gpc EXCEPT ![g] = step]

Unheld(g, step) == Goto(g, step) /\ gjob' = [gjob EXCEPT ![g] = NoJob]

PollCancelled(g) ==
    /\ gpc[g] = "poll" /\ done
    /\ Goto(g, "give")
    /\ UNCHANGED <<runVars, sem, wg, gjob, tpc, jobVars>>

PollFires(g) ==
    /\ gpc[g] = "poll"
    /\ Goto(g, "lease")
    /\ UNCHANGED <<runVars, sem, wg, gjob, tpc, jobVars>>

(* Lease returns a job, or an error after the row has been leased. *)
Lease(g) ==
    /\ gpc[g] = "lease"
    /\ \E j \in Jobs :
        /\ state[j] = "pending"
        /\ state' = [state EXCEPT ![j] = "leased"]
        /\ \/ Goto(g, "run") /\ gjob' = [gjob EXCEPT ![g] = j]
           \/ Goto(g, "give") /\ UNCHANGED gjob
    /\ UNCHANGED <<runVars, sem, wg, tpc, retry, payload, expired, spoilt>>

(* Lease returns nil, or an error before the row has been leased. *)
NoLease(g) ==
    /\ gpc[g] = "lease"
    /\ Goto(g, "give")
    /\ UNCHANGED <<runVars, sem, wg, gjob, tpc, jobVars>>

(* The handler returns.  The attempt is spoilt when only the ending of its *)
(* context made it return what it does.                                    *)
HandlerReturns(g) ==
    /\ gpc[g] = "run"
    /\ LET j == gjob[g] IN
        \E result \in Handle(payload[j], retry[j], done) :
            /\ Goto(g, IF result = "ok" THEN "ack" ELSE "fail")
            /\ spoilt' = IF result \in Handle(payload[j], retry[j], FALSE) THEN spoilt
                         ELSE spoilt \cup {j}
    /\ UNCHANGED <<runVars, sem, wg, gjob, tpc, state, retry, payload, expired>>

(* A renewal fails: the handler is cancelled, its outcome is not reported   *)
(* and the row stays leased.                                                *)
LeaseLost(g) ==
    /\ gpc[g] = "run"
    /\ Unheld(g, "give")
    /\ UNCHANGED <<runVars, sem, wg, tpc, jobVars>>

(* AcknowledgeLease and FailLease.  The token cannot have been lost here.  *)
Report(g) ==
    /\ gpc[g] \in {"ack", "fail"}
    /\ LET j == gjob[g] IN
        IF gpc[g] = "ack"
        THEN state' = [state EXCEPT ![j] = "completed"] /\ UNCHANGED retry
        ELSE /\ state' = [state EXCEPT ![j] = Attempted(j)]
             /\ retry' = [retry EXCEPT ![j] = @ + 1]
    /\ Unheld(g, "give")
    /\ UNCHANGED <<runVars, sem, wg, tpc, payload, expired, spoilt>>

(* An error of the store is logged, and the row stays leased. *)
ReportFails(g) ==
    /\ gpc[g] \in {"ack", "fail"}
    /\ Unheld(g, "give")
    /\ UNCHANGED <<runVars, sem, wg, tpc, jobVars>>

(* Mutant: the token is given back, and given back again. *)
GiveBackTwice(g) ==
    /\ gpc[g] = "give" /\ sem < Concurrency
    /\ sem' = sem + 1
    /\ \E next \in {"give", "exit"} : Goto(g, next)
    /\ UNCHANGED <<runVars, wg, gjob, tpc, jobVars>>

(* defer sem <- struct{}{}: the send blocks while the channel is full. *)
GiveBack(g) ==
    /\ gpc[g] = "give" /\ sem < Concurrency
    /\ sem' = sem + 1
    /\ Goto(g, "exit")
    /\ UNCHANGED <<runVars, wg, gjob, tpc, jobVars>>

(* Mutant: wg.Done is skipped on the early return of a cancelled goroutine. *)
ExitUncounted(g) ==
    /\ gpc[g] = "exit"
    /\ wg' = IF done THEN wg ELSE wg - 1
    /\ Goto(g, "none")
    /\ UNCHANGED <<runVars, sem, gjob, tpc, jobVars>>

(* defer w.wg.Done() *)
Exit(g) ==
    /\ gpc[g] = "exit"
    /\ wg' = wg - 1
    /\ Goto(g, "none")
    /\ UNCHANGED <<runVars, sem, gjob, tpc, jobVars>>

-----------------------------------------------------------------------------
(* retentionLoop: the first pass does not look at the context. *)

RetentionPass ==
    /\ tpc = "pass"
    /\ tpc' = IF Retention = "once" THEN "exit" ELSE "wait"
    /\ UNCHANGED <<runVars, sem, wg, gpc, gjob, jobVars>>

RetentionFires ==
    /\ tpc = "wait"
    /\ tpc' = "pass"
    /\ UNCHANGED <<runVars, sem, wg, gpc, gjob, jobVars>>

RetentionDone ==
    /\ tpc = "wait" /\ done
    /\ tpc' = "exit"
    /\ UNCHANGED <<runVars, sem, wg, gpc, gjob, jobVars>>

RetentionExits ==
    /\ tpc = "exit"
    /\ tpc' = "none"
    /\ wg' = wg - 1
    /\ UNCHANGED <<runVars, sem, gpc, gjob, jobVars>>

-----------------------------------------------------------------------------
(* Processes and time *)

(* A lease that no heartbeat renews runs out. *)
Expire(j) ==
    /\ state[j] = "leased" /\ j \notin expired /\ ~Held(j)
    /\ expired' = expired \cup {j}
    /\ UNCHANGED <<runVars, sem, wg, gpc, gjob, tpc, state, retry, payload, spoilt>>

(* What a process kept in memory is gone, and the next has a new Worker. *)
NewProcess ==
    /\ running' = FALSE /\ done' = FALSE
    /\ rpc' = [c \in Calls |-> "new"]
    /\ sem' = 0 /\ wg' = 0
    /\ gpc' = [g \in Goroutines |-> "none"]
    /\ gjob' = [g \in Goroutines |-> NoJob]
    /\ tpc' = "none"
    /\ UNCHANGED jobVars

Crash == running /\ NewProcess

(* The work command exits when Run has returned, and is started again. *)
Restart == (\E c \in Calls : rpc[c] = "returned") /\ NewProcess

CallNext(c) ==
    Run(c) \/ Recover(c) \/ RecoverFails(c) \/ Spawn(c)
    \/ SeeDone(c) \/ Return(c)

GoroutineNext(g) ==
    \/ PollCancelled(g) \/ PollFires(g) \/ Lease(g) \/ NoLease(g) \/ HandlerReturns(g)
    \/ LeaseLost(g) \/ Report(g) \/ ReportFails(g) \/ GiveBack(g) \/ Exit(g)

RetentionNext == RetentionPass \/ RetentionFires \/ RetentionDone \/ RetentionExits

Next ==
    \/ \E c \in Calls : CallNext(c)
    \/ CancelRun
    \/ \E g \in Goroutines : GoroutineNext(g)
    \/ RetentionNext
    \/ \E j \in Jobs : Expire(j)
    \/ Crash \/ Restart

Spec == Init /\ [][Next]_vars

-----------------------------------------------------------------------------
(* Safety *)

(* Every token is in the channel or with one goroutine that has not given  *)
(* it back, whatever way processOne ended, and the wait group counts the   *)
(* goroutines that Run has to wait for.  So no slot is ever lost and no    *)
(* deferred send blocks.                                                   *)
TokensConserved ==
    (\E c \in Calls : rpc[c] \in {"loop", "wait", "returned"}) =>
        /\ sem + Cardinality({g \in Alive : gpc[g] # "exit"}) = Concurrency
        /\ wg = Cardinality(Alive) + (IF tpc = "none" THEN 0 ELSE 1)

(* A worker runs at most Concurrency jobs at a time, no job twice, for one *)
(* call of Run at most, and when that call has returned nothing of it is   *)
(* left: no goroutine, no handler, no retention pass.                      *)
OneRun ==
    /\ Cardinality({c \in Calls : Accepted(c)}) <= 1
    /\ Cardinality(Busy) <= Concurrency
    /\ \A g, h \in Goroutines : g # h /\ gjob[g] = gjob[h] => gjob[g] = NoJob
    /\ (\E c \in Calls : rpc[c] = "returned") => Alive = {} /\ tpc = "none"

(* The policy decides how a job ends: it is completed by its first attempt *)
(* after the injected failures, and dead-lettered only if there are as     *)
(* many of these as attempts.  It holds for the jobs that lost no attempt  *)
(* to a crash, a store error or a shutdown.                                *)
PolicyDecides ==
    \A j \in Jobs \ spoilt :
        LET policy == FromPayload(payload[j])
            failures == IF policy.mode \in {"error", "panic"} /\ policy.failUntil > 0
                        THEN policy.failUntil ELSE 0
        IN  /\ state[j] = "completed" => retry[j] = failures /\ failures < Budget
            /\ state[j] = "dead_letter" => retry[j] = Budget /\ failures >= Budget
            /\ Blocks(policy) => retry[j] = 0 /\ state[j] \in {"pending", "leased"}

(* "Block until the caller cancels us when the lease expires.  The job     *)
(* then appears orphaned and is recovered by the next worker run": a slow  *)
(* handler's own worker never reports an outcome for it.                   *)
SlowIsOrphaned ==
    \A g \in Goroutines : gpc[g] \in {"ack", "fail"} => payload[gjob[g]].mode # "slow"

-----------------------------------------------------------------------------
(* Liveness *)

(* Goroutines are scheduled, timers fire, Go's select does not avoid a     *)
(* ready case for ever, statements return, a handler returns when it can,  *)
(* which for a blocked one is when its context ends.                       *)
RunFairness ==
    /\ \A c \in Calls : WF_vars(Run(c)) /\ WF_vars(SeeDone(c)) /\ WF_vars(Return(c))
        /\ WF_vars(Recover(c) \/ RecoverFails(c))
    /\ \A g \in Goroutines :
        /\ WF_vars(PollCancelled(g) \/ PollFires(g))
        /\ WF_vars(Lease(g) \/ NoLease(g))
        /\ WF_vars(HandlerReturns(g))
        /\ WF_vars(Report(g) \/ ReportFails(g))
        /\ WF_vars(GiveBack(g))
        /\ WF_vars(Exit(g))
    /\ WF_vars(RetentionPass)
    /\ SF_vars(RetentionDone)
    /\ WF_vars(RetentionExits)

(* Workers keep being stopped and started: a supervisor restarts them, and *)
(* sooner or later a start gets as far as its first statement.             *)
RestartFairness ==
    /\ \A c \in Calls : SF_vars(Recover(c))
    /\ \A j \in Jobs : WF_vars(Expire(j))
    /\ WF_vars(CancelRun)
    /\ WF_vars(Restart)

FairSpec == Spec /\ RunFairness /\ RestartFairness

(* Once its context has ended or Stop was called, Run returns, unless the  *)
(* process dies: the loop, the slots and the retention loop all end.       *)
StopReturns ==
    (running /\ done) ~> (~running \/ \E c \in Calls : rpc[c] = "returned")

(* Recovery runs when a worker starts and never again, so a lease that     *)
(* nobody holds comes back only as long as workers are started.            *)
OrphansReturn ==
    \A j \in Jobs :
        (state[j] = "leased" /\ ~Held(j)) ~> (state[j] # "leased" \/ Held(j))
=============================================================================
