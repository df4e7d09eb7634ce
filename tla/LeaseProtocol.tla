--------------------------- MODULE LeaseProtocol ---------------------------
(***************************************************************************)
(* The lease protocol: every statement that the queue, the worker slots,   *)
(* the startup recovery and the operator's commands execute on the jobs    *)
(* table of one shared SQLite file, with the steps each caller takes       *)
(* between two statements.                                                 *)
(*                                                                         *)
(* SQLite runs one statement at a time, so an action is one statement with *)
(* the Go code around it.  Several processes share the file: whatever a    *)
(* caller remembers between two statements may be stale at the second.     *)
(*                                                                         *)
(* A worker slot is one goroutine of Worker.Run that executes processOne,  *)
(* together with the heartbeat goroutine of startLeaseRenewal.  The append *)
(* of an event is a statement of its own; here it is only the step at      *)
(* which a caller may still fail.                                          *)
(***************************************************************************)
EXTENDS Timestamps, FiniteSets

CONSTANTS
    Jobs,           \* the job ids that newID will return
    Workers,        \* worker slots, of all processes
    Recoverers,     \* processes that run Queue.Recover
    Clients,        \* callers of Enqueue and Requeue
    NoJob,          \* the job of a slot or client that has none
    Budgets,        \* values given for the max-attempts option
    RunAts,         \* values of the run-at option, NullTime when absent
    LeaseDuration,  \* in ticks
    MaxTime,        \* bound: the clock stops here
    MaxLeases       \* bound: number of lease tokens that can be drawn

ASSUME LeaseAssumption ==
    /\ NoJob \notin Jobs
    /\ Budgets \subseteq Int
    /\ RunAts \subseteq Nat \cup {NullTime}
    /\ LeaseDuration \in Nat \ {0}
    /\ MaxTime \in Nat
    /\ MaxLeases \in Nat

VARIABLES
    clock,      \* time.Now() of every process
    \* the columns of the jobs table
    state, retry, budget, token, until, runAt,
    nextToken,  \* the next value of newLeaseToken
    \* worker slots: program counter, leased job and token, heartbeat
    wpc, wjob, wtok, wrn,
    \* recoverers: rows scanned and not yet updated, rows updated and not
    \* yet logged
    orphans, recovered,
    \* clients: program counter, job, max-attempts option, value read
    cpc, cjob, cask, cread,
    \* history: leases granted to a job since it was enqueued or requeued,
    \* and the jobs whose current budget a stale recovery has disturbed
    runs, clobbered

jobVars    == <<state, retry, budget, token, until, runAt>>
slotVars   == <<wpc, wjob, wtok, wrn>>
recVars    == <<orphans, recovered>>
clientVars == <<cpc, cjob, cask, cread>>
histVars   == <<runs, clobbered>>
vars == <<clock, jobVars, nextToken, slotVars, recVars, clientVars, histVars>>

-----------------------------------------------------------------------------

NullToken == 0

(* A row of the jobs table: not inserted yet, in one of the job states, or *)
(* deleted.  StateFailed is never assigned by the code.                    *)
RowStates == {"unborn", "pending", "leased", "completed", "dead_letter", "deleted"}

Terminal == {"completed", "dead_letter"}

(* The steps of processOne.  "joinOk" and "joinErr" wait for the heartbeat *)
(* after the handler returned nil or an error; "retry" and "bury" are fail *)
(* between its read and its update.                                        *)
SlotSteps == {"idle", "logLeased", "running", "joinOk", "joinErr", "ack",
              "failRead", "retry", "bury", "logAcked", "logRetried", "logBuried"}

(* The heartbeat goroutine: absent, waiting on its timer, between the      *)
(* update and the event of Renew, ended with an error, ended by ctx.Done.  *)
HeartbeatSteps == {"off", "armed", "log", "failed", "done"}

ClientSteps == {"idle", "requeue", "logEnqueued", "logRequeued"}

(* A row as the recovery scanned it, and a row as it reports it. *)
Orphan == [job: Jobs, retry: Int, budget: Int, token: Nat, until: Int]
Report == [job: Jobs, state: {"pending", "dead_letter"}]

TypeOK ==
    /\ clock \in Nat
    /\ state \in [Jobs -> RowStates]
    /\ retry \in [Jobs -> Int]
    /\ budget \in [Jobs -> Int]
    /\ token \in [Jobs -> Nat]
    /\ until \in [Jobs -> Nat \cup {NullTime}]
    /\ runAt \in [Jobs -> Nat \cup {NullTime}]
    /\ nextToken \in Nat \ {NullToken}
    /\ wpc \in [Workers -> SlotSteps]
    /\ wjob \in [Workers -> Jobs \cup {NoJob}]
    /\ wtok \in [Workers -> Nat]
    /\ wrn \in [Workers -> HeartbeatSteps]
    /\ orphans \in [Recoverers -> SUBSET Orphan]
    /\ recovered \in [Recoverers -> SUBSET Report]
    /\ cpc \in [Clients -> ClientSteps]
    /\ cjob \in [Clients -> Jobs \cup {NoJob}]
    /\ cask \in [Clients -> Int]
    /\ cread \in [Clients -> Int]
    /\ runs \in [Jobs -> Nat]
    /\ clobbered \in SUBSET Jobs

Init ==
    /\ clock = 0
    /\ state = [j \in Jobs |-> "unborn"]
    /\ retry = [j \in Jobs |-> 0]
    /\ budget = [j \in Jobs |-> 0]
    /\ token = [j \in Jobs |-> NullToken]
    /\ until = [j \in Jobs |-> NullTime]
    /\ runAt = [j \in Jobs |-> NullTime]
    /\ nextToken = 1
    /\ wpc = [w \in Workers |-> "idle"]
    /\ wjob = [w \in Workers |-> NoJob]
    /\ wtok = [w \in Workers |-> NullToken]
    /\ wrn = [w \in Workers |-> "off"]
    /\ orphans = [r \in Recoverers |-> {}]
    /\ recovered = [r \in Recoverers |-> {}]
    /\ cpc = [c \in Clients |-> "idle"]
    /\ cjob = [c \in Clients |-> NoJob]
    /\ cask = [c \in Clients |-> 0]
    /\ cread = [c \in Clients |-> 0]
    /\ runs = [j \in Jobs |-> 0]
    /\ clobbered = {}

-----------------------------------------------------------------------------
(* Time *)

Tick ==
    /\ clock < MaxTime
    /\ clock' = clock + 1
    /\ UNCHANGED <<jobVars, nextToken, slotVars, recVars, clientVars, histVars>>

-----------------------------------------------------------------------------
(* Clients: Enqueue and Requeue *)

(* Enqueue raises the limit to at least one attempt. *)
EnqueueBudget(b) == IF b < 1 THEN 1 ELSE b

Enqueue(c) ==
    /\ cpc[c] = "idle"
    /\ \E j \in Jobs, b \in Budgets, ra \in RunAts :
        /\ state[j] = "unborn"
        /\ state' = [state EXCEPT ![j] = "pending"]
        /\ budget' = [budget EXCEPT ![j] = EnqueueBudget(b)]
        /\ runAt' = [runAt EXCEPT ![j] = ra]
        /\ cjob' = [cjob EXCEPT ![c] = j]
    /\ cpc' = [cpc EXCEPT ![c] = "logEnqueued"]
    /\ UNCHANGED <<clock, retry, token, until, nextToken, slotVars, recVars,
                   cask, cread, histVars>>

(* Requeue reads the job first and gives up unless it is dead-lettered.    *)
Requeue(c) ==
    /\ cpc[c] = "idle"
    /\ \E j \in Jobs, b \in Budgets :
        /\ state[j] = "dead_letter"
        /\ cjob' = [cjob EXCEPT ![c] = j]
        /\ cask' = [cask EXCEPT ![c] = b]
        /\ cread' = [cread EXCEPT ![c] = budget[j]]
    /\ cpc' = [cpc EXCEPT ![c] = "requeue"]
    /\ UNCHANGED <<clock, jobVars, nextToken, slotVars, recVars, histVars>>

(* An option below one keeps the limit that Requeue read. *)
RequeueBudget(c) == IF cask[c] >= 1 THEN cask[c] ELSE cread[c]

ResetClient(c) ==
    /\ cpc' = [cpc EXCEPT ![c] = "idle"]
    /\ cjob' = [cjob EXCEPT ![c] = NoJob]
    /\ cask' = [cask EXCEPT ![c] = 0]
    /\ cread' = [cread EXCEPT ![c] = 0]

(* The rows the UPDATE of RequeueJob matches. *)
CanRequeue(j) == state[j] = "dead_letter"

RequeueJob(c) ==
    /\ cpc[c] = "requeue"
    /\ LET j == cjob[c] IN
        \/ /\ CanRequeue(j)
           /\ state' = [state EXCEPT ![j] = "pending"]
           /\ retry' = [retry EXCEPT ![j] = 0]
           /\ budget' = [budget EXCEPT ![j] = RequeueBudget(c)]
           /\ token' = [token EXCEPT ![j] = NullToken]
           /\ until' = [until EXCEPT ![j] = NullTime]
           /\ runs' = [runs EXCEPT ![j] = 0]
           /\ clobbered' = clobbered \ {j}
           /\ cpc' = [cpc EXCEPT ![c] = "logRequeued"]
           /\ UNCHANGED <<runAt, cjob, cask, cread>>
        \/ /\ ~CanRequeue(j)
           /\ ResetClient(c)
           /\ UNCHANGED <<jobVars, histVars>>
    /\ UNCHANGED <<clock, nextToken, slotVars, recVars>>

(* The command appends its event and returns. *)
LogClient(c) ==
    /\ cpc[c] \in {"logEnqueued", "logRequeued"}
    /\ ResetClient(c)
    /\ UNCHANGED <<clock, jobVars, nextToken, slotVars, recVars, histVars>>

(* A store error, or the death of the process, before the next statement.  *)
ClientDies(c) ==
    /\ cpc[c] # "idle"
    /\ ResetClient(c)
    /\ UNCHANGED <<clock, jobVars, nextToken, slotVars, recVars, histVars>>

-----------------------------------------------------------------------------
(* Worker slots: processOne *)

ResetSlot(w) ==
    /\ wpc' = [wpc EXCEPT ![w] = "idle"]
    /\ wjob' = [wjob EXCEPT ![w] = NoJob]
    /\ wtok' = [wtok EXCEPT ![w] = NullToken]
    /\ wrn' = [wrn EXCEPT ![w] = "off"]

(* Mutant: the statement asks for any lease of the job. *)
FenceAnyLease(j, t) == state[j] = "leased"

(* The fence of CompleteJobWithToken, FailJobWithToken and RenewJob. *)
Fence(j, t) == state[j] = "leased" /\ token[j] = t

(* Mutant: every process keeps one token. *)
OneLeaseToken == 1

(* newLeaseToken draws 32 random bytes: no two draws are equal. *)
NewLeaseToken == nextToken

(* The WHERE clause of LeaseJob.  The ORDER BY picks one of these rows;    *)
(* any of them may be the one, so no order is assumed here.                *)
Ready(j) ==
    /\ state[j] = "pending"
    /\ runAt[j] = NullTime \/ TextLeq(runAt[j], clock)

LeaseJob(w) ==
    /\ wpc[w] = "idle"
    /\ nextToken <= MaxLeases
    /\ \E j \in Jobs :
        /\ Ready(j)
        /\ state' = [state EXCEPT ![j] = "leased"]
        /\ until' = [until EXCEPT ![j] = clock + LeaseDuration]
        /\ token' = [token EXCEPT ![j] = NewLeaseToken]
        /\ wjob' = [wjob EXCEPT ![w] = j]
        /\ runs' = [runs EXCEPT ![j] = @ + 1]
    /\ wtok' = [wtok EXCEPT ![w] = NewLeaseToken]
    /\ nextToken' = nextToken + 1
    /\ wpc' = [wpc EXCEPT ![w] = "logLeased"]
    /\ UNCHANGED <<clock, retry, budget, runAt, wrn, recVars, clientVars, clobbered>>

(* The leased event is stored; the heartbeat and the handler start. *)
StartHandler(w) ==
    /\ wpc[w] = "logLeased"
    /\ wpc' = [wpc EXCEPT ![w] = "running"]
    /\ wrn' = [wrn EXCEPT ![w] = "armed"]
    /\ UNCHANGED <<clock, jobVars, nextToken, wjob, wtok, recVars, clientVars, histVars>>

(* Mutant: a lost lease is logged and the heartbeat goes on. *)
RenewIgnoresLoss(w) ==
    /\ wrn[w] = "armed"
    /\ Fence(wjob[w], wtok[w])
    /\ until' = [until EXCEPT ![wjob[w]] = clock + LeaseDuration]
    /\ wrn' = [wrn EXCEPT ![w] = "log"]
    /\ UNCHANGED <<clock, state, retry, budget, token, runAt, nextToken,
                   wpc, wjob, wtok, recVars, clientVars, histVars>>

(* The timer fires, also after the handler's return when select prefers it *)
(* to ctx.Done.                                                            *)
Renew(w) ==
    /\ wrn[w] = "armed"
    /\ \/ /\ Fence(wjob[w], wtok[w])
          /\ until' = [until EXCEPT ![wjob[w]] = clock + LeaseDuration]
          /\ wrn' = [wrn EXCEPT ![w] = "log"]
       \/ /\ ~Fence(wjob[w], wtok[w])                      \* ErrLeaseLost
          /\ wrn' = [wrn EXCEPT ![w] = "failed"]
          /\ UNCHANGED until
    /\ UNCHANGED <<clock, state, retry, budget, token, runAt, nextToken,
                   wpc, wjob, wtok, recVars, clientVars, histVars>>

LogRenewed(w) ==
    /\ wrn[w] = "log"
    /\ wrn' = [wrn EXCEPT ![w] = "armed"]
    /\ UNCHANGED <<clock, jobVars, nextToken, wpc, wjob, wtok, recVars, clientVars, histVars>>

(* A store error in the update or in the event of Renew. *)
RenewErrs(w) ==
    /\ wrn[w] \in {"armed", "log"}
    /\ wrn' = [wrn EXCEPT ![w] = "failed"]
    /\ UNCHANGED <<clock, jobVars, nextToken, wpc, wjob, wtok, recVars, clientVars, histVars>>

(* The heartbeat sees ctx.Done: the handler has returned, or the worker is *)
(* being stopped while the handler still runs.                             *)
StopRenewal(w) ==
    /\ wrn[w] = "armed"
    /\ wrn' = [wrn EXCEPT ![w] = "done"]
    /\ UNCHANGED <<clock, jobVars, nextToken, wpc, wjob, wtok, recVars, clientVars, histVars>>

(* The handler returns nil; an error, a cancellation or a panic. *)
HandlerReturns(w) ==
    /\ wpc[w] = "running"
    /\ \E step \in {"joinOk", "joinErr"} : wpc' = [wpc EXCEPT ![w] = step]
    /\ UNCHANGED <<clock, jobVars, nextToken, wjob, wtok, wrn, recVars, clientVars, histVars>>

(* processOne has waited for the heartbeat: an error in its channel drops  *)
(* the outcome of the handler.                                             *)
Joined(w) ==
    /\ wpc[w] \in {"joinOk", "joinErr"}
    /\ \/ wrn[w] = "failed" /\ ResetSlot(w)
       \/ /\ wrn[w] = "done"
          /\ wpc' = [wpc EXCEPT ![w] = IF wpc[w] = "joinOk" THEN "ack" ELSE "failRead"]
          /\ UNCHANGED <<wjob, wtok, wrn>>
    /\ UNCHANGED <<clock, jobVars, nextToken, recVars, clientVars, histVars>>

(* Mutant: the token stays in the row. *)
EndLeaseKeepToken(j, next, count) ==
    /\ state' = [state EXCEPT ![j] = next]
    /\ retry' = [retry EXCEPT ![j] = count]
    /\ until' = [until EXCEPT ![j] = NullTime]
    /\ UNCHANGED <<token, budget, runAt>>

(* Mutant: an exhausted job gets the failed state, which nothing handles. *)
EndLeaseFailed(j, next, count) ==
    /\ state' = [state EXCEPT ![j] = IF next = "dead_letter" THEN "failed" ELSE next]
    /\ retry' = [retry EXCEPT ![j] = count]
    /\ token' = [token EXCEPT ![j] = NullToken]
    /\ until' = [until EXCEPT ![j] = NullTime]
    /\ UNCHANGED <<budget, runAt>>

(* The assignments that end a lease. *)
EndLease(j, next, count) ==
    /\ state' = [state EXCEPT ![j] = next]
    /\ retry' = [retry EXCEPT ![j] = count]
    /\ token' = [token EXCEPT ![j] = NullToken]
    /\ until' = [until EXCEPT ![j] = NullTime]
    /\ UNCHANGED <<budget, runAt>>

Acknowledge(w) ==
    /\ wpc[w] = "ack"
    /\ \/ /\ Fence(wjob[w], wtok[w])
          /\ EndLease(wjob[w], "completed", retry[wjob[w]])
          /\ wpc' = [wpc EXCEPT ![w] = "logAcked"]
          /\ UNCHANGED <<wjob, wtok, wrn>>
       \/ /\ ~Fence(wjob[w], wtok[w])                      \* ErrLeaseLost
          /\ ResetSlot(w)
          /\ UNCHANGED jobVars
    /\ UNCHANGED <<clock, nextToken, recVars, clientVars, histVars>>

(* One more attempt fits into the budget. *)
ShouldRetry(j) == retry[j] + 1 < budget[j]

(* fail reads the job, compares the token and decides between a retry and  *)
(* the dead-letter state.                                                  *)
FailRead(w) ==
    /\ wpc[w] = "failRead"
    /\ LET j == wjob[w] IN
        \/ /\ state[j] # "deleted" /\ token[j] = wtok[w]
           /\ wpc' = [wpc EXCEPT ![w] = IF ShouldRetry(j) THEN "retry" ELSE "bury"]
           /\ UNCHANGED <<wjob, wtok, wrn>>
        \/ /\ state[j] = "deleted" \/ token[j] # wtok[w]
           /\ ResetSlot(w)
    /\ UNCHANGED <<clock, jobVars, nextToken, recVars, clientVars, histVars>>

FailJob(w) ==
    /\ wpc[w] \in {"retry", "bury"}
    /\ LET j == wjob[w] IN
        \/ /\ Fence(j, wtok[w])
           /\ \/ /\ wpc[w] = "retry"
                 /\ EndLease(j, "pending", retry[j] + 1)
                 /\ wpc' = [wpc EXCEPT ![w] = "logRetried"]
              \/ /\ wpc[w] = "bury"
                 /\ EndLease(j, "dead_letter", retry[j] + 1)
                 /\ wpc' = [wpc EXCEPT ![w] = "logBuried"]
           /\ UNCHANGED <<wjob, wtok, wrn>>
        \/ /\ ~Fence(j, wtok[w])                            \* ErrLeaseLost
           /\ ResetSlot(w)
           /\ UNCHANGED jobVars
    /\ UNCHANGED <<clock, nextToken, recVars, clientVars, histVars>>

(* The event is stored and processOne returns. *)
LogOutcome(w) ==
    /\ wpc[w] \in {"logAcked", "logRetried", "logBuried"}
    /\ ResetSlot(w)
    /\ UNCHANGED <<clock, jobVars, nextToken, recVars, clientVars, histVars>>

(* A store error in a statement of processOne, or the death of the process:*)
(* the job keeps whatever lease it has.                                    *)
SlotDies(w) ==
    /\ wpc[w] # "idle"
    /\ ResetSlot(w)
    /\ UNCHANGED <<clock, jobVars, nextToken, recVars, clientVars, histVars>>

-----------------------------------------------------------------------------
(* Startup recovery: Queue.Recover *)

(* The SELECT of RecoverOrphanedLeases. *)
Orphaned(j) == state[j] = "leased" /\ TextLess(until[j], clock)

Row(j) == [job |-> j, retry |-> retry[j], budget |-> budget[j],
           token |-> token[j], until |-> until[j]]

(* An iteration that breaks off goes on with the rows that it has read.    *)
Scan(r) ==
    /\ orphans[r] = {} /\ recovered[r] = {}
    /\ \E scanned \in SUBSET {j \in Jobs : Orphaned(j)} :
        /\ scanned # {}
        /\ orphans' = [orphans EXCEPT ![r] = {Row(j) : j \in scanned}]
    /\ UNCHANGED <<clock, jobVars, nextToken, slotVars, recovered, clientVars, histVars>>

(* Mutant: the update does not guard on the state. *)
CanRecoverAnyRow(o) == state[o.job] # "deleted"

(* The rows the UPDATE for orphan o matches. *)
CanRecover(o) == state[o.job] = "leased"

(* Mutant: off by one, a recovery grants an attempt beyond the budget. *)
ExhaustedLate(o) == o.retry + 1 > o.budget

(* Whether the attempt that was lost was the last one, as scanned. *)
Exhausted(o) == o.retry + 1 >= o.budget

(* The UPDATE for one scanned row, with the count and the budget as the    *)
(* scan read them.  A row that is no longer leased is skipped.             *)
RecoverOne(r) ==
    /\ \E o \in orphans[r] :
        /\ orphans' = [orphans EXCEPT ![r] = @ \ {o}]
        /\ \/ /\ CanRecover(o)
              /\ LET next == IF Exhausted(o) THEN "dead_letter" ELSE "pending" IN
                    /\ EndLease(o.job, next, o.retry + 1)
                    /\ recovered' = [recovered EXCEPT ![r] =
                                        @ \cup {[job |-> o.job, state |-> next]}]
              /\ clobbered' = IF token[o.job] = o.token THEN clobbered
                              ELSE clobbered \cup {o.job}
           \/ /\ ~CanRecover(o)
              /\ UNCHANGED <<jobVars, recovered, clobbered>>
    /\ UNCHANGED <<clock, nextToken, slotVars, clientVars, runs>>

(* The events follow when every update is done. *)
LogRecovered(r) ==
    /\ orphans[r] = {}
    /\ \E e \in recovered[r] : recovered' = [recovered EXCEPT ![r] = @ \ {e}]
    /\ UNCHANGED <<clock, jobVars, nextToken, slotVars, orphans, clientVars, histVars>>

(* A store error or a crash ends the recovery where it stands. *)
RecovererStops(r) ==
    /\ orphans[r] # {} \/ recovered[r] # {}
    /\ orphans' = [orphans EXCEPT ![r] = {}]
    /\ recovered' = [recovered EXCEPT ![r] = {}]
    /\ UNCHANGED <<clock, jobVars, nextToken, slotVars, clientVars, histVars>>

-----------------------------------------------------------------------------
(* Retention *)

(* One prune transaction deletes terminal rows that are old enough; which  *)
(* ones these are depends on updated_at, which is not kept here.           *)
Prune ==
    /\ \E gone \in SUBSET {j \in Jobs : state[j] \in Terminal} :
        /\ gone # {}
        /\ state' = [j \in Jobs |-> IF j \in gone THEN "deleted" ELSE state[j]]
    /\ UNCHANGED <<clock, retry, budget, token, until, runAt, nextToken,
                   slotVars, recVars, clientVars, histVars>>

-----------------------------------------------------------------------------

SlotNext(w) ==
    \/ LeaseJob(w) \/ StartHandler(w) \/ HandlerReturns(w)
    \/ Renew(w) \/ LogRenewed(w) \/ RenewErrs(w) \/ StopRenewal(w) \/ Joined(w)
    \/ Acknowledge(w) \/ FailRead(w) \/ FailJob(w) \/ LogOutcome(w) \/ SlotDies(w)

Next ==
    \/ Tick
    \/ Prune
    \/ \E c \in Clients :
        Enqueue(c) \/ Requeue(c) \/ RequeueJob(c) \/ LogClient(c) \/ ClientDies(c)
    \/ \E w \in Workers : SlotNext(w)
    \/ \E r \in Recoverers :
        Scan(r) \/ RecoverOne(r) \/ LogRecovered(r) \/ RecovererStops(r)

Spec == Init /\ [][Next]_vars
-----------------------------------------------------------------------------
(* Safety *)

(* Slot w holds the current lease of its job. *)
Holds(w) ==
    /\ wjob[w] \in Jobs
    /\ state[wjob[w]] = "leased"
    /\ token[wjob[w]] = wtok[w]

(* No two worker slots ever hold the same job, however leases expire, are  *)
(* recovered and granted again while earlier handlers still run ("without  *)
(* ever leasing the same job twice", LeaseJob).                            *)
SingleHolder ==
    \A v, w \in Workers : v # w /\ Holds(v) /\ Holds(w) => wjob[v] # wjob[w]

(* The lease columns agree with the state after every statement of every   *)
(* caller: a row has a token and a deadline exactly while it is leased, so *)
(* a fence that only compares tokens also means "leased".                  *)
LeaseColumns ==
    \A j \in Jobs :
        /\ state[j] = "leased" <=> token[j] # NullToken
        /\ state[j] = "leased" <=> until[j] # NullTime

(* fail decides between retry and dead letter on the row it read, and the  *)
(* fenced update trusts that decision: whenever the fence would let it     *)
(* through, the decision is still the one the row calls for.               *)
FailDecisionFresh ==
    \A w \in Workers :
        Holds(w) =>
            /\ wpc[w] = "retry" => retry[wjob[w]] + 1 < budget[wjob[w]]
            /\ wpc[w] = "bury"  => retry[wjob[w]] + 1 >= budget[wjob[w]]

(* retry_count counts the attempts: every lease granted since the job was  *)
(* enqueued or requeued is counted once, whether it ended by a failure, by *)
(* a recovery or in a crash that nobody saw, and max_attempts bounds them. *)
(* It holds for every job that no stale recovery has hit.                  *)
AttemptAccounting ==
    \A j \in Jobs \ clobbered :
        /\ state[j] = "pending"     => retry[j] = runs[j] /\ runs[j] < budget[j]
        /\ state[j] = "leased"      => retry[j] + 1 = runs[j] /\ runs[j] <= budget[j]
        /\ state[j] = "dead_letter" => retry[j] = runs[j] /\ runs[j] = budget[j]
        /\ state[j] = "completed"   => retry[j] + 1 = runs[j] /\ runs[j] <= budget[j]

(* A completed job is never run again: no late statement of a slot, of a   *)
(* recovery or of a client changes it, only retention removes it.          *)
CompletedIsFinal ==
    [][\A j \in Jobs : state[j] = "completed" => state'[j] \in {"completed", "deleted"}]_vars

(* An expired lease is what recovery scans for: every scanned row was past *)
(* its deadline.  True while timestamps have no fractions.                 *)
ScannedIsExpired ==
    \A r \in Recoverers : \A o \in orphans[r] : o.until < clock

-----------------------------------------------------------------------------
(* The inductive invariant that carries SingleHolder, FailDecisionFresh,   *)
(* AttemptAccounting and the refinement.                                   *)

(* A token that anyone remembers has been drawn. *)
TokensDrawn ==
    /\ \A j \in Jobs : token[j] < nextToken
    /\ \A w \in Workers : wtok[w] < nextToken
    /\ \A r \in Recoverers : \A o \in orphans[r] : o.token < nextToken

(* A busy slot has a job and a token, and no other slot has that token. *)
SlotTokens ==
    /\ \A w \in Workers :
        /\ wpc[w] = "idle" => wjob[w] = NoJob /\ wtok[w] = NullToken /\ wrn[w] = "off"
        /\ wpc[w] # "idle" => wjob[w] \in Jobs /\ wtok[w] # NullToken
    /\ \A v, w \in Workers : v # w /\ wtok[v] = wtok[w] => wtok[w] = NullToken

(* A scanned row that still has the scanned token has not changed its      *)
(* counters since the scan.                                                *)
ScanFresh ==
    \A r \in Recoverers : \A o \in orphans[r] :
        /\ o.token # NullToken
        /\ token[o.job] = o.token => retry[o.job] = o.retry /\ budget[o.job] = o.budget

(* A stored job has a budget of at least one attempt, and so has a limit   *)
(* that Requeue read; a job that is not stored has no attempts.            *)
BudgetPositive ==
    /\ \A j \in Jobs : state[j] # "unborn" => budget[j] >= 1
    /\ \A j \in Jobs : state[j] = "unborn" => retry[j] = 0 /\ runs[j] = 0
    /\ \A c \in Clients : cpc[c] = "requeue" => cjob[c] \in Jobs /\ cread[c] >= 1

LeaseInv ==
    /\ TypeOK
    /\ LeaseColumns
    /\ TokensDrawn
    /\ SlotTokens
    /\ ScanFresh
    /\ BudgetPositive
    /\ FailDecisionFresh
    /\ AttemptAccounting

-----------------------------------------------------------------------------
(* Refinement *)

(* The owner of a lease is the slot that holds it. *)
Owners == [j \in Jobs |-> {w \in Workers : wjob[w] = j /\ Holds(w)}]

Service == INSTANCE LeaseService WITH status <- state, owners <- Owners

(* The protocol implements the service: whatever a slot, a recovery or a   *)
(* client remembers from an earlier statement, only the owner of a lease   *)
(* settles the job, and a late statement of anyone else changes nothing    *)
(* that the service does not allow.                                        *)
ImplementsService == Service!Spec

-----------------------------------------------------------------------------
(* What the repository says and the code does not do *)

(* "two workers that scan the same orphan concurrently apply the recovery  *)
(* exactly once": an update that recovery still has to make can only end   *)
(* the lease it was scanned for.                                           *)
RecoversScannedLease ==
    \A r \in Recoverers : \A o \in orphans[r] :
        state[o.job] = "leased" => token[o.job] = o.token

-----------------------------------------------------------------------------
(* Liveness *)

(* The contexts of the handler are cancelled once the heartbeat has ended. *)
Cancelled(w) == wrn[w] \in {"failed", "done"}

(* A slot keeps executing; its heartbeat keeps firing; a handler returns   *)
(* when its context is cancelled.  Nothing is assumed of handlers that are *)
(* left alone, of the clock, of recovery, or of shutdown.                  *)
Fairness ==
    \A w \in Workers :
        /\ WF_vars(Renew(w))
        /\ WF_vars(LogRenewed(w))
        /\ WF_vars(Cancelled(w) /\ HandlerReturns(w))
        /\ WF_vars(Joined(w))
        /\ WF_vars(Acknowledge(w))
        /\ WF_vars(FailRead(w))
        /\ WF_vars(FailJob(w))

FairSpec == Spec /\ Fairness

(* "A failed renewal cancels the handler so it cannot finish work after    *)
(* another worker takes the lease": a slot that runs without holding its   *)
(* lease gives the job up.                                                 *)
LostLeaseStops ==
    \A w \in Workers : (wpc[w] = "running" /\ ~Holds(w)) ~> (wpc[w] = "idle")
=============================================================================
