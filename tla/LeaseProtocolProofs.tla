------------------------ MODULE LeaseProtocolProofs ------------------------
(* Machine-checked proofs about LeaseProtocol, for every number of jobs,   *)
(* slots, recoverers and clients, every lease duration and every bound,    *)
(* and the proof that it implements the lease service.                     *)
EXTENDS LeaseProtocol, TLAPS

(* The clock and the budgets are integers, and a lease is at least a tick. *)
LEMMA Constants ==
    /\ LeaseDuration \in Nat /\ NullTime = -1 /\ NullToken = 0
    /\ RunAts \subseteq Nat \cup {NullTime}
    /\ Budgets \subseteq Int /\ NoJob \notin Jobs
BY LeaseAssumption DEF NullTime, NullToken

(* The types of what a slot remembers, and of the columns, when an attempt *)
(* ends.                                                                   *)
LEMMA ResetSlotTypes ==
    ASSUME TypeOK, NEW w \in Workers, ResetSlot(w)
    PROVE  /\ wpc' \in [Workers -> SlotSteps] /\ wjob' \in [Workers -> Jobs \cup {NoJob}]
           /\ wtok' \in [Workers -> Nat] /\ wrn' \in [Workers -> HeartbeatSteps]
BY Constants DEF TypeOK, ResetSlot, SlotSteps, HeartbeatSteps

LEMMA EndLeaseTypes ==
    ASSUME TypeOK, NEW j, NEW next \in RowStates, NEW count, j \in Jobs => count \in Int,
           EndLease(j, next, count)
    PROVE  /\ state' \in [Jobs -> RowStates] /\ retry' \in [Jobs -> Int]
           /\ token' \in [Jobs -> Nat] /\ until' \in [Jobs -> Nat \cup {NullTime}]
           /\ UNCHANGED <<budget, runAt>>
<1>1. j \in Jobs \/ j \notin Jobs
    OBVIOUS
<1>2. state' \in [Jobs -> RowStates] /\ retry' \in [Jobs -> Int]
    BY <1>1 DEF TypeOK, EndLease
<1>3. token' \in [Jobs -> Nat] /\ until' \in [Jobs -> Nat \cup {NullTime}]
    BY Constants DEF TypeOK, EndLease
<1> QED BY <1>2, <1>3 DEF EndLease

(* Every step of every caller keeps the types of the table's columns and   *)
(* of what the callers remember.                                           *)
LEMMA TypeStep == TypeOK /\ [Next]_vars => TypeOK'
<1> SUFFICES ASSUME TypeOK, [Next]_vars PROVE TypeOK'
    OBVIOUS
<1> USE Constants DEF jobVars, slotVars, recVars, clientVars, histVars, TypeOK
<1>1. CASE Tick
    BY <1>1 DEF Tick
<1>2. CASE Prune
    <2>1. PICK gone \in SUBSET {j \in Jobs : state[j] \in Terminal} :
            state' = [j \in Jobs |-> IF j \in gone THEN "deleted" ELSE state[j]]
        BY <1>2 DEF Prune
    <2>2. state' \in [Jobs -> RowStates]
        BY <2>1 DEF RowStates
    <2> QED BY <1>2, <2>2 DEF Prune
<1>3. ASSUME NEW c \in Clients, Enqueue(c) PROVE TypeOK'
    <2>1. PICK j \in Jobs, b \in Budgets, ra \in RunAts :
            /\ state' = [state EXCEPT ![j] = "pending"]
            /\ budget' = [budget EXCEPT ![j] = EnqueueBudget(b)]
            /\ runAt' = [runAt EXCEPT ![j] = ra]
            /\ cjob' = [cjob EXCEPT ![c] = j]
        BY <1>3 DEF Enqueue
    <2>2. EnqueueBudget(b) \in Int
        BY DEF EnqueueBudget
    <2> QED BY <1>3, <2>1, <2>2 DEF Enqueue, RowStates, ClientSteps
<1>4. ASSUME NEW c \in Clients, Requeue(c) PROVE TypeOK'
    BY <1>4 DEF Requeue, ClientSteps
<1>5. ASSUME NEW c \in Clients, RequeueJob(c) PROVE TypeOK'
    <2>1. RequeueBudget(c) \in Int
        BY DEF RequeueBudget
    <2> QED BY <1>5, <2>1 DEF RequeueJob, ResetClient, RowStates, ClientSteps
<1>6. ASSUME NEW c \in Clients, LogClient(c) \/ ClientDies(c) PROVE TypeOK'
    BY <1>6 DEF LogClient, ClientDies, ResetClient, ClientSteps
<1>7. ASSUME NEW w \in Workers, LeaseJob(w) PROVE TypeOK'
    BY <1>7 DEF LeaseJob, NewLeaseToken, RowStates, SlotSteps
<1>8. ASSUME NEW w \in Workers, StartHandler(w) \/ HandlerReturns(w) PROVE TypeOK'
    BY <1>8 DEF StartHandler, HandlerReturns, SlotSteps, HeartbeatSteps
<1>9. ASSUME NEW w \in Workers, Renew(w) PROVE TypeOK'
    BY <1>9 DEF Renew, HeartbeatSteps
<1>10. ASSUME NEW w \in Workers, LogRenewed(w) \/ RenewErrs(w) \/ StopRenewal(w)
       PROVE  TypeOK'
    BY <1>10 DEF LogRenewed, RenewErrs, StopRenewal, HeartbeatSteps
<1>11. ASSUME NEW w \in Workers, Joined(w) PROVE TypeOK'
    BY <1>11 DEF Joined, ResetSlot, SlotSteps, HeartbeatSteps
<1>12. ASSUME NEW w \in Workers, Acknowledge(w) PROVE TypeOK'
    <2>1. CASE Fence(wjob[w], wtok[w])
        <3>1. EndLease(wjob[w], "completed", retry[wjob[w]])
            BY <1>12, <2>1 DEF Acknowledge
        <3>2. "completed" \in RowStates /\ (wjob[w] \in Jobs => retry[wjob[w]] \in Int)
            BY DEF RowStates
        <3>3. wpc' \in [Workers -> SlotSteps]
            BY <1>12, <2>1 DEF Acknowledge, SlotSteps
        <3> QED BY <1>12, <2>1, <3>1, <3>2, <3>3, EndLeaseTypes DEF Acknowledge
    <2>2. CASE ~Fence(wjob[w], wtok[w])
        BY <1>12, <2>2, ResetSlotTypes DEF Acknowledge
    <2> QED BY <2>1, <2>2
<1>13. ASSUME NEW w \in Workers, FailRead(w) PROVE TypeOK'
    BY <1>13 DEF FailRead, ResetSlot, SlotSteps, HeartbeatSteps
<1>14. ASSUME NEW w \in Workers, FailJob(w) PROVE TypeOK'
    <2>1. CASE Fence(wjob[w], wtok[w])
        <3>1. PICK next \in {"pending", "dead_letter"} : EndLease(wjob[w], next, retry[wjob[w]] + 1)
            BY <1>14, <2>1 DEF FailJob
        <3>2. next \in RowStates /\ (wjob[w] \in Jobs => retry[wjob[w]] + 1 \in Int)
            BY DEF RowStates
        <3>3. wpc' \in [Workers -> SlotSteps]
            BY <1>14, <2>1 DEF FailJob, SlotSteps
        <3>4. UNCHANGED <<clock, wjob, wtok, wrn, nextToken, recVars, clientVars, histVars>>
            BY <1>14, <2>1 DEF FailJob
        <3> QED BY <3>1, <3>2, <3>3, <3>4, EndLeaseTypes
    <2>2. CASE ~Fence(wjob[w], wtok[w])
        BY <1>14, <2>2, ResetSlotTypes DEF FailJob
    <2> QED BY <2>1, <2>2
<1>15. ASSUME NEW w \in Workers, LogOutcome(w) \/ SlotDies(w) PROVE TypeOK'
    BY <1>15, ResetSlotTypes DEF LogOutcome, SlotDies
<1>16. ASSUME NEW r \in Recoverers, Scan(r) PROVE TypeOK'
    <2>1. {Row(j) : j \in Jobs} \subseteq Orphan
        BY DEF Row, Orphan
    <2> QED BY <1>16, <2>1 DEF Scan
<1>17. ASSUME NEW r \in Recoverers, RecoverOne(r) PROVE TypeOK'
    <2>1. PICK o \in orphans[r] :
            /\ orphans' = [orphans EXCEPT ![r] = @ \ {o}]
            /\ \/ /\ LET next == IF Exhausted(o) THEN "dead_letter" ELSE "pending" IN
                        /\ EndLease(o.job, next, o.retry + 1)
                        /\ recovered' = [recovered EXCEPT ![r] =
                                            @ \cup {[job |-> o.job, state |-> next]}]
                  /\ clobbered' = IF token[o.job] = o.token THEN clobbered
                                  ELSE clobbered \cup {o.job}
               \/ UNCHANGED <<jobVars, recovered, clobbered>>
        BY <1>17 DEF RecoverOne
    <2>2. o.job \in Jobs /\ o.retry \in Int
        BY DEF Orphan
    <2>3. \A next \in {"pending", "dead_letter"} : [job |-> o.job, state |-> next] \in Report
        BY <2>2 DEF Report
    <2>4. recovered' \in [Recoverers -> SUBSET Report] /\ clobbered' \in SUBSET Jobs
        BY <2>1, <2>2, <2>3
    <2>5. orphans' \in [Recoverers -> SUBSET Orphan]
        BY <2>1
    <2>6. \/ UNCHANGED jobVars
          \/ \E next \in {"pending", "dead_letter"} : EndLease(o.job, next, o.retry + 1)
        BY <2>1
    <2>7. /\ state' \in [Jobs -> RowStates]
          /\ retry' \in [Jobs -> Int]
          /\ budget' \in [Jobs -> Int]
          /\ token' \in [Jobs -> Nat]
          /\ until' \in [Jobs -> Nat \cup {NullTime}]
          /\ runAt' \in [Jobs -> Nat \cup {NullTime}]
        BY <2>2, <2>6 DEF EndLease, RowStates
    <2> QED BY <1>17, <2>4, <2>5, <2>7 DEF RecoverOne
<1>18. ASSUME NEW r \in Recoverers, LogRecovered(r) \/ RecovererStops(r) PROVE TypeOK'
    BY <1>18 DEF LogRecovered, RecovererStops
<1>19. CASE UNCHANGED vars
    BY <1>19 DEF vars
<1> QED BY <1>1, <1>2, <1>3, <1>4, <1>5, <1>6, <1>7, <1>8, <1>9, <1>10, <1>11, <1>12,
           <1>13, <1>14, <1>15, <1>16, <1>17, <1>18, <1>19 DEF Next, SlotNext

(* The types hold initially. *)
LEMMA TypeInit == Init => TypeOK
BY DEF Init, TypeOK, RowStates, SlotSteps, HeartbeatSteps, ClientSteps, NullToken, NullTime

(* Type correctness: the columns of the jobs table and the memory of every *)
(* slot, recovery and client keep their types, whoever crashes and however *)
(* their statements interleave.                                            *)
THEOREM TypeCorrect == Spec => []TypeOK
BY TypeInit, TypeStep, PTL DEF Spec

-----------------------------------------------------------------------------

(* The inductive invariant without its types. *)
LeaseParts ==
    /\ LeaseColumns /\ TokensDrawn /\ SlotTokens /\ ScanFresh
    /\ BudgetPositive /\ FailDecisionFresh /\ AttemptAccounting

(* Ending a lease erases its token, so a scan of that lease is no longer   *)
(* about the row; scans of other rows see no change.                       *)
LEMMA EndLeaseScanFresh ==
    ASSUME TypeOK, ScanFresh, NEW j \in Jobs, NEW next, NEW count \in Int,
           EndLease(j, next, count),
           \A r \in Recoverers : orphans'[r] \subseteq orphans[r]
    PROVE  ScanFresh'
<1> SUFFICES ASSUME NEW r \in Recoverers, NEW o \in orphans'[r]
             PROVE  /\ o.token # NullToken
                    /\ token'[o.job] = o.token =>
                        retry'[o.job] = o.retry /\ budget'[o.job] = o.budget
    BY DEF ScanFresh
<1>1. o \in orphans[r] /\ o.job \in Jobs
    BY DEF TypeOK, Orphan
<1>2. o.token # NullToken
    BY <1>1 DEF ScanFresh
<1>3. CASE o.job = j
    BY <1>2, <1>3 DEF EndLease, TypeOK
<1>4. CASE o.job # j
    BY <1>1, <1>2, <1>4 DEF EndLease, TypeOK, ScanFresh
<1> QED BY <1>3, <1>4

(* A slot that forgets its job forgets its token. *)
LEMMA ResetSlotTokens ==
    ASSUME TypeOK, SlotTokens, NEW w \in Workers, ResetSlot(w)
    PROVE  SlotTokens'
<1>1. /\ wpc'[w] = "idle" /\ wjob'[w] = NoJob /\ wtok'[w] = NullToken /\ wrn'[w] = "off"
      /\ \A v \in Workers : v # w =>
            wpc'[v] = wpc[v] /\ wjob'[v] = wjob[v] /\ wtok'[v] = wtok[v] /\ wrn'[v] = wrn[v]
    BY DEF TypeOK, ResetSlot
<1> QED BY <1>1 DEF SlotTokens

(* Every step keeps the inductive invariant of the lease protocol. *)
LEMMA LeaseStep == LeaseInv /\ [Next]_vars => LeaseInv'
<1> SUFFICES ASSUME LeaseInv, [Next]_vars PROVE LeaseParts'
    BY TypeStep DEF LeaseInv, LeaseParts
<1>0. TypeOK /\ TypeOK' /\ LeaseParts
    BY TypeStep DEF LeaseInv, LeaseParts
<1>a. \A r \in Recoverers : \A o \in orphans[r] :
        o.job \in Jobs /\ o.retry \in Int /\ o.budget \in Int /\ o.token \in Nat
    BY <1>0 DEF TypeOK, Orphan
<1> USE Constants, <1>0 DEF jobVars, slotVars, recVars, clientVars, histVars, LeaseParts, TypeOK
<1>1. CASE Tick
    BY <1>1 DEF Tick, LeaseColumns, TokensDrawn, SlotTokens, ScanFresh, BudgetPositive,
       FailDecisionFresh, Holds, AttemptAccounting
<1>2. CASE Prune
    <2>1. LeaseColumns' /\ TokensDrawn' /\ SlotTokens' /\ ScanFresh' /\ BudgetPositive' /\ FailDecisionFresh'
        BY <1>2 DEF Prune, Terminal, LeaseColumns, TokensDrawn, SlotTokens, ScanFresh,
           BudgetPositive, FailDecisionFresh, Holds
    <2>2. AttemptAccounting'
        BY <1>2 DEF Prune, Terminal, AttemptAccounting
    <2> QED BY <2>1, <2>2
<1>3. ASSUME NEW c \in Clients, Enqueue(c) PROVE LeaseParts'
    <2>1. LeaseColumns' /\ TokensDrawn' /\ SlotTokens'
        BY <1>3 DEF Enqueue, EnqueueBudget, LeaseColumns, TokensDrawn, SlotTokens
    <2>2. ScanFresh'
        <3>1. PICK j \in Jobs, b \in Budgets :
                /\ state[j] = "unborn"
                /\ budget' = [budget EXCEPT ![j] = EnqueueBudget(b)]
            BY <1>3 DEF Enqueue
        <3>2. token[j] = NullToken
            BY <3>1 DEF LeaseColumns
        <3>3. \A r \in Recoverers : \A o \in orphans[r] :
                token[o.job] = o.token => o.job # j
            BY <3>2 DEF ScanFresh
        <3>4. UNCHANGED <<token, retry, orphans>>
            BY <1>3 DEF Enqueue
        <3> QED BY <1>a, <3>1, <3>3, <3>4 DEF ScanFresh
    <2>3. BudgetPositive'
        BY <1>3 DEF Enqueue, EnqueueBudget, BudgetPositive
    <2>4. FailDecisionFresh'
        BY <1>3 DEF Enqueue, EnqueueBudget, FailDecisionFresh, Holds
    <2>5. AttemptAccounting'
        <3>1. PICK j \in Jobs, b \in Budgets :
                /\ state[j] = "unborn"
                /\ state' = [state EXCEPT ![j] = "pending"]
                /\ budget' = [budget EXCEPT ![j] = EnqueueBudget(b)]
            BY <1>3 DEF Enqueue
        <3>2. EnqueueBudget(b) >= 1 /\ retry[j] = 0 /\ runs[j] = 0
            BY <3>1 DEF EnqueueBudget, BudgetPositive
        <3>3. UNCHANGED <<retry, runs, clobbered>>
            BY <1>3 DEF Enqueue
        <3> QED BY <3>1, <3>2, <3>3 DEF AttemptAccounting
    <2> QED BY <2>1, <2>2, <2>3, <2>4, <2>5
<1>4. ASSUME NEW c \in Clients, Requeue(c) PROVE LeaseParts'
    <2>1. LeaseColumns' /\ TokensDrawn' /\ SlotTokens' /\ ScanFresh'
        BY <1>4 DEF Requeue, LeaseColumns, TokensDrawn, SlotTokens, ScanFresh
    <2>2. BudgetPositive' /\ FailDecisionFresh' /\ AttemptAccounting'
        BY <1>4 DEF Requeue, BudgetPositive, FailDecisionFresh, Holds, AttemptAccounting
    <2> QED BY <2>1, <2>2
<1>5. ASSUME NEW c \in Clients, RequeueJob(c) PROVE LeaseParts'
    <2>1. LeaseColumns' /\ TokensDrawn' /\ SlotTokens'
        BY <1>5 DEF RequeueJob, RequeueBudget, ResetClient, CanRequeue, LeaseColumns,
           TokensDrawn, SlotTokens
    <2>2. ScanFresh'
        <3>1. CASE CanRequeue(cjob[c])
            <4>1. token[cjob[c]] = NullToken /\ cjob[c] \in Jobs
                BY <1>5, <3>1 DEF RequeueJob, CanRequeue, LeaseColumns, BudgetPositive
            <4>2. \A r \in Recoverers : \A o \in orphans[r] :
                    token'[o.job] = o.token => o.job # cjob[c]
                BY <1>5, <3>1, <4>1 DEF RequeueJob, ScanFresh
            <4>3. \A i \in Jobs : i # cjob[c] =>
                    token'[i] = token[i] /\ retry'[i] = retry[i] /\ budget'[i] = budget[i]
                BY <1>5, <3>1 DEF RequeueJob
            <4> QED BY <1>5, <1>a, <4>2, <4>3 DEF RequeueJob, ScanFresh
        <3>2. CASE ~CanRequeue(cjob[c])
            BY <1>5, <3>2 DEF RequeueJob, ScanFresh
        <3> QED BY <3>1, <3>2
    <2>3. BudgetPositive'
        <3>1. CASE CanRequeue(cjob[c])
            <4>1. cjob[c] \in Jobs /\ RequeueBudget(c) >= 1
                BY <1>5 DEF RequeueJob, RequeueBudget, BudgetPositive
            <4>2. \A j \in Jobs : j # cjob[c] =>
                    state'[j] = state[j] /\ budget'[j] = budget[j] /\ retry'[j] = retry[j] /\ runs'[j] = runs[j]
                BY <1>5, <3>1 DEF RequeueJob
            <4>3. state'[cjob[c]] = "pending" /\ budget'[cjob[c]] >= 1
                BY <1>5, <3>1, <4>1 DEF RequeueJob
            <4>4. \A d \in Clients : cpc'[d] = "requeue" => d # c /\ cpc[d] = "requeue"
                BY <1>5, <3>1 DEF RequeueJob
            <4>5. UNCHANGED <<cjob, cread>>
                BY <1>5, <3>1 DEF RequeueJob
            <4> QED BY <4>2, <4>3, <4>4, <4>5 DEF BudgetPositive
        <3>2. CASE ~CanRequeue(cjob[c])
            BY <1>5, <3>2 DEF RequeueJob, ResetClient, BudgetPositive
        <3> QED BY <3>1, <3>2
    <2>4. FailDecisionFresh'
        BY <1>5 DEF RequeueJob, RequeueBudget, ResetClient, CanRequeue,
           FailDecisionFresh, Holds
    <2>5. AttemptAccounting'
        <3>1. CASE CanRequeue(cjob[c])
            <4>1. cjob[c] \in Jobs /\ RequeueBudget(c) >= 1
                BY <1>5 DEF RequeueJob, RequeueBudget, BudgetPositive
            <4> QED BY <1>5, <3>1, <4>1 DEF RequeueJob, AttemptAccounting
        <3>2. CASE ~CanRequeue(cjob[c])
            BY <1>5, <3>2 DEF RequeueJob, AttemptAccounting
        <3> QED BY <3>1, <3>2
    <2> QED BY <2>1, <2>2, <2>3, <2>4, <2>5
<1>6. ASSUME NEW c \in Clients, LogClient(c) \/ ClientDies(c) PROVE LeaseParts'
    <2>1. LeaseColumns' /\ TokensDrawn' /\ SlotTokens'
        BY <1>6 DEF LogClient, ClientDies, ResetClient, LeaseColumns, TokensDrawn,
           SlotTokens
    <2>2. ScanFresh'
        BY <1>6 DEF LogClient, ClientDies, ResetClient, ScanFresh
    <2>3. BudgetPositive'
        BY <1>6 DEF LogClient, ClientDies, ResetClient, BudgetPositive
    <2>4. FailDecisionFresh' /\ AttemptAccounting'
        BY <1>6 DEF LogClient, ClientDies, ResetClient, FailDecisionFresh, Holds,
           AttemptAccounting
    <2> QED BY <2>1, <2>2, <2>3, <2>4
<1>7. ASSUME NEW w \in Workers, LeaseJob(w) PROVE LeaseParts'
    <2>a. PICK j \in Jobs :
            /\ Ready(j)
            /\ state' = [state EXCEPT ![j] = "leased"]
            /\ until' = [until EXCEPT ![j] = clock + LeaseDuration]
            /\ token' = [token EXCEPT ![j] = nextToken]
            /\ wjob' = [wjob EXCEPT ![w] = j]
            /\ runs' = [runs EXCEPT ![j] = @ + 1]
        BY <1>7 DEF LeaseJob, NewLeaseToken
    <2>b. /\ wpc[w] = "idle" /\ state[j] = "pending"
          /\ wtok' = [wtok EXCEPT ![w] = nextToken]
          /\ wpc' = [wpc EXCEPT ![w] = "logLeased"]
          /\ nextToken' = nextToken + 1
          /\ UNCHANGED <<clock, retry, budget, runAt, wrn, recVars, clientVars, clobbered>>
        BY <1>7, <2>a DEF LeaseJob, NewLeaseToken, Ready
    <2>1. LeaseColumns' /\ BudgetPositive'
        BY <2>a, <2>b DEF LeaseColumns, BudgetPositive
    <2>2. TokensDrawn'
        <3>1. \A i \in Jobs : token'[i] < nextToken'
            BY <2>a, <2>b DEF TokensDrawn
        <3>2. \A v \in Workers : wtok'[v] < nextToken'
            BY <2>b DEF TokensDrawn
        <3>3. \A r \in Recoverers : \A o \in orphans'[r] : o.token < nextToken'
            BY <1>a, <2>b DEF TokensDrawn
        <3> QED BY <3>1, <3>2, <3>3 DEF TokensDrawn
    <2>3. SlotTokens'
        <3>1. \A v \in Workers : v # w =>
                wpc'[v] = wpc[v] /\ wjob'[v] = wjob[v] /\ wtok'[v] = wtok[v] /\ wrn'[v] = wrn[v]
            BY <2>a, <2>b
        <3>2. wpc'[w] = "logLeased" /\ wjob'[w] = j /\ wtok'[w] = nextToken
            BY <2>a, <2>b
        <3>3. \A v \in Workers : wtok[v] # nextToken
            BY DEF TokensDrawn
        <3>4. \A v \in Workers :
                /\ wpc'[v] = "idle" => wjob'[v] = NoJob /\ wtok'[v] = NullToken /\ wrn'[v] = "off"
                /\ wpc'[v] # "idle" => wjob'[v] \in Jobs /\ wtok'[v] # NullToken
            BY <3>1, <3>2 DEF SlotTokens
        <3>5. \A u, v \in Workers : u # v /\ wtok'[u] = wtok'[v] => wtok'[v] = NullToken
            BY <3>1, <3>2, <3>3 DEF SlotTokens
        <3> QED BY <3>4, <3>5 DEF SlotTokens
    <2>4. ScanFresh'
        <3>1. \A r \in Recoverers : \A o \in orphans[r] : o.token # nextToken
            BY <1>a DEF TokensDrawn
        <3> QED BY <1>a, <2>a, <2>b, <3>1 DEF ScanFresh
    <2>5. FailDecisionFresh'
        <3> SUFFICES ASSUME NEW v \in Workers, Holds(v)', wpc'[v] \in {"retry", "bury"}
                     PROVE  Holds(v) /\ wpc[v] = wpc'[v] /\ wjob'[v] = wjob[v]
            BY <2>b DEF FailDecisionFresh
        <3>1. v # w
            BY <2>b
        <3>2. wjob[v] = wjob'[v] /\ wtok[v] = wtok'[v] /\ wpc[v] = wpc'[v]
            BY <2>a, <2>b, <3>1
        <3>3. wtok[v] # nextToken
            BY DEF TokensDrawn
        <3> QED BY <2>a, <2>b, <3>2, <3>3 DEF Holds
    <2>6. AttemptAccounting'
        BY <2>a, <2>b DEF AttemptAccounting
    <2> QED BY <2>1, <2>2, <2>3, <2>4, <2>5, <2>6
<1>8. ASSUME NEW w \in Workers, StartHandler(w) \/ HandlerReturns(w) PROVE LeaseParts'
    <2>1. LeaseColumns' /\ TokensDrawn' /\ SlotTokens' /\ ScanFresh'
        BY <1>8 DEF StartHandler, HandlerReturns, LeaseColumns, TokensDrawn, SlotTokens,
           ScanFresh
    <2>2. BudgetPositive' /\ FailDecisionFresh' /\ AttemptAccounting'
        BY <1>8 DEF StartHandler, HandlerReturns, BudgetPositive, FailDecisionFresh,
           Holds, AttemptAccounting
    <2> QED BY <2>1, <2>2
<1>9. ASSUME NEW w \in Workers, Renew(w) PROVE LeaseParts'
    <2>1. LeaseColumns' /\ TokensDrawn' /\ SlotTokens' /\ ScanFresh'
        BY <1>9 DEF Renew, Fence, LeaseColumns, TokensDrawn, SlotTokens, ScanFresh
    <2>2. BudgetPositive' /\ FailDecisionFresh' /\ AttemptAccounting'
        BY <1>9 DEF Renew, Fence, BudgetPositive, FailDecisionFresh, Holds,
           AttemptAccounting
    <2> QED BY <2>1, <2>2
<1>10. ASSUME NEW w \in Workers, LogRenewed(w) \/ RenewErrs(w) \/ StopRenewal(w) PROVE LeaseParts'
    <2>a. LeaseColumns' /\ TokensDrawn' /\ ScanFresh'
        BY <1>10 DEF LogRenewed, RenewErrs, StopRenewal, LeaseColumns, TokensDrawn, ScanFresh
    <2>b. SlotTokens'
        BY <1>10 DEF LogRenewed, RenewErrs, StopRenewal, SlotTokens
    <2>1. LeaseColumns' /\ TokensDrawn' /\ SlotTokens' /\ ScanFresh'
        BY <2>a, <2>b
    <2>2. BudgetPositive' /\ FailDecisionFresh' /\ AttemptAccounting'
        BY <1>10 DEF LogRenewed, RenewErrs, StopRenewal, BudgetPositive,
           FailDecisionFresh, Holds, AttemptAccounting
    <2> QED BY <2>1, <2>2
<1>11. ASSUME NEW w \in Workers, Joined(w) PROVE LeaseParts'
    <2>1. LeaseColumns' /\ TokensDrawn' /\ ScanFresh'
        BY <1>11 DEF Joined, ResetSlot, LeaseColumns, TokensDrawn, ScanFresh
    <2>2. SlotTokens'
        BY <1>11, ResetSlotTokens DEF Joined, SlotTokens
    <2>3. BudgetPositive' /\ FailDecisionFresh' /\ AttemptAccounting'
        BY <1>11 DEF Joined, ResetSlot, BudgetPositive, FailDecisionFresh, Holds,
           AttemptAccounting
    <2> QED BY <2>1, <2>2, <2>3
<1>12. ASSUME NEW w \in Workers, Acknowledge(w) PROVE LeaseParts'
    <2>1. LeaseColumns'
        BY <1>12 DEF Acknowledge, Fence, EndLease, ResetSlot, LeaseColumns
    <2>2. TokensDrawn'
        BY <1>12 DEF Acknowledge, Fence, EndLease, ResetSlot, TokensDrawn
    <2>3. SlotTokens'
        <3>1. \/ ResetSlot(w)
              \/ wpc' = [wpc EXCEPT ![w] = "logAcked"] /\ UNCHANGED <<wjob, wtok, wrn>>
            BY <1>12 DEF Acknowledge
        <3>2. wpc[w] = "ack"
            BY <1>12 DEF Acknowledge
        <3>3. CASE ResetSlot(w)
            BY <3>3 DEF ResetSlot, SlotTokens
        <3>4. CASE wpc' = [wpc EXCEPT ![w] = "logAcked"] /\ UNCHANGED <<wjob, wtok, wrn>>
            BY <3>2, <3>4 DEF SlotTokens
        <3> QED BY <3>1, <3>3, <3>4
    <2>4. ScanFresh'
        <3>1. CASE Fence(wjob[w], wtok[w])
            BY <1>12, <3>1, EndLeaseScanFresh DEF Acknowledge, SlotTokens
        <3>2. CASE ~Fence(wjob[w], wtok[w])
            BY <1>12, <3>2 DEF Acknowledge, ScanFresh
        <3> QED BY <3>1, <3>2
    <2>5. BudgetPositive'
        BY <1>12 DEF Acknowledge, Fence, EndLease, ResetSlot, BudgetPositive
    <2>6. FailDecisionFresh'
        BY <1>12 DEF Acknowledge, Fence, EndLease, ResetSlot, FailDecisionFresh, Holds
    <2>7. AttemptAccounting'
        BY <1>12 DEF Acknowledge, Fence, EndLease, ResetSlot, AttemptAccounting
    <2> QED BY <2>1, <2>2, <2>3, <2>4, <2>5, <2>6, <2>7
<1>13. ASSUME NEW w \in Workers, FailRead(w) PROVE LeaseParts'
    <2>1. LeaseColumns' /\ TokensDrawn' /\ ScanFresh'
        BY <1>13 DEF FailRead, ShouldRetry, ResetSlot, LeaseColumns, TokensDrawn, ScanFresh
    <2>2. SlotTokens'
        BY <1>13 DEF FailRead, ShouldRetry, ResetSlot, SlotTokens
    <2>3. BudgetPositive'
        BY <1>13 DEF FailRead, ShouldRetry, ResetSlot, BudgetPositive
    <2>4. FailDecisionFresh'
        BY <1>13 DEF FailRead, ShouldRetry, ResetSlot, FailDecisionFresh, Holds
    <2>5. AttemptAccounting'
        BY <1>13 DEF FailRead, ShouldRetry, ResetSlot, AttemptAccounting
    <2> QED BY <2>1, <2>2, <2>3, <2>4, <2>5
<1>14. ASSUME NEW w \in Workers, FailJob(w) PROVE LeaseParts'
    <2>1. LeaseColumns'
        BY <1>14 DEF FailJob, Fence, EndLease, ResetSlot, LeaseColumns
    <2>2. TokensDrawn'
        <3>1. \A j \in Jobs : token'[j] \in {token[j], NullToken}
            BY <1>14 DEF FailJob, EndLease
        <3>2. \A v \in Workers : wtok'[v] \in {wtok[v], NullToken}
            BY <1>14 DEF FailJob, ResetSlot
        <3>3. UNCHANGED <<nextToken, orphans>>
            BY <1>14 DEF FailJob
        <3>4. NullToken < nextToken
            OBVIOUS
        <3>5. /\ \A j \in Jobs : token'[j] < nextToken
              /\ \A v \in Workers : wtok'[v] < nextToken
            BY <3>1, <3>2, <3>4 DEF TokensDrawn
        <3> QED BY <3>3, <3>5 DEF TokensDrawn
    <2>3. SlotTokens'
        <3>1. CASE Fence(wjob[w], wtok[w])
            <4>1. /\ \E s \in {"logRetried", "logBuried"} : wpc' = [wpc EXCEPT ![w] = s]
                  /\ wpc[w] \in {"retry", "bury"} /\ UNCHANGED <<wjob, wtok, wrn>>
                BY <1>14, <3>1 DEF FailJob
            <4> QED BY <4>1 DEF SlotTokens
        <3>2. CASE ~Fence(wjob[w], wtok[w])
            BY <1>14, <3>2, ResetSlotTokens DEF FailJob
        <3> QED BY <3>1, <3>2
    <2>4. ScanFresh'
        <3>1. CASE Fence(wjob[w], wtok[w])
            <4>1. \E next : EndLease(wjob[w], next, retry[wjob[w]] + 1)
                BY <1>14, <3>1 DEF FailJob
            <4> QED BY <1>14, <4>1, EndLeaseScanFresh DEF FailJob, SlotTokens
        <3>2. CASE ~Fence(wjob[w], wtok[w])
            BY <1>14, <3>2 DEF FailJob, ScanFresh
        <3> QED BY <3>1, <3>2
    <2>5. BudgetPositive'
        BY <1>14 DEF FailJob, Fence, EndLease, ResetSlot, BudgetPositive
    <2>6. FailDecisionFresh'
        BY <1>14 DEF FailJob, Fence, EndLease, ResetSlot, FailDecisionFresh, Holds
    <2>7. AttemptAccounting'
        <3>1. CASE Fence(wjob[w], wtok[w])
            <4> DEFINE j == wjob[w]
            <4>1. j \in Jobs /\ state[j] = "leased" /\ Holds(w)
                BY <1>14, <3>1 DEF FailJob, Fence, SlotTokens, Holds
            <4>2. CASE wpc[w] = "retry"
                <5>1. EndLease(j, "pending", retry[j] + 1) /\ retry[j] + 1 < budget[j]
                    BY <1>14, <3>1, <4>1, <4>2 DEF FailJob, FailDecisionFresh
                <5> QED BY <1>14, <4>1, <5>1 DEF FailJob, EndLease, AttemptAccounting
            <4>3. CASE wpc[w] = "bury"
                <5>1. EndLease(j, "dead_letter", retry[j] + 1) /\ retry[j] + 1 >= budget[j]
                    BY <1>14, <3>1, <4>1, <4>3 DEF FailJob, FailDecisionFresh
                <5> QED BY <1>14, <4>1, <5>1 DEF FailJob, EndLease, AttemptAccounting
            <4> QED BY <1>14, <4>2, <4>3 DEF FailJob
        <3>2. CASE ~Fence(wjob[w], wtok[w])
            BY <1>14, <3>2 DEF FailJob, AttemptAccounting
        <3> QED BY <3>1, <3>2
    <2> QED BY <2>1, <2>2, <2>3, <2>4, <2>5, <2>6, <2>7
<1>15. ASSUME NEW w \in Workers, LogOutcome(w) \/ SlotDies(w) PROVE LeaseParts'
    <2>a. ResetSlot(w) /\ UNCHANGED <<clock, jobVars, nextToken, recVars, clientVars, histVars>>
        BY <1>15 DEF LogOutcome, SlotDies
    <2>1. LeaseColumns'
        BY <2>a DEF LeaseColumns
    <2>2. TokensDrawn'
        BY <2>a DEF ResetSlot, TokensDrawn
    <2>3. SlotTokens'
        BY <2>a, ResetSlotTokens
    <2>4. ScanFresh' /\ BudgetPositive' /\ AttemptAccounting'
        BY <2>a DEF ScanFresh, BudgetPositive, AttemptAccounting
    <2>5. FailDecisionFresh'
        BY <2>a DEF ResetSlot, FailDecisionFresh, Holds
    <2> QED BY <2>1, <2>2, <2>3, <2>4, <2>5
<1>16. ASSUME NEW r \in Recoverers, Scan(r) PROVE LeaseParts'
    <2>1. LeaseColumns'
        BY <1>16 DEF Scan, Row, Orphaned, LeaseColumns
    <2>2. TokensDrawn'
        BY <1>16 DEF Scan, Row, Orphaned, TokensDrawn
    <2>3. SlotTokens'
        BY <1>16 DEF Scan, Row, Orphaned, SlotTokens
    <2>4. ScanFresh'
        <3>1. \A q \in Recoverers : q # r => orphans'[q] = orphans[q]
            BY <1>16 DEF Scan
        <3>2. \A o \in orphans'[r] : \E j \in Jobs : Orphaned(j) /\ o = Row(j)
            BY <1>16 DEF Scan
        <3>3. \A o \in orphans'[r] : /\ o.token # NullToken
                                     /\ retry[o.job] = o.retry /\ budget[o.job] = o.budget
            BY <3>2 DEF Row, Orphaned, LeaseColumns
        <3>4. UNCHANGED <<token, retry, budget>>
            BY <1>16 DEF Scan
        <3> QED BY <3>1, <3>3, <3>4 DEF ScanFresh
    <2>5. BudgetPositive' /\ FailDecisionFresh' /\ AttemptAccounting'
        BY <1>16 DEF Scan, Row, Orphaned, BudgetPositive, FailDecisionFresh, Holds,
           AttemptAccounting
    <2> QED BY <2>1, <2>2, <2>3, <2>4, <2>5
<1>17. ASSUME NEW r \in Recoverers, RecoverOne(r) PROVE LeaseParts'
    <2>a. PICK o \in orphans[r] :
            /\ orphans' = [orphans EXCEPT ![r] = @ \ {o}]
            /\ \/ /\ CanRecover(o)
                  /\ EndLease(o.job, IF Exhausted(o) THEN "dead_letter" ELSE "pending",
                              o.retry + 1)
                  /\ clobbered' = IF token[o.job] = o.token THEN clobbered
                                  ELSE clobbered \cup {o.job}
               \/ UNCHANGED <<jobVars, clobbered>>
        BY <1>17 DEF RecoverOne
    <2>b. UNCHANGED <<clock, nextToken, slotVars, clientVars, runs>>
        BY <1>17 DEF RecoverOne
    <2>c. o.job \in Jobs /\ o.retry \in Int /\ o.budget \in Int
        BY <1>a
    <2>d. \A q \in Recoverers : orphans'[q] \subseteq orphans[q]
        BY <2>a
    <2>1. LeaseColumns' /\ BudgetPositive'
        BY <2>a, <2>b, <2>c DEF CanRecover, EndLease, LeaseColumns, BudgetPositive
    <2>2. TokensDrawn'
        BY <2>a, <2>b, <2>c, <2>d DEF EndLease, TokensDrawn
    <2>3. SlotTokens'
        BY <2>b DEF SlotTokens
    <2>4. ScanFresh'
        <3>1. CASE UNCHANGED jobVars
            BY <2>d, <3>1 DEF ScanFresh
        <3>2. CASE \E next : EndLease(o.job, next, o.retry + 1)
            BY <2>c, <2>d, <3>2, EndLeaseScanFresh
        <3> QED BY <2>a, <3>1, <3>2
    <2>5. FailDecisionFresh'
        BY <2>a, <2>b, <2>c DEF CanRecover, EndLease, FailDecisionFresh, Holds
    <2>6. AttemptAccounting'
        <3>1. CASE UNCHANGED <<jobVars, clobbered>>
            BY <2>b, <3>1 DEF AttemptAccounting
        <3>2. CASE /\ CanRecover(o)
                   /\ EndLease(o.job, IF Exhausted(o) THEN "dead_letter" ELSE "pending",
                               o.retry + 1)
                   /\ clobbered' = IF token[o.job] = o.token THEN clobbered
                                   ELSE clobbered \cup {o.job}
            <4>1. o.job \notin clobbered' => retry[o.job] = o.retry /\ budget[o.job] = o.budget
                BY <3>2 DEF ScanFresh
            <4>2. /\ \A i \in Jobs : i # o.job =>
                        /\ state'[i] = state[i] /\ retry'[i] = retry[i]
                        /\ i \in clobbered => i \in clobbered'
                  /\ UNCHANGED <<budget, runs>> /\ clobbered \subseteq clobbered'
                BY <2>b, <2>c, <3>2 DEF EndLease
            <4>3. /\ retry'[o.job] = o.retry + 1
                  /\ state'[o.job] = IF o.retry + 1 >= o.budget THEN "dead_letter" ELSE "pending"
                BY <2>c, <3>2 DEF EndLease, Exhausted
            <4>4. state[o.job] = "leased"
                BY <3>2 DEF CanRecover
            <4> QED BY <2>c, <4>1, <4>2, <4>3, <4>4 DEF AttemptAccounting
        <3> QED BY <2>a, <3>1, <3>2
    <2> QED BY <2>1, <2>2, <2>3, <2>4, <2>5, <2>6
<1>18. ASSUME NEW r \in Recoverers, LogRecovered(r) \/ RecovererStops(r) PROVE LeaseParts'
    <2>1. LeaseColumns' /\ SlotTokens'
        BY <1>18 DEF LogRecovered, RecovererStops, LeaseColumns, SlotTokens
    <2>a. /\ \A q \in Recoverers : orphans'[q] \subseteq orphans[q]
          /\ UNCHANGED <<token, retry, budget, nextToken, wtok>>
        BY <1>18 DEF LogRecovered, RecovererStops
    <2>2. TokensDrawn' /\ ScanFresh'
        BY <2>a DEF TokensDrawn, ScanFresh
    <2>3. BudgetPositive' /\ FailDecisionFresh' /\ AttemptAccounting'
        BY <1>18 DEF LogRecovered, RecovererStops, BudgetPositive, FailDecisionFresh,
           Holds, AttemptAccounting
    <2> QED BY <2>1, <2>2, <2>3
<1>19. CASE UNCHANGED vars
    BY <1>19 DEF vars, LeaseColumns, TokensDrawn, SlotTokens, ScanFresh, BudgetPositive,
       FailDecisionFresh, Holds, AttemptAccounting
<1> QED BY <1>1, <1>2, <1>3, <1>4, <1>5, <1>6, <1>7, <1>8, <1>9, <1>10, <1>11,
           <1>12, <1>13, <1>14, <1>15, <1>16, <1>17, <1>18, <1>19 DEF Next, SlotNext

(* The inductive invariant holds initially. *)
LEMMA LeaseInit == Init => LeaseInv
<1> SUFFICES ASSUME Init PROVE LeaseParts
    BY TypeInit DEF LeaseInv, LeaseParts
<1>1. LeaseColumns /\ TokensDrawn /\ SlotTokens
    BY DEF Init, LeaseColumns, TokensDrawn, SlotTokens, NullToken, NullTime
<1>2. ScanFresh /\ BudgetPositive /\ AttemptAccounting
    BY DEF Init, ScanFresh, BudgetPositive, AttemptAccounting
<1>3. FailDecisionFresh
    BY DEF Init, FailDecisionFresh, Holds
<1> QED BY <1>1, <1>2, <1>3 DEF LeaseParts

(* The inductive invariant: tokens are fresh and unique to their slot, and *)
(* a scan or a decision that still has its token is still up to date.      *)
THEOREM LeaseInvariant == Spec => []LeaseInv
BY LeaseInit, LeaseStep, PTL DEF Spec

(* No two slots ever hold the lease of one job: two holders would have the *)
(* token of the row, and a token belongs to one slot.                      *)
THEOREM SingleHolderHolds == Spec => []SingleHolder
<1>1. LeaseInv => SingleHolder
    <2> SUFFICES ASSUME LeaseInv, NEW v \in Workers, NEW w \in Workers,
                        v # w, Holds(v), Holds(w), wjob[v] = wjob[w]
                 PROVE  FALSE
        BY DEF SingleHolder
    <2>1. wtok[v] = wtok[w] /\ token[wjob[w]] = wtok[w]
        BY DEF Holds
    <2>2. wtok[w] # NullToken
        BY <2>1 DEF Holds, LeaseInv, LeaseColumns
    <2> QED BY <2>1, <2>2 DEF LeaseInv, SlotTokens
<1> QED BY <1>1, LeaseInvariant, PTL

(* A retry or a dead-letter decision that the fence lets through is right. *)
THEOREM FailDecisionFreshHolds == Spec => []FailDecisionFresh
<1>1. LeaseInv => FailDecisionFresh
    BY DEF LeaseInv
<1> QED BY <1>1, LeaseInvariant, PTL

(* The attempts of every job that no stale recovery has hit are counted    *)
(* exactly and stay within the budget.                                     *)
THEOREM AttemptAccountingHolds == Spec => []AttemptAccounting
<1>1. LeaseInv => AttemptAccounting
    BY DEF LeaseInv
<1> QED BY <1>1, LeaseInvariant, PTL

(* The lease columns are set exactly while the row is leased. *)
THEOREM LeaseColumnsHold == Spec => []LeaseColumns
<1>1. LeaseInv => LeaseColumns
    BY DEF LeaseInv
<1> QED BY <1>1, LeaseInvariant, PTL

(* A completed job stays completed until it is pruned: every other update  *)
(* asks for another state in the same statement.                           *)
THEOREM CompletedIsFinalHolds == Spec => CompletedIsFinal
<1> DEFINE Step == \A j \in Jobs : state[j] = "completed" => state'[j] \in {"completed", "deleted"}
<1>1. TypeOK /\ [Next]_vars => [Step]_vars
    <2> SUFFICES ASSUME TypeOK, Next PROVE Step
        OBVIOUS
    <2> USE DEF jobVars, TypeOK
    <2>1. ASSUME Tick \/ Prune PROVE Step
        BY <2>1 DEF Tick, Prune
    <2>2. ASSUME NEW c \in Clients,
                 Enqueue(c) \/ Requeue(c) \/ RequeueJob(c) \/ LogClient(c) \/ ClientDies(c)
          PROVE  Step
        BY <2>2 DEF Enqueue, Requeue, RequeueJob, CanRequeue, LogClient, ClientDies
    <2>3. ASSUME NEW w \in Workers, LeaseJob(w) PROVE Step
        BY <2>3 DEF LeaseJob, Ready
    <2>4. ASSUME NEW w \in Workers, Acknowledge(w) \/ FailJob(w) PROVE Step
        BY <2>4 DEF Acknowledge, FailJob, Fence, EndLease
    <2>5. ASSUME NEW w \in Workers, SlotNext(w), ~LeaseJob(w), ~Acknowledge(w), ~FailJob(w)
          PROVE  UNCHANGED state
        BY <2>5 DEF SlotNext, StartHandler, HandlerReturns, Renew, LogRenewed, RenewErrs,
                    StopRenewal, Joined, FailRead, LogOutcome, SlotDies
    <2>6. ASSUME NEW r \in Recoverers, RecoverOne(r) PROVE Step
        BY <2>6 DEF RecoverOne, CanRecover, EndLease
    <2>7. ASSUME NEW r \in Recoverers, Scan(r) \/ LogRecovered(r) \/ RecovererStops(r)
          PROVE  Step
        BY <2>7 DEF Scan, LogRecovered, RecovererStops
    <2> QED BY <2>1, <2>2, <2>3, <2>4, <2>5, <2>6, <2>7 DEF Next
<1> QED BY <1>1, TypeCorrect, PTL DEF Spec, CompletedIsFinal

-----------------------------------------------------------------------------
(* The lease protocol implements the lease service. *)

(* A busy slot is in at most the owner set of its own job, and an owner    *)
(* set has at most one slot.                                               *)
LEMMA OwnersSingle ==
    ASSUME LeaseInv, NEW w \in Workers, Holds(w)
    PROVE  Owners[wjob[w]] = {w}
<1>1. wjob[w] \in Jobs /\ token[wjob[w]] = wtok[w] /\ wtok[w] # NullToken
    BY DEF Holds, LeaseInv, LeaseColumns
<1>2. ASSUME NEW v \in Workers, wjob[v] = wjob[w], Holds(v) PROVE v = w
    <2>1. wtok[v] = wtok[w]
        BY <1>1, <1>2 DEF Holds
    <2>2. SlotTokens
        BY DEF LeaseInv
    <2> QED BY <1>1, <2>1, <2>2 DEF SlotTokens
<1> QED BY <1>1, <1>2 DEF Owners

(* A job that is not leased has no owner. *)
LEMMA OwnersLeased ==
    ASSUME NEW j \in Jobs, state[j] # "leased" PROVE Owners[j] = {}
BY DEF Owners, Holds

(* Steps that leave states, tokens and slots alone leave the owners alone. *)
LEMMA OwnersFrame ==
    ASSUME UNCHANGED <<state, token, wjob, wtok>> PROVE Owners' = Owners
BY DEF Owners, Holds

(* A slot that gives up abandons the lease it holds, if it holds one.      *)
LEMMA OwnersReset ==
    ASSUME LeaseInv, NEW w \in Workers, ResetSlot(w), UNCHANGED jobVars
    PROVE  [Service!Next]_<<state, Owners>>
<1> USE DEF jobVars
<1>1. /\ \A v \in Workers : v # w => wjob'[v] = wjob[v] /\ wtok'[v] = wtok[v]
      /\ wjob'[w] = NoJob /\ NoJob \notin Jobs
    BY Constants DEF ResetSlot, LeaseInv, TypeOK
<1>2. \A j \in Jobs : Owners'[j] = Owners[j] \ {w}
    BY <1>1 DEF Owners, Holds
<1>3. CASE Holds(w)
    <2> DEFINE j == wjob[w]
    <2>1. j \in Jobs /\ Owners[j] = {w}
        BY <1>3, OwnersSingle DEF Holds
    <2>2. \A i \in Jobs : i # j => w \notin Owners[i]
        BY DEF Owners
    <2>3. Owners' = [Owners EXCEPT ![j] = {}]
        <3>1. Owners'[j] = {}
            BY <1>2, <2>1
        <3>2. ASSUME NEW i \in Jobs, i # j PROVE Owners'[i] = Owners[i]
            <4>1. w \notin Owners[i] /\ Owners'[i] = Owners[i] \ {w}
                BY <1>2, <2>2, <3>2
            <4> QED BY <4>1
        <3> QED BY <2>1, <3>1, <3>2 DEF Owners
    <2>4. Service!Abandon(j, w)
        BY <2>1, <2>3 DEF Service!Abandon
    <2> QED BY <2>1, <2>4 DEF Service!Next
<1>4. CASE ~Holds(w)
    <2>1. \A i \in Jobs : w \notin Owners[i]
        BY <1>4 DEF Owners
    <2>2. Owners' = Owners
        BY <1>2, <2>1 DEF Owners
    <2> QED BY <2>2
<1> QED BY <1>3, <1>4

(* When a lease ends its job has no owner, and no other job's owner        *)
(* changes.                                                                *)
LEMMA OwnersEnd ==
    ASSUME TypeOK, NEW j \in Jobs, NEW next \in {"completed", "pending", "dead_letter"},
           NEW count, EndLease(j, next, count), UNCHANGED <<wjob, wtok>>
    PROVE  /\ state' = [state EXCEPT ![j] = next]
           /\ Owners' = [Owners EXCEPT ![j] = {}]
<1>1. /\ state' = [state EXCEPT ![j] = next] /\ state'[j] = next
      /\ \A i \in Jobs : i # j => state'[i] = state[i] /\ token'[i] = token[i]
    BY DEF EndLease, TypeOK
<1>2. Owners'[j] = {}
    BY <1>1 DEF Owners, Holds
<1>3. \A i \in Jobs : i # j => Owners'[i] = Owners[i]
    BY <1>1 DEF Owners, Holds
<1> QED BY <1>1, <1>2, <1>3 DEF Owners

(* Every step of the protocol is a step of the service or leaves the       *)
(* service's state alone.                                                  *)
LEMMA ServiceStep == LeaseInv /\ [Next]_vars => [Service!Next]_<<state, Owners>>
<1> SUFFICES ASSUME LeaseInv, [Next]_vars PROVE [Service!Next]_<<state, Owners>>
    OBVIOUS
<1>0. TypeOK
    BY DEF LeaseInv
<1> USE Constants DEF jobVars, slotVars
<1>1. ASSUME UNCHANGED <<state, token, wjob, wtok>>
      PROVE  [Service!Next]_<<state, Owners>>
    BY <1>1, OwnersFrame
<1>2. CASE Prune
    <2>1. PICK gone \in SUBSET Jobs :
            /\ \A j \in gone : state[j] \in {"completed", "dead_letter"}
            /\ state' = [j \in Jobs |-> IF j \in gone THEN "deleted" ELSE state[j]]
        BY <1>2 DEF Prune, Terminal
    <2>2. UNCHANGED <<token, wjob, wtok>>
        BY <1>2 DEF Prune
    <2>3. \A j \in Jobs : state'[j] = "leased" <=> state[j] = "leased"
        BY <2>1, <1>0 DEF TypeOK
    <2>4. Owners' = Owners
        BY <2>2, <2>3 DEF Owners, Holds
    <2>5. Service!Remove(gone)
        BY <2>1, <2>4 DEF Service!Remove
    <2> QED BY <2>5 DEF Service!Next
<1>3. ASSUME NEW c \in Clients, Enqueue(c) PROVE Service!Next
    <2>1. PICK j \in Jobs : state[j] = "unborn" /\ state' = [state EXCEPT ![j] = "pending"]
        BY <1>3 DEF Enqueue
    <2>2. UNCHANGED <<token, wjob, wtok>>
        BY <1>3 DEF Enqueue
    <2>3. \A i \in Jobs : state'[i] = "leased" <=> state[i] = "leased"
        BY <2>1, <1>0 DEF TypeOK
    <2>4. Owners' = Owners
        BY <2>2, <2>3 DEF Owners, Holds
    <2>5. Service!Submit(j)
        BY <2>1, <2>4 DEF Service!Submit
    <2> QED BY <2>5 DEF Service!Next
<1>4. ASSUME NEW c \in Clients, RequeueJob(c), CanRequeue(cjob[c]) PROVE Service!Next
    <2> DEFINE j == cjob[c]
    <2>1. /\ j \in Jobs /\ state[j] = "dead_letter" /\ state' = [state EXCEPT ![j] = "pending"]
          /\ token' = [token EXCEPT ![j] = NullToken] /\ UNCHANGED <<wjob, wtok>>
        BY <1>4 DEF RequeueJob, CanRequeue, LeaseInv, BudgetPositive
    <2>2. /\ state[j] # "leased" /\ state'[j] # "leased"
          /\ \A i \in Jobs : i # j => state'[i] = state[i] /\ token'[i] = token[i]
        BY <2>1, <1>0 DEF TypeOK
    <2>3. Owners' = Owners
        BY <2>1, <2>2 DEF Owners, Holds
    <2>4. Service!Revive(j)
        BY <2>1, <2>3 DEF Service!Revive
    <2> QED BY <2>1, <2>4 DEF Service!Next
<1>5. ASSUME NEW w \in Workers, LeaseJob(w) PROVE Service!Next
    <2>1. PICK j \in Jobs :
            /\ state[j] = "pending" /\ wpc[w] = "idle"
            /\ state' = [state EXCEPT ![j] = "leased"]
            /\ token' = [token EXCEPT ![j] = nextToken]
            /\ wjob' = [wjob EXCEPT ![w] = j]
            /\ wtok' = [wtok EXCEPT ![w] = nextToken]
        BY <1>5 DEF LeaseJob, NewLeaseToken, Ready
    <2>2. /\ state'[j] = "leased" /\ token'[j] = nextToken
          /\ wjob'[w] = j /\ wtok'[w] = nextToken
          /\ \A i \in Jobs : i # j => state'[i] = state[i] /\ token'[i] = token[i]
          /\ \A v \in Workers : v # w =>
                wjob'[v] = wjob[v] /\ wtok'[v] = wtok[v] /\ wtok[v] # nextToken
        BY <2>1, <1>0 DEF TypeOK, LeaseInv, TokensDrawn
    <2>3. wjob[w] = NoJob
        BY <2>1 DEF LeaseInv, SlotTokens
    <2>4. Owners[j] = {} /\ \A i \in Jobs : w \notin Owners[i]
        BY <2>1, <2>3 DEF Owners, Holds
    <2>5. Owners'[j] = {w}
        BY <2>2 DEF Owners, Holds
    <2>6. \A i \in Jobs : i # j => Owners'[i] = Owners[i]
        BY <2>2, <2>3 DEF Owners, Holds
    <2>7. Owners' = [Owners EXCEPT ![j] = {w}]
        BY <2>5, <2>6 DEF Owners
    <2>8. Service!Grant(j, w)
        BY <2>1, <2>4, <2>7 DEF Service!Grant
    <2> QED BY <2>8 DEF Service!Next
<1>6. ASSUME NEW w \in Workers, Acknowledge(w) \/ FailJob(w), Fence(wjob[w], wtok[w])
      PROVE  Service!Next
    <2> DEFINE j == wjob[w]
    <2>1. j \in Jobs /\ Holds(w)
        BY <1>6 DEF Acknowledge, FailJob, Fence, Holds, LeaseInv, SlotTokens
    <2>2. PICK next \in {"completed", "pending", "dead_letter"} :
            \E count : EndLease(j, next, count)
        BY <1>6 DEF Acknowledge, FailJob
    <2>3. UNCHANGED <<wjob, wtok>>
        BY <1>6 DEF Acknowledge, FailJob
    <2>4. state' = [state EXCEPT ![j] = next] /\ Owners' = [Owners EXCEPT ![j] = {}]
        BY <1>0, <2>1, <2>2, <2>3, OwnersEnd
    <2>5. w \in Owners[j]
        BY <2>1, OwnersSingle
    <2>6. Service!Settle(j, w)
        BY <2>4, <2>5 DEF Service!Settle
    <2> QED BY <2>1, <2>6 DEF Service!Next
<1>7. ASSUME NEW w \in Workers,
             \/ (Acknowledge(w) \/ FailJob(w)) /\ ~Fence(wjob[w], wtok[w])
             \/ Joined(w) \/ FailRead(w) \/ LogOutcome(w) \/ SlotDies(w)
      PROVE  [Service!Next]_<<state, Owners>>
    <2>1. UNCHANGED jobVars
        BY <1>7 DEF Acknowledge, FailJob, Joined, FailRead, LogOutcome, SlotDies
    <2>2. ResetSlot(w) \/ UNCHANGED <<wjob, wtok>>
        BY <1>7 DEF Acknowledge, FailJob, Joined, FailRead, LogOutcome, SlotDies
    <2>3. CASE ResetSlot(w)
        BY <2>1, <2>3, OwnersReset
    <2>4. CASE UNCHANGED <<wjob, wtok>>
        BY <1>1, <2>1, <2>4
    <2> QED BY <2>2, <2>3, <2>4
<1>8. ASSUME NEW r \in Recoverers, RecoverOne(r) PROVE [Service!Next]_<<state, Owners>>
    <2>1. PICK o \in orphans[r] :
            \/ /\ state[o.job] = "leased"
               /\ EndLease(o.job, IF Exhausted(o) THEN "dead_letter" ELSE "pending", o.retry + 1)
            \/ UNCHANGED jobVars
        BY <1>8 DEF RecoverOne, CanRecover
    <2>2. o.job \in Jobs /\ UNCHANGED <<wjob, wtok>>
        BY <1>0, <1>8 DEF RecoverOne, TypeOK, Orphan
    <2>3. CASE UNCHANGED jobVars
        BY <1>1, <2>2, <2>3
    <2>4. ASSUME NEW next \in {"pending", "dead_letter"}, state[o.job] = "leased",
                 EndLease(o.job, next, o.retry + 1)
          PROVE  Service!Next
        <3>1. state' = [state EXCEPT ![o.job] = next] /\ Owners' = [Owners EXCEPT ![o.job] = {}]
            BY <1>0, <2>2, <2>4, OwnersEnd
        <3>2. Service!Revoke(o.job)
            BY <2>4, <3>1 DEF Service!Revoke
        <3> QED BY <2>2, <3>2 DEF Service!Next
    <2> QED BY <2>1, <2>3, <2>4
<1>9. ASSUME \/ Tick \/ UNCHANGED vars
             \/ \E c \in Clients : \/ Requeue(c) \/ LogClient(c) \/ ClientDies(c)
                                   \/ RequeueJob(c) /\ ~CanRequeue(cjob[c])
             \/ \E w \in Workers : \/ StartHandler(w) \/ HandlerReturns(w) \/ Renew(w)
                                   \/ LogRenewed(w) \/ RenewErrs(w) \/ StopRenewal(w)
             \/ \E r \in Recoverers : Scan(r) \/ LogRecovered(r) \/ RecovererStops(r)
      PROVE  UNCHANGED <<state, token, wjob, wtok>>
    BY <1>9 DEF Tick, vars, Requeue, LogClient, ClientDies, RequeueJob, StartHandler,
                HandlerReturns, Renew, LogRenewed, RenewErrs, StopRenewal, Scan,
                LogRecovered, RecovererStops
<1> QED BY <1>1, <1>2, <1>3, <1>4, <1>5, <1>6, <1>7, <1>8, <1>9 DEF Next, SlotNext

(* The lease protocol implements the lease service: with any number of     *)
(* slots, recoveries and clients, only the owner of a lease settles its    *)
(* job, and a job has at most one owner.                                   *)
THEOREM ProtocolImplementsService == Spec => ImplementsService
<1>1. Init => Service!Init
    BY DEF Init, Service!Init, Owners, Holds
<1>2. LeaseInv /\ [Next]_vars => [Service!Next]_<<state, Owners>>
    BY ServiceStep
<1> QED BY <1>1, <1>2, LeaseInvariant, PTL DEF Spec, ImplementsService, Service!Spec
=============================================================================
