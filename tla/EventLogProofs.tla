--------------------------- MODULE EventLogProofs ---------------------------
(***************************************************************************)
(* Machine-checked proofs about EventLog.  With its log the protocol does  *)
(* what it does without; a job is acknowledged at most once; a log that    *)
(* misses no event balances, whatever the order of its events; and the log *)
(* of a job that was not disturbed verifies, trimmed or not.               *)
(***************************************************************************)
EXTENDS EventLog, LeaseProtocolProofs, CommonLemmas, FiniteSetTheorems

(* A step with the log is a step of the protocol or a trim, which leaves   *)
(* the protocol's variables alone.                                         *)
LEMMA LogStep == [LogNext]_allVars => [Next]_vars
<1>1. ASSUME AppendsEvent PROVE Next
    BY <1>1 DEF AppendsEvent, Next, SlotNext
<1>2. ASSUME PruneEvents PROVE [Next]_vars
    BY <1>2 DEF PruneEvents, Next
<1>3. ASSUME Silent PROVE Next
    BY <1>3 DEF Silent, Next, SlotNext
<1>4. ASSUME Deaths PROVE Next
    BY <1>4 DEF Deaths, Next, SlotNext
<1>5. ASSUME UNCHANGED allVars PROVE UNCHANGED vars
    BY <1>5 DEF allVars
<1> QED BY <1>1, <1>2, <1>3, <1>4, <1>5 DEF LogNext, CalmNext

(* The protocol with its event log implements the protocol: everything     *)
(* that is proved of the leases holds with the log, trims included.        *)
THEOREM LogImplementsProtocol == LogSpec => Spec
BY LogStep, PTL DEF LogSpec, Spec, LogInit

-----------------------------------------------------------------------------

(* Acknowledged and perhaps deleted since. *)
Done(j) == state[j] \in {"completed", "deleted"}

(* No statement brings a completed or deleted job back. *)
LEMMA DoneStays ==
    ASSUME TypeOK, [Next]_vars, NEW j \in Jobs, Done(j)
    PROVE  Done(j)'
<1> USE DEF jobVars, TypeOK, Done
<1>1. ASSUME Tick \/ Prune PROVE Done(j)'
    BY <1>1 DEF Tick, Prune
<1>2. ASSUME NEW c \in Clients,
             Enqueue(c) \/ Requeue(c) \/ RequeueJob(c) \/ LogClient(c) \/ ClientDies(c)
      PROVE  Done(j)'
    BY <1>2 DEF Enqueue, Requeue, RequeueJob, CanRequeue, LogClient, ClientDies
<1>3. ASSUME NEW w \in Workers, LeaseJob(w) PROVE Done(j)'
    BY <1>3 DEF LeaseJob, Ready
<1>4. ASSUME NEW w \in Workers, Acknowledge(w) \/ FailJob(w) PROVE Done(j)'
    BY <1>4 DEF Acknowledge, FailJob, Fence, EndLease
<1>5. ASSUME NEW w \in Workers, SlotNext(w), ~LeaseJob(w), ~Acknowledge(w), ~FailJob(w)
      PROVE  UNCHANGED state
    BY <1>5 DEF SlotNext, StartHandler, HandlerReturns, Renew, LogRenewed, RenewErrs,
                StopRenewal, Joined, FailRead, LogOutcome, SlotDies
<1>6. ASSUME NEW r \in Recoverers, RecoverOne(r) PROVE Done(j)'
    BY <1>6 DEF RecoverOne, CanRecover, EndLease
<1>7. ASSUME NEW r \in Recoverers, Scan(r) \/ LogRecovered(r) \/ RecovererStops(r)
      PROVE  Done(j)'
    BY <1>7 DEF Scan, LogRecovered, RecovererStops
<1>8. ASSUME UNCHANGED vars PROVE Done(j)'
    BY <1>8 DEF vars
<1> QED BY <1>1, <1>2, <1>3, <1>4, <1>5, <1>6, <1>7, <1>8 DEF Next

(* The fenced update of Acknowledge went through in this step. *)
Acked(w) ==
    /\ wpc[w] = "ack"
    /\ wjob[w] \in Jobs
    /\ state[wjob[w]] = "leased"
    /\ state' = [state EXCEPT ![wjob[w]] = "completed"]
    /\ wpc' = [wpc EXCEPT ![w] = "logAcked"]
    /\ wjob' = wjob

(* A slot comes to owe an acknowledged event by that update alone, and     *)
(* keeps its job until it has appended the event.                          *)
LEMMA OwesAck ==
    ASSUME LeaseInv, [Next]_vars, NEW w \in Workers, wpc'[w] = "logAcked"
    PROVE  (wpc[w] = "logAcked" /\ wjob'[w] = wjob[w]) \/ Acked(w)
<1> USE DEF slotVars, LeaseInv, TypeOK
<1>1. ASSUME NEW v \in Workers, Acknowledge(v)
      PROVE  (wpc[w] = "logAcked" /\ wjob'[w] = wjob[w]) \/ Acked(w)
    <2>1. CASE Fence(wjob[v], wtok[v])
        <3>1. wjob[v] \in Jobs
            BY <1>1 DEF Acknowledge, SlotTokens
        <3>2. /\ wpc' = [wpc EXCEPT ![v] = "logAcked"]
              /\ wjob' = wjob
              /\ state' = [state EXCEPT ![wjob[v]] = "completed"]
            BY <1>1, <2>1 DEF Acknowledge, EndLease
        <3> QED BY <1>1, <2>1, <3>1, <3>2 DEF Acknowledge, Fence, Acked
    <2>2. CASE ~Fence(wjob[v], wtok[v])
        BY <1>1, <2>2 DEF Acknowledge, ResetSlot
    <2> QED BY <2>1, <2>2
<1>2. ASSUME NEW v \in Workers, SlotNext(v), ~Acknowledge(v)
      PROVE  wpc[w] = "logAcked" /\ wjob'[w] = wjob[w]
    BY <1>2 DEF SlotNext, LeaseJob, StartHandler, HandlerReturns, Renew, LogRenewed,
                RenewErrs, StopRenewal, Joined, FailRead, FailJob, LogOutcome, SlotDies,
                ResetSlot
<1>3. ASSUME Tick \/ Prune \/ UNCHANGED vars PROVE UNCHANGED slotVars
    BY <1>3 DEF Tick, Prune, vars
<1>4. ASSUME NEW c \in Clients,
             Enqueue(c) \/ Requeue(c) \/ RequeueJob(c) \/ LogClient(c) \/ ClientDies(c)
      PROVE  UNCHANGED slotVars
    BY <1>4 DEF Enqueue, Requeue, RequeueJob, LogClient, ClientDies
<1>5. ASSUME NEW r \in Recoverers,
             Scan(r) \/ RecoverOne(r) \/ LogRecovered(r) \/ RecovererStops(r)
      PROVE  UNCHANGED slotVars
    BY <1>5 DEF Scan, RecoverOne, LogRecovered, RecovererStops
<1> QED BY <1>1, <1>2, <1>3, <1>4, <1>5 DEF Next

-----------------------------------------------------------------------------
(* At most one acknowledgement *)

IsAck(j, n) == events[j][n] = "acknowledged"

(* A job with an acknowledged event, or with a slot that owes one, is done *)
(* for good; it has one such event, or one such slot, and not both.        *)
AckInv ==
    /\ events \in [Jobs -> Seq(EventTypes)]
    /\ \A j \in Jobs : \A n \in DOMAIN events[j] : IsAck(j, n) => Done(j)
    /\ \A j \in Jobs : \A m, n \in DOMAIN events[j] : IsAck(j, m) /\ IsAck(j, n) => m = n
    /\ \A w \in Workers : wpc[w] = "logAcked" =>
            Done(wjob[w]) /\ \A n \in DOMAIN events[wjob[w]] : ~IsAck(wjob[w], n)
    /\ \A v, w \in Workers :
            wpc[v] = "logAcked" /\ wpc[w] = "logAcked" /\ wjob[v] = wjob[w] => v = w

(* The log of j gains no acknowledged event in this step. *)
NoNewAck(j) ==
    /\ (\A n \in DOMAIN events[j] : ~IsAck(j, n)) =>
            \A n \in DOMAIN events'[j] : events'[j][n] # "acknowledged"
    /\ (\A m, n \in DOMAIN events[j] : IsAck(j, m) /\ IsAck(j, n) => m = n) =>
            \A m, n \in DOMAIN events'[j] :
                events'[j][m] = "acknowledged" /\ events'[j][n] = "acknowledged" => m = n

(* A trimmed log has the newest events of the log it was, in their order,  *)
(* and one of them at least.                                               *)
LEMMA NewestEvents ==
    ASSUME NEW log \in Seq(EventTypes), NEW cap \in Nat
    PROVE  /\ Newest(log, cap) \in Seq(EventTypes)
           /\ log # <<>> => Newest(log, cap) # <<>>
           /\ \E k \in Nat :
                /\ Len(log) = Len(Newest(log, cap)) + k
                /\ \A n \in 1..Len(Newest(log, cap)) : Newest(log, cap)[n] = log[n + k]
<1>1. CASE cap = 0 \/ Len(log) <= cap
    <2>1. Newest(log, cap) = log
        BY <1>1 DEF Newest
    <2>2. Len(log) = Len(log) + 0 /\ \A n \in 1..Len(log) : log[n] = log[n + 0]
        OBVIOUS
    <2> QED BY <2>1, <2>2
<1>2. CASE cap # 0 /\ Len(log) > cap
    <2> DEFINE k == Len(log) - cap
    <2>1. k \in Nat /\ Len(log) \in Nat
        BY <1>2
    <2>2. Newest(log, cap) = SubSeq(log, k + 1, Len(log))
        BY <1>2, <2>1 DEF Newest
    <2>3. /\ SubSeq(log, k + 1, Len(log)) \in Seq(EventTypes)
          /\ Len(SubSeq(log, k + 1, Len(log))) = cap
          /\ \A n \in 1..cap : SubSeq(log, k + 1, Len(log))[n] = log[n + k]
        BY <1>2, <2>1
    <2> DEFINE new == Newest(log, cap)
    <2>4. /\ new \in Seq(EventTypes) /\ Len(new) = cap /\ Len(log) = cap + k
          /\ \A n \in 1..cap : new[n] = log[n + k]
        BY <2>1, <2>2, <2>3
    <2> HIDE DEF new, k
    <2>5. new # <<>>
        <3>1. Len(<<>>) = 0
            OBVIOUS
        <3> QED BY <1>2, <2>4, <3>1
    <2>6. new \in Seq(EventTypes) /\ new # <<>>
            /\ \E m \in Nat : Len(log) = Len(new) + m /\ \A n \in 1..Len(new) : new[n] = log[n + m]
        BY <2>1, <2>4, <2>5
    <2> QED BY <2>6 DEF new
<1> QED BY <1>1, <1>2

(* Appending to the log of a job leaves the other logs alone, and adds an  *)
(* acknowledgement only if it appends one.                                 *)
LEMMA LogEvents ==
    ASSUME events \in [Jobs -> Seq(EventTypes)], NEW i, NEW type \in EventTypes, Log(i, type)
    PROVE  /\ events' \in [Jobs -> Seq(EventTypes)]
           /\ \A j \in Jobs : j # i \/ type # "acknowledged" => NoNewAck(j)
<1>1. CASE i \in Jobs
    <2>1. /\ events'[i] = Append(events[i], type)
          /\ \A j \in Jobs : j # i => events'[j] = events[j]
          /\ events' = [events EXCEPT ![i] = Append(events[i], type)]
        BY <1>1 DEF Log
    <2>2. /\ events'[i] \in Seq(EventTypes)
          /\ DOMAIN events'[i] = 1..(Len(events[i]) + 1)
          /\ DOMAIN events[i] = 1..Len(events[i])
          /\ events'[i][Len(events[i]) + 1] = type
          /\ \A n \in 1..Len(events[i]) : events'[i][n] = events[i][n]
        BY <1>1, <2>1
    <2>3. Len(events[i]) \in Nat
        BY <1>1
    <2>4. type # "acknowledged" => NoNewAck(i)
        <3> SUFFICES ASSUME type # "acknowledged" PROVE NoNewAck(i)
            OBVIOUS
        <3>1. \A n \in DOMAIN events'[i] : events'[i][n] = "acknowledged" =>
                n \in DOMAIN events[i] /\ IsAck(i, n)
            <4> SUFFICES ASSUME NEW n \in 1..(Len(events[i]) + 1),
                                events'[i][n] = "acknowledged"
                         PROVE  n \in 1..Len(events[i]) /\ IsAck(i, n)
                BY <2>2
            <4>1. n # Len(events[i]) + 1
                BY <2>2
            <4>2. n \in 1..Len(events[i])
                BY <2>3, <4>1
            <4> QED BY <2>2, <4>2 DEF IsAck
        <3> QED BY <3>1 DEF NoNewAck
    <2>5. \A j \in Jobs : j # i => NoNewAck(j)
        BY <2>1 DEF NoNewAck, IsAck
    <2>6. events' \in [Jobs -> Seq(EventTypes)]
        BY <2>1, <2>2
    <2> QED BY <2>4, <2>5, <2>6
<1>2. CASE i \notin Jobs
    <2>1. events' = events
        BY <1>2 DEF Log
    <2> QED BY <2>1 DEF NoNewAck, IsAck
<1> QED BY <1>1, <1>2

(* A prune transaction removes events and adds none. *)
LEMMA PruneKeepsAcks ==
    ASSUME events \in [Jobs -> Seq(EventTypes)], PruneEvents
    PROVE  /\ events' \in [Jobs -> Seq(EventTypes)]
           /\ \A j \in Jobs : NoNewAck(j)
<1>1. PICK cap \in EventCaps :
        events' = [j \in Jobs |->
                    IF state[j] # state'[j] THEN <<>> ELSE Newest(events[j], cap)]
    BY DEF PruneEvents
<1>2. cap \in Nat
    BY EventAssumption
<1>3. ASSUME NEW j \in Jobs
      PROVE  events'[j] \in Seq(EventTypes) /\ NoNewAck(j)
    <2>1. CASE events'[j] = <<>>
        BY <2>1 DEF NoNewAck
    <2>2. CASE events'[j] = Newest(events[j], cap)
        <3>1. events[j] \in Seq(EventTypes)
            OBVIOUS
        <3>2. events'[j] \in Seq(EventTypes)
            BY <1>2, <2>2, <3>1, NewestEvents
        <3>3. PICK k \in Nat :
                /\ Len(events[j]) = Len(events'[j]) + k
                /\ \A n \in 1..Len(events'[j]) : events'[j][n] = events[j][n + k]
            <4>1. \E k \in Nat :
                    /\ Len(events[j]) = Len(Newest(events[j], cap)) + k
                    /\ \A n \in 1..Len(Newest(events[j], cap)) :
                            Newest(events[j], cap)[n] = events[j][n + k]
                BY <1>2, <3>1, NewestEvents
            <4> QED BY <2>2, <4>1
        <3>4. /\ DOMAIN events'[j] = 1..Len(events'[j]) /\ Len(events'[j]) \in Nat
              /\ DOMAIN events[j] = 1..Len(events[j])
            BY <3>1, <3>2
        <3>5. \A n \in DOMAIN events'[j] :
                n \in Nat /\ n + k \in DOMAIN events[j] /\ events'[j][n] = events[j][n + k]
            BY <3>3, <3>4
        <3> QED BY <3>2, <3>5 DEF NoNewAck, IsAck
    <2> QED BY <1>1, <2>1, <2>2
<1>4. events' \in [Jobs -> Seq(EventTypes)]
    BY <1>1, <1>3
<1> QED BY <1>3, <1>4

LEMMA AckInit == LogInit => AckInv
<1> SUFFICES ASSUME LogInit PROVE AckInv
    OBVIOUS
<1>1. events = [j \in Jobs |-> <<>>] /\ \A w \in Workers : wpc[w] = "idle"
    BY DEF LogInit, Init
<1> QED BY <1>1 DEF AckInv

(* A step that appends no acknowledged event. *)
LEMMA QuietAckStep ==
    ASSUME LeaseInv, AckInv, [Next]_vars,
           events' \in [Jobs -> Seq(EventTypes)], \A j \in Jobs : NoNewAck(j),
           \A v, w \in Workers : Acked(v) /\ Acked(w) => v = w
    PROVE  AckInv'
<1>1. \A j \in Jobs : Done(j) => Done(j)'
    BY DoneStays DEF LeaseInv
<1>2. \A w \in Workers : wpc[w] = "logAcked" => wjob[w] \in Jobs
    BY DEF LeaseInv, SlotTokens
<1>3. \A j \in Jobs : \A n \in DOMAIN events'[j] : IsAck(j, n)' => Done(j)'
    BY <1>1 DEF AckInv, NoNewAck, IsAck
<1>4. \A j \in Jobs : \A m, n \in DOMAIN events'[j] : IsAck(j, m)' /\ IsAck(j, n)' => m = n
    BY DEF AckInv, NoNewAck, IsAck
<1>5. ASSUME NEW w \in Workers, Acked(w)
      PROVE  /\ ~Done(wjob[w]) /\ wjob'[w] = wjob[w] /\ Done(wjob[w])'
             /\ \A n \in DOMAIN events[wjob[w]] : ~IsAck(wjob[w], n)
    <2>1. ~Done(wjob[w]) /\ wjob'[w] = wjob[w] /\ wjob[w] \in Jobs
        BY <1>5 DEF Acked, Done
    <2>2. state' = [state EXCEPT ![wjob[w]] = "completed"] /\ state \in [Jobs -> RowStates]
        BY <1>5 DEF Acked, LeaseInv, TypeOK
    <2>3. state'[wjob[w]] = "completed"
        BY <2>1, <2>2
    <2>4. Done(wjob[w])'
        BY <2>1, <2>3 DEF Done
    <2> QED BY <2>1, <2>4 DEF AckInv
<1>6. ASSUME NEW w \in Workers, wpc'[w] = "logAcked"
      PROVE  /\ wjob[w] \in Jobs /\ wjob'[w] = wjob[w] /\ Done(wjob[w])'
             /\ \A n \in DOMAIN events[wjob[w]] : ~IsAck(wjob[w], n)
    <2>1. CASE wpc[w] = "logAcked" /\ wjob'[w] = wjob[w]
        BY <1>1, <1>2, <2>1 DEF AckInv
    <2>2. CASE Acked(w)
        BY <1>5, <2>2 DEF Acked
    <2> QED BY <1>6, <2>1, <2>2, OwesAck
<1>7. ASSUME NEW w \in Workers, wpc'[w] = "logAcked"
      PROVE  Done(wjob[w])' /\ \A n \in DOMAIN events'[wjob'[w]] : ~IsAck(wjob[w], n)'
    <2>1. /\ wjob[w] \in Jobs /\ wjob'[w] = wjob[w] /\ Done(wjob[w])'
          /\ \A n \in DOMAIN events[wjob[w]] : ~IsAck(wjob[w], n)
        BY <1>6, <1>7
    <2>2. \A n \in DOMAIN events'[wjob[w]] : events'[wjob[w]][n] # "acknowledged"
        BY <2>1 DEF NoNewAck
    <2> QED BY <2>1, <2>2 DEF IsAck
<1>8. ASSUME NEW v \in Workers, NEW w \in Workers,
             wpc'[v] = "logAcked", wpc'[w] = "logAcked", wjob'[v] = wjob'[w]
      PROVE  v = w
    <2>1. wjob[v] = wjob[w]
        BY <1>6, <1>8
    <2>2. (wpc[v] = "logAcked" \/ Acked(v)) /\ (wpc[w] = "logAcked" \/ Acked(w))
        BY <1>8, OwesAck
    <2>3. CASE wpc[v] = "logAcked" /\ wpc[w] = "logAcked"
        BY <2>1, <2>3 DEF AckInv
    <2>4. CASE wpc[v] = "logAcked" /\ Acked(w)
        BY <1>5, <2>1, <2>4 DEF AckInv
    <2>5. CASE Acked(v) /\ wpc[w] = "logAcked"
        BY <1>5, <2>1, <2>5 DEF AckInv
    <2> QED BY <2>2, <2>3, <2>4, <2>5
<1> QED BY <1>3, <1>4, <1>6, <1>7, <1>8 DEF AckInv, IsAck, Done

(* One fenced update goes through in a step. *)
LEMMA OneAcked ==
    ASSUME LeaseInv, NEW v \in Workers, NEW w \in Workers, Acked(v), Acked(w)
    PROVE  v = w
BY DEF Acked, LeaseInv, TypeOK

(* Every step of the log keeps the invariant: only LogOutcome appends an   *)
(* acknowledged event, for a slot that owed it.                            *)
LEMMA AckStep == LeaseInv /\ AckInv /\ [LogNext]_allVars => AckInv'
<1> SUFFICES ASSUME LeaseInv, AckInv, [LogNext]_allVars PROVE AckInv'
    OBVIOUS
<1>1. [Next]_vars
    BY LogStep
<1>2. events \in [Jobs -> Seq(EventTypes)]
    BY DEF AckInv
<1>3. ASSUME events' \in [Jobs -> Seq(EventTypes)], \A j \in Jobs : NoNewAck(j)
      PROVE  AckInv'
    BY <1>1, <1>3, OneAcked, QuietAckStep
<1>4. ASSUME UNCHANGED events PROVE AckInv'
    BY <1>2, <1>3, <1>4 DEF NoNewAck, IsAck
<1>5. ASSUME NEW i, NEW type \in EventTypes, type # "acknowledged", Log(i, type)
      PROVE  AckInv'
    BY <1>2, <1>3, <1>5, LogEvents
<1>6. ASSUME NEW c \in Clients, LogClient(c) /\ Log(cjob[c], ClientEvent(c)) PROVE AckInv'
    <2>1. ClientEvent(c) \in EventTypes /\ ClientEvent(c) # "acknowledged"
        BY DEF ClientEvent, EventTypes
    <2> QED BY <1>5, <1>6, <2>1
<1>7. ASSUME NEW w \in Workers,
             \/ StartHandler(w) /\ Log(wjob[w], "leased")
             \/ LogRenewed(w) /\ Log(wjob[w], "lease_renewed")
      PROVE  AckInv'
    BY <1>5, <1>7 DEF EventTypes
<1>8. ASSUME NEW w \in Workers, LogOutcome(w), Log(wjob[w], OutcomeEvent[wpc[w]])
      PROVE  AckInv'
    <2>1. CASE wpc[w] # "logAcked"
        <3>1. wpc[w] \in {"logRetried", "logBuried"}
            BY <1>8, <2>1 DEF LogOutcome
        <3>2. OutcomeEvent[wpc[w]] \in EventTypes /\ OutcomeEvent[wpc[w]] # "acknowledged"
            BY <3>1 DEF OutcomeEvent, EventTypes
        <3> QED BY <1>5, <1>8, <3>2
    <2>2. CASE wpc[w] = "logAcked"
        <3> DEFINE i == wjob[w]
        <3>1. i \in Jobs /\ Done(i) /\ \A n \in DOMAIN events[i] : ~IsAck(i, n)
            BY <2>2 DEF AckInv, LeaseInv, SlotTokens
        <3>2. Log(i, "acknowledged")
            BY <1>8, <2>2 DEF OutcomeEvent
        <3>3. events' \in [Jobs -> Seq(EventTypes)] /\ \A j \in Jobs : j # i => NoNewAck(j)
            BY <1>2, <3>2, LogEvents DEF EventTypes
        <3>4. UNCHANGED <<state, wjob>> \/ (state' = state /\ wjob' = [wjob EXCEPT ![w] = NoJob])
            BY <1>8 DEF LogOutcome, ResetSlot, jobVars
        <3>5. /\ wpc' = [wpc EXCEPT ![w] = "idle"]
              /\ \A v \in Workers : wpc'[v] = "logAcked" =>
                    v # w /\ wpc[v] = "logAcked" /\ wjob'[v] = wjob[v]
            BY <1>8, <3>4 DEF LogOutcome, ResetSlot, LeaseInv, TypeOK
        <3>6. \A v \in Workers : wpc'[v] = "logAcked" => wjob[v] # i /\ wjob[v] \in Jobs
            BY <2>2, <3>5 DEF AckInv, LeaseInv, SlotTokens
        <3>7. \A m, n \in DOMAIN events'[i] :
                events'[i][m] = "acknowledged" /\ events'[i][n] = "acknowledged" => m = n
            <4>1. /\ events'[i] = Append(events[i], "acknowledged")
                  /\ events[i] \in Seq(EventTypes)
                BY <1>2, <3>1, <3>2 DEF Log
            <4>2. /\ DOMAIN events'[i] = 1..(Len(events[i]) + 1)
                  /\ DOMAIN events[i] = 1..Len(events[i])
                  /\ \A n \in 1..Len(events[i]) : events'[i][n] = events[i][n]
                BY <4>1
            <4>3. Len(events[i]) \in Nat
                BY <4>1
            <4>4. \A n \in DOMAIN events'[i] :
                    events'[i][n] = "acknowledged" => n = Len(events[i]) + 1
                BY <3>1, <4>2, <4>3 DEF IsAck
            <4> QED BY <4>4
        <3>8. \A j \in Jobs : \A n \in DOMAIN events'[j] : IsAck(j, n)' => Done(j)'
            <4>1. \A j \in Jobs : Done(j)' <=> Done(j)
                BY <3>4 DEF Done
            <4> QED BY <3>1, <3>3, <4>1 DEF AckInv, NoNewAck, IsAck
        <3>9. \A j \in Jobs : \A m, n \in DOMAIN events'[j] :
                IsAck(j, m)' /\ IsAck(j, n)' => m = n
            BY <3>3, <3>7 DEF AckInv, NoNewAck, IsAck
        <3>10. ASSUME NEW v \in Workers, wpc'[v] = "logAcked"
               PROVE  /\ Done(wjob[v])'
                      /\ \A n \in DOMAIN events'[wjob'[v]] : ~IsAck(wjob[v], n)'
            <4>1. /\ wpc[v] = "logAcked" /\ wjob'[v] = wjob[v]
                  /\ wjob[v] \in Jobs /\ wjob[v] # i
                BY <3>5, <3>6, <3>10
            <4>2. Done(wjob[v]) /\ \A n \in DOMAIN events[wjob[v]] : ~IsAck(wjob[v], n)
                BY <4>1 DEF AckInv
            <4>3. Done(wjob[v])'
                BY <3>4, <4>1, <4>2 DEF Done
            <4>4. \A n \in DOMAIN events'[wjob[v]] : events'[wjob[v]][n] # "acknowledged"
                BY <3>3, <4>1, <4>2 DEF NoNewAck
            <4> QED BY <4>1, <4>3, <4>4 DEF IsAck
        <3>11. \A u, v \in Workers :
                wpc'[u] = "logAcked" /\ wpc'[v] = "logAcked" /\ wjob'[u] = wjob'[v] => u = v
            BY <3>5 DEF AckInv
        <3> QED BY <3>3, <3>8, <3>9, <3>10, <3>11 DEF AckInv
    <2> QED BY <2>1, <2>2
<1>9. ASSUME NEW r \in Recoverers, NEW e \in recovered[r], Log(e.job, RecoveryEvent[e.state])
      PROVE  AckInv'
    <2>1. e.state \in {"pending", "dead_letter"}
        BY DEF LeaseInv, TypeOK, Report
    <2>2. RecoveryEvent[e.state] \in EventTypes /\ RecoveryEvent[e.state] # "acknowledged"
        BY <2>1 DEF RecoveryEvent, EventTypes
    <2> QED BY <1>5, <1>9, <2>2
<1>10. ASSUME PruneEvents PROVE AckInv'
    BY <1>2, <1>3, <1>10, PruneKeepsAcks
<1>11. CASE AppendsEvent
    BY <1>6, <1>7, <1>8, <1>9, <1>11 DEF AppendsEvent
<1>12. CASE Silent \/ Deaths \/ UNCHANGED allVars
    BY <1>4, <1>12 DEF Silent, Deaths, allVars, logVars
<1> QED BY <1>10, <1>11, <1>12 DEF LogNext, CalmNext

(* A job has one acknowledged event at most, however slots, recoveries and *)
(* clients interleave, die and are trimmed, and none if it is not done.    *)
THEOREM AcknowledgedOnceHolds == LogSpec => []AcknowledgedOnce
<1>1. AckInv => AcknowledgedOnce
    <2> SUFFICES ASSUME AckInv, NEW j \in Jobs
                 PROVE  /\ Count(j, {"acknowledged"}) <= 1
                        /\ Count(j, {"acknowledged"}) = 1 => Done(j)
        BY DEF AcknowledgedOnce, Done
    <2> DEFINE acks == {n \in DOMAIN events[j] : events[j][n] \in {"acknowledged"}}
    <2>1. Count(j, {"acknowledged"}) = Cardinality(acks)
        BY DEF Count
    <2>2. acks = {} \/ \E n \in DOMAIN events[j] : acks = {n} /\ Done(j)
        BY DEF AckInv, IsAck
    <2>3. CASE acks = {}
        BY <2>1, <2>3, FS_EmptySet
    <2>4. ASSUME NEW n \in DOMAIN events[j], acks = {n}, Done(j)
          PROVE  Count(j, {"acknowledged"}) = 1
        BY <2>1, <2>4, FS_Singleton
    <2> QED BY <2>2, <2>3, <2>4
<1>2. LogSpec => []LeaseInv
    BY LogImplementsProtocol, LeaseInvariant, PTL
<1> QED BY <1>1, <1>2, AckInit, AckStep, PTL DEF LogSpec

(* The types of the protocol, of the log and of its history variables. *)
THEOREM LogTypeCorrect == LogSpec => []LogTypeOK
<1> DEFINE Histories == disturbed \in SUBSET Jobs /\ lost \in SUBSET Jobs
<1>1. LogInit => Histories
    BY DEF LogInit
<1>2. Histories /\ [LogNext]_allVars => Histories'
    BY DEF LogNext, CalmNext, Records, allVars, logVars
<1>3. AckInv => events \in [Jobs -> Seq(EventTypes)]
    BY DEF AckInv
<1>4. TypeOK /\ Histories /\ events \in [Jobs -> Seq(EventTypes)] => LogTypeOK
    BY DEF LogTypeOK
<1>5. LogSpec => []TypeOK /\ []LeaseInv
    BY LogImplementsProtocol, LeaseInvariant, TypeCorrect, PTL
<1> QED BY <1>1, <1>2, <1>3, <1>4, <1>5, AckInit, AckStep, PTL DEF LogSpec

-----------------------------------------------------------------------------
(* What is owed *)

(* A report of a recovery has a job of its own, and none of those that are *)
(* still to be updated.                                                    *)
OneReport ==
    \A r \in Recoverers :
        /\ \A o, p \in orphans[r] : o.job = p.job => o = p
        /\ \A d, e \in recovered[r] : d.job = e.job => d = e
        /\ \A o \in orphans[r], e \in recovered[r] : o.job # e.job

SlotsAt(pc, job, j, steps) == {w \in Workers : job[w] = j /\ pc[w] \in steps}

ReportsOf(rec, j, states) ==
    {r \in Recoverers : \E e \in rec[r] : e.job = j /\ e.state \in states}

RequeuersOf(pc, job, j) == {c \in Clients : job[c] = j /\ pc[c] = "logRequeued"}

Number(log, types) == Cardinality({n \in DOMAIN log : log[n] \in types})

Has(S, x) == IF x \in S THEN 1 ELSE 0

EndTypes == {"acknowledged", "retried", "recovered", "dead_lettered"}

EndSteps == {"logAcked", "logRetried", "logBuried"}

(* Who owes an event of job j: the slots that have leased, ended or buried *)
(* it, the recoveries that have taken or buried it, the clients that have  *)
(* requeued it.                                                            *)
Ledger(pc, job, rec, cp, cj, j) ==
    [leased   |-> SlotsAt(pc, job, j, {"logLeased"}),
     ended    |-> SlotsAt(pc, job, j, EndSteps),
     buried   |-> SlotsAt(pc, job, j, {"logBuried"}),
     taken    |-> ReportsOf(rec, j, {"pending", "dead_letter"}),
     killed   |-> ReportsOf(rec, j, {"dead_letter"}),
     requeued |-> RequeuersOf(cp, cj, j)]

(* Every lease that is over has ended once, and every death but the last   *)
(* has been requeued, where an event that is still owed counts.            *)
Books(log, st, g) ==
    /\ Number(log, {"leased"}) + Cardinality(g.leased)
         = Number(log, EndTypes) + Cardinality(g.ended) + Cardinality(g.taken)
             + Has({"leased"}, st)
    /\ Number(log, {"dead_lettered"}) + Cardinality(g.buried) + Cardinality(g.killed)
         = Number(log, {"requeued"}) + Cardinality(g.requeued) + Has({"dead_letter"}, st)

BooksInv ==
    \A j \in Jobs \ lost : state[j] # "deleted" =>
        Books(events[j], state[j], Ledger(wpc, wjob, recovered, cpc, cjob, j))

-----------------------------------------------------------------------------
(* Counting *)

(* Two finite sets that differ in one element at most. *)
LEMMA OneMoves ==
    ASSUME NEW S, NEW T, NEW x, IsFiniteSet(S), IsFiniteSet(T), S \ {x} = T \ {x}
    PROVE  /\ Cardinality(S) \in Nat /\ Cardinality(T) \in Nat
           /\ Cardinality(T) + Has(S, x) = Cardinality(S) + Has(T, x)
<1>1. Cardinality(S) \in Nat /\ Cardinality(T) \in Nat
    BY FS_CardinalityType
<1>2. Cardinality(S \ {x}) = IF x \in S THEN Cardinality(S) - 1 ELSE Cardinality(S)
    BY FS_RemoveElement
<1>3. Cardinality(T \ {x}) = IF x \in T THEN Cardinality(T) - 1 ELSE Cardinality(T)
    BY FS_RemoveElement
<1>4. Cardinality(S \ {x}) = Cardinality(T \ {x})
    OBVIOUS
<1> QED BY <1>1, <1>2, <1>3, <1>4 DEF Has

(* An appended event counts once, under its type. *)
LEMMA NumberAppend ==
    ASSUME NEW log \in Seq(EventTypes), NEW type \in EventTypes, NEW types
    PROVE  /\ Number(log, types) \in Nat
           /\ Number(Append(log, type), types) = Number(log, types) + Has(types, type)
<1> DEFINE at == Len(log) + 1
           S == {n \in DOMAIN log : log[n] \in types}
           T == {n \in DOMAIN Append(log, type) : Append(log, type)[n] \in types}
<1>1. /\ Len(log) \in Nat
      /\ DOMAIN log = 1..Len(log) /\ DOMAIN Append(log, type) = 1..at
      /\ Append(log, type)[at] = type
      /\ \A n \in 1..Len(log) : Append(log, type)[n] = log[n]
    OBVIOUS
<1>2. S \in SUBSET (1..at) /\ T \in SUBSET (1..at)
    BY <1>1
<1>3. IsFiniteSet(S) /\ IsFiniteSet(T)
    <2>1. at \in Int
        BY <1>1
    <2>2. IsFiniteSet(1..at)
        BY <2>1, FS_Interval
    <2> QED BY <1>2, <2>2, FS_Subset
<1>4. S \ {at} = T \ {at} /\ at \notin S /\ (at \in T <=> type \in types)
    BY <1>1
<1>5. Number(log, types) = Cardinality(S) /\ Number(Append(log, type), types) = Cardinality(T)
    BY DEF Number
<1> HIDE DEF S, T, at
<1>6. /\ Cardinality(S) \in Nat /\ Cardinality(T) \in Nat
      /\ Cardinality(T) + Has(S, at) = Cardinality(S) + Has(T, at)
    BY <1>3, <1>4, OneMoves
<1> QED BY <1>4, <1>5, <1>6 DEF Has

LEMMA NumberType ==
    ASSUME NEW log \in Seq(EventTypes), NEW types
    PROVE  Number(log, types) \in Nat
BY NumberAppend DEF EventTypes

LEMMA NumberEmpty == ASSUME NEW types PROVE Number(<<>>, types) = 0
<1>1. {n \in DOMAIN <<>> : <<>>[n] \in types} = {}
    OBVIOUS
<1> QED BY <1>1, FS_EmptySet DEF Number

(* The callers are finitely many. *)
LEMMA FinitelyMany ==
    ASSUME NEW pc, NEW job, NEW rec, NEW j, NEW S
    PROVE  /\ IsFiniteSet(SlotsAt(pc, job, j, S)) /\ IsFiniteSet(RequeuersOf(pc, job, j))
           /\ IsFiniteSet(ReportsOf(rec, j, S))
           /\ Cardinality(SlotsAt(pc, job, j, S)) \in Nat
           /\ Cardinality(RequeuersOf(pc, job, j)) \in Nat
           /\ Cardinality(ReportsOf(rec, j, S)) \in Nat
<1>1. /\ SlotsAt(pc, job, j, S) \in SUBSET Workers
      /\ RequeuersOf(pc, job, j) \in SUBSET Clients
      /\ ReportsOf(rec, j, S) \in SUBSET Recoverers
    BY DEF SlotsAt, RequeuersOf, ReportsOf
<1>2. IsFiniteSet(Workers) /\ IsFiniteSet(Clients) /\ IsFiniteSet(Recoverers)
    BY EventAssumption
<1> QED BY <1>1, <1>2, FS_Subset, FS_CardinalityType

(* A step appends an event of this type to a log, or none. *)
Gains(log, new, t) == (t = "none" /\ new = log) \/ (t \in EventTypes /\ new = Append(log, t))

(* A step adds what it appends to the number. *)
LEMMA NumberGains ==
    ASSUME NEW log \in Seq(EventTypes), NEW new, NEW t, Gains(log, new, t), NEW T \in SUBSET EventTypes
    PROVE  Number(log, T) \in Nat /\ Number(new, T) \in Nat
           /\ Number(new, T) = Number(log, T) + Has(T, t)
<1>1. Number(log, T) \in Nat
    BY NumberType
<1>2. CASE t = "none" /\ new = log
    <2>1. Has(T, t) = 0
        BY <1>2 DEF Has, EventTypes
    <2> QED BY <1>1, <1>2, <2>1
<1>3. CASE t \in EventTypes /\ new = Append(log, t)
    <2>1. Number(new, T) = Number(log, T) + Has(T, t)
        BY <1>3, NumberAppend
    <2>2. Has(T, t) \in Nat
        BY DEF Has
    <2> QED BY <1>1, <2>1, <2>2
<1> QED BY <1>2, <1>3 DEF Gains

(* A step of caller x changes a finite set by x at most. *)
Moves(S, T, x) == IsFiniteSet(S) /\ IsFiniteSet(T) /\ S \ {x} = T \ {x}

(* OneMoves over integers, for the arithmetic of the books. *)
LEMMA MovesByOne ==
    ASSUME NEW S, NEW T, NEW x, Moves(S, T, x)
    PROVE  \E s, t, p, q \in Int :
            /\ s = Cardinality(S) /\ t = Cardinality(T) /\ p = Has(S, x) /\ q = Has(T, x)
            /\ t + p = s + q
<1>1. /\ Cardinality(S) \in Nat /\ Cardinality(T) \in Nat
      /\ Cardinality(T) + Has(S, x) = Cardinality(S) + Has(T, x)
    BY OneMoves DEF Moves
<1>2. Has(S, x) \in Int /\ Has(T, x) \in Int
    BY DEF Has
<1>3. Cardinality(S) \in Int /\ Cardinality(T) \in Int
    BY <1>1
<1> QED BY <1>1, <1>2, <1>3, Zenon

LEMMA GainsInNumbers ==
    ASSUME NEW log \in Seq(EventTypes), NEW new, NEW t, Gains(log, new, t), NEW T \in SUBSET EventTypes
    PROVE  \E a, b, p \in Int :
            a = Number(log, T) /\ b = Number(new, T) /\ p = Has(T, t) /\ b = a + p
<1>1. Has(T, t) \in Int
    BY DEF Has
<1> QED BY <1>1, NumberGains

(* A step of caller x changes ledger g to h: by x at most, and the same on *)
(* both sides of the books when event t is appended.                       *)
Balanced(g, h, x, t, st, next) ==
    /\ Moves(g.leased, h.leased, x) /\ Moves(g.ended, h.ended, x) /\ Moves(g.buried, h.buried, x)
    /\ Moves(g.taken, h.taken, x) /\ Moves(g.killed, h.killed, x)
    /\ Moves(g.requeued, h.requeued, x)
    /\ Has({"leased"}, t) + Has(h.leased, x) + Has(g.ended, x) + Has(g.taken, x)
            + Has({"leased"}, st)
         = Has(EndTypes, t) + Has(g.leased, x) + Has(h.ended, x) + Has(h.taken, x)
            + Has({"leased"}, next)
    /\ Has({"dead_lettered"}, t) + Has(h.buried, x) + Has(h.killed, x) + Has(g.requeued, x)
            + Has({"dead_letter"}, st)
         = Has({"requeued"}, t) + Has(g.buried, x) + Has(g.killed, x) + Has(h.requeued, x)
            + Has({"dead_letter"}, next)

(* A balanced step keeps the books. *)
LEMMA BooksKept ==
    ASSUME NEW log \in Seq(EventTypes), NEW new, NEW t, Gains(log, new, t),
           NEW st, NEW next, NEW x, NEW g, NEW h,
           Books(log, st, g), Balanced(g, h, x, t, st, next)
    PROVE  Books(new, next, h)
<1> DEFINE L == g.leased  E == g.ended  B == g.buried  R == g.taken  D == g.killed  Q == g.requeued
           L2 == h.leased E2 == h.ended B2 == h.buried R2 == h.taken D2 == h.killed Q2 == h.requeued
<1>0. /\ Moves(L, L2, x) /\ Moves(E, E2, x) /\ Moves(B, B2, x)
      /\ Moves(R, R2, x) /\ Moves(D, D2, x) /\ Moves(Q, Q2, x)
    BY DEF Balanced
<1>5. /\ Number(log, {"leased"}) + Cardinality(L)
           = Number(log, EndTypes) + Cardinality(E) + Cardinality(R) + Has({"leased"}, st)
      /\ Number(log, {"dead_lettered"}) + Cardinality(B) + Cardinality(D)
           = Number(log, {"requeued"}) + Cardinality(Q) + Has({"dead_letter"}, st)
    BY DEF Books
<1>6. /\ Has({"leased"}, t) + Has(L2, x) + Has(E, x) + Has(R, x) + Has({"leased"}, st)
           = Has(EndTypes, t) + Has(L, x) + Has(E2, x) + Has(R2, x) + Has({"leased"}, next)
      /\ Has({"dead_lettered"}, t) + Has(B2, x) + Has(D2, x) + Has(Q, x)
              + Has({"dead_letter"}, st)
           = Has({"requeued"}, t) + Has(B, x) + Has(D, x) + Has(Q2, x)
              + Has({"dead_letter"}, next)
    BY DEF Balanced
<1>7. Books(new, next, h) <=>
        /\ Number(new, {"leased"}) + Cardinality(L2)
             = Number(new, EndTypes) + Cardinality(E2) + Cardinality(R2) + Has({"leased"}, next)
        /\ Number(new, {"dead_lettered"}) + Cardinality(B2) + Cardinality(D2)
             = Number(new, {"requeued"}) + Cardinality(Q2) + Has({"dead_letter"}, next)
    BY DEF Books
<1> HIDE DEF L, E, B, R, D, Q, L2, E2, B2, R2, D2, Q2
<1>1. \E s, s2 \in Int : s = Has({"leased"}, st) /\ s2 = Has({"leased"}, next)
    BY DEF Has
<1>2. \E s, s2 \in Int : s = Has({"dead_letter"}, st) /\ s2 = Has({"dead_letter"}, next)
    BY DEF Has
<1>3. Number(new, {"leased"}) + Cardinality(L2)
        = Number(new, EndTypes) + Cardinality(E2) + Cardinality(R2) + Has({"leased"}, next)
    <2>1. PICK l, l2, pl, ql \in Int :
            /\ l = Cardinality(L) /\ l2 = Cardinality(L2) /\ pl = Has(L, x) /\ ql = Has(L2, x)
            /\ l2 + pl = l + ql
        BY <1>0, MovesByOne
    <2>2. PICK e, e2, pe, qe \in Int :
            /\ e = Cardinality(E) /\ e2 = Cardinality(E2) /\ pe = Has(E, x) /\ qe = Has(E2, x)
            /\ e2 + pe = e + qe
        BY <1>0, MovesByOne
    <2>3. PICK r, r2, pr, qr \in Int :
            /\ r = Cardinality(R) /\ r2 = Cardinality(R2) /\ pr = Has(R, x) /\ qr = Has(R2, x)
            /\ r2 + pr = r + qr
        BY <1>0, MovesByOne
    <2>4. PICK a, a2, pa \in Int :
            /\ a = Number(log, {"leased"}) /\ a2 = Number(new, {"leased"})
            /\ pa = Has({"leased"}, t) /\ a2 = a + pa
        BY GainsInNumbers DEF EventTypes
    <2>5. PICK b, b2, pb \in Int :
            /\ b = Number(log, EndTypes) /\ b2 = Number(new, EndTypes)
            /\ pb = Has(EndTypes, t) /\ b2 = b + pb
        <3>1. EndTypes \in SUBSET EventTypes
            BY DEF EndTypes, EventTypes
        <3> QED BY <3>1, GainsInNumbers
    <2>6. PICK s, s2 \in Int : s = Has({"leased"}, st) /\ s2 = Has({"leased"}, next)
        BY <1>1
    <2>7. a + l = b + e + r + s
        BY <2>1, <2>2, <2>3, <2>4, <2>5, <2>6, <1>5
    <2>8. pa + ql + pe + pr + s = pb + pl + qe + qr + s2
        BY <1>6, <2>1, <2>2, <2>3, <2>4, <2>5, <2>6
    <2>9. l2 + pl = l + ql /\ e2 + pe = e + qe /\ r2 + pr = r + qr /\ a2 = a + pa /\ b2 = b + pb
        BY <2>1, <2>2, <2>3, <2>4, <2>5
    <2>10. a2 + l2 = b2 + e2 + r2 + s2
        BY <2>7, <2>8, <2>9
    <2> QED BY <2>1, <2>2, <2>3, <2>4, <2>5, <2>6, <2>10
<1>4. Number(new, {"dead_lettered"}) + Cardinality(B2) + Cardinality(D2)
        = Number(new, {"requeued"}) + Cardinality(Q2) + Has({"dead_letter"}, next)
    <2>1. PICK l, l2, pl, ql \in Int :
            /\ l = Cardinality(B) /\ l2 = Cardinality(B2) /\ pl = Has(B, x) /\ ql = Has(B2, x)
            /\ l2 + pl = l + ql
        BY <1>0, MovesByOne
    <2>2. PICK e, e2, pe, qe \in Int :
            /\ e = Cardinality(D) /\ e2 = Cardinality(D2) /\ pe = Has(D, x) /\ qe = Has(D2, x)
            /\ e2 + pe = e + qe
        BY <1>0, MovesByOne
    <2>3. PICK r, r2, pr, qr \in Int :
            /\ r = Cardinality(Q) /\ r2 = Cardinality(Q2) /\ pr = Has(Q, x) /\ qr = Has(Q2, x)
            /\ r2 + pr = r + qr
        BY <1>0, MovesByOne
    <2>4. PICK a, a2, pa \in Int :
            /\ a = Number(log, {"dead_lettered"}) /\ a2 = Number(new, {"dead_lettered"})
            /\ pa = Has({"dead_lettered"}, t) /\ a2 = a + pa
        BY GainsInNumbers DEF EventTypes
    <2>5. PICK b, b2, pb \in Int :
            /\ b = Number(log, {"requeued"}) /\ b2 = Number(new, {"requeued"})
            /\ pb = Has({"requeued"}, t) /\ b2 = b + pb
        BY GainsInNumbers DEF EventTypes
    <2>6. PICK s, s2 \in Int : s = Has({"dead_letter"}, st) /\ s2 = Has({"dead_letter"}, next)
        BY <1>2
    <2>7. a + l + e = b + r + s
        BY <2>1, <2>2, <2>3, <2>4, <2>5, <2>6, <1>5
    <2>8. pa + ql + qe + pr + s = pb + pl + pe + qr + s2
        BY <1>6, <2>1, <2>2, <2>3, <2>4, <2>5, <2>6
    <2>9. l2 + pl = l + ql /\ e2 + pe = e + qe /\ r2 + pr = r + qr /\ a2 = a + pa /\ b2 = b + pb
        BY <2>1, <2>2, <2>3, <2>4, <2>5
    <2>10. a2 + l2 + e2 = b2 + r2 + s2
        BY <2>7, <2>8, <2>9
    <2> QED BY <2>1, <2>2, <2>3, <2>4, <2>5, <2>6, <2>10
<1> QED BY <1>3, <1>4, <1>7

-----------------------------------------------------------------------------
(* A recovery reports a job once: its scan has one row of each job. *)

LEMMA OneReportStep == TypeOK /\ OneReport /\ [Next]_vars => OneReport'
<1> SUFFICES ASSUME TypeOK, OneReport, [Next]_vars PROVE OneReport'
    OBVIOUS
<1>1. ASSUME UNCHANGED recVars PROVE OneReport'
    BY <1>1 DEF OneReport, recVars
<1>2. ASSUME NEW r \in Recoverers, Scan(r) PROVE OneReport'
    <2>1. PICK scanned \in SUBSET Jobs :
            /\ orphans' = [orphans EXCEPT ![r] = {Row(j) : j \in scanned}]
            /\ recovered' = recovered /\ recovered[r] = {}
        BY <1>2 DEF Scan
    <2>2. \A o, p \in {Row(j) : j \in scanned} : o.job = p.job => o = p
        BY DEF Row
    <2> QED BY <2>1, <2>2 DEF OneReport, TypeOK
<1>3. ASSUME NEW r \in Recoverers, RecoverOne(r) PROVE OneReport'
    <2>1. PICK o \in orphans[r] :
            /\ orphans' = [orphans EXCEPT ![r] = @ \ {o}]
            /\ \/ recovered' = recovered
               \/ \E next \in {"pending", "dead_letter"} :
                    recovered' = [recovered EXCEPT ![r] =
                                    @ \cup {[job |-> o.job, state |-> next]}]
        BY <1>3 DEF RecoverOne
    <2>2. CASE recovered' = recovered
        BY <2>1, <2>2 DEF OneReport, TypeOK
    <2>3. ASSUME NEW next \in {"pending", "dead_letter"},
                 recovered' = [recovered EXCEPT ![r] = @ \cup {[job |-> o.job, state |-> next]}]
          PROVE  OneReport'
        <3>1. /\ \A q \in Recoverers : q # r =>
                    orphans'[q] = orphans[q] /\ recovered'[q] = recovered[q]
              /\ orphans'[r] = orphans[r] \ {o}
              /\ recovered'[r] = recovered[r] \cup {[job |-> o.job, state |-> next]}
            BY <2>1, <2>3 DEF TypeOK
        <3>2. /\ \A d, e \in recovered'[r] : d.job = e.job => d = e
              /\ \A p \in orphans'[r], e \in recovered'[r] : p.job # e.job
            BY <3>1 DEF OneReport
        <3> QED BY <3>1, <3>2 DEF OneReport
    <2> QED BY <2>1, <2>2, <2>3
<1>4. ASSUME NEW r \in Recoverers, LogRecovered(r) PROVE OneReport'
    BY <1>4 DEF LogRecovered, OneReport, TypeOK
<1>5. ASSUME NEW r \in Recoverers, RecovererStops(r) PROVE OneReport'
    BY <1>5 DEF RecovererStops, OneReport, TypeOK
<1>6. ASSUME Tick \/ Prune \/ UNCHANGED vars PROVE UNCHANGED recVars
    BY <1>6 DEF Tick, Prune, vars, recVars
<1>7. ASSUME NEW c \in Clients,
             Enqueue(c) \/ Requeue(c) \/ RequeueJob(c) \/ LogClient(c) \/ ClientDies(c)
      PROVE  UNCHANGED recVars
    BY <1>7 DEF Enqueue, Requeue, RequeueJob, LogClient, ClientDies, recVars
<1>8. ASSUME NEW w \in Workers, SlotNext(w) PROVE UNCHANGED recVars
    BY <1>8 DEF SlotNext, LeaseJob, StartHandler, HandlerReturns, Renew, LogRenewed,
                RenewErrs, StopRenewal, Joined, Acknowledge, FailRead, FailJob, LogOutcome,
                SlotDies, recVars
<1> QED BY <1>1, <1>2, <1>3, <1>4, <1>5, <1>6, <1>7, <1>8 DEF Next

-----------------------------------------------------------------------------
(* The balance of a log *)

(* A deleted row stays deleted, and no row is taken back to before it was. *)
LEMMA DeletedStays ==
    ASSUME TypeOK, [Next]_vars, NEW j \in Jobs
    PROVE  /\ state[j] = "deleted" => state'[j] = "deleted"
           /\ state'[j] = "unborn" => state[j] = "unborn"
<1> USE DEF jobVars, TypeOK
<1> DEFINE Stays == /\ state[j] = "deleted" => state'[j] = "deleted"
                    /\ state'[j] = "unborn" => state[j] = "unborn"
<1>1. ASSUME Tick \/ Prune PROVE Stays
    BY <1>1 DEF Tick, Prune
<1>2. ASSUME NEW c \in Clients,
             Enqueue(c) \/ Requeue(c) \/ RequeueJob(c) \/ LogClient(c) \/ ClientDies(c)
      PROVE  Stays
    BY <1>2 DEF Enqueue, Requeue, RequeueJob, CanRequeue, LogClient, ClientDies
<1>3. ASSUME NEW w \in Workers, LeaseJob(w) PROVE Stays
    BY <1>3 DEF LeaseJob, Ready
<1>4. ASSUME NEW w \in Workers, Acknowledge(w) \/ FailJob(w) PROVE Stays
    BY <1>4 DEF Acknowledge, FailJob, Fence, EndLease
<1>5. ASSUME NEW w \in Workers, SlotNext(w), ~LeaseJob(w), ~Acknowledge(w), ~FailJob(w)
      PROVE  UNCHANGED state
    BY <1>5 DEF SlotNext, StartHandler, HandlerReturns, Renew, LogRenewed, RenewErrs,
                StopRenewal, Joined, FailRead, LogOutcome, SlotDies
<1>6. ASSUME NEW r \in Recoverers, RecoverOne(r) PROVE Stays
    BY <1>6 DEF RecoverOne, CanRecover, EndLease
<1>7. ASSUME NEW r \in Recoverers, Scan(r) \/ LogRecovered(r) \/ RecovererStops(r)
      PROVE  Stays
    BY <1>7 DEF Scan, LogRecovered, RecovererStops
<1>8. ASSUME UNCHANGED vars PROVE Stays
    BY <1>8 DEF vars
<1> QED BY <1>1, <1>2, <1>3, <1>4, <1>5, <1>6, <1>7, <1>8 DEF Next

(* A caller that owes an event of job j keeps owing it, or appends it, or  *)
(* the job misses an event from then on.                                   *)
LEMMA NotDropped ==
    ASSUME Records, NEW j \in Jobs, j \notin lost', events'[j] = events[j],
           NEW d \in Debtors(j)
    PROVE  d \in Debtors(j)'
BY DEF Records, Drops

(* The ledger of job j. *)
Owing(j) == Ledger(wpc, wjob, recovered, cpc, cjob, j)
OwingNext(j) == Ledger(wpc', wjob', recovered', cpc', cjob', j)

(* The step of a slot keeps the books if what it changes is balanced. *)
LEMMA SlotBalanced ==
    ASSUME NEW j \in Jobs, NEW w \in Workers, NEW t,
           \A v \in Workers : v # w => wpc'[v] = wpc[v] /\ wjob'[v] = wjob[v],
           UNCHANGED <<recovered, cpc, cjob>>,
           Has({"leased"}, t) + Has(OwingNext(j).leased, w) + Has(Owing(j).ended, w)
                + Has({"leased"}, state[j])
             = Has(EndTypes, t) + Has(Owing(j).leased, w) + Has(OwingNext(j).ended, w)
                + Has({"leased"}, state'[j]),
           Has({"dead_lettered"}, t) + Has(OwingNext(j).buried, w) + Has({"dead_letter"}, state[j])
             = Has({"requeued"}, t) + Has(Owing(j).buried, w) + Has({"dead_letter"}, state'[j])
    PROVE  Balanced(Owing(j), OwingNext(j), w, t, state[j], state'[j])
<1> DEFINE g == Owing(j)
           h == OwingNext(j)
<1>1. /\ Moves(g.leased, h.leased, w) /\ Moves(g.ended, h.ended, w)
      /\ Moves(g.buried, h.buried, w)
    <2>1. ASSUME NEW S
          PROVE  Moves(SlotsAt(wpc, wjob, j, S), SlotsAt(wpc', wjob', j, S), w)
        <3>1. SlotsAt(wpc, wjob, j, S) \ {w} = SlotsAt(wpc', wjob', j, S) \ {w}
            BY DEF SlotsAt
        <3> QED BY <3>1, FinitelyMany DEF Moves
    <2> QED BY <2>1 DEF Owing, OwingNext, Ledger
<1>2. /\ Moves(g.taken, h.taken, w) /\ Moves(g.killed, h.killed, w)
      /\ Moves(g.requeued, h.requeued, w)
    BY FinitelyMany DEF Moves, Owing, OwingNext, Ledger
<1>3. /\ Has(g.taken, w) = 0 /\ Has(h.taken, w) = 0
      /\ Has(g.killed, w) = 0 /\ Has(h.killed, w) = 0
      /\ Has(g.requeued, w) = 0 /\ Has(h.requeued, w) = 0
    BY EventAssumption DEF Has, ReportsOf, RequeuersOf, Owing, OwingNext, Ledger
<1>4. \A S, x : Has(S, x) \in Int
    BY DEF Has
<1> HIDE DEF g, h
<1>5. Has({"leased"}, t) + Has(h.leased, w) + Has(g.ended, w) + Has(g.taken, w)
           + Has({"leased"}, state[j])
        = Has(EndTypes, t) + Has(g.leased, w) + Has(h.ended, w) + Has(h.taken, w)
           + Has({"leased"}, state'[j])
    BY <1>3, <1>4 DEF g, h
<1>6. Has({"dead_lettered"}, t) + Has(h.buried, w) + Has(h.killed, w) + Has(g.requeued, w)
           + Has({"dead_letter"}, state[j])
        = Has({"requeued"}, t) + Has(g.buried, w) + Has(g.killed, w) + Has(h.requeued, w)
           + Has({"dead_letter"}, state'[j])
    BY <1>3, <1>4 DEF g, h
<1>7. Balanced(g, h, w, t, state[j], state'[j])
    BY <1>1, <1>2, <1>5, <1>6 DEF Balanced
<1> QED BY <1>7 DEF g, h

(* What the steps of a slot do to the books of job j. *)
LEMMA SlotBooks ==
    ASSUME LeaseInv, NEW j \in Jobs, events \in [Jobs -> Seq(EventTypes)],
           Records, j \notin lost', Books(events[j], state[j], Owing(j)),
           NEW w \in Workers,
           \/ /\ \/ LeaseJob(w) \/ HandlerReturns(w) \/ StopRenewal(w) \/ Joined(w)
                 \/ Acknowledge(w) \/ FailRead(w) \/ FailJob(w) \/ Renew(w)
                 \/ RenewErrs(w) \/ SlotDies(w)
              /\ events' = events
           \/ StartHandler(w) /\ Log(wjob[w], "leased")
           \/ LogRenewed(w) /\ Log(wjob[w], "lease_renewed")
           \/ LogOutcome(w) /\ Log(wjob[w], OutcomeEvent[wpc[w]])
    PROVE  Books(events'[j], state'[j], OwingNext(j))
<1> DEFINE Others == /\ \A v \in Workers : v # w => wpc'[v] = wpc[v] /\ wjob'[v] = wjob[v]
                     /\ UNCHANGED <<recovered, cpc, cjob>>
           Debt == {"logLeased", "logAcked", "logRetried", "logBuried"}
           Goal == Books(events'[j], state'[j], OwingNext(j))
<1>t. /\ state \in [Jobs -> RowStates] /\ wpc \in [Workers -> SlotSteps]
      /\ wjob \in [Workers -> Jobs \cup {NoJob}] /\ NoJob \notin Jobs
    BY LeaseAssumption DEF LeaseInv, TypeOK
<1>j. wpc[w] # "idle" => wjob[w] \in Jobs
    BY DEF LeaseInv, SlotTokens
<1>b. ASSUME NEW t, Gains(events[j], events'[j], t), Others,
             Has({"leased"}, t) + Has(OwingNext(j).leased, w) + Has(Owing(j).ended, w)
                + Has({"leased"}, state[j])
              = Has(EndTypes, t) + Has(Owing(j).leased, w) + Has(OwingNext(j).ended, w)
                + Has({"leased"}, state'[j]),
             Has({"dead_lettered"}, t) + Has(OwingNext(j).buried, w)
                + Has({"dead_letter"}, state[j])
              = Has({"requeued"}, t) + Has(Owing(j).buried, w) + Has({"dead_letter"}, state'[j])
      PROVE  Goal
    BY <1>b, SlotBalanced, BooksKept
<1>q. ASSUME events'[j] = events[j], state'[j] = state[j], Others,
             wjob[w] = j => wpc[w] \notin Debt, wjob'[w] = j => wpc'[w] \notin Debt
      PROVE  Goal
    <2>1. Gains(events[j], events'[j], "none")
        BY <1>q DEF Gains
    <2>2. /\ Has({"leased"}, "none") = 0 /\ Has(EndTypes, "none") = 0
          /\ Has({"dead_lettered"}, "none") = 0 /\ Has({"requeued"}, "none") = 0
          /\ Has(Owing(j).leased, w) = 0 /\ Has(OwingNext(j).leased, w) = 0
          /\ Has(Owing(j).ended, w) = 0 /\ Has(OwingNext(j).ended, w) = 0
          /\ Has(Owing(j).buried, w) = 0 /\ Has(OwingNext(j).buried, w) = 0
        BY <1>q DEF Has, Owing, OwingNext, Ledger, SlotsAt, EndSteps, EndTypes
    <2>3. Has({"leased"}, state[j]) \in Int /\ Has({"dead_letter"}, state[j]) \in Int
        BY DEF Has
    <2> QED BY <1>b, <1>q, <2>1, <2>2, <2>3
<1>1. ASSUME LeaseJob(w), events' = events PROVE Goal
    <2>1. PICK i \in Jobs : Ready(i) /\ state' = [state EXCEPT ![i] = "leased"]
                              /\ wjob' = [wjob EXCEPT ![w] = i]
        BY <1>1 DEF LeaseJob
    <2>2. /\ Others /\ wpc[w] = "idle" /\ wpc'[w] = "logLeased" /\ wjob'[w] = i
          /\ state[i] = "pending" /\ state'[i] = "leased"
        BY <1>t, <1>1, <2>1 DEF LeaseJob, recVars, clientVars, Ready
    <2>3. CASE i # j
        BY <1>1, <1>q, <1>t, <2>1, <2>2, <2>3
    <2>4. CASE i = j
        <3>1. Gains(events[j], events'[j], "none")
            BY <1>1 DEF Gains
        <3>2. /\ Has({"leased"}, "none") = 0 /\ Has(EndTypes, "none") = 0
              /\ Has({"dead_lettered"}, "none") = 0 /\ Has({"requeued"}, "none") = 0
              /\ Has(Owing(j).leased, w) = 0 /\ Has(OwingNext(j).leased, w) = 1
              /\ Has(Owing(j).ended, w) = 0 /\ Has(OwingNext(j).ended, w) = 0
              /\ Has(Owing(j).buried, w) = 0 /\ Has(OwingNext(j).buried, w) = 0
              /\ Has({"leased"}, state[j]) = 0 /\ Has({"leased"}, state'[j]) = 1
              /\ Has({"dead_letter"}, state[j]) = 0 /\ Has({"dead_letter"}, state'[j]) = 0
            BY <2>2, <2>4 DEF Has, Owing, OwingNext, Ledger, SlotsAt, EndSteps, EndTypes
        <3> QED BY <1>b, <2>2, <3>1, <3>2
    <2> QED BY <2>3, <2>4
<1>g. ASSUME NEW type \in EventTypes, Log(wjob[w], type), wjob[w] \in Jobs
      PROVE  /\ wjob[w] = j => Gains(events[j], events'[j], type)
             /\ wjob[w] # j => events'[j] = events[j]
    BY <1>g DEF Log, Gains
<1>2. ASSUME StartHandler(w), Log(wjob[w], "leased") PROVE Goal
    <2>1. /\ Others /\ wpc[w] = "logLeased" /\ wpc'[w] = "running" /\ wjob' = wjob
          /\ state' = state /\ wjob[w] \in Jobs
        BY <1>t, <1>j, <1>2 DEF StartHandler, recVars, clientVars, jobVars
    <2>2. /\ wjob[w] = j => Gains(events[j], events'[j], "leased")
          /\ wjob[w] # j => events'[j] = events[j]
        BY <1>2, <1>g, <2>1 DEF EventTypes
    <2>3. CASE wjob[w] # j
        BY <1>q, <2>1, <2>2, <2>3
    <2>4. CASE wjob[w] = j
        <3>1. /\ Has({"leased"}, "leased") = 1 /\ Has(EndTypes, "leased") = 0
              /\ Has({"dead_lettered"}, "leased") = 0 /\ Has({"requeued"}, "leased") = 0
              /\ Has(Owing(j).leased, w) = 1 /\ Has(OwingNext(j).leased, w) = 0
              /\ Has(Owing(j).ended, w) = 0 /\ Has(OwingNext(j).ended, w) = 0
              /\ Has(Owing(j).buried, w) = 0 /\ Has(OwingNext(j).buried, w) = 0
            BY <2>1, <2>4 DEF Has, Owing, OwingNext, Ledger, SlotsAt, EndSteps, EndTypes
        <3>2. /\ Has({"leased"}, state[j]) \in Int /\ Has({"dead_letter"}, state[j]) \in Int
              /\ state'[j] = state[j]
            BY <2>1 DEF Has
        <3> QED BY <1>b, <2>1, <2>2, <2>4, <3>1, <3>2
    <2> QED BY <2>3, <2>4
<1>3. ASSUME LogRenewed(w), Log(wjob[w], "lease_renewed") PROVE Goal
    <2>1. Others /\ wpc' = wpc /\ wjob' = wjob /\ state' = state
        BY <1>3 DEF LogRenewed, recVars, clientVars, jobVars
    <2>2. events'[j] = events[j] \/ Gains(events[j], events'[j], "lease_renewed")
        BY <1>3 DEF Log, Gains, EventTypes
    <2>3. \E t \in {"none", "lease_renewed"} : Gains(events[j], events'[j], t)
        BY <2>2 DEF Gains
    <2>4. ASSUME NEW t \in {"none", "lease_renewed"}, Gains(events[j], events'[j], t)
          PROVE  Goal
        <3>1. /\ Has({"leased"}, t) = 0 /\ Has(EndTypes, t) = 0
              /\ Has({"dead_lettered"}, t) = 0 /\ Has({"requeued"}, t) = 0
            BY DEF Has, EndTypes
        <3>2. OwingNext(j) = Owing(j) /\ state'[j] = state[j]
            BY <2>1 DEF Owing, OwingNext
        <3>3. \A S, x : Has(S, x) \in Int
            BY DEF Has
        <3>4. /\ Has(Owing(j).leased, w) \in Int /\ Has(Owing(j).ended, w) \in Int
              /\ Has(Owing(j).buried, w) \in Int
              /\ Has({"leased"}, state[j]) \in Int /\ Has({"dead_letter"}, state[j]) \in Int
            BY <3>3
        <3>5. /\ 0 + Has(Owing(j).leased, w) + Has(Owing(j).ended, w) + Has({"leased"}, state[j])
                   = 0 + Has(Owing(j).leased, w) + Has(Owing(j).ended, w) + Has({"leased"}, state[j])
              /\ 0 + Has(Owing(j).buried, w) + Has({"dead_letter"}, state[j])
                   = 0 + Has(Owing(j).buried, w) + Has({"dead_letter"}, state[j])
            OBVIOUS
        <3> QED BY <1>b, <2>1, <2>4, <3>1, <3>2, <3>5
    <2> QED BY <2>3, <2>4
<1>4. ASSUME LogOutcome(w), Log(wjob[w], OutcomeEvent[wpc[w]]) PROVE Goal
    <2> DEFINE t == OutcomeEvent[wpc[w]]
    <2>1. /\ Others /\ wpc[w] \in EndSteps /\ wpc'[w] = "idle" /\ wjob'[w] = NoJob
          /\ state' = state /\ wjob[w] \in Jobs
        BY <1>t, <1>j, <1>4 DEF LogOutcome, ResetSlot, EndSteps, recVars, clientVars, jobVars
    <2>2. /\ t \in EventTypes
          /\ Has({"leased"}, t) = 0 /\ Has(EndTypes, t) = 1 /\ Has({"requeued"}, t) = 0
          /\ Has({"dead_lettered"}, t) = IF wpc[w] = "logBuried" THEN 1 ELSE 0
        BY <2>1 DEF OutcomeEvent, EndSteps, EventTypes, Has, EndTypes
    <2>3. /\ wjob[w] = j => Gains(events[j], events'[j], t)
          /\ wjob[w] # j => events'[j] = events[j]
        BY <1>4, <1>g, <2>1, <2>2
    <2>4. CASE wjob[w] # j
        BY <1>q, <1>t, <2>1, <2>3, <2>4
    <2>5. CASE wjob[w] = j
        <3>1. /\ Has(Owing(j).leased, w) = 0 /\ Has(OwingNext(j).leased, w) = 0
              /\ Has(Owing(j).ended, w) = 1 /\ Has(OwingNext(j).ended, w) = 0
              /\ Has(Owing(j).buried, w) = (IF wpc[w] = "logBuried" THEN 1 ELSE 0)
              /\ Has(OwingNext(j).buried, w) = 0
            BY <2>1, <2>5 DEF Has, Owing, OwingNext, Ledger, SlotsAt, EndSteps
        <3>2. /\ Has({"leased"}, state[j]) \in Int /\ Has({"dead_letter"}, state[j]) \in Int
              /\ state'[j] = state[j]
            BY <2>1 DEF Has
        <3> HIDE DEF t
        <3> QED BY <1>b, <2>1, <2>2, <2>3, <2>5, <3>1, <3>2
    <2> QED BY <2>4, <2>5
<1>5. ASSUME Acknowledge(w) \/ FailJob(w), events' = events PROVE Goal
    <2>1. CASE ~Fence(wjob[w], wtok[w])
        BY <1>5, <1>q, <1>t, <2>1 DEF Acknowledge, FailJob, ResetSlot, jobVars, recVars, clientVars
    <2>2. CASE Fence(wjob[w], wtok[w])
        <3>1. PICK next \in {"completed", "pending", "dead_letter"} :
                /\ state' = [state EXCEPT ![wjob[w]] = next]
                /\ wpc' = [wpc EXCEPT ![w] = CASE next = "completed" -> "logAcked"
                                               [] next = "pending"   -> "logRetried"
                                               [] OTHER              -> "logBuried"]
            BY <1>5, <2>2 DEF Acknowledge, FailJob, EndLease
        <3>2. /\ Others /\ wjob' = wjob /\ wpc[w] \in {"ack", "retry", "bury"}
              /\ wjob[w] \in Jobs /\ state[wjob[w]] = "leased"
            BY <1>5, <1>t, <1>j, <2>2, <3>1
            DEF Acknowledge, FailJob, Fence, jobVars, recVars, clientVars
        <3>3. /\ wpc'[w] \in EndSteps
              /\ wpc'[w] = "logBuried" <=> next = "dead_letter"
              /\ state'[wjob[w]] = next
            BY <1>t, <3>1, <3>2 DEF EndSteps
        <3>4. CASE wjob[w] # j
            BY <1>5, <1>q, <1>t, <3>1, <3>2, <3>4
        <3>5. CASE wjob[w] = j
            <4>1. Gains(events[j], events'[j], "none")
                BY <1>5 DEF Gains
            <4>2. /\ Has({"leased"}, "none") = 0 /\ Has(EndTypes, "none") = 0
                  /\ Has({"dead_lettered"}, "none") = 0 /\ Has({"requeued"}, "none") = 0
                BY DEF Has, EndTypes
            <4>3. /\ Has(Owing(j).leased, w) = 0 /\ Has(OwingNext(j).leased, w) = 0
                  /\ Has(Owing(j).ended, w) = 0 /\ Has(OwingNext(j).ended, w) = 1
                  /\ Has(Owing(j).buried, w) = 0
                  /\ Has(OwingNext(j).buried, w) = (IF next = "dead_letter" THEN 1 ELSE 0)
                BY <3>2, <3>3, <3>5 DEF Has, Owing, OwingNext, Ledger, SlotsAt, EndSteps
            <4>4. /\ Has({"leased"}, state[j]) = 1 /\ Has({"leased"}, state'[j]) = 0
                  /\ Has({"dead_letter"}, state[j]) = 0
                  /\ Has({"dead_letter"}, state'[j]) = (IF next = "dead_letter" THEN 1 ELSE 0)
                BY <3>2, <3>3, <3>5 DEF Has
            <4> QED BY <1>b, <3>2, <4>1, <4>2, <4>3, <4>4
        <3> QED BY <3>4, <3>5
    <2> QED BY <2>1, <2>2
<1>6. ASSUME \/ HandlerReturns(w) \/ Renew(w) \/ RenewErrs(w) \/ StopRenewal(w)
             \/ Joined(w) \/ FailRead(w),
             events' = events
      PROVE  Goal
    <2>1. /\ Others /\ state' = state
          /\ wjob' = wjob \/ wjob'[w] = NoJob
          /\ (wpc' = wpc /\ wjob' = wjob) \/ (wpc[w] \notin Debt /\ wpc'[w] \notin Debt)
        BY <1>6, <1>t DEF HandlerReturns, Renew, RenewErrs, StopRenewal, Joined, FailRead,
                          ResetSlot, jobVars, recVars, clientVars
    <2>2. CASE wpc' = wpc /\ wjob' = wjob
        BY <1>6, <2>1, <2>2 DEF Owing, OwingNext
    <2> QED BY <1>6, <1>q, <2>1, <2>2
<1>7. ASSUME SlotDies(w), events' = events PROVE Goal
    <2>1. /\ Others /\ state' = state /\ wjob'[w] = NoJob /\ wpc'[w] = "idle"
        BY <1>7, <1>t DEF SlotDies, ResetSlot, jobVars, recVars, clientVars
    <2>2. ~(wjob[w] = j /\ wpc[w] \in Debt)
        <3> SUFFICES ASSUME wjob[w] = j, wpc[w] \in Debt PROVE FALSE
            OBVIOUS
        <3>1. w \in Debtors(j)
            BY DEF Debtors
        <3>2. w \in Debtors(j)'
            BY <1>7, <3>1, NotDropped
        <3> QED BY <1>t, <2>1, <3>2, EventAssumption DEF Debtors
    <2> QED BY <1>7, <1>q, <1>t, <2>1, <2>2
<1> QED BY <1>1, <1>2, <1>3, <1>4, <1>5, <1>6, <1>7

(* The same for the step of a client. *)
LEMMA ClientBalanced ==
    ASSUME NEW j \in Jobs, NEW c \in Clients, NEW t,
           \A d \in Clients : d # c => cpc'[d] = cpc[d] /\ cjob'[d] = cjob[d],
           UNCHANGED <<recovered, wpc, wjob>>,
           Has({"leased"}, t) + Has({"leased"}, state[j])
             = Has(EndTypes, t) + Has({"leased"}, state'[j]),
           Has({"dead_lettered"}, t) + Has(Owing(j).requeued, c) + Has({"dead_letter"}, state[j])
             = Has({"requeued"}, t) + Has(OwingNext(j).requeued, c)
                + Has({"dead_letter"}, state'[j])
    PROVE  Balanced(Owing(j), OwingNext(j), c, t, state[j], state'[j])
<1> DEFINE g == Owing(j)
           h == OwingNext(j)
<1>1. Moves(g.requeued, h.requeued, c)
    <2>1. RequeuersOf(cpc, cjob, j) \ {c} = RequeuersOf(cpc', cjob', j) \ {c}
        BY DEF RequeuersOf
    <2> QED BY <2>1, FinitelyMany DEF Moves, Owing, OwingNext, Ledger
<1>2. /\ Moves(g.taken, h.taken, c) /\ Moves(g.killed, h.killed, c)
      /\ Moves(g.leased, h.leased, c) /\ Moves(g.ended, h.ended, c)
      /\ Moves(g.buried, h.buried, c)
    BY FinitelyMany DEF Moves, Owing, OwingNext, Ledger
<1>3. /\ Has(g.taken, c) = 0 /\ Has(h.taken, c) = 0
      /\ Has(g.killed, c) = 0 /\ Has(h.killed, c) = 0
      /\ Has(g.leased, c) = 0 /\ Has(h.leased, c) = 0
      /\ Has(g.ended, c) = 0 /\ Has(h.ended, c) = 0
      /\ Has(g.buried, c) = 0 /\ Has(h.buried, c) = 0
    BY EventAssumption DEF Has, ReportsOf, SlotsAt, Owing, OwingNext, Ledger
<1>4. \A S, x : Has(S, x) \in Int
    BY DEF Has
<1> HIDE DEF g, h
<1>5. Has({"leased"}, t) + Has(h.leased, c) + Has(g.ended, c) + Has(g.taken, c)
           + Has({"leased"}, state[j])
        = Has(EndTypes, t) + Has(g.leased, c) + Has(h.ended, c) + Has(h.taken, c)
           + Has({"leased"}, state'[j])
    BY <1>3, <1>4 DEF g, h
<1>6. Has({"dead_lettered"}, t) + Has(h.buried, c) + Has(h.killed, c) + Has(g.requeued, c)
           + Has({"dead_letter"}, state[j])
        = Has({"requeued"}, t) + Has(g.buried, c) + Has(g.killed, c) + Has(h.requeued, c)
           + Has({"dead_letter"}, state'[j])
    BY <1>3, <1>4 DEF g, h
<1>7. Balanced(g, h, c, t, state[j], state'[j])
    BY <1>1, <1>2, <1>5, <1>6 DEF Balanced
<1> QED BY <1>7 DEF g, h

(* What the steps of a client do to the books of job j. *)
LEMMA ClientBooks ==
    ASSUME LeaseInv, NEW j \in Jobs, events \in [Jobs -> Seq(EventTypes)],
           Records, j \notin lost', Books(events[j], state[j], Owing(j)),
           NEW c \in Clients,
           \/ (Enqueue(c) \/ Requeue(c) \/ RequeueJob(c) \/ ClientDies(c)) /\ events' = events
           \/ LogClient(c) /\ Log(cjob[c], ClientEvent(c))
    PROVE  Books(events'[j], state'[j], OwingNext(j))
<1> DEFINE Others == /\ \A d \in Clients : d # c => cpc'[d] = cpc[d] /\ cjob'[d] = cjob[d]
                     /\ UNCHANGED <<recovered, wpc, wjob>>
           Goal == Books(events'[j], state'[j], OwingNext(j))
<1>t. /\ state \in [Jobs -> RowStates] /\ cpc \in [Clients -> ClientSteps]
      /\ cjob \in [Clients -> Jobs \cup {NoJob}] /\ NoJob \notin Jobs
    BY LeaseAssumption DEF LeaseInv, TypeOK
<1>b. ASSUME NEW t, Gains(events[j], events'[j], t), Others,
             Has({"leased"}, t) + Has({"leased"}, state[j])
               = Has(EndTypes, t) + Has({"leased"}, state'[j]),
             Has({"dead_lettered"}, t) + Has(Owing(j).requeued, c)
                + Has({"dead_letter"}, state[j])
               = Has({"requeued"}, t) + Has(OwingNext(j).requeued, c)
                + Has({"dead_letter"}, state'[j])
      PROVE  Goal
    BY <1>b, ClientBalanced, BooksKept
<1>n. /\ Has({"leased"}, "none") = 0 /\ Has(EndTypes, "none") = 0
      /\ Has({"dead_lettered"}, "none") = 0 /\ Has({"requeued"}, "none") = 0
    BY DEF Has, EndTypes
<1>s. ASSUME NEW st PROVE Has({"leased"}, st) \in Int /\ Has({"dead_letter"}, st) \in Int
    BY DEF Has
<1>q. ASSUME events'[j] = events[j], state'[j] = state[j], Others,
             cjob[c] = j => cpc[c] # "logRequeued", cjob'[c] = j => cpc'[c] # "logRequeued"
      PROVE  Goal
    <2>1. Gains(events[j], events'[j], "none")
        BY <1>q DEF Gains
    <2>2. Has(Owing(j).requeued, c) = 0 /\ Has(OwingNext(j).requeued, c) = 0
        BY <1>q DEF Has, Owing, OwingNext, Ledger, RequeuersOf
    <2> QED BY <1>b, <1>n, <1>s, <1>q, <2>1, <2>2
<1>1. ASSUME Enqueue(c), events' = events PROVE Goal
    <2>1. PICK i \in Jobs : /\ state[i] = "unborn"
                            /\ state' = [state EXCEPT ![i] = "pending"]
        BY <1>1 DEF Enqueue
    <2>2. /\ Others /\ cpc[c] = "idle" /\ cpc'[c] = "logEnqueued" /\ state'[i] = "pending"
        BY <1>t, <1>1, <2>1 DEF Enqueue, recVars, slotVars
    <2>3. /\ Has({"leased"}, state[j]) = Has({"leased"}, state'[j])
          /\ Has({"dead_letter"}, state[j]) = Has({"dead_letter"}, state'[j])
        BY <1>t, <2>1, <2>2 DEF Has
    <2>4. Has(Owing(j).requeued, c) = 0 /\ Has(OwingNext(j).requeued, c) = 0
        BY <2>2 DEF Has, Owing, OwingNext, Ledger, RequeuersOf
    <2>5. Gains(events[j], events'[j], "none")
        BY <1>1 DEF Gains
    <2> QED BY <1>b, <1>n, <1>s, <2>2, <2>3, <2>4, <2>5
<1>2. ASSUME Requeue(c), events' = events PROVE Goal
    <2>1. Others /\ state' = state /\ cpc[c] = "idle" /\ cpc'[c] = "requeue"
        BY <1>t, <1>2 DEF Requeue, recVars, slotVars, jobVars
    <2> QED BY <1>2, <1>q, <2>1
<1>3. ASSUME RequeueJob(c), events' = events PROVE Goal
    <2>1. Others /\ cpc[c] = "requeue" /\ cjob[c] \in Jobs
        BY <1>t, <1>3 DEF RequeueJob, ResetClient, recVars, slotVars, LeaseInv, BudgetPositive
    <2>2. CASE ~CanRequeue(cjob[c]) \/ cjob[c] # j
        <3>1. /\ state'[j] = state[j]
              /\ cjob'[c] = j => cpc'[c] # "logRequeued"
            BY <1>t, <1>3, <2>2 DEF RequeueJob, ResetClient, jobVars
        <3> QED BY <1>3, <1>q, <2>1, <3>1
    <2>3. CASE CanRequeue(cjob[c]) /\ cjob[c] = j
        <3>1. /\ state[j] = "dead_letter" /\ state'[j] = "pending"
              /\ cpc'[c] = "logRequeued" /\ cjob' = cjob
            BY <1>t, <1>3, <2>3 DEF RequeueJob, CanRequeue
        <3>2. /\ Has({"leased"}, state[j]) = 0 /\ Has({"leased"}, state'[j]) = 0
              /\ Has({"dead_letter"}, state[j]) = 1 /\ Has({"dead_letter"}, state'[j]) = 0
            BY <3>1 DEF Has
        <3>3. Has(Owing(j).requeued, c) = 0 /\ Has(OwingNext(j).requeued, c) = 1
            BY <2>1, <2>3, <3>1 DEF Has, Owing, OwingNext, Ledger, RequeuersOf
        <3>4. Gains(events[j], events'[j], "none")
            BY <1>3 DEF Gains
        <3> QED BY <1>b, <1>n, <2>1, <3>2, <3>3, <3>4
    <2> QED BY <2>2, <2>3
<1>4. ASSUME LogClient(c), Log(cjob[c], ClientEvent(c)) PROVE Goal
    <2> DEFINE t == ClientEvent(c)
    <2>1. /\ Others /\ cpc[c] \in {"logEnqueued", "logRequeued"} /\ cpc'[c] = "idle"
          /\ cjob'[c] = NoJob /\ state' = state
        BY <1>t, <1>4 DEF LogClient, ResetClient, recVars, slotVars, jobVars
    <2>2. /\ t \in EventTypes
          /\ t = "requeued" <=> cpc[c] = "logRequeued"
          /\ Has({"leased"}, t) = 0 /\ Has(EndTypes, t) = 0 /\ Has({"dead_lettered"}, t) = 0
        BY <2>1 DEF ClientEvent, EventTypes, EndTypes, Has
    <2> HIDE DEF t
    <2>3. CASE cjob[c] # j
        <3>1. events'[j] = events[j]
            BY <1>4, <2>3 DEF Log
        <3> QED BY <1>q, <2>1, <2>3, <3>1
    <2>4. CASE cjob[c] = j
        <3>1. Gains(events[j], events'[j], t)
            BY <1>4, <2>2, <2>4 DEF Log, Gains, t
        <3>2. /\ Has({"requeued"}, t) = Has(Owing(j).requeued, c)
              /\ Has(OwingNext(j).requeued, c) = 0 /\ Has({"requeued"}, t) \in Int
            BY <2>1, <2>2, <2>4 DEF Has, Owing, OwingNext, Ledger, RequeuersOf
        <3> QED BY <1>b, <1>s, <2>1, <2>2, <3>1, <3>2
    <2> QED BY <2>3, <2>4
<1>5. ASSUME ClientDies(c), events' = events PROVE Goal
    <2>1. /\ Others /\ state' = state /\ cjob'[c] = NoJob /\ cpc'[c] = "idle"
        BY <1>5, <1>t DEF ClientDies, ResetClient, jobVars, recVars, slotVars
    <2>2. ~(cjob[c] = j /\ cpc[c] = "logRequeued")
        <3> SUFFICES ASSUME cjob[c] = j, cpc[c] = "logRequeued" PROVE FALSE
            OBVIOUS
        <3>1. c \in Debtors(j)
            BY DEF Debtors
        <3>2. c \in Debtors(j)'
            BY <1>5, <3>1, NotDropped
        <3> QED BY <1>t, <2>1, <3>2, EventAssumption DEF Debtors
    <2> QED BY <1>5, <1>q, <1>t, <2>1, <2>2
<1> QED BY <1>1, <1>2, <1>3, <1>4, <1>5

(* The same for the step of a recovery. *)
LEMMA ReportBalanced ==
    ASSUME NEW j \in Jobs, NEW r \in Recoverers, NEW t,
           \A q \in Recoverers : q # r => recovered'[q] = recovered[q],
           UNCHANGED <<wpc, wjob, cpc, cjob>>,
           Has({"leased"}, t) + Has(Owing(j).taken, r) + Has({"leased"}, state[j])
             = Has(EndTypes, t) + Has(OwingNext(j).taken, r) + Has({"leased"}, state'[j]),
           Has({"dead_lettered"}, t) + Has(OwingNext(j).killed, r)
                + Has({"dead_letter"}, state[j])
             = Has({"requeued"}, t) + Has(Owing(j).killed, r) + Has({"dead_letter"}, state'[j])
    PROVE  Balanced(Owing(j), OwingNext(j), r, t, state[j], state'[j])
<1> DEFINE g == Owing(j)
           h == OwingNext(j)
<1>1. Moves(g.taken, h.taken, r) /\ Moves(g.killed, h.killed, r)
    <2>1. ASSUME NEW S
          PROVE  Moves(ReportsOf(recovered, j, S), ReportsOf(recovered', j, S), r)
        <3>1. ReportsOf(recovered, j, S) \ {r} = ReportsOf(recovered', j, S) \ {r}
            BY DEF ReportsOf
        <3> QED BY <3>1, FinitelyMany DEF Moves
    <2> QED BY <2>1 DEF Owing, OwingNext, Ledger
<1>2. /\ Moves(g.leased, h.leased, r) /\ Moves(g.ended, h.ended, r)
      /\ Moves(g.buried, h.buried, r) /\ Moves(g.requeued, h.requeued, r)
    BY FinitelyMany DEF Moves, Owing, OwingNext, Ledger
<1>3. /\ Has(g.leased, r) = 0 /\ Has(h.leased, r) = 0
      /\ Has(g.ended, r) = 0 /\ Has(h.ended, r) = 0
      /\ Has(g.buried, r) = 0 /\ Has(h.buried, r) = 0
      /\ Has(g.requeued, r) = 0 /\ Has(h.requeued, r) = 0
    BY EventAssumption DEF Has, SlotsAt, RequeuersOf, Owing, OwingNext, Ledger
<1>4. \A S, x : Has(S, x) \in Int
    BY DEF Has
<1> HIDE DEF g, h
<1>5. Has({"leased"}, t) + Has(h.leased, r) + Has(g.ended, r) + Has(g.taken, r)
           + Has({"leased"}, state[j])
        = Has(EndTypes, t) + Has(g.leased, r) + Has(h.ended, r) + Has(h.taken, r)
           + Has({"leased"}, state'[j])
    BY <1>3, <1>4 DEF g, h
<1>6. Has({"dead_lettered"}, t) + Has(h.buried, r) + Has(h.killed, r) + Has(g.requeued, r)
           + Has({"dead_letter"}, state[j])
        = Has({"requeued"}, t) + Has(g.buried, r) + Has(g.killed, r) + Has(h.requeued, r)
           + Has({"dead_letter"}, state'[j])
    BY <1>3, <1>4 DEF g, h
<1>7. Balanced(g, h, r, t, state[j], state'[j])
    BY <1>1, <1>2, <1>5, <1>6 DEF Balanced
<1> QED BY <1>7 DEF g, h

(* What the steps of a recovery do to the books of job j. *)
LEMMA RecoveryBooks ==
    ASSUME LeaseInv, OneReport, NEW j \in Jobs, events \in [Jobs -> Seq(EventTypes)],
           Records, j \notin lost', Books(events[j], state[j], Owing(j)),
           NEW r \in Recoverers,
           \/ (Scan(r) \/ RecoverOne(r) \/ RecovererStops(r)) /\ events' = events
           \/ \E e \in recovered[r] :
                LogRecovered(r) /\ recovered'[r] = recovered[r] \ {e}
                    /\ Log(e.job, RecoveryEvent[e.state])
    PROVE  Books(events'[j], state'[j], OwingNext(j))
<1> DEFINE Others == /\ \A q \in Recoverers : q # r => recovered'[q] = recovered[q]
                     /\ UNCHANGED <<wpc, wjob, cpc, cjob>>
           Goal == Books(events'[j], state'[j], OwingNext(j))
           Reports(f) == {e \in f[r] : e.job = j}
<1>t. /\ state \in [Jobs -> RowStates] /\ recovered \in [Recoverers -> SUBSET Report]
      /\ orphans \in [Recoverers -> SUBSET Orphan]
    BY DEF LeaseInv, TypeOK
<1>b. ASSUME NEW t, Gains(events[j], events'[j], t), Others,
             Has({"leased"}, t) + Has(Owing(j).taken, r) + Has({"leased"}, state[j])
               = Has(EndTypes, t) + Has(OwingNext(j).taken, r) + Has({"leased"}, state'[j]),
             Has({"dead_lettered"}, t) + Has(OwingNext(j).killed, r)
                  + Has({"dead_letter"}, state[j])
               = Has({"requeued"}, t) + Has(Owing(j).killed, r)
                  + Has({"dead_letter"}, state'[j])
      PROVE  Goal
    BY <1>b, ReportBalanced, BooksKept
<1>n. /\ Has({"leased"}, "none") = 0 /\ Has(EndTypes, "none") = 0
      /\ Has({"dead_lettered"}, "none") = 0 /\ Has({"requeued"}, "none") = 0
    BY DEF Has, EndTypes
<1>s. ASSUME NEW S, NEW x PROVE Has(S, x) \in Int
    BY DEF Has
<1>q. ASSUME events'[j] = events[j], state'[j] = state[j], Others,
             \A e : e.job = j => (e \in recovered[r] <=> e \in recovered'[r])
      PROVE  Goal
    <2>1. Gains(events[j], events'[j], "none")
        BY <1>q DEF Gains
    <2>2. /\ Has(Owing(j).taken, r) = Has(OwingNext(j).taken, r)
          /\ Has(Owing(j).killed, r) = Has(OwingNext(j).killed, r)
        BY <1>q DEF Has, Owing, OwingNext, Ledger, ReportsOf
    <2>3. /\ Has(OwingNext(j).taken, r) \in Int /\ Has(OwingNext(j).killed, r) \in Int
          /\ Has({"leased"}, state[j]) \in Int /\ Has({"dead_letter"}, state[j]) \in Int
        BY <1>s
    <2> QED BY <1>b, <1>n, <1>q, <2>1, <2>2, <2>3
<1>1. ASSUME Scan(r), events' = events PROVE Goal
    BY <1>1, <1>q DEF Scan, jobVars, slotVars, clientVars
<1>2. ASSUME RecoverOne(r), events' = events PROVE Goal
    <2>1. PICK o \in orphans[r] :
            \/ /\ CanRecover(o)
               /\ LET next == IF Exhausted(o) THEN "dead_letter" ELSE "pending" IN
                    /\ EndLease(o.job, next, o.retry + 1)
                    /\ recovered' = [recovered EXCEPT ![r] =
                                        @ \cup {[job |-> o.job, state |-> next]}]
            \/ UNCHANGED <<jobVars, recovered>>
        BY <1>2 DEF RecoverOne
    <2>2. Others /\ o.job \in Jobs
        BY <1>2, <1>t, <2>1 DEF RecoverOne, slotVars, clientVars, Orphan
    <2>3. CASE UNCHANGED <<jobVars, recovered>>
        BY <1>2, <1>q, <2>2, <2>3 DEF jobVars
    <2>4. ASSUME NEW next \in {"dead_letter", "pending"}, CanRecover(o),
                 EndLease(o.job, next, o.retry + 1),
                 recovered' = [recovered EXCEPT ![r] = @ \cup {[job |-> o.job, state |-> next]}]
          PROVE  Goal
        <3>1. /\ state[o.job] = "leased" /\ state' = [state EXCEPT ![o.job] = next]
              /\ recovered'[r] = recovered[r] \cup {[job |-> o.job, state |-> next]}
            BY <1>t, <2>4 DEF CanRecover, EndLease
        <3>2. CASE o.job # j
            BY <1>2, <1>q, <1>t, <2>2, <3>1, <3>2
        <3>3. CASE o.job = j
            <4>1. \A e \in recovered[r] : e.job # j
                BY <3>3 DEF OneReport
            <4>2. Gains(events[j], events'[j], "none")
                BY <1>2 DEF Gains
            <4>5. /\ \E e \in recovered'[r] : e.job = j /\ e.state \in {"pending", "dead_letter"}
                  /\ (\E e \in recovered'[r] : e.job = j /\ e.state \in {"dead_letter"})
                        <=> next = "dead_letter"
                <5>1. \E n : n \in recovered'[r] /\ n.job = j /\ n.state = next
                            /\ \A e \in recovered'[r] : e.job = j => e = n
                    <6> DEFINE n == [job |-> o.job, state |-> next]
                    <6>1. n.job = j /\ n.state = next
                        BY <3>3
                    <6>2. n \in recovered'[r] /\ \A e \in recovered'[r] : e.job = j => e = n
                        BY <3>1, <4>1
                    <6> HIDE DEF n
                    <6> QED BY <6>1, <6>2
                <5> QED BY <5>1
            <4>3. /\ Has(Owing(j).taken, r) = 0 /\ Has(OwingNext(j).taken, r) = 1
                  /\ Has(Owing(j).killed, r) = 0
                  /\ Has(OwingNext(j).killed, r) = (IF next = "dead_letter" THEN 1 ELSE 0)
                BY <4>1, <4>5 DEF Has, Owing, OwingNext, Ledger, ReportsOf
            <4>4. /\ Has({"leased"}, state[j]) = 1 /\ Has({"leased"}, state'[j]) = 0
                  /\ Has({"dead_letter"}, state[j]) = 0
                  /\ Has({"dead_letter"}, state'[j]) = (IF next = "dead_letter" THEN 1 ELSE 0)
                BY <1>t, <3>1, <3>3 DEF Has
            <4> QED BY <1>b, <1>n, <2>2, <4>2, <4>3, <4>4
        <3> QED BY <3>2, <3>3
    <2> QED BY <2>1, <2>3, <2>4
<1>3. ASSUME NEW e \in recovered[r], LogRecovered(r), recovered'[r] = recovered[r] \ {e},
             Log(e.job, RecoveryEvent[e.state])
      PROVE  Goal
    <2> DEFINE t == RecoveryEvent[e.state]
    <2>1. Others /\ state' = state /\ e.state \in {"pending", "dead_letter"}
        BY <1>3, <1>t DEF LogRecovered, jobVars, slotVars, clientVars, Report
    <2>2. /\ t \in EventTypes
          /\ Has({"leased"}, t) = 0 /\ Has(EndTypes, t) = 1 /\ Has({"requeued"}, t) = 0
          /\ Has({"dead_lettered"}, t) = IF e.state = "dead_letter" THEN 1 ELSE 0
        BY <2>1 DEF RecoveryEvent, EventTypes, EndTypes, Has
    <2> HIDE DEF t
    <2>3. CASE e.job # j
        <3>1. events'[j] = events[j]
            BY <1>3, <2>3 DEF Log
        <3> QED BY <1>3, <1>q, <2>1, <2>3, <3>1
    <2>4. CASE e.job = j
        <3>1. Gains(events[j], events'[j], t)
            BY <1>3, <2>2, <2>4 DEF Log, Gains, t
        <3>2. \A d \in recovered[r] : d.job = j => d = e
            BY <2>4 DEF OneReport
        <3>3. /\ Has(Owing(j).taken, r) = 1 /\ Has(OwingNext(j).taken, r) = 0
              /\ Has(Owing(j).killed, r) = (IF e.state = "dead_letter" THEN 1 ELSE 0)
              /\ Has(OwingNext(j).killed, r) = 0
            BY <1>3, <2>1, <2>4, <3>2 DEF Has, Owing, OwingNext, Ledger, ReportsOf
        <3>4. Has({"leased"}, state[j]) \in Int /\ Has({"dead_letter"}, state[j]) \in Int
            BY <1>s
        <3> QED BY <1>b, <2>1, <2>2, <3>1, <3>3, <3>4
    <2> QED BY <2>3, <2>4
<1>4. ASSUME RecovererStops(r), events' = events PROVE Goal
    <2>1. Others /\ state' = state /\ recovered'[r] = {}
        BY <1>4, <1>t DEF RecovererStops, jobVars, slotVars, clientVars
    <2>2. \A e \in recovered[r] : e.job # j
        <3> SUFFICES ASSUME NEW e \in recovered[r], e.job = j PROVE FALSE
            OBVIOUS
        <3>1. r \in Debtors(j)
            BY DEF Debtors
        <3>2. r \in Debtors(j)'
            BY <1>4, <3>1, NotDropped
        <3> QED BY <2>1, <3>2, EventAssumption DEF Debtors
    <2> QED BY <1>4, <1>q, <2>1, <2>2
<1> QED BY <1>1, <1>2, <1>3, <1>4

LEMMA BooksInit == LogInit => BooksInv /\ OneReport
<1> SUFFICES ASSUME LogInit PROVE BooksInv /\ OneReport
    OBVIOUS
<1>1. /\ events = [j \in Jobs |-> <<>>] /\ state = [j \in Jobs |-> "unborn"]
      /\ \A w \in Workers : wpc[w] = "idle"
      /\ \A c \in Clients : cpc[c] = "idle"
      /\ \A r \in Recoverers : orphans[r] = {} /\ recovered[r] = {}
    BY DEF LogInit, Init
<1>2. OneReport
    BY <1>1 DEF OneReport
<1>3. ASSUME NEW j \in Jobs PROVE Books(events[j], state[j], Owing(j))
    <2>1. /\ Owing(j).leased = {} /\ Owing(j).ended = {} /\ Owing(j).buried = {}
          /\ Owing(j).taken = {} /\ Owing(j).killed = {} /\ Owing(j).requeued = {}
        BY <1>1 DEF Owing, Ledger, SlotsAt, ReportsOf, RequeuersOf, EndSteps
    <2>2. Cardinality({}) = 0
        BY FS_EmptySet
    <2>3. Has({"leased"}, state[j]) = 0 /\ Has({"dead_letter"}, state[j]) = 0
        BY <1>1 DEF Has
    <2>4. \A T : Number(events[j], T) = 0
        BY <1>1, NumberEmpty
    <2>5. /\ Number(events[j], {"leased"}) = 0 /\ Number(events[j], EndTypes) = 0
          /\ Number(events[j], {"dead_lettered"}) = 0 /\ Number(events[j], {"requeued"}) = 0
        BY <2>4
    <2> QED BY <2>1, <2>2, <2>3, <2>5 DEF Books
<1> QED BY <1>2, <1>3 DEF BooksInv, Owing

(* A prune that shortens no log keeps it as it is. *)
LEMMA NewestShortens ==
    ASSUME NEW log \in Seq(EventTypes), NEW cap \in Nat, ~(Len(Newest(log, cap)) < Len(log))
    PROVE  Newest(log, cap) = log
<1>1. CASE cap = 0 \/ Len(log) <= cap
    BY <1>1 DEF Newest
<1>2. CASE cap # 0 /\ Len(log) > cap
    <2>1. Newest(log, cap) = SubSeq(log, Len(log) - cap + 1, Len(log)) /\ Len(log) \in Nat
        BY <1>2 DEF Newest
    <2>2. Len(SubSeq(log, Len(log) - cap + 1, Len(log))) = cap
        BY <1>2
    <2> QED BY <1>2, <2>1, <2>2
<1> QED BY <1>1, <1>2

(* Every step keeps the books of a job that misses no event. *)
LEMMA BooksStep ==
    LeaseInv /\ OneReport /\ events \in [Jobs -> Seq(EventTypes)] /\ BooksInv
        /\ [LogNext]_allVars => BooksInv'
<1> SUFFICES ASSUME LeaseInv, OneReport, events \in [Jobs -> Seq(EventTypes)], BooksInv,
                    [LogNext]_allVars
             PROVE  BooksInv'
    OBVIOUS
<1> SUFFICES ASSUME NEW j \in Jobs, j \notin lost', state'[j] # "deleted"
             PROVE  Books(events'[j], state'[j], OwingNext(j))
    BY DEF BooksInv, OwingNext
<1> DEFINE Goal == Books(events'[j], state'[j], OwingNext(j))
<1>1. state[j] # "deleted"
    BY LogStep, DeletedStays DEF LeaseInv
<1>2. j \notin lost
    BY DEF LogNext, CalmNext, Records, allVars, logVars
<1>3. Books(events[j], state[j], Owing(j))
    BY <1>1, <1>2 DEF BooksInv, Owing
<1>4. ASSUME UNCHANGED <<state, wpc, wjob, recovered, cpc, cjob>>, events'[j] = events[j]
      PROVE  Goal
    BY <1>3, <1>4 DEF Owing, OwingNext
<1>5. CASE UNCHANGED allVars
    BY <1>4, <1>5 DEF allVars, logVars, vars, jobVars, slotVars, recVars, clientVars
<1>6. CASE AppendsEvent /\ Records
    BY <1>3, <1>6, SlotBooks, ClientBooks, RecoveryBooks DEF AppendsEvent
<1>7. CASE PruneEvents /\ Records
    <2>1. PICK cap \in EventCaps :
            /\ Prune \/ UNCHANGED vars
            /\ events' = [i \in Jobs |->
                            IF state[i] # state'[i] THEN <<>> ELSE Newest(events[i], cap)]
        BY <1>7 DEF PruneEvents
    <2>2. /\ UNCHANGED <<wpc, wjob, recovered, cpc, cjob>>
          /\ state'[j] = state[j]
        BY <2>1 DEF Prune, vars, jobVars, slotVars, recVars, clientVars
    <2>3. events'[j] = Newest(events[j], cap) /\ cap \in Nat /\ events[j] \in Seq(EventTypes)
        BY <2>1, <2>2, EventAssumption
    <2>4. ~(Len(events'[j]) < Len(events[j]))
        BY <1>7 DEF Records
    <2>5. events'[j] = events[j]
        BY <2>3, <2>4, NewestShortens
    <2> QED BY <1>3, <2>2, <2>5 DEF Owing, OwingNext
<1>8. CASE Silent /\ Records
    <2>1. ASSUME Tick PROVE Goal
        BY <1>4, <1>8, <2>1 DEF Silent, Tick, jobVars, slotVars, recVars, clientVars
    <2>2. ASSUME NEW c \in Clients, Enqueue(c) \/ Requeue(c) \/ RequeueJob(c) PROVE Goal
        BY <1>3, <1>8, <2>2, ClientBooks DEF Silent
    <2>3. ASSUME NEW w \in Workers,
                 \/ LeaseJob(w) \/ HandlerReturns(w) \/ StopRenewal(w) \/ Joined(w)
                 \/ Acknowledge(w) \/ FailRead(w) \/ FailJob(w) \/ Renew(w)
          PROVE  Goal
        BY <1>3, <1>8, <2>3, SlotBooks DEF Silent
    <2>4. ASSUME NEW r \in Recoverers, Scan(r) \/ RecoverOne(r) PROVE Goal
        BY <1>3, <1>8, <2>4, RecoveryBooks DEF Silent
    <2> QED BY <1>8, <2>1, <2>2, <2>3, <2>4 DEF Silent
<1>9. CASE Deaths /\ Records
    <2>1. ASSUME NEW c \in Clients, ClientDies(c) PROVE Goal
        BY <1>3, <1>9, <2>1, ClientBooks DEF Deaths
    <2>2. ASSUME NEW w \in Workers, SlotDies(w) \/ RenewErrs(w) PROVE Goal
        BY <1>3, <1>9, <2>2, SlotBooks DEF Deaths
    <2>3. ASSUME NEW r \in Recoverers, RecovererStops(r) PROVE Goal
        BY <1>3, <1>9, <2>3, RecoveryBooks DEF Deaths
    <2> QED BY <1>9, <2>1, <2>2, <2>3 DEF Deaths
<1> QED BY <1>5, <1>6, <1>7, <1>8, <1>9 DEF LogNext, CalmNext

(* In a log that misses no row, each lease has one event that ends it and  *)
(* each death but the last has its requeue, in whatever order callers have *)
(* appended them and however many died.                                    *)
THEOREM EventsBalanceHolds == LogSpec => []EventsBalance
<1>1. BooksInv /\ events \in [Jobs -> Seq(EventTypes)] => EventsBalance
    <2> SUFFICES ASSUME BooksInv, events \in [Jobs -> Seq(EventTypes)],
                        NEW j \in Jobs \ lost, state[j] # "deleted", ~Owed(j)
                 PROVE  /\ Number(events[j], {"leased"})
                            = Number(events[j], EndTypes) + (IF state[j] = "leased" THEN 1 ELSE 0)
                        /\ Number(events[j], {"dead_lettered"})
                            = Number(events[j], {"requeued"})
                                + (IF state[j] = "dead_letter" THEN 1 ELSE 0)
        BY DEF EventsBalance, Count, Number, EndTypes
    <2>1. Books(events[j], state[j], Owing(j))
        BY DEF BooksInv, Owing
    <2>2. Debtors(j) = {}
        BY DEF Owed
    <2>3. /\ Owing(j).leased = {} /\ Owing(j).ended = {} /\ Owing(j).buried = {}
          /\ Owing(j).taken = {} /\ Owing(j).killed = {} /\ Owing(j).requeued = {}
        BY <2>2 DEF Debtors, Owing, Ledger, SlotsAt, ReportsOf, RequeuersOf, EndSteps
    <2>4. Cardinality({}) = 0
        BY FS_EmptySet
    <2>5. \A T : Number(events[j], T) \in Nat
        BY NumberType
    <2>6. /\ Number(events[j], {"leased"}) \in Nat /\ Number(events[j], EndTypes) \in Nat
          /\ Number(events[j], {"dead_lettered"}) \in Nat
          /\ Number(events[j], {"requeued"}) \in Nat
        BY <2>5
    <2> QED BY <2>1, <2>3, <2>4, <2>6 DEF Books, Has
<1>2. LogSpec => []LeaseInv
    BY LogImplementsProtocol, LeaseInvariant, PTL
<1>3. LogSpec => []LogTypeOK
    BY LogTypeCorrect
<1>4. LogTypeOK => events \in [Jobs -> Seq(EventTypes)]
    BY DEF LogTypeOK
<1>5. LeaseInv /\ OneReport /\ [LogNext]_allVars => OneReport'
    BY LogStep, OneReportStep DEF LeaseInv
<1> QED BY <1>1, <1>2, <1>3, <1>4, <1>5, BooksInit, BooksStep, PTL DEF LogSpec

-----------------------------------------------------------------------------
(* Histories that verify *)

(* Each event can follow the state that the one before it leads to. *)
Chain(log) ==
    \A n \in 2..Len(log) : CanFollow(FirstEventState[log[n - 1]], log[n])

(* A chain that ends in state st. *)
Good(log, st) == log # <<>> /\ Chain(log) /\ FirstEventState[log[Len(log)]] = st

(* What the replay of the verifier computes of a chain: no event is an     *)
(* issue, and the state is that of the last one.                           *)
LEMMA ReplayOfChain ==
    ASSUME NEW log \in Seq(EventTypes), log # <<>>, Chain(log)
    PROVE  Replay(log) = [state |-> FirstEventState[log[Len(log)]], valid |-> TRUE]
<1> DEFINE After(F, n) ==
                IF n = 1 THEN [state |-> FirstEventState[log[1]], valid |-> TRUE]
                ELSE IF CanFollow(F[n - 1].state, log[n])
                     THEN [F[n - 1] EXCEPT !.state = FirstEventState[log[n]]]
                     ELSE [F[n - 1] EXCEPT !.valid = FALSE]
           Is(F) == F = [n \in 1..Len(log) |-> After(F, n)]
           At(n) == [state |-> FirstEventState[log[n]], valid |-> TRUE]
           G == [n \in 1..Len(log) |-> At(n)]
           H == CHOOSE F : F = [n \in 1..Len(log) |->
                    IF n = 1 THEN [state |-> FirstEventState[log[1]], valid |-> TRUE]
                    ELSE LET before == F[n - 1] IN
                        IF CanFollow(before.state, log[n])
                        THEN [before EXCEPT !.state = FirstEventState[log[n]]]
                        ELSE [before EXCEPT !.valid = FALSE]]
<1>1. Len(log) \in Nat \ {0}
    OBVIOUS
<1>2. ASSUME NEW F, NEW n \in 2..Len(log), F[n - 1] = At(n - 1)
      PROVE  After(F, n) = At(n)
    <2>1. CanFollow(F[n - 1].state, log[n])
        BY <1>2 DEF Chain
    <2>2. ASSUME NEW a, NEW b
          PROVE  [[state |-> a, valid |-> TRUE] EXCEPT !.state = b] = [state |-> b, valid |-> TRUE]
        <3>1. ASSUME NEW v
              PROVE  [[state |-> a, valid |-> v] EXCEPT !.state = b] = [state |-> b, valid |-> v]
            OBVIOUS
        <3> QED BY <3>1
    <2> QED BY <1>2, <2>1, <2>2
<1>3. Is(G)
    <2>1. ASSUME NEW n \in 1..Len(log) PROVE After(G, n) = At(n)
        <3>1. CASE n = 1
            BY <3>1
        <3>2. CASE n # 1
            <4>1. n \in 2..Len(log) /\ n - 1 \in 1..Len(log)
                BY <3>2
            <4>2. G[n - 1] = At(n - 1)
                BY <4>1
            <4> HIDE DEF G, At, After
            <4> QED BY <1>2, <4>1, <4>2
        <3> QED BY <3>1, <3>2
    <2> HIDE DEF After, At
    <2> QED BY <2>1
<1>4. Replay(log) = H[Len(log)]
    BY DEF Replay
<1>5. Is(H)
    <2>1. \E F : Is(F)
        <3> HIDE DEF Is, G
        <3> QED BY <1>3
    <2> QED BY <2>1
<1>6. \A n \in 1..Len(log) : H[n] = At(n)
    <2> DEFINE N == {n \in Nat : n \in 1..Len(log) => H[n] = At(n)}
    <2> HIDE DEF H
    <2>1. 0 \in N
        OBVIOUS
    <2>2. ASSUME NEW n \in Nat, n \in N PROVE n + 1 \in N
        <3> SUFFICES ASSUME n + 1 \in 1..Len(log) PROVE H[n + 1] = At(n + 1)
            OBVIOUS
        <3>1. H[n + 1] = After(H, n + 1)
            <4> HIDE DEF After
            <4> QED BY <1>5
        <3>2. CASE n = 0
            BY <3>1, <3>2
        <3>3. CASE n # 0
            <4>1. n + 1 \in 2..Len(log) /\ H[n] = At(n) /\ (n + 1) - 1 = n
                BY <2>2, <3>3
            <4> HIDE DEF After, At
            <4> QED BY <1>2, <3>1, <4>1
        <3> QED BY <3>2, <3>3
    <2> HIDE DEF N
    <2>3. Nat \subseteq N
        BY <2>1, <2>2, AllNaturals
    <2> QED BY <2>3 DEF N
<1> HIDE DEF H
<1> QED BY <1>1, <1>4, <1>6

(* A chain verifies. *)
LEMMA GoodVerifies ==
    ASSUME NEW log \in Seq(EventTypes), NEW st, Good(log, st)
    PROVE  Verifies(log, st)
<1>1. Replay(log) = [state |-> st, valid |-> TRUE]
    BY ReplayOfChain DEF Good
<1>2. Replay(log).state = st /\ Replay(log).valid
    BY <1>1
<1> QED BY <1>2 DEF Good, Verifies

(* An event that can follow prolongs a chain, any event starts one. *)
LEMMA GoodAppend ==
    ASSUME NEW log \in Seq(EventTypes), NEW st, NEW t \in EventTypes,
           log = <<>> \/ (Good(log, st) /\ CanFollow(st, t))
    PROVE  Good(Append(log, t), FirstEventState[t])
<1>1. /\ Len(log) \in Nat
      /\ Len(Append(log, t)) = Len(log) + 1
      /\ Append(log, t)[Len(log) + 1] = t
      /\ \A n \in 1..Len(log) : Append(log, t)[n] = log[n]
    OBVIOUS
<1>3. Append(log, t) # <<>>
    <2>1. Len(<<>>) = 0
        OBVIOUS
    <2> QED BY <1>1, <2>1
<1>2. ASSUME NEW n \in 2..(Len(log) + 1)
      PROVE  CanFollow(FirstEventState[Append(log, t)[n - 1]], Append(log, t)[n])
    <2>1. CASE n = Len(log) + 1
        <3>1. Len(log) # 0 /\ log # <<>> /\ n - 1 = Len(log) /\ Len(log) \in 1..Len(log)
            BY <1>1, <2>1
        <3>2. Append(log, t)[n - 1] = log[Len(log)] /\ Append(log, t)[n] = t
            BY <1>1, <2>1, <3>1
        <3> QED BY <3>1, <3>2 DEF Good
    <2>2. CASE n # Len(log) + 1
        <3>1. n \in 2..Len(log) /\ n - 1 \in 1..Len(log) /\ n \in 1..Len(log)
            BY <1>1, <2>2
        <3>2. Append(log, t)[n - 1] = log[n - 1] /\ Append(log, t)[n] = log[n]
            BY <1>1, <3>1
        <3>3. Chain(log)
            BY <3>1 DEF Good
        <3> QED BY <3>1, <3>2, <3>3 DEF Chain
    <2> QED BY <2>1, <2>2
<1> QED BY <1>1, <1>2, <1>3 DEF Good, Chain

(* A trim leaves the newest events of a chain, which are a chain. *)
LEMMA GoodNewest ==
    ASSUME NEW log \in Seq(EventTypes), NEW cap \in Nat, NEW st, Good(log, st)
    PROVE  Good(Newest(log, cap), st)
<1> DEFINE new == Newest(log, cap)
<1>1. log # <<>> /\ Chain(log)
    BY DEF Good
<1>2. new \in Seq(EventTypes) /\ new # <<>>
    BY <1>1, NewestEvents
<1>3. PICK k \in Nat : /\ Len(log) = Len(new) + k
                       /\ \A n \in 1..Len(new) : new[n] = log[n + k]
    BY <1>1, NewestEvents
<1> HIDE DEF new
<1>4. Len(new) \in Nat \ {0}
    BY <1>2
<1>5. ASSUME NEW n \in 2..Len(new) PROVE CanFollow(FirstEventState[new[n - 1]], new[n])
    <2>1. n + k \in 2..Len(log) /\ (n + k) - 1 = (n - 1) + k /\ n - 1 \in 1..Len(new)
        BY <1>3, <1>4
    <2>2. CanFollow(FirstEventState[log[(n + k) - 1]], log[n + k])
        BY <1>1, <2>1 DEF Chain
    <2> QED BY <1>3, <2>1, <2>2
<1>6. new[Len(new)] = log[Len(log)]
    BY <1>3, <1>4
<1>7. Good(new, st)
    BY <1>2, <1>5, <1>6 DEF Good, Chain
<1> QED BY <1>7 DEF new

-----------------------------------------------------------------------------
(* A history with what is owed to it: the log verifies, or one event is    *)
(* owed with which it will.                                                *)

Story(D, log, st) ==
    IF st = "unborn" THEN D = {} /\ log = <<>>
    ELSE /\ D = {} => Good(log, st)
         /\ \A d \in D : D = {d} /\ d[2] \in EventTypes /\ Good(Append(log, d[2]), st)

(* A change of state owes its event. *)
LEMMA StoryOpens ==
    ASSUME NEW log \in Seq(EventTypes), NEW st, NEW x, NEW t \in EventTypes,
           Story({}, log, st),
           \/ st = "unborn" /\ t \in {"enqueued", "scheduled"}
           \/ st # "unborn" /\ CanFollow(st, t)
    PROVE  Story({<<x, t>>}, log, FirstEventState[t])
<1>1. Good(Append(log, t), FirstEventState[t])
    BY GoodAppend DEF Story
<1>2. FirstEventState[t] # "unborn"
    BY DEF FirstEventState, EventTypes
<1>3. ASSUME NEW d \in {<<x, t>>}
      PROVE  /\ {<<x, t>>} = {d} /\ d[2] \in EventTypes
             /\ Good(Append(log, d[2]), FirstEventState[t])
    <2>1. d[2] = t /\ d = <<x, t>>
        OBVIOUS
    <2> QED BY <1>1, <2>1
<1> QED BY <1>2, <1>3 DEF Story

(* The event that is owed is the only one, and settles the story. *)
LEMMA StoryPays ==
    ASSUME NEW D, NEW log, NEW st, NEW x, NEW t, Story(D, log, st), <<x, t>> \in D
    PROVE  D = {<<x, t>>} /\ Story({}, Append(log, t), st)
<1>1. D = {<<x, t>>} /\ Good(Append(log, <<x, t>>[2]), st) /\ st # "unborn"
    BY DEF Story
<1> QED BY <1>1 DEF Story

(* A trim takes nothing from a story but its beginning. *)
LEMMA StoryTrimmed ==
    ASSUME NEW D, NEW log \in Seq(EventTypes), NEW st, NEW cap \in Nat, Story(D, log, st)
    PROVE  Story(D, Newest(log, cap), st)
<1>1. CASE st = "unborn"
    <2>1. log = <<>> /\ Len(<<>>) <= cap
        BY <1>1 DEF Story
    <2>2. Newest(log, cap) = log
        BY <2>1 DEF Newest
    <2> QED BY <2>2
<1>2. CASE st # "unborn"
    <2>1. D = {} => Good(Newest(log, cap), st)
        BY <1>2, GoodNewest DEF Story
    <2>2. ASSUME NEW d \in D PROVE Good(Append(Newest(log, cap), d[2]), st)
        <3>1. Good(Append(log, d[2]), st) /\ d[2] \in EventTypes
            BY <1>2 DEF Story
        <3> DEFINE t == d[2]
                   new == Newest(log, cap)
        <3>2. FirstEventState[t] = st
            <4>1. Append(log, t)[Len(Append(log, t))] = t
                BY <3>1
            <4> QED BY <3>1, <4>1 DEF Good
        <3>3. CASE log = <<>>
            <4>1. Newest(log, cap) = log
                BY <3>3 DEF Newest
            <4> QED BY <3>1, <4>1
        <3>4. CASE log # <<>>
            <4>1. /\ Len(log) \in Nat \ {0} /\ Len(Append(log, t)) = Len(log) + 1
                  /\ Append(log, t)[Len(log) + 1] = t
                  /\ \A n \in 1..Len(log) : Append(log, t)[n] = log[n]
                BY <3>1, <3>4
            <4>2. Chain(Append(log, t))
                BY <3>1 DEF Good
            <4>3. CanFollow(FirstEventState[log[Len(log)]], t)
                <5>1. Len(log) + 1 \in 2..Len(Append(log, t)) /\ (Len(log) + 1) - 1 = Len(log)
                    BY <4>1
                <5> QED BY <4>1, <4>2, <5>1 DEF Chain
            <4>4. Chain(log)
                <5> SUFFICES ASSUME NEW n \in 2..Len(log)
                             PROVE  CanFollow(FirstEventState[log[n - 1]], log[n])
                    BY DEF Chain
                <5>1. n \in 2..Len(Append(log, t)) /\ n - 1 \in 1..Len(log) /\ n \in 1..Len(log)
                    BY <4>1
                <5> QED BY <4>1, <4>2, <5>1 DEF Chain
            <4>5. Good(log, FirstEventState[log[Len(log)]])
                BY <3>4, <4>4 DEF Good
            <4>6. Good(new, FirstEventState[log[Len(log)]]) /\ new \in Seq(EventTypes)
                BY <3>4, <4>5, GoodNewest, NewestEvents
            <4>7. Good(Append(new, t), FirstEventState[t])
                BY <3>1, <4>3, <4>6, GoodAppend
            <4> QED BY <3>2, <4>7
        <3> QED BY <3>3, <3>4
    <2> QED BY <1>2, <2>1, <2>2 DEF Story
<1> QED BY <1>1, <1>2

-----------------------------------------------------------------------------
(* Who owes which event *)

Callers == Clients \cup Workers \cup Recoverers

DebtSteps == {"logLeased", "logAcked", "logRetried", "logBuried"}

ClientOwes(c, j) == cjob[c] = j /\ cpc[c] \in {"logEnqueued", "logRequeued"}

SlotOwes(w, j) == wjob[w] = j /\ (wpc[w] \in DebtSteps \/ wrn[w] = "log")

SlotEvent(w) ==
    IF wrn[w] = "log" THEN "lease_renewed"
    ELSE IF wpc[w] = "logLeased" THEN "leased" ELSE OutcomeEvent[wpc[w]]

(* The events of job j that caller x owes. *)
Due(x, j) ==
    {t \in EventTypes :
        \/ x \in Clients /\ ClientOwes(x, j) /\ t = ClientEvent(x)
        \/ x \in Workers /\ SlotOwes(x, j) /\ t = SlotEvent(x)
        \/ x \in Recoverers /\ \E e \in recovered[x] : e.job = j /\ t = RecoveryEvent[e.state]}

DueNext(x, j) == Due(x, j)'

Debts(j) == {d \in Callers \X EventTypes : d[2] \in Due(d[1], j)}
DebtsNext(j) == Debts(j)'

(* A heartbeat is there while the handler runs or is waited for. *)
Phases ==
    \A w \in Workers : wrn[w] \in {"armed", "log"} => wpc[w] \in {"running", "joinOk", "joinErr"}

(* A slot that owes an event of a leased job holds the lease. *)
Fresh(j) == state[j] = "leased" => \A w \in Workers : SlotOwes(w, j) => token[j] = wtok[w]

(* The log of a job that was not disturbed verifies, with what is owed.    *)
HistoryInv ==
    /\ Phases
    /\ \A j \in Jobs \ disturbed :
            state[j] # "deleted" => Story(Debts(j), events[j], state[j]) /\ Fresh(j)

(* The step is of caller x as far as the debts for j are concerned. *)
Only(x, j) == \A y \in Callers : y # x => DueNext(y, j) = Due(y, j)

(* The debts are the events that are due, caller by caller. *)
LEMMA InDebt ==
    ASSUME NEW j
    PROVE  /\ \A x \in Callers : \A t : <<x, t>> \in Debts(j) <=> t \in Due(x, j)
           /\ \A x \in Callers : \A t : <<x, t>> \in DebtsNext(j) <=> t \in DueNext(x, j)
           /\ \A d \in Debts(j) : \E x \in Callers : \E t \in Due(x, j) : d = <<x, t>>
           /\ \A d \in DebtsNext(j) : \E x \in Callers : \E t \in DueNext(x, j) : d = <<x, t>>
<1>1. \A x : Due(x, j) \subseteq EventTypes /\ DueNext(x, j) \subseteq EventTypes
    BY DEF Due, DueNext
<1>2. /\ Debts(j) = {d \in Callers \X EventTypes : d[2] \in Due(d[1], j)}
      /\ DebtsNext(j) = {d \in Callers \X EventTypes : d[2] \in DueNext(d[1], j)}
    BY DEF Debts, DebtsNext, DueNext
<1> QED BY <1>1, <1>2

LEMMA SameDebts ==
    ASSUME NEW j, UNCHANGED <<runAt, wpc, wjob, wrn, recovered, cpc, cjob>>
    PROVE  DebtsNext(j) = Debts(j)
<1>1. \A x \in Callers : DueNext(x, j) = Due(x, j)
    BY DEF Due, DueNext, ClientOwes, ClientEvent, SlotOwes, SlotEvent
<1> QED BY <1>1, InDebt

(* A job that nobody owes an event. *)
LEMMA NothingDue ==
    ASSUME NEW j, Debtors(j) = {}
    PROVE  Debts(j) = {} /\ \A x \in Callers : Due(x, j) = {}
<1>1. \A x \in Callers : Due(x, j) = {}
    BY DEF Due, Debtors, ClientOwes, SlotOwes, DebtSteps
<1> QED BY <1>1, InDebt

-----------------------------------------------------------------------------
(* The three things that a step can do to a story *)

LEMMA Quietly ==
    ASSUME NEW j \in Jobs, NEW x \in Callers, Only(x, j), DueNext(x, j) = Due(x, j),
           events'[j] = events[j], state'[j] = state[j],
           Story(Debts(j), events[j], state[j])
    PROVE  Story(DebtsNext(j), events'[j], state'[j])
<1>1. \A y \in Callers : DueNext(y, j) = Due(y, j)
    BY DEF Only
<1>2. DebtsNext(j) = Debts(j)
    BY <1>1, InDebt
<1> QED BY <1>2

LEMMA Opened ==
    ASSUME NEW j \in Jobs, NEW x \in Callers, NEW t \in EventTypes,
           events \in [Jobs -> Seq(EventTypes)],
           Only(x, j), Debts(j) = {}, DueNext(x, j) = {t},
           events'[j] = events[j], state'[j] = FirstEventState[t],
           Story(Debts(j), events[j], state[j]),
           \/ state[j] = "unborn" /\ t \in {"enqueued", "scheduled"}
           \/ state[j] # "unborn" /\ CanFollow(state[j], t)
    PROVE  Story(DebtsNext(j), events'[j], state'[j])
<1>1. \A y \in Callers : Due(y, j) = {}
    BY InDebt
<1>2. \A y \in Callers : y # x => DueNext(y, j) = {}
    BY <1>1 DEF Only
<1>3. DebtsNext(j) = {<<x, t>>}
    BY <1>2, InDebt
<1>4. Story({}, events[j], state[j])
    OBVIOUS
<1>5. Story({<<x, t>>}, events[j], FirstEventState[t])
    BY <1>4, StoryOpens
<1> QED BY <1>3, <1>5

LEMMA Paid ==
    ASSUME NEW j \in Jobs, NEW x \in Callers, NEW t,
           Only(x, j), t \in Due(x, j), DueNext(x, j) = {},
           events'[j] = Append(events[j], t), state'[j] = state[j],
           Story(Debts(j), events[j], state[j])
    PROVE  Story(DebtsNext(j), events'[j], state'[j])
<1>1. <<x, t>> \in Debts(j)
    BY InDebt
<1>2. Debts(j) = {<<x, t>>} /\ Story({}, Append(events[j], t), state[j])
    BY <1>1, StoryPays
<1>3. \A y \in Callers : y # x => Due(y, j) = {}
    <2> SUFFICES ASSUME NEW y \in Callers, NEW s \in Due(y, j) PROVE y = x
        OBVIOUS
    <2>1. <<y, s>> \in Debts(j)
        BY InDebt
    <2>2. <<y, s>> = <<x, t>>
        BY <1>2, <2>1
    <2> QED BY <2>2
<1>4. \A y \in Callers : DueNext(y, j) = {}
    BY <1>3 DEF Only
<1>5. DebtsNext(j) = {}
    BY <1>4, InDebt
<1> QED BY <1>2, <1>5

(* An event that is owed leads to the state that the job already is in. *)
LEMMA StoryOwes ==
    ASSUME NEW j \in Jobs, events \in [Jobs -> Seq(EventTypes)],
           Story(Debts(j), events[j], state[j]), NEW x \in Callers, NEW t \in Due(x, j)
    PROVE  FirstEventState[t] = state[j]
<1>1. <<x, t>> \in Debts(j) /\ t \in EventTypes
    BY InDebt DEF Due
<1>2. Story({}, Append(events[j], t), state[j])
    BY <1>1, StoryPays
<1>3. state[j] # "unborn"
    BY <1>1 DEF Story
<1>4. FirstEventState[Append(events[j], t)[Len(Append(events[j], t))]] = state[j]
    BY <1>2, <1>3 DEF Story, Good
<1>5. Append(events[j], t)[Len(Append(events[j], t))] = t
    BY <1>1
<1> QED BY <1>4, <1>5

(* What an undisturbed job can rely on. *)
LEMMA Undisturbed ==
    ASSUME Records, NEW j \in Jobs, j \notin disturbed'
    PROVE  /\ state'[j] # state[j] => Debts(j) = {} /\ \A x \in Callers : Due(x, j) = {}
           /\ \A d \in Debtors(j) : events'[j] = events[j] => d \in Debtors(j)'
<1>1. state'[j] # state[j] => Debtors(j) = {}
    BY DEF Records, Owed
<1>2. \A d \in Debtors(j) : events'[j] = events[j] => d \in Debtors(j)'
    BY DEF Records, Drops
<1> QED BY <1>1, <1>2, NothingDue

(* The heartbeat ends before processOne goes on to its outcome. *)
LEMMA PhasesStep == TypeOK /\ Phases /\ [Next]_vars => Phases'
<1> SUFFICES ASSUME TypeOK, Phases, [Next]_vars PROVE Phases'
    OBVIOUS
<1>1. ASSUME NEW w \in Workers, SlotNext(w) PROVE Phases'
    BY <1>1 DEF SlotNext, LeaseJob, StartHandler, HandlerReturns, Renew, LogRenewed,
                RenewErrs, StopRenewal, Joined, Acknowledge, FailRead, FailJob, LogOutcome,
                SlotDies, ResetSlot, Phases, TypeOK
<1>2. ASSUME UNCHANGED slotVars PROVE Phases'
    BY <1>2 DEF slotVars, Phases
<1>3. ASSUME Tick \/ Prune \/ UNCHANGED vars PROVE UNCHANGED slotVars
    BY <1>3 DEF Tick, Prune, vars, slotVars
<1>4. ASSUME NEW c \in Clients,
             Enqueue(c) \/ Requeue(c) \/ RequeueJob(c) \/ LogClient(c) \/ ClientDies(c)
      PROVE  UNCHANGED slotVars
    BY <1>4 DEF Enqueue, Requeue, RequeueJob, LogClient, ClientDies, slotVars
<1>5. ASSUME NEW r \in Recoverers,
             Scan(r) \/ RecoverOne(r) \/ LogRecovered(r) \/ RecovererStops(r)
      PROVE  UNCHANGED slotVars
    BY <1>5 DEF Scan, RecoverOne, LogRecovered, RecovererStops, slotVars
<1> QED BY <1>1, <1>2, <1>3, <1>4, <1>5 DEF Next

(* The debts of a job that is leased stay debts of the lease's holder: a   *)
(* lease is granted when nothing is owed.                                  *)
LEMMA FreshStep ==
    ASSUME LeaseInv, Phases, [Next]_vars, NEW j \in Jobs, Fresh(j),
           state'[j] # state[j] => Debtors(j) = {}
    PROVE  Fresh(j)'
<1> SUFFICES ASSUME state'[j] = "leased", NEW w \in Workers, SlotOwes(w, j)'
             PROVE  token'[j] = wtok'[w]
    BY DEF Fresh
<1> DEFINE Goal == token'[j] = wtok'[w]
<1>t. TypeOK /\ NoJob \notin Jobs
    BY LeaseAssumption DEF LeaseInv
<1>1. ASSUME state[j] = "leased", SlotOwes(w, j), token'[j] = token[j], wtok'[w] = wtok[w]
      PROVE  Goal
    BY <1>1 DEF Fresh
<1>2. ASSUME UNCHANGED slotVars, state[j] = "leased", token'[j] = token[j] PROVE Goal
    BY <1>1, <1>2 DEF slotVars, SlotOwes
<1>3. ASSUME Tick \/ Prune \/ UNCHANGED vars PROVE Goal
    BY <1>2, <1>3, <1>t DEF Tick, Prune, vars, jobVars, TypeOK
<1>4. ASSUME NEW c \in Clients,
             Enqueue(c) \/ Requeue(c) \/ RequeueJob(c) \/ LogClient(c) \/ ClientDies(c)
      PROVE  Goal
    BY <1>2, <1>4, <1>t DEF Enqueue, Requeue, RequeueJob, LogClient, ClientDies, jobVars, TypeOK
<1>5. ASSUME NEW r \in Recoverers,
             Scan(r) \/ RecoverOne(r) \/ LogRecovered(r) \/ RecovererStops(r)
      PROVE  Goal
    <2>1. CASE UNCHANGED jobVars
        BY <1>2, <1>5, <2>1 DEF Scan, RecoverOne, LogRecovered, RecovererStops, jobVars
    <2>2. CASE ~UNCHANGED jobVars
        <3>1. PICK o \in orphans[r] : \E next \in {"dead_letter", "pending"} :
                EndLease(o.job, next, o.retry + 1)
            BY <1>5, <2>2 DEF Scan, RecoverOne, LogRecovered, RecovererStops
        <3>2. UNCHANGED slotVars
            BY <1>5 DEF Scan, RecoverOne, LogRecovered, RecovererStops
        <3> QED BY <1>2, <1>t, <3>1, <3>2 DEF EndLease, TypeOK
    <2> QED BY <2>1, <2>2
<1>6. ASSUME NEW v \in Workers, LeaseJob(v) PROVE Goal
    <2>1. PICK i \in Jobs :
            /\ state' = [state EXCEPT ![i] = "leased"] /\ Ready(i)
            /\ token' = [token EXCEPT ![i] = NewLeaseToken]
            /\ wjob' = [wjob EXCEPT ![v] = i]
        BY <1>6 DEF LeaseJob
    <2>2. /\ wtok' = [wtok EXCEPT ![v] = NewLeaseToken]
          /\ wpc' = [wpc EXCEPT ![v] = "logLeased"] /\ wrn' = wrn
        BY <1>6 DEF LeaseJob
    <2>3. CASE w # v
        <3>1. SlotOwes(w, j) /\ w \in Debtors(j)
            BY <1>t, <2>1, <2>2, <2>3 DEF SlotOwes, Debtors, DebtSteps, TypeOK
        <3>2. state'[j] = state[j]
            BY <3>1
        <3>3. i # j
            BY <1>t, <2>1, <3>2 DEF Ready, TypeOK
        <3> QED BY <1>1, <1>t, <2>1, <2>2, <2>3, <3>1, <3>2, <3>3 DEF TypeOK
    <2>4. CASE w = v
        BY <1>t, <2>1, <2>2, <2>4 DEF SlotOwes, TypeOK
    <2> QED BY <2>3, <2>4
<1>7. ASSUME NEW v \in Workers, Renew(v) PROVE Goal
    <2>1. UNCHANGED <<state, token, wpc, wjob, wtok>>
        BY <1>7 DEF Renew
    <2>2. CASE SlotOwes(w, j)
        BY <1>1, <2>1, <2>2
    <2>3. CASE ~SlotOwes(w, j)
        <3>1. w = v /\ wrn'[v] = "log"
            BY <1>7, <1>t, <2>1, <2>3 DEF Renew, SlotOwes, TypeOK
        <3>2. Fence(wjob[v], wtok[v])
            BY <1>7, <1>t, <3>1 DEF Renew, TypeOK
        <3> QED BY <2>1, <3>1, <3>2 DEF Fence, SlotOwes
    <2> QED BY <2>2, <2>3
<1>8. ASSUME NEW v \in Workers, Acknowledge(v) \/ FailJob(v) PROVE Goal
    <2>1. wpc[v] \in {"ack", "retry", "bury"} /\ wrn[v] \notin {"armed", "log"} /\ wjob[v] \in Jobs
        BY <1>8 DEF Acknowledge, FailJob, Phases, LeaseInv, SlotTokens
    <2>2. CASE Fence(wjob[v], wtok[v])
        <3>1. PICK next \in {"completed", "pending", "dead_letter"} :
                EndLease(wjob[v], next, retry'[wjob[v]])
            BY <1>8, <1>t, <2>1, <2>2 DEF Acknowledge, FailJob, EndLease, TypeOK
        <3>2. wjob[v] # j /\ state'[j] = state[j] /\ token'[j] = token[j]
            BY <1>t, <2>1, <3>1 DEF EndLease, TypeOK
        <3>3. UNCHANGED <<wjob, wtok, wrn>> /\ \A u \in Workers : u # v => wpc'[u] = wpc[u]
            BY <1>8, <1>t, <2>2 DEF Acknowledge, FailJob, TypeOK
        <3>4. SlotOwes(w, j)
            BY <3>2, <3>3 DEF SlotOwes
        <3> QED BY <1>1, <3>2, <3>3, <3>4
    <2>3. CASE ~Fence(wjob[v], wtok[v])
        <3>1. ResetSlot(v) /\ UNCHANGED jobVars
            BY <1>8, <2>3 DEF Acknowledge, FailJob
        <3>2. w # v /\ SlotOwes(w, j) /\ wtok'[w] = wtok[w]
            BY <1>t, <3>1 DEF ResetSlot, SlotOwes, TypeOK
        <3> QED BY <1>1, <3>1, <3>2 DEF jobVars
    <2> QED BY <2>2, <2>3
<1>9. ASSUME NEW v \in Workers, SlotNext(v),
             ~LeaseJob(v), ~Renew(v), ~Acknowledge(v), ~FailJob(v)
      PROVE  Goal
    <2>1. UNCHANGED jobVars
        BY <1>9 DEF SlotNext, StartHandler, HandlerReturns, LogRenewed, RenewErrs,
                    StopRenewal, Joined, FailRead, LogOutcome, SlotDies
    <2>2. SlotOwes(w, j) /\ wtok'[w] = wtok[w]
        <3>1. \A u \in Workers : u # v =>
                wpc'[u] = wpc[u] /\ wjob'[u] = wjob[u] /\ wtok'[u] = wtok[u] /\ wrn'[u] = wrn[u]
            BY <1>9, <1>t DEF SlotNext, StartHandler, HandlerReturns, LogRenewed, RenewErrs,
                    StopRenewal, Joined, FailRead, LogOutcome, SlotDies, ResetSlot, TypeOK
        <3>2. CASE w # v
            BY <3>1, <3>2 DEF SlotOwes
        <3>3. CASE w = v
            <4>1. ResetSlot(v) => ~SlotOwes(v, j)'
                BY <1>t DEF ResetSlot, SlotOwes, TypeOK
            <4> QED BY <1>9, <1>t, <3>3, <4>1
                DEF SlotNext, StartHandler, HandlerReturns, LogRenewed, RenewErrs,
                    StopRenewal, Joined, FailRead, LogOutcome, SlotDies, SlotOwes,
                    DebtSteps, TypeOK
        <3> QED BY <3>2, <3>3
    <2> QED BY <1>1, <2>1, <2>2 DEF jobVars
<1> QED BY <1>3, <1>4, <1>5, <1>6, <1>7, <1>8, <1>9 DEF Next

-----------------------------------------------------------------------------
(* What the steps of a slot do to the story of job j *)

(* A slot owes one event at most. *)
LEMMA SlotDue ==
    ASSUME NEW w \in Workers, NEW j
    PROVE  /\ ~SlotOwes(w, j) => Due(w, j) = {}
           /\ SlotOwes(w, j) /\ SlotEvent(w) \in EventTypes => Due(w, j) = {SlotEvent(w)}
           /\ ~SlotOwes(w, j)' => DueNext(w, j) = {}
           /\ SlotOwes(w, j)' /\ SlotEvent(w)' \in EventTypes => DueNext(w, j) = {SlotEvent(w)'}
<1>1. w \notin Clients /\ w \notin Recoverers
    BY EventAssumption
<1>2. Due(w, j) = {t \in EventTypes : SlotOwes(w, j) /\ t = SlotEvent(w)}
    BY <1>1 DEF Due
<1>3. DueNext(w, j) = {t \in EventTypes : SlotOwes(w, j)' /\ t = SlotEvent(w)'}
    BY <1>1 DEF DueNext, Due
<1> QED BY <1>2, <1>3

LEMMA OnlySlot ==
    ASSUME NEW w \in Workers, NEW j, UNCHANGED <<cpc, cjob, runAt, recovered>>,
           \A v \in Workers : v # w =>
                wpc'[v] = wpc[v] /\ wjob'[v] = wjob[v] /\ wrn'[v] = wrn[v]
    PROVE  Only(w, j)
<1> SUFFICES ASSUME NEW x \in Callers, x # w PROVE DueNext(x, j) = Due(x, j)
    BY DEF Only
<1>1. x \in Workers => (SlotOwes(x, j)' <=> SlotOwes(x, j)) /\ SlotEvent(x)' = SlotEvent(x)
    BY DEF SlotOwes, SlotEvent
<1>2. x \in Clients => (ClientOwes(x, j)' <=> ClientOwes(x, j)) /\ ClientEvent(x)' = ClientEvent(x)
    BY DEF ClientOwes, ClientEvent
<1> QED BY <1>1, <1>2 DEF Due, DueNext

(* A slot comes to owe an event only when nothing else is owed: a new      *)
(* state disturbs the job otherwise, and a renewal passes its fence only   *)
(* while no other slot owes the event of this lease.                       *)
LEMMA SlotStory ==
    ASSUME LeaseInv, Phases, NEW j \in Jobs, events \in [Jobs -> Seq(EventTypes)],
           Records, j \notin disturbed', Fresh(j),
           Story(Debts(j), events[j], state[j]),
           NEW w \in Workers,
           \/ /\ \/ LeaseJob(w) \/ HandlerReturns(w) \/ StopRenewal(w) \/ Joined(w)
                 \/ Acknowledge(w) \/ FailRead(w) \/ FailJob(w) \/ Renew(w)
                 \/ RenewErrs(w) \/ SlotDies(w)
              /\ events' = events
           \/ StartHandler(w) /\ Log(wjob[w], "leased")
           \/ LogRenewed(w) /\ Log(wjob[w], "lease_renewed")
           \/ LogOutcome(w) /\ Log(wjob[w], OutcomeEvent[wpc[w]])
    PROVE  Story(DebtsNext(j), events'[j], state'[j])
<1> DEFINE Goal == Story(DebtsNext(j), events'[j], state'[j])
<1>t. /\ TypeOK /\ NoJob \notin Jobs /\ w \in Callers
      /\ wpc[w] # "idle" => wjob[w] \in Jobs
    BY LeaseAssumption DEF LeaseInv, SlotTokens, Callers
<1>p. wrn[w] \in {"armed", "log"} => wpc[w] \in {"running", "joinOk", "joinErr"}
    BY DEF Phases
<1>o. Only(w, j)
    <2>1. UNCHANGED <<cpc, cjob, runAt, recovered>>
        BY DEF LeaseJob, HandlerReturns, StopRenewal, Joined, Acknowledge, FailRead, FailJob,
               Renew, RenewErrs, SlotDies, StartHandler, LogRenewed, LogOutcome, EndLease,
               jobVars, recVars, clientVars
    <2>2. \A v \in Workers : v # w =>
                wpc'[v] = wpc[v] /\ wjob'[v] = wjob[v] /\ wrn'[v] = wrn[v]
        BY <1>t DEF LeaseJob, HandlerReturns, StopRenewal, Joined, Acknowledge, FailRead,
               FailJob, Renew, RenewErrs, SlotDies, StartHandler, LogRenewed, LogOutcome,
               ResetSlot, TypeOK
    <2> QED BY <2>1, <2>2, OnlySlot
<1>q. ASSUME events'[j] = events[j], state'[j] = state[j],
             SlotOwes(w, j)' <=> SlotOwes(w, j),
             SlotOwes(w, j) => SlotEvent(w)' = SlotEvent(w) /\ SlotEvent(w) \in EventTypes
      PROVE  Goal
    <2>1. DueNext(w, j) = Due(w, j)
        BY <1>q, SlotDue
    <2> QED BY <1>o, <1>q, <1>t, <2>1, Quietly
<1>n. ASSUME events'[j] = events[j], state'[j] = state[j], ~SlotOwes(w, j), ~SlotOwes(w, j)'
      PROVE  Goal
    BY <1>n, <1>q
<1>s. ASSUME NEW t \in EventTypes, events'[j] = events[j], state'[j] = FirstEventState[t],
             Debts(j) = {}, SlotOwes(w, j)', SlotEvent(w)' = t,
             state[j] # "unborn", CanFollow(state[j], t)
      PROVE  Goal
    <2>1. DueNext(w, j) = {t}
        BY <1>s, SlotDue
    <2> QED BY <1>o, <1>s, <1>t, <2>1, Opened
<1>a. ASSUME NEW t \in EventTypes, Log(wjob[w], t), wjob[w] \in Jobs, state'[j] = state[j],
             SlotOwes(w, wjob[w]), SlotEvent(w) = t, \A i \in Jobs : ~SlotOwes(w, i)'
      PROVE  Goal
    <2>1. CASE wjob[w] # j
        <3>1. events'[j] = events[j] /\ ~SlotOwes(w, j)
            BY <1>a, <2>1 DEF Log, SlotOwes
        <3> QED BY <1>a, <1>n, <3>1
    <2>2. CASE wjob[w] = j
        <3>1. events'[j] = Append(events[j], t)
            BY <1>a, <2>2 DEF Log
        <3>2. t \in Due(w, j) /\ DueNext(w, j) = {}
            BY <1>a, <2>2, SlotDue
        <3> QED BY <1>a, <1>o, <1>t, <3>1, <3>2, Paid
    <2> QED BY <2>1, <2>2
<1>1. ASSUME LeaseJob(w), events' = events PROVE Goal
    <2>1. PICK i \in Jobs : Ready(i) /\ state' = [state EXCEPT ![i] = "leased"]
                              /\ wjob' = [wjob EXCEPT ![w] = i]
        BY <1>1 DEF LeaseJob
    <2>2. /\ wpc[w] = "idle" /\ wpc'[w] = "logLeased" /\ wjob'[w] = i /\ wrn' = wrn
          /\ state[i] = "pending" /\ state'[i] = "leased" /\ wrn[w] # "log"
        BY <1>t, <1>p, <1>1, <2>1 DEF LeaseJob, Ready, TypeOK
    <2>3. CASE i # j
        BY <1>1, <1>n, <1>t, <2>1, <2>2, <2>3 DEF SlotOwes, DebtSteps, TypeOK
    <2>4. CASE i = j
        <3>1. Debts(j) = {}
            BY <2>2, <2>4, Undisturbed
        <3>2. SlotOwes(w, j)' /\ SlotEvent(w)' = "leased"
            BY <2>2, <2>4 DEF SlotOwes, SlotEvent, DebtSteps
        <3>3. "leased" \in EventTypes /\ FirstEventState["leased"] = "leased"
                /\ CanFollow("pending", "leased")
            BY DEF EventTypes, FirstEventState, CanFollow, FollowsState
        <3> QED BY <1>1, <1>s, <2>2, <2>4, <3>1, <3>2, <3>3
    <2> QED BY <2>3, <2>4
<1>2. ASSUME StartHandler(w), Log(wjob[w], "leased") PROVE Goal
    <2>1. /\ wpc[w] = "logLeased" /\ wpc'[w] = "running" /\ wrn'[w] = "armed" /\ wjob' = wjob
          /\ state' = state /\ wjob[w] \in Jobs /\ wrn[w] # "log"
        BY <1>t, <1>p, <1>2 DEF StartHandler, jobVars, TypeOK
    <2>2. /\ SlotOwes(w, wjob[w]) /\ SlotEvent(w) = "leased" /\ \A i \in Jobs : ~SlotOwes(w, i)'
          /\ "leased" \in EventTypes
        BY <2>1 DEF SlotOwes, SlotEvent, DebtSteps, EventTypes
    <2> QED BY <1>2, <1>a, <2>1, <2>2
<1>3. ASSUME LogRenewed(w), Log(wjob[w], "lease_renewed") PROVE Goal
    <2>1. /\ wrn[w] = "log" /\ wrn'[w] = "armed" /\ wjob' = wjob /\ wpc' = wpc
          /\ state' = state /\ wpc[w] \in {"running", "joinOk", "joinErr"} /\ wjob[w] \in Jobs
        BY <1>t, <1>p, <1>3 DEF LogRenewed, jobVars, TypeOK
    <2>2. /\ SlotOwes(w, wjob[w]) /\ SlotEvent(w) = "lease_renewed"
          /\ \A i \in Jobs : ~SlotOwes(w, i)'
          /\ "lease_renewed" \in EventTypes
        BY <2>1 DEF SlotOwes, SlotEvent, DebtSteps, EventTypes
    <2> QED BY <1>3, <1>a, <2>1, <2>2
<1>4. ASSUME LogOutcome(w), Log(wjob[w], OutcomeEvent[wpc[w]]) PROVE Goal
    <2>1. /\ wpc[w] \in {"logAcked", "logRetried", "logBuried"} /\ wpc'[w] = "idle"
          /\ wjob'[w] = NoJob /\ wrn[w] # "log"
          /\ state' = state /\ wjob[w] \in Jobs
        BY <1>t, <1>p, <1>4 DEF LogOutcome, ResetSlot, jobVars, TypeOK
    <2>2. /\ SlotOwes(w, wjob[w]) /\ SlotEvent(w) = OutcomeEvent[wpc[w]]
          /\ \A i \in Jobs : ~SlotOwes(w, i)'
        BY <1>t, <2>1 DEF SlotOwes, SlotEvent, DebtSteps
    <2>3. OutcomeEvent[wpc[w]] \in EventTypes
        BY <2>1 DEF OutcomeEvent, EventTypes
    <2> QED BY <1>4, <1>a, <2>1, <2>2, <2>3
<1>5. ASSUME Acknowledge(w) \/ FailJob(w), events' = events PROVE Goal
    <2>0. wpc[w] \in {"ack", "retry", "bury"} /\ wjob[w] \in Jobs /\ wrn[w] # "log"
        BY <1>5, <1>t, <1>p DEF Acknowledge, FailJob
    <2>1. CASE ~Fence(wjob[w], wtok[w])
        <3>1. ResetSlot(w) /\ state' = state
            BY <1>5, <2>1 DEF Acknowledge, FailJob, jobVars
        <3> QED BY <1>5, <1>n, <1>t, <2>0, <3>1 DEF ResetSlot, SlotOwes, DebtSteps, TypeOK
    <2>2. CASE Fence(wjob[w], wtok[w])
        <3>1. PICK next \in {"completed", "pending", "dead_letter"} :
                /\ state' = [state EXCEPT ![wjob[w]] = next]
                /\ wpc' = [wpc EXCEPT ![w] = CASE next = "completed" -> "logAcked"
                                               [] next = "pending"   -> "logRetried"
                                               [] OTHER              -> "logBuried"]
            BY <1>5, <2>2 DEF Acknowledge, FailJob, EndLease
        <3>2. wjob' = wjob /\ wrn' = wrn /\ state[wjob[w]] = "leased"
            BY <1>5, <2>2 DEF Acknowledge, FailJob, Fence
        <3>3. CASE wjob[w] # j
            BY <1>5, <1>n, <1>t, <2>0, <3>1, <3>2, <3>3 DEF SlotOwes, TypeOK
        <3>4. CASE wjob[w] = j
            <4> DEFINE t == CASE next = "completed" -> "acknowledged"
                              [] next = "pending"   -> "retried"
                              [] OTHER              -> "dead_lettered"
            <4>1. state'[j] = next /\ state[j] = "leased"
                BY <1>t, <3>1, <3>2, <3>4 DEF TypeOK
            <4>2. SlotOwes(w, j)' /\ SlotEvent(w)' = t
                BY <1>t, <2>0, <3>1, <3>2, <3>4
                DEF SlotOwes, SlotEvent, DebtSteps, OutcomeEvent, TypeOK
            <4>3. t \in EventTypes /\ FirstEventState[t] = next /\ CanFollow("leased", t)
                BY <3>1 DEF EventTypes, FirstEventState, CanFollow, FollowsState
            <4>4. Debts(j) = {}
                BY <3>1, <4>1, Undisturbed
            <4> HIDE DEF t
            <4> QED BY <1>5, <1>s, <4>1, <4>2, <4>3, <4>4
        <3> QED BY <3>3, <3>4
    <2> QED BY <2>1, <2>2
<1>6. ASSUME \/ HandlerReturns(w) \/ StopRenewal(w) \/ Joined(w) \/ FailRead(w), events' = events
      PROVE  Goal
    <2>1. state' = state
        BY <1>6 DEF HandlerReturns, StopRenewal, Joined, FailRead, jobVars
    <2>2. SlotOwes(w, j)' <=> SlotOwes(w, j)
        BY <1>6, <1>t, <1>p DEF HandlerReturns, StopRenewal, Joined, FailRead, ResetSlot,
                                SlotOwes, DebtSteps, TypeOK
    <2>3. SlotOwes(w, j) =>
            SlotEvent(w)' = SlotEvent(w) /\ SlotEvent(w) \in EventTypes
        BY <1>6, <1>t, <1>p DEF HandlerReturns, StopRenewal, Joined, FailRead, ResetSlot,
                                SlotOwes, SlotEvent, DebtSteps, EventTypes, TypeOK
    <2> QED BY <1>6, <1>q, <2>1, <2>2, <2>3
<1>7. ASSUME RenewErrs(w) \/ SlotDies(w), events' = events PROVE Goal
    <2>1. state' = state /\ ~SlotOwes(w, j)'
        BY <1>7, <1>t, <1>p DEF RenewErrs, SlotDies, ResetSlot, jobVars, SlotOwes, DebtSteps, TypeOK
    <2>2. ~SlotOwes(w, j)
        <3> SUFFICES ASSUME SlotOwes(w, j) PROVE FALSE
            OBVIOUS
        <3>1. w \in Debtors(j)
            BY DEF Debtors, SlotOwes, DebtSteps
        <3>2. w \in Debtors(j)'
            BY <1>7, <3>1, Undisturbed
        <3> QED BY <2>1, <3>2, EventAssumption DEF Debtors, SlotOwes, DebtSteps
    <2> QED BY <1>7, <1>n, <2>1, <2>2
<1>8. ASSUME Renew(w), events' = events PROVE Goal
    <2>1. /\ wrn[w] = "armed" /\ state' = state /\ wpc' = wpc /\ wjob' = wjob
          /\ wjob[w] \in Jobs /\ wpc[w] \in {"running", "joinOk", "joinErr"}
        BY <1>8, <1>t, <1>p DEF Renew
    <2>2. ~SlotOwes(w, j)
        BY <2>1 DEF SlotOwes, DebtSteps
    <2>3. CASE wjob[w] # j \/ ~Fence(wjob[w], wtok[w])
        BY <1>8, <1>n, <1>t, <2>1, <2>2, <2>3 DEF Renew, SlotOwes, DebtSteps, TypeOK
    <2>4. CASE wjob[w] = j /\ Fence(wjob[w], wtok[w])
        <3>1. state[j] = "leased" /\ token[j] = wtok[w] /\ wtok[w] # NullToken
            BY <2>1, <2>4 DEF Fence, LeaseInv, SlotTokens
        <3>2. SlotOwes(w, j)' /\ SlotEvent(w)' = "lease_renewed"
            BY <1>8, <1>t, <2>1, <2>4 DEF Renew, SlotOwes, SlotEvent, TypeOK
        <3>3. /\ "lease_renewed" \in EventTypes /\ FirstEventState["lease_renewed"] = "leased"
              /\ CanFollow("leased", "lease_renewed")
            BY DEF EventTypes, FirstEventState, CanFollow, FollowsState
        <3>4. Debts(j) = {}
            <4> SUFFICES ASSUME NEW d \in Debts(j) PROVE FALSE
                OBVIOUS
            <4>1. PICK x \in Callers : \E t \in Due(x, j) : d = <<x, t>>
                BY InDebt
            <4>2. PICK t \in Due(x, j) : d = <<x, t>>
                BY <4>1
            <4>3. FirstEventState[t] = "leased"
                BY <3>1, <4>2, StoryOwes
            <4>4. t \in {"leased", "lease_renewed"}
                BY <4>3 DEF FirstEventState, Due
            <4>5. x \notin Clients
                BY <4>4, EventAssumption DEF Due, ClientEvent
            <4>6. x \notin Recoverers
                <5> SUFFICES ASSUME x \in Recoverers PROVE FALSE
                    OBVIOUS
                <5>1. x \notin Workers /\ x \notin Clients
                    BY EventAssumption
                <5>2. PICK e \in recovered[x] : t = RecoveryEvent[e.state]
                    BY <5>1 DEF Due
                <5>3. e.state \in {"pending", "dead_letter"}
                    BY <1>t DEF TypeOK, Report
                <5> QED BY <4>4, <5>2, <5>3 DEF RecoveryEvent
            <4>7. x \in Workers /\ SlotOwes(x, j)
                BY <4>5, <4>6 DEF Callers, Due
            <4>8. wtok[x] = wtok[w]
                BY <3>1, <4>7 DEF Fresh
            <4>9. x = w
                BY <3>1, <4>7, <4>8 DEF LeaseInv, SlotTokens
            <4> QED BY <2>2, <4>7, <4>9
        <3> QED BY <1>8, <1>s, <2>1, <3>1, <3>2, <3>3, <3>4
    <2> QED BY <2>3, <2>4
<1> QED BY <1>1, <1>2, <1>3, <1>4, <1>5, <1>6, <1>7, <1>8

-----------------------------------------------------------------------------
(* What the steps of a client and of a recovery do to the story of job j *)

(* A client owes one event at most. *)
LEMMA ClientDue ==
    ASSUME NEW c \in Clients, NEW j
    PROVE  /\ ~ClientOwes(c, j) => Due(c, j) = {}
           /\ ClientOwes(c, j) => Due(c, j) = {ClientEvent(c)}
           /\ ~ClientOwes(c, j)' => DueNext(c, j) = {}
           /\ ClientOwes(c, j)' => DueNext(c, j) = {ClientEvent(c)'}
<1>1. c \notin Workers /\ c \notin Recoverers
    BY EventAssumption
<1>2. Due(c, j) = {t \in EventTypes : ClientOwes(c, j) /\ t = ClientEvent(c)}
    BY <1>1 DEF Due
<1>3. DueNext(c, j) = {t \in EventTypes : ClientOwes(c, j)' /\ t = ClientEvent(c)'}
    BY <1>1 DEF DueNext, Due
<1>4. ClientEvent(c) \in EventTypes /\ ClientEvent(c)' \in EventTypes
    BY DEF ClientEvent, EventTypes
<1> QED BY <1>2, <1>3, <1>4

(* The event that a client owes depends on the run-at column of its job.   *)
LEMMA OnlyClient ==
    ASSUME NEW c \in Clients, NEW j, UNCHANGED <<wpc, wjob, wrn, recovered>>,
           \A d \in Clients : d # c => cpc'[d] = cpc[d] /\ cjob'[d] = cjob[d],
           runAt'[j] = runAt[j] \/ Debtors(j) = {}
    PROVE  Only(c, j)
<1> SUFFICES ASSUME NEW x \in Callers, x # c PROVE DueNext(x, j) = Due(x, j)
    BY DEF Only
<1>1. x \in Workers => (SlotOwes(x, j)' <=> SlotOwes(x, j)) /\ SlotEvent(x)' = SlotEvent(x)
    BY DEF SlotOwes, SlotEvent
<1>2. x \in Clients => (ClientOwes(x, j)' <=> ClientOwes(x, j))
    BY DEF ClientOwes
<1>3. x \in Clients /\ ClientOwes(x, j) => ClientEvent(x)' = ClientEvent(x)
    <2> SUFFICES ASSUME x \in Clients, ClientOwes(x, j) PROVE ClientEvent(x)' = ClientEvent(x)
        OBVIOUS
    <2>1. runAt'[j] = runAt[j]
        BY DEF Debtors, ClientOwes
    <2> QED BY <2>1 DEF ClientEvent, ClientOwes
<1> QED BY <1>1, <1>2, <1>3 DEF Due, DueNext

LEMMA ClientStory ==
    ASSUME LeaseInv, NEW j \in Jobs, events \in [Jobs -> Seq(EventTypes)],
           Records, j \notin disturbed', Story(Debts(j), events[j], state[j]),
           NEW c \in Clients,
           \/ (Enqueue(c) \/ Requeue(c) \/ RequeueJob(c) \/ ClientDies(c)) /\ events' = events
           \/ LogClient(c) /\ Log(cjob[c], ClientEvent(c))
    PROVE  Story(DebtsNext(j), events'[j], state'[j])
<1> DEFINE Goal == Story(DebtsNext(j), events'[j], state'[j])
<1>t. TypeOK /\ NoJob \notin Jobs /\ c \in Callers
    BY LeaseAssumption DEF LeaseInv, Callers
<1>f. /\ UNCHANGED <<wpc, wjob, wrn, recovered>>
      /\ \A d \in Clients : d # c => cpc'[d] = cpc[d] /\ cjob'[d] = cjob[d]
    BY <1>t DEF Enqueue, Requeue, RequeueJob, ClientDies, LogClient, ResetClient,
                slotVars, recVars, TypeOK
<1>o. ASSUME runAt'[j] = runAt[j] \/ Debtors(j) = {} PROVE Only(c, j)
    BY <1>f, <1>o, OnlyClient
<1>n. ASSUME events'[j] = events[j], state'[j] = state[j], runAt'[j] = runAt[j],
             ~ClientOwes(c, j), ~ClientOwes(c, j)'
      PROVE  Goal
    <2>1. DueNext(c, j) = Due(c, j)
        BY <1>n, ClientDue
    <2> QED BY <1>n, <1>o, <1>t, <2>1, Quietly
<1>1. ASSUME Enqueue(c), events' = events PROVE Goal
    <2>1. PICK i \in Jobs : \E ra \in RunAts :
            /\ state[i] = "unborn"
            /\ state' = [state EXCEPT ![i] = "pending"]
            /\ runAt' = [runAt EXCEPT ![i] = ra]
            /\ cjob' = [cjob EXCEPT ![c] = i]
        BY <1>1 DEF Enqueue
    <2>2. cpc[c] = "idle" /\ cpc'[c] = "logEnqueued" /\ cjob'[c] = i
        BY <1>1, <1>t, <2>1 DEF Enqueue, TypeOK
    <2>3. CASE i # j
        BY <1>1, <1>n, <1>t, <2>1, <2>2, <2>3 DEF ClientOwes, TypeOK
    <2>4. CASE i = j
        <3>1. state[j] = "unborn" /\ state'[j] = "pending"
            BY <1>t, <2>1, <2>4 DEF TypeOK
        <3>2. Debtors(j) = {} /\ Debts(j) = {}
            BY <3>1, NothingDue DEF Records, Owed
        <3>3. PICK t \in {"enqueued", "scheduled"} : ClientEvent(c)' = t
            BY <2>2 DEF ClientEvent
        <3>4. DueNext(c, j) = {t}
            BY <2>2, <2>4, <3>3, ClientDue DEF ClientOwes
        <3>5. t \in EventTypes /\ FirstEventState[t] = "pending"
            BY DEF EventTypes, FirstEventState
        <3> QED BY <1>1, <1>o, <1>t, <3>1, <3>2, <3>4, <3>5, Opened
    <2> QED BY <2>3, <2>4
<1>2. ASSUME Requeue(c), events' = events PROVE Goal
    BY <1>2, <1>n, <1>t DEF Requeue, ClientOwes, jobVars, TypeOK
<1>3. ASSUME RequeueJob(c), events' = events PROVE Goal
    <2>1. cpc[c] = "requeue" /\ runAt' = runAt
        BY <1>3 DEF RequeueJob, jobVars
    <2>2. CASE ~CanRequeue(cjob[c])
        BY <1>3, <1>n, <1>t, <2>1, <2>2 DEF RequeueJob, ResetClient, ClientOwes, jobVars, TypeOK
    <2>3. CASE CanRequeue(cjob[c])
        <3>1. /\ state' = [state EXCEPT ![cjob[c]] = "pending"] /\ cjob' = cjob
              /\ cpc'[c] = "logRequeued" /\ state[cjob[c]] = "dead_letter"
            BY <1>3, <1>t, <2>3 DEF RequeueJob, CanRequeue, TypeOK
        <3>2. CASE cjob[c] # j
            BY <1>3, <1>n, <1>t, <2>1, <3>1, <3>2 DEF ClientOwes, TypeOK
        <3>3. CASE cjob[c] = j
            <4>1. state[j] = "dead_letter" /\ state'[j] = "pending"
                BY <1>t, <3>1, <3>3 DEF TypeOK
            <4>2. Debts(j) = {}
                BY <4>1, Undisturbed
            <4>3. ClientEvent(c)' = "requeued"
                BY <3>1 DEF ClientEvent
            <4>4. DueNext(c, j) = {"requeued"}
                BY <3>1, <3>3, <4>3, ClientDue DEF ClientOwes
            <4>5. /\ "requeued" \in EventTypes /\ FirstEventState["requeued"] = "pending"
                  /\ CanFollow("dead_letter", "requeued")
                BY DEF EventTypes, FirstEventState, CanFollow, FollowsState
            <4> QED BY <1>3, <1>o, <1>t, <2>1, <4>1, <4>2, <4>4, <4>5, Opened
        <3> QED BY <3>2, <3>3
    <2> QED BY <2>2, <2>3
<1>4. ASSUME LogClient(c), Log(cjob[c], ClientEvent(c)) PROVE Goal
    <2>1. /\ cpc[c] \in {"logEnqueued", "logRequeued"} /\ cpc'[c] = "idle"
          /\ state' = state /\ runAt' = runAt
        BY <1>4, <1>t DEF LogClient, ResetClient, jobVars, TypeOK
    <2>2. ~ClientOwes(c, j)'
        BY <2>1 DEF ClientOwes
    <2>3. CASE cjob[c] # j
        BY <1>4, <1>n, <2>1, <2>2, <2>3 DEF Log, ClientOwes
    <2>4. CASE cjob[c] = j
        <3>1. ClientEvent(c) \in Due(c, j) /\ DueNext(c, j) = {}
            BY <2>1, <2>2, <2>4, ClientDue DEF ClientOwes
        <3>2. events'[j] = Append(events[j], ClientEvent(c))
            BY <1>4, <2>4 DEF Log
        <3> QED BY <1>o, <1>t, <2>1, <3>1, <3>2, Paid
    <2> QED BY <2>3, <2>4
<1>5. ASSUME ClientDies(c), events' = events PROVE Goal
    <2>1. cpc'[c] = "idle" /\ state' = state /\ runAt' = runAt
        BY <1>5, <1>t DEF ClientDies, ResetClient, jobVars, TypeOK
    <2>2. ~ClientOwes(c, j)
        <3> SUFFICES ASSUME ClientOwes(c, j) PROVE FALSE
            OBVIOUS
        <3>1. c \in Debtors(j)
            BY DEF Debtors, ClientOwes
        <3>2. c \in Debtors(j)'
            BY <1>5, <3>1, Undisturbed
        <3> QED BY <2>1, <3>2, EventAssumption DEF Debtors
    <2> QED BY <1>5, <1>n, <2>1, <2>2 DEF ClientOwes
<1> QED BY <1>1, <1>2, <1>3, <1>4, <1>5

LEMMA RecoveryStory ==
    ASSUME LeaseInv, OneReport, NEW j \in Jobs, events \in [Jobs -> Seq(EventTypes)],
           Records, j \notin disturbed', Story(Debts(j), events[j], state[j]),
           NEW r \in Recoverers,
           \/ (Scan(r) \/ RecoverOne(r) \/ RecovererStops(r)) /\ events' = events
           \/ \E e \in recovered[r] :
                LogRecovered(r) /\ recovered'[r] = recovered[r] \ {e}
                    /\ Log(e.job, RecoveryEvent[e.state])
    PROVE  Story(DebtsNext(j), events'[j], state'[j])
<1> DEFINE Goal == Story(DebtsNext(j), events'[j], state'[j])
<1>t. TypeOK /\ r \in Callers
    BY DEF LeaseInv, Callers
<1>d. /\ Due(r, j) = {t \in EventTypes : \E e \in recovered[r] :
                            e.job = j /\ t = RecoveryEvent[e.state]}
      /\ DueNext(r, j) = {t \in EventTypes : \E e \in recovered'[r] :
                            e.job = j /\ t = RecoveryEvent[e.state]}
    <2>1. r \notin Clients /\ r \notin Workers
        BY EventAssumption
    <2> QED BY <2>1 DEF Due, DueNext
<1>o. Only(r, j)
    <2>1. UNCHANGED <<cpc, cjob, runAt, wpc, wjob, wrn>>
        BY DEF Scan, RecoverOne, RecovererStops, LogRecovered, EndLease, jobVars, slotVars,
               clientVars
    <2>2. \A q \in Recoverers : q # r => recovered'[q] = recovered[q]
        BY <1>t DEF Scan, RecoverOne, RecovererStops, LogRecovered, TypeOK
    <2> SUFFICES ASSUME NEW x \in Callers, x # r PROVE DueNext(x, j) = Due(x, j)
        BY DEF Only
    <2>3. /\ SlotOwes(x, j)' <=> SlotOwes(x, j)
          /\ SlotEvent(x)' = SlotEvent(x)
          /\ ClientOwes(x, j)' <=> ClientOwes(x, j)
          /\ ClientEvent(x)' = ClientEvent(x)
        BY <2>1 DEF SlotOwes, SlotEvent, ClientOwes, ClientEvent
    <2> QED BY <2>2, <2>3 DEF Due, DueNext
<1>n. ASSUME events'[j] = events[j], state'[j] = state[j],
             \A e : e.job = j => (e \in recovered[r] <=> e \in recovered'[r])
      PROVE  Goal
    <2>1. DueNext(r, j) = Due(r, j)
        BY <1>n, <1>d
    <2> QED BY <1>n, <1>o, <1>t, <2>1, Quietly
<1>1. ASSUME Scan(r), events' = events PROVE Goal
    BY <1>1, <1>n DEF Scan, jobVars
<1>2. ASSUME RecoverOne(r), events' = events PROVE Goal
    <2>1. PICK o \in orphans[r] :
            \/ /\ CanRecover(o)
               /\ LET next == IF Exhausted(o) THEN "dead_letter" ELSE "pending" IN
                    /\ EndLease(o.job, next, o.retry + 1)
                    /\ recovered' = [recovered EXCEPT ![r] =
                                        @ \cup {[job |-> o.job, state |-> next]}]
            \/ UNCHANGED <<jobVars, recovered>>
        BY <1>2 DEF RecoverOne
    <2>2. o.job \in Jobs
        BY <1>t DEF TypeOK, Orphan
    <2>3. CASE UNCHANGED <<jobVars, recovered>>
        BY <1>2, <1>n, <2>3 DEF jobVars
    <2>4. ASSUME NEW next \in {"dead_letter", "pending"}, CanRecover(o),
                 EndLease(o.job, next, o.retry + 1),
                 recovered' = [recovered EXCEPT ![r] = @ \cup {[job |-> o.job, state |-> next]}]
          PROVE  Goal
        <3>1. /\ state[o.job] = "leased" /\ state' = [state EXCEPT ![o.job] = next]
              /\ recovered'[r] = recovered[r] \cup {[job |-> o.job, state |-> next]}
            BY <1>t, <2>4 DEF CanRecover, EndLease, TypeOK
        <3>2. CASE o.job # j
            BY <1>2, <1>n, <1>t, <2>2, <3>1, <3>2 DEF TypeOK
        <3>3. CASE o.job = j
            <4> DEFINE t == RecoveryEvent[next]
            <4>1. \A e \in recovered[r] : e.job # j
                BY <3>3 DEF OneReport
            <4>2. state[j] = "leased" /\ state'[j] = next
                BY <1>t, <3>1, <3>3 DEF TypeOK
            <4>3. t \in EventTypes /\ FirstEventState[t] = next /\ CanFollow("leased", t)
                BY DEF RecoveryEvent, EventTypes, FirstEventState, CanFollow, FollowsState
            <4>4. DueNext(r, j) = {t}
                <5>1. \E n : n \in recovered'[r] /\ n.job = j /\ n.state = next
                            /\ \A e \in recovered'[r] : e.job = j => e = n
                    <6> DEFINE n == [job |-> o.job, state |-> next]
                    <6>1. n.job = j /\ n.state = next
                        BY <3>3
                    <6>2. n \in recovered'[r] /\ \A e \in recovered'[r] : e.job = j => e = n
                        BY <3>1, <4>1
                    <6> HIDE DEF n
                    <6> QED BY <6>1, <6>2
                <5> QED BY <1>d, <4>3, <5>1
            <4>5. Debts(j) = {}
                BY <4>2, Undisturbed
            <4> HIDE DEF t
            <4> QED BY <1>2, <1>o, <1>t, <4>2, <4>3, <4>4, <4>5, Opened
        <3> QED BY <3>2, <3>3
    <2> QED BY <2>1, <2>3, <2>4
<1>3. ASSUME NEW e \in recovered[r], LogRecovered(r), recovered'[r] = recovered[r] \ {e},
             Log(e.job, RecoveryEvent[e.state])
      PROVE  Goal
    <2> DEFINE t == RecoveryEvent[e.state]
    <2>1. state' = state /\ t \in EventTypes
        <3>1. e.state \in {"pending", "dead_letter"}
            BY <1>t DEF TypeOK, Report
        <3> QED BY <1>3, <3>1 DEF LogRecovered, jobVars, RecoveryEvent, EventTypes
    <2>2. CASE e.job # j
        <3>1. events'[j] = events[j]
            BY <1>3, <2>2 DEF Log
        <3> QED BY <1>3, <1>n, <2>1, <2>2, <3>1
    <2>3. CASE e.job = j
        <3>1. t \in Due(r, j)
            BY <1>d, <2>1, <2>3
        <3>2. \A d \in recovered[r] : d.job = j => d = e
            BY <2>3 DEF OneReport
        <3>3. DueNext(r, j) = {}
            BY <1>3, <1>d, <3>2
        <3>4. events'[j] = Append(events[j], t)
            BY <1>3, <2>3 DEF Log
        <3> HIDE DEF t
        <3> QED BY <1>o, <1>t, <2>1, <3>1, <3>3, <3>4, Paid
    <2> QED BY <2>2, <2>3
<1>4. ASSUME RecovererStops(r), events' = events PROVE Goal
    <2>1. state' = state /\ recovered'[r] = {}
        BY <1>4, <1>t DEF RecovererStops, jobVars, TypeOK
    <2>2. \A e \in recovered[r] : e.job # j
        <3> SUFFICES ASSUME NEW e \in recovered[r], e.job = j PROVE FALSE
            OBVIOUS
        <3>1. r \in Debtors(j)
            BY DEF Debtors
        <3>2. r \in Debtors(j)'
            BY <1>4, <3>1, Undisturbed
        <3> QED BY <2>1, <3>2, EventAssumption DEF Debtors
    <2> QED BY <1>4, <1>n, <2>1, <2>2
<1> QED BY <1>1, <1>2, <1>3, <1>4

LEMMA HistoryInit == LogInit => HistoryInv
<1> SUFFICES ASSUME LogInit PROVE HistoryInv
    OBVIOUS
<1>1. /\ events = [j \in Jobs |-> <<>>] /\ state = [j \in Jobs |-> "unborn"]
      /\ \A w \in Workers : wpc[w] = "idle" /\ wrn[w] = "off"
      /\ \A c \in Clients : cpc[c] = "idle"
      /\ \A r \in Recoverers : recovered[r] = {}
    BY DEF LogInit, Init
<1>2. \A j \in Jobs : Debtors(j) = {}
    BY <1>1 DEF Debtors
<1>3. \A j \in Jobs : Debts(j) = {}
    BY <1>2, NothingDue
<1> QED BY <1>1, <1>3 DEF HistoryInv, Phases, Fresh, Story

(* Every step continues the story of a job that is not disturbed. *)
LEMMA HistoryStep ==
    LeaseInv /\ OneReport /\ events \in [Jobs -> Seq(EventTypes)] /\ HistoryInv
        /\ [LogNext]_allVars => HistoryInv'
<1> SUFFICES ASSUME LeaseInv, OneReport, events \in [Jobs -> Seq(EventTypes)], HistoryInv,
                    [LogNext]_allVars
             PROVE  HistoryInv'
    OBVIOUS
<1>1. [Next]_vars
    BY LogStep
<1>2. Phases'
    BY <1>1, PhasesStep DEF HistoryInv, LeaseInv
<1>3. ASSUME NEW j \in Jobs, j \notin disturbed', state'[j] # "deleted"
      PROVE  Story(DebtsNext(j), events'[j], state'[j]) /\ Fresh(j)'
    <2> DEFINE Goal == Story(DebtsNext(j), events'[j], state'[j])
    <2>1. state[j] # "deleted"
        BY <1>1, <1>3, DeletedStays DEF LeaseInv
    <2>2. j \notin disturbed
        BY <1>3 DEF LogNext, CalmNext, Records, allVars, logVars
    <2>3. Story(Debts(j), events[j], state[j]) /\ Fresh(j) /\ Phases
        BY <2>1, <2>2 DEF HistoryInv
    <2>4. Fresh(j)'
        <3>1. state'[j] # state[j] => Debtors(j) = {}
            BY <1>3 DEF LogNext, CalmNext, Records, Owed, allVars, vars, jobVars
        <3> QED BY <1>1, <2>3, <3>1, FreshStep
    <2>5. ASSUME UNCHANGED <<state, runAt, wpc, wjob, wrn, recovered, cpc, cjob>>
          PROVE  DebtsNext(j) = Debts(j)
        BY <2>5, SameDebts
    <2>6. CASE UNCHANGED allVars
        BY <2>3, <2>4, <2>5, <2>6
        DEF allVars, logVars, vars, jobVars, slotVars, recVars, clientVars
    <2>7. CASE AppendsEvent /\ Records
        BY <1>3, <2>3, <2>4, <2>7, SlotStory, ClientStory, RecoveryStory DEF AppendsEvent
    <2>8. CASE PruneEvents /\ Records
        <3>1. PICK cap \in EventCaps :
                /\ Prune \/ UNCHANGED vars
                /\ events' = [i \in Jobs |->
                                IF state[i] # state'[i] THEN <<>> ELSE Newest(events[i], cap)]
            BY <2>8 DEF PruneEvents
        <3>2. /\ UNCHANGED <<runAt, wpc, wjob, wrn, recovered, cpc, cjob>>
              /\ state'[j] = state[j]
            BY <1>3, <3>1 DEF Prune, vars, jobVars, slotVars, recVars, clientVars
        <3>3. DebtsNext(j) = Debts(j)
            BY <3>2, SameDebts
        <3>4. events'[j] = Newest(events[j], cap) /\ cap \in Nat /\ events[j] \in Seq(EventTypes)
            BY <3>1, <3>2, EventAssumption
        <3>5. Goal
            BY <2>3, <3>2, <3>3, <3>4, StoryTrimmed
        <3> QED BY <2>4, <3>5
    <2>9. CASE Silent /\ Records
        <3>1. ASSUME Tick PROVE Goal
            BY <2>3, <2>5, <2>9, <3>1 DEF Silent, Tick, jobVars, slotVars, recVars, clientVars
        <3>2. ASSUME NEW c \in Clients, Enqueue(c) \/ Requeue(c) \/ RequeueJob(c) PROVE Goal
            BY <1>3, <2>3, <2>9, <3>2, ClientStory DEF Silent
        <3>3. ASSUME NEW w \in Workers,
                     \/ LeaseJob(w) \/ HandlerReturns(w) \/ StopRenewal(w) \/ Joined(w)
                     \/ Acknowledge(w) \/ FailRead(w) \/ FailJob(w) \/ Renew(w)
              PROVE  Goal
            BY <1>3, <2>3, <2>9, <3>3, SlotStory DEF Silent
        <3>4. ASSUME NEW r \in Recoverers, Scan(r) \/ RecoverOne(r) PROVE Goal
            BY <1>3, <2>3, <2>9, <3>4, RecoveryStory DEF Silent
        <3> QED BY <2>4, <2>9, <3>1, <3>2, <3>3, <3>4 DEF Silent
    <2>10. CASE Deaths /\ Records
        <3>1. ASSUME NEW c \in Clients, ClientDies(c) PROVE Goal
            BY <1>3, <2>3, <2>10, <3>1, ClientStory DEF Deaths
        <3>2. ASSUME NEW w \in Workers, SlotDies(w) \/ RenewErrs(w) PROVE Goal
            BY <1>3, <2>3, <2>10, <3>2, SlotStory DEF Deaths
        <3>3. ASSUME NEW r \in Recoverers, RecovererStops(r) PROVE Goal
            BY <1>3, <2>3, <2>10, <3>3, RecoveryStory DEF Deaths
        <3> QED BY <2>4, <2>10, <3>1, <3>2, <3>3 DEF Deaths
    <2> QED BY <2>6, <2>7, <2>8, <2>9, <2>10 DEF LogNext, CalmNext
<1> QED BY <1>2, <1>3 DEF HistoryInv, DebtsNext

(* The verifier accepts the history of every job whose events were         *)
(* appended before the next statement changed its state, trimmed or not.   *)
THEOREM UndisturbedVerifiesHolds == LogSpec => []UndisturbedVerifies
<1>1. HistoryInv /\ events \in [Jobs -> Seq(EventTypes)] => UndisturbedVerifies
    <2> SUFFICES ASSUME HistoryInv, events \in [Jobs -> Seq(EventTypes)],
                        NEW j \in Jobs \ disturbed, state[j] \notin {"unborn", "deleted"},
                        ~Owed(j)
                 PROVE  Verifies(events[j], state[j])
        BY DEF UndisturbedVerifies
    <2>1. Debts(j) = {}
        BY NothingDue DEF Owed
    <2>2. Good(events[j], state[j])
        BY <2>1 DEF HistoryInv, Story
    <2> QED BY <2>2, GoodVerifies
<1>2. LogSpec => []LeaseInv
    BY LogImplementsProtocol, LeaseInvariant, PTL
<1>3. LogSpec => []LogTypeOK
    BY LogTypeCorrect
<1>4. LogTypeOK => events \in [Jobs -> Seq(EventTypes)]
    BY DEF LogTypeOK
<1>5. LeaseInv /\ OneReport /\ [LogNext]_allVars => OneReport'
    BY LogStep, OneReportStep DEF LeaseInv
<1> QED BY <1>1, <1>2, <1>3, <1>4, <1>5, BooksInit, HistoryInit, HistoryStep, PTL DEF LogSpec
=============================================================================
