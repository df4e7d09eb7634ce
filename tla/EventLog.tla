------------------------------ MODULE EventLog ------------------------------
(***************************************************************************)
(* The event log beside the lease protocol: every log step of a caller in  *)
(* LeaseProtocol appends a row to the events table, and a prune            *)
(* transaction removes the events of the jobs it deletes and trims the     *)
(* logs of the others.  An event is its type: the log of a job is the      *)
(* history that the export writes for it.                                  *)
(***************************************************************************)
EXTENDS LeaseProtocol, Archive

CONSTANTS
    EventCaps,      \* values of MaxEventsPerJob, 0 for no limit
    MaxEvents       \* bound: no renewal begins once a job has so many events

(* There are finitely many callers, and each is of one kind. *)
ASSUME EventAssumption ==
    /\ EventCaps \subseteq Nat /\ MaxEvents \in Nat
    /\ IsFiniteSet(Clients) /\ IsFiniteSet(Workers) /\ IsFiniteSet(Recoverers)
    /\ Clients \cap Workers = {} /\ Clients \cap Recoverers = {}
    /\ Workers \cap Recoverers = {}

VARIABLES
    events,     \* the rows of the events table of each job, in id order
    \* history: the jobs whose state changed before an earlier change was
    \* logged, or whose event was dropped; the jobs that miss an event
    disturbed, lost

logVars == <<events, disturbed, lost>>
allVars == <<vars, logVars>>

-----------------------------------------------------------------------------

LogTypeOK ==
    /\ TypeOK
    /\ events \in [Jobs -> Seq(EventTypes)]
    /\ disturbed \in SUBSET Jobs
    /\ lost \in SUBSET Jobs

LogInit ==
    /\ Init
    /\ events = [j \in Jobs |-> <<>>]
    /\ disturbed = {}
    /\ lost = {}

(* AppendEvent *)
Log(j, type) == events' = [events EXCEPT ![j] = Append(@, type)]

-----------------------------------------------------------------------------
(* The statements that append an event *)

ClientEvent(c) ==
    IF cpc[c] = "logRequeued" THEN "requeued"
    ELSE IF runAt[cjob[c]] = NullTime THEN "enqueued" ELSE "scheduled"

OutcomeEvent ==
    [logAcked |-> "acknowledged", logRetried |-> "retried", logBuried |-> "dead_lettered"]

(* Mutant: a recovery is logged as recovered, also when the job died. *)
RecoveryEventAlike == [pending |-> "recovered", dead_letter |-> "recovered"]

(* The event of a recovery tells what became of the job. *)
RecoveryEvent == [pending |-> "recovered", dead_letter |-> "dead_lettered"]

AppendsEvent ==
    \/ \E c \in Clients : LogClient(c) /\ Log(cjob[c], ClientEvent(c))
    \/ \E w \in Workers :
        \/ StartHandler(w) /\ Log(wjob[w], "leased")
        \/ LogRenewed(w) /\ Log(wjob[w], "lease_renewed")
        \/ LogOutcome(w) /\ Log(wjob[w], OutcomeEvent[wpc[w]])
    \/ \E r \in Recoverers : \E e \in recovered[r] :
        /\ LogRecovered(r)
        /\ recovered'[r] = recovered[r] \ {e}
        /\ Log(e.job, RecoveryEvent[e.state])

(* The newest n events of a log, all of them if n is zero. *)
Newest(log, n) ==
    IF n = 0 \/ Len(log) <= n THEN log ELSE SubSeq(log, Len(log) - n + 1, Len(log))

(* The prune transaction: the events go with the jobs that it deletes, and *)
(* the cap applies to the rows of all jobs, even of those deleted before.  *)
PruneEvents ==
    \E cap \in EventCaps :
        /\ Prune \/ (cap # 0 /\ UNCHANGED vars)
        /\ events' = [j \in Jobs |->
                        IF state[j] # state'[j] THEN <<>> ELSE Newest(events[j], cap)]

(* The other statements, of callers that neither die nor meet an error. *)
Silent ==
    /\ \/ Tick
       \/ \E c \in Clients : Enqueue(c) \/ Requeue(c) \/ RequeueJob(c)
       \/ \E w \in Workers :
            \/ LeaseJob(w) \/ HandlerReturns(w) \/ StopRenewal(w) \/ Joined(w)
            \/ Acknowledge(w) \/ FailRead(w) \/ FailJob(w)
            \/ Renew(w) /\ Len(events[wjob[w]]) < MaxEvents
       \/ \E r \in Recoverers : Scan(r) \/ RecoverOne(r)
    /\ UNCHANGED events

Deaths ==
    /\ \/ \E c \in Clients : ClientDies(c)
       \/ \E w \in Workers : SlotDies(w) \/ RenewErrs(w)
       \/ \E r \in Recoverers : RecovererStops(r)
    /\ UNCHANGED events

-----------------------------------------------------------------------------

(* The callers that have changed the row of j and not logged it yet. *)
Debtors(j) ==
    {c \in Clients : cjob[c] = j /\ cpc[c] \in {"logEnqueued", "logRequeued"}}
    \cup
    {w \in Workers :
        /\ wjob[w] = j
        /\ wpc[w] \in {"logLeased", "logAcked", "logRetried", "logBuried"} \/ wrn[w] = "log"}
    \cup
    {r \in Recoverers : \E e \in recovered[r] : e.job = j}

Owed(j) == Debtors(j) # {}

(* A caller with a debt ends without appending. *)
Drops(j) == ~(Debtors(j) \subseteq Debtors(j)') /\ events'[j] = events[j]

Records ==
    /\ disturbed' = disturbed \cup
            {j \in Jobs : Drops(j) \/ (Owed(j) /\ state'[j] # state[j])}
    /\ lost' = lost \cup
            {j \in Jobs : Drops(j) \/ Len(events'[j]) < Len(events[j])}

CalmNext == (AppendsEvent \/ PruneEvents \/ Silent) /\ Records

LogNext == CalmNext \/ (Deaths /\ Records)

LogSpec == LogInit /\ [][LogNext]_allVars

(* No caller dies and the store has no errors. *)
CalmSpec == LogInit /\ [][CalmNext]_allVars

-----------------------------------------------------------------------------
(* Safety *)

Count(j, types) == Cardinality({n \in DOMAIN events[j] : events[j][n] \in types})

(* "every job is claimed and acknowledged exactly once": a job has one     *)
(* acknowledged event at most, and is completed if it has one.             *)
AcknowledgedOnce ==
    \A j \in Jobs :
        /\ Count(j, {"acknowledged"}) <= 1
        /\ Count(j, {"acknowledged"}) = 1 => state[j] \in {"completed", "deleted"}

(* The archive's verifier accepts the history of every job whose events    *)
(* were appended before the next statement changed its state, also when    *)
(* retention has trimmed it ("A retained event suffix passes").            *)
UndisturbedVerifies ==
    \A j \in Jobs \ disturbed :
        state[j] \notin {"unborn", "deleted"} /\ ~Owed(j) => Verifies(events[j], state[j])

(* "Every state change appends one event row": in a log that misses no row,*)
(* and whatever the order of its rows, each lease has one event that ends  *)
(* it and each death but the last has its requeue.                         *)
EventsBalance ==
    \A j \in Jobs \ lost :
        state[j] \notin {"unborn", "deleted"} /\ ~Owed(j) =>
            /\ Count(j, {"leased"}) =
                 Count(j, {"acknowledged", "retried", "recovered", "dead_lettered"})
                    + (IF state[j] = "leased" THEN 1 ELSE 0)
            /\ Count(j, {"dead_lettered"}) =
                 Count(j, {"requeued"}) + (IF state[j] = "dead_letter" THEN 1 ELSE 0)

-----------------------------------------------------------------------------
(* What the repository says and the code does not do *)

(* "Events stay in append order, so an exported record can reconstruct the *)
(* job timeline": checked where nobody dies and nothing is owed.           *)
HistoryVerifies ==
    \A j \in Jobs :
        state[j] \notin {"unborn", "deleted"} /\ ~Owed(j) => Verifies(events[j], state[j])

=============================================================================
