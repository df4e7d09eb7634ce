---------------------------- MODULE LeaseService ----------------------------
(***************************************************************************)
(* What the queue promises about leases, without tokens, deadlines,        *)
(* counters or scans: a job has at most one owner, only its owner settles  *)
(* it, and a settled job comes back only by an operator's decision.        *)
(*                                                                         *)
(* The promise is deliberately weak where the code is: recovery may revoke *)
(* a lease at any time, whether or not its owner is alive.                 *)
(***************************************************************************)
EXTENDS FiniteSets

CONSTANTS Jobs, Workers

VARIABLES
    status,     \* the state of each job
    owners      \* the worker slots that own the lease of each job

Init ==
    /\ status = [j \in Jobs |-> "unborn"]
    /\ owners = [j \in Jobs |-> {}]

Submit(j) ==
    /\ status[j] = "unborn"
    /\ status' = [status EXCEPT ![j] = "pending"]
    /\ UNCHANGED owners

(* A slot works on one job at a time. *)
Grant(j, w) ==
    /\ status[j] = "pending"
    /\ \A i \in Jobs : w \notin owners[i]
    /\ status' = [status EXCEPT ![j] = "leased"]
    /\ owners' = [owners EXCEPT ![j] = {w}]

(* The owner reports success, or a failure that is retried or is final. *)
Settle(j, w) ==
    /\ w \in owners[j]
    /\ \E next \in {"completed", "pending", "dead_letter"} :
        status' = [status EXCEPT ![j] = next]
    /\ owners' = [owners EXCEPT ![j] = {}]

(* The owner dies or gives up; the lease stays until it is revoked. *)
Abandon(j, w) ==
    /\ w \in owners[j]
    /\ owners' = [owners EXCEPT ![j] = {}]
    /\ UNCHANGED status

(* Recovery ends the lease; it never completes the job. *)
Revoke(j) ==
    /\ status[j] = "leased"
    /\ \E next \in {"pending", "dead_letter"} :
        status' = [status EXCEPT ![j] = next]
    /\ owners' = [owners EXCEPT ![j] = {}]

Revive(j) ==
    /\ status[j] = "dead_letter"
    /\ status' = [status EXCEPT ![j] = "pending"]
    /\ UNCHANGED owners

Remove(gone) ==
    /\ \A j \in gone : status[j] \in {"completed", "dead_letter"}
    /\ status' = [j \in Jobs |-> IF j \in gone THEN "deleted" ELSE status[j]]
    /\ UNCHANGED owners

Next ==
    \/ \E j \in Jobs :
        \/ Submit(j) \/ Revoke(j) \/ Revive(j)
        \/ \E w \in Workers : Grant(j, w) \/ Settle(j, w) \/ Abandon(j, w)
    \/ \E gone \in SUBSET Jobs : Remove(gone)

Spec == Init /\ [][Next]_<<status, owners>>
=============================================================================
