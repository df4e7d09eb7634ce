------------------------------ MODULE Archive ------------------------------
(***************************************************************************)
(* The verifier of exported histories: it replays the retained events of a *)
(* job and compares the state they end in with the state of the job.       *)
(*                                                                         *)
(* A history is a sequence of event types.  Ids, references and timestamps *)
(* are left out: every event here is of its job and in append order.       *)
(***************************************************************************)
EXTENDS Sequences, Naturals

EventTypes == {"enqueued", "scheduled", "leased", "lease_renewed", "acknowledged",
               "failed", "retried", "recovered", "dead_lettered", "requeued"}

(* Mutant: a requeued event is taken for the death of the job. *)
FirstEventStateRequeue ==
    [e \in EventTypes |->
        CASE e \in {"leased", "lease_renewed"}     -> "leased"
          [] e = "acknowledged"                    -> "completed"
          [] e = "failed"                          -> "failed"
          [] e \in {"dead_lettered", "requeued"}   -> "dead_letter"
          [] OTHER                                 -> "pending"]

(* The state that an event leads to; retention may have removed the events *)
(* before the first one, so that any type may come first.                  *)
FirstEventState ==
    [e \in EventTypes |->
        CASE e \in {"leased", "lease_renewed"} -> "leased"
          [] e = "acknowledged"                -> "completed"
          [] e = "failed"                      -> "failed"
          [] e = "dead_lettered"               -> "dead_letter"
          [] OTHER                             -> "pending"]

(* The state that an event follows; an event that creates a job follows    *)
(* none.                                                                   *)
FollowsState ==
    [e \in EventTypes \ {"enqueued", "scheduled"} |->
        CASE e = "leased"   -> "pending"
          [] e = "requeued" -> "dead_letter"
          [] OTHER          -> "leased"]

CanFollow(state, e) == e \in DOMAIN FollowsState /\ FollowsState[e] = state

(* The replay of a history that is not empty.  An event that cannot follow *)
(* is an issue and leaves the replayed state alone.                        *)
Replay(history) ==
    LET after[n \in 1..Len(history)] ==
            IF n = 1
            THEN [state |-> FirstEventState[history[1]], valid |-> TRUE]
            ELSE LET before == after[n - 1] IN
                 IF CanFollow(before.state, history[n])
                 THEN [before EXCEPT !.state = FirstEventState[history[n]]]
                 ELSE [before EXCEPT !.valid = FALSE]
    IN  after[Len(history)]

(* validateRecord has no issue with the history of a job in this state. *)
Verifies(history, state) ==
    /\ history # <<>>
    /\ Replay(history).valid
    /\ Replay(history).state = state
=============================================================================
