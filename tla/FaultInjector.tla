--------------------------- MODULE FaultInjector ---------------------------
(***************************************************************************)
(* The handler wrapper that `work` and `demo` run every job with: it reads *)
(* a policy from the job's payload and fails, blocks or delays before the  *)
(* wrapped handler.  It keeps no state, so a call is a set of results that *)
(* it can return at a moment.                                              *)
(***************************************************************************)
EXTENDS Integers

(* What a payload can say.  "" is a payload that is not JSON or has no     *)
(* fault; "other" is a mode that the code does not know.                   *)
Modes == {"", "none", "error", "panic", "slow", "stall", "other"}

Payload == [mode: Modes, failUntil: Int, delay: BOOLEAN]

(* FromPayload: without a mode the other fields are dropped. *)
FromPayload(p) ==
    IF p.mode = "" THEN [mode |-> "none", failUntil |-> 0, delay |-> FALSE] ELSE p

(* ModeStall and ModeSlow both wait for the end of the context. *)
Blocks(policy) == policy.mode \in {"stall", "slow"}

(* Mutant: the count of earlier failures instead of the attempt number. *)
InjectsOneMore(policy, attempt) ==
    policy.mode \in {"error", "panic"} /\ attempt <= policy.failUntil + 1

(* ModePanic panics and ModeError returns an error on the first attempts;  *)
(* the panic is recovered, so both return an error.                        *)
Injects(policy, attempt) ==
    policy.mode \in {"error", "panic"} /\ attempt <= policy.failUntil

(* The results Handle can return for a job with retryCount failed attempts, *)
(* where `done` says whether its context has ended.  The wrapped handler    *)
(* succeeds.  A delay that has not elapsed when the context ends returns    *)
(* the error of the context.                                                *)
Handle(payload, retryCount, done) ==
    LET policy  == FromPayload(payload)
        attempt == retryCount + 1
    IN  (IF policy.delay /\ done THEN {"err"} ELSE {})
        \cup
        (CASE Blocks(policy) /\ done            -> {"err"}
           [] Blocks(policy) /\ ~done           -> {}
           [] Injects(policy, attempt)          -> {"err"}
           [] OTHER                             -> {"ok"})
=============================================================================
