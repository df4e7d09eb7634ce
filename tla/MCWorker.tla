------------------------------ MODULE MCWorker ------------------------------
(* WorkerRun on small instances. *)
EXTENDS WorkerRun

Says(m, n, d) == [mode |-> m, failUntil |-> n, delay |-> d]

\* One payload for each thing a handler does to its job: it succeeds; fails
\* once, or is cut off in its delay, and then succeeds; panics as often as
\* there are attempts; blocks.
SomePayloads ==
    {Says("", 1, FALSE), Says("error", 1, TRUE), Says("panic", 2, FALSE), Says("slow", 0, FALSE)}

SlowPayload == {Says("slow", 0, FALSE)}
=============================================================================
