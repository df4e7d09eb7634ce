----------------------------- MODULE MCDispatch -----------------------------
(* DispatchOrder on small instances. *)
EXTENDS DispatchOrder

\* No run time, one in the past of every later enqueue, one in the future.
SomeRunAts == {NullTime, 1, 4}
=============================================================================
