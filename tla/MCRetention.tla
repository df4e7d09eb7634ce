---------------------------- MODULE MCRetention ----------------------------
(* Retention on a small instance. *)
EXTENDS Retention, TLC

Symmetry == Permutations(Jobs) \cup Permutations(Callers)
=============================================================================
