---------------------------- MODULE MCMigration ----------------------------
(* Migration on a small instance. *)
EXTENDS Migration, TLC

Symmetry == Permutations(Processes)
=============================================================================
