----------------------------- MODULE MCEventLog -----------------------------
(* EventLog on small instances. *)
EXTENDS EventLog, TLC

Immediate == {NullTime}

Symmetry ==
    UNION {Permutations(S) : S \in {Jobs, Workers, Recoverers, Clients}}
=============================================================================
