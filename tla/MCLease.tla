------------------------------ MODULE MCLease ------------------------------
(* LeaseProtocol on small instances: each .cfg picks the sets that its     *)
(* question needs.                                                         *)
EXTENDS LeaseProtocol, TLC

\* No job is delayed: DispatchOrder has run times.
Immediate == {NullTime}

\* Worker slots are interchangeable, and so are recoverers and clients.
Symmetry ==
    UNION {Permutations(S) : S \in {Jobs, Workers, Recoverers, Clients}}
=============================================================================
