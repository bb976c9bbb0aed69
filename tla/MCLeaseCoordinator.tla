------------------------- MODULE MCLeaseCoordinator -------------------------
(* Small instances of LeaseCoordinator; clients are interchangeable. *)
EXTENDS LeaseCoordinator, TLC

ClientSymmetry == Permutations(Client)
=============================================================================
