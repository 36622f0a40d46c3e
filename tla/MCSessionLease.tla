--------------------------- MODULE MCSessionLease ---------------------------
(* SessionLease on small sets, with the lease objects interchangeable. *)
EXTENDS SessionLease, TLC

LeaseSymmetry == Permutations(Lease)
=============================================================================
