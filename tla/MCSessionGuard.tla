--------------------------- MODULE MCSessionGuard ---------------------------
(* SessionGuard on small sets: lease objects and processes interchangeable. *)
EXTENDS SessionGuard, TLC

GuardSymmetry == Permutations(Lease) \cup Permutations(Proc)
=============================================================================
