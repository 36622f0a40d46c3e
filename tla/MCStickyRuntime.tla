--------------------------- MODULE MCStickyRuntime ---------------------------
(* StickyRuntime for TLC: processes, sessions and Pods are interchangeable. *)
EXTENDS StickyRuntime, TLC

StickySymmetry ==
    Permutations(Proc) \cup Permutations(Sid) \cup Permutations(Pod)
=============================================================================
