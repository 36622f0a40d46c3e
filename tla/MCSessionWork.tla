--------------------------- MODULE MCSessionWork ---------------------------
(* SessionWork for TLC.  One part is looked at at a time, so that sets of   *)
(* different parts may have the same values, and one symmetry serves all.   *)
EXTENDS SessionWork, TLC

WorkSymmetry == Permutations(Starter) \cup Permutations(Tool)
=============================================================================
