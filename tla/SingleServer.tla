---------------------------- MODULE SingleServer ----------------------------
(***************************************************************************)
(* What a lease promises about one runtime session: whoever may execute    *)
(* does so alone, and hands over only through a state where nobody may.    *)
(***************************************************************************)
CONSTANT Server
VARIABLE serving        \* who may execute now

Init == serving = {}

Start(s) == serving = {} /\ serving' = {s}

Stop == serving # {} /\ serving' = {}

Next == Stop \/ \E s \in Server : Start(s)

Spec == Init /\ [][Next]_serving
=============================================================================
