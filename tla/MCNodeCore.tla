----------------------------- MODULE MCNodeCore -----------------------------
(* TLC instances of NodeCore. *)
EXTENDS NodeCore, TLC

CONSTANTS c1, c2

OneServer  == {c1}
TwoServers == {c1, c2}
Symmetric  == Permutations(Containers)
=============================================================================
