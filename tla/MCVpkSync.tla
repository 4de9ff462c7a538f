------------------------------ MODULE MCVpkSync -----------------------------
(* TLC instances of VpkSync. *)
EXTENDS VpkSync, TLC

CONSTANTS c1, b1, b2

OneServer == {c1}
=============================================================================
