----------------------------- MODULE MCEggGuard -----------------------------
(* A TLC instance of EggGuard. *)
EXTENDS EggGuard

NameOfs == [p1 |-> "n", p2 |-> "m", p3 |-> "n"]
IPOfs == [p1 |-> "a", p2 |-> "a", p3 |-> "b"]
Thresholds == [r \in Enabled |-> 1]
Windows == [r \in Enabled |-> 0]
=============================================================================
