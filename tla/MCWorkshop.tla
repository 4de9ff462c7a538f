------------------------------ MODULE MCWorkshop ------------------------------
(* TLC instances of Workshop. *)
EXTENDS Workshop, TLC

CONSTANTS s1, s2

(* One file in common, and one of its own in each: what an old version     *)
(* leaves behind shows, and a relink stops between two files.              *)
OneRenamed == <<{1, 2}, {1, 3}>>

(* The same files in both. *)
TwoEach == <<{1, 2}, {1, 2}>>

(* TLC stops where the harm begins: the properties say nothing after it. *)
Unharmed == ~harmed

Symmetry == Permutations(Servers)
=============================================================================
