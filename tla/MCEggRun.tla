------------------------------- MODULE MCEggRun -------------------------------
(* A TLC instance of EggRun in which the container may be stopped while it boots. *)
EXTENDS EggRun
===============================================================================
