------------------------------ MODULE SharedTree ----------------------------
(***************************************************************************)
(* What vpksync promises about the files it shares: the central CS2        *)
(* install is written by one SteamCMD at a time and never while a volume   *)
(* is compared with it or filled from it, and one volume is worked on by   *)
(* one job at a time.                                                      *)
(***************************************************************************)
EXTENDS Naturals

CONSTANT Volumes    \* the server volumes

VARIABLES
    busy,      \* volumes a job compares with, or fills from, the install
    updating   \* SteamCMD writes the install

vars == <<busy, updating>>

TypeOK == busy \subseteq Volumes /\ updating \in BOOLEAN

Init == busy = {} /\ updating = FALSE

Begin(v) == ~updating /\ v \notin busy /\ busy' = busy \cup {v} /\ UNCHANGED updating
End(v)   == v \in busy /\ busy' = busy \ {v} /\ UNCHANGED updating

BeginUpdate == ~updating /\ busy = {} /\ updating' = TRUE /\ UNCHANGED busy
EndUpdate   == updating /\ updating' = FALSE /\ UNCHANGED busy

(* The daemon goes away, with everything it was doing. *)
Crash == busy' = {} /\ updating' = FALSE

Next ==
    \/ BeginUpdate \/ EndUpdate \/ Crash
    \/ \E v \in Volumes : Begin(v) \/ End(v)

Spec == Init /\ [][Next]_vars

(* The two halves of the promise as one state formula. *)
Exclusive == updating => busy = {}
=============================================================================
