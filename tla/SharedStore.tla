----------------------------- MODULE SharedStore -----------------------------
(***************************************************************************)
(* What the workshop cache promises about an addon: it offers a version as *)
(* a whole or not at all, a volume links to files of offered versions, and *)
(* no version goes while a volume links to a file of it.  After an         *)
(* accident it promises nothing.                                           *)
(***************************************************************************)
CONSTANTS
    Volumes,     \* the server volumes
    Versions,    \* the versions of the addon
    PartsOf      \* the files of each

VARIABLES
    offered,     \* the versions the store offers
    linked,      \* per volume its links: a version and a file
    broken       \* an accident happened

vars == <<offered, linked, broken>>

FilesOf(v) == {v} \X PartsOf[v]

Init == offered = {} /\ linked = [s \in Volumes |-> {}] /\ broken = FALSE

Offer(v) == v \notin offered /\ offered' = offered \cup {v} /\ UNCHANGED linked

Withdraw(v) ==
    /\ v \in offered /\ \A s \in Volumes : linked[s] \cap FilesOf(v) = {}
    /\ offered' = offered \ {v} /\ UNCHANGED linked

(* A volume may lose links, and gets links to offered versions only. *)
Offers == UNION {FilesOf(v) : v \in offered}
Relink(s) ==
    /\ linked' = [linked EXCEPT ![s] = linked'[s]]
    /\ linked'[s] \ linked[s] \subseteq Offers
    /\ UNCHANGED offered

Promised ==
    \/ \E s \in Volumes : Relink(s)
    \/ \E v \in Versions : Offer(v) \/ Withdraw(v)

Next == broken' \/ (~broken /\ ~broken' /\ Promised)

Spec == Init /\ [][Next]_vars

(* No link leads to a version that is gone. *)
NoneDangles == ~broken => \A s \in Volumes : linked[s] \subseteq Offers
==============================================================================
