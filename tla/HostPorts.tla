------------------------------ MODULE HostPorts ------------------------------
(***************************************************************************)
(* The protected ports of the host guard (internal/node/guard): the set in *)
(* the kernel that the drop rules look at has to follow the ports that the *)
(* containers publish.  Run refreshes it on every Start and Die event and  *)
(* on a ticker, and skips a refresh when the list is the one of the last   *)
(* refresh that worked, so what it remembers must not outlive the table.   *)
(***************************************************************************)
EXTENDS Naturals

CONSTANTS
    Containers,    \* the servers of the node
    PortsOf,       \* what each publishes; two may publish the same port
    MaxPending,    \* bound: events waiting in the subscription
    MaxTurns,      \* bound: how often servers come and go
    MaxTrouble     \* bound: restarts, tables lost to other tools, failing calls

ASSUME PortsAssumption == MaxPending \in Nat /\ MaxTurns \in Nat /\ MaxTrouble \in Nat

Ports == UNION {PortsOf[s] : s \in Containers}

VARIABLES
    up,        \* the registry: containers that run
    pending,   \* lifecycle events the module has not read
    portsAt,   \* where Run is: "apply", "refresh", "subscribe", then "serve"
    loaded,    \* the table is in the kernel
    kernel,    \* the ports in the table's set
    lastPorts, \* m.lastPorts: the list of the last refresh that worked
    changes, trouble

portVars == <<up, pending, portsAt, loaded, kernel, lastPorts, changes, trouble>>

Published == UNION {PortsOf[s] : s \in up}

PortsTypeOK ==
    /\ up \subseteq Containers /\ pending \in 0..MaxPending
    /\ portsAt \in {"apply", "refresh", "subscribe", "serve"} /\ loaded \in BOOLEAN /\ kernel \subseteq Ports
    /\ lastPorts \in {<<>>} \cup {<<P>> : P \in SUBSET Ports}
    /\ changes \in 0..MaxTurns /\ trouble \in 0..MaxTrouble

(* lastPorts is "" until the first refresh, which no list prints as. *)
PortsInit ==
    /\ up = {} /\ pending = 0 /\ portsAt = "apply"
    /\ loaded = FALSE /\ kernel = {} /\ lastPorts = <<>>
    /\ changes = 0 /\ trouble = 0

Trouble == trouble < MaxTrouble /\ trouble' = trouble + 1

(* The set is emptied and filled in one batch. *)
RefreshPorts == kernel' = Published

(* The list is remembered only when the kernel has taken it. *)
refreshPorts ==
    \/ /\ lastPorts = <<Published>> \/ ~loaded
       /\ UNCHANGED <<kernel, lastPorts, trouble>>
    \/ /\ lastPorts # <<Published>> /\ loaded
       /\ \/ RefreshPorts /\ lastPorts' = <<Published>> /\ UNCHANGED trouble
          \/ Trouble /\ UNCHANGED <<kernel, lastPorts>>

(* A slow subscriber loses events. *)
serverTurns(s) ==
    /\ changes < MaxTurns /\ changes' = changes + 1
    /\ up' = IF s \in up THEN up \ {s} ELSE up \cup {s}
    /\ pending' = IF portsAt = "serve" /\ pending < MaxPending THEN pending + 1 ELSE pending
    /\ UNCHANGED <<portsAt, loaded, kernel, lastPorts, trouble>>

readEvent ==
    /\ portsAt = "serve" /\ pending > 0 /\ pending' = pending - 1
    /\ refreshPorts
    /\ UNCHANGED <<up, portsAt, loaded, changes>>

(* Apply keeps the sets of a table that is there. *)
applyTable == loaded' = TRUE /\ UNCHANGED kernel

(* Mutant: what was refreshed into the table that is gone still counts. *)
forgetNothing == UNCHANGED lastPorts

forgetList == lastPorts' = <<>>

(* The refresh that follows a reload is a tick of its own here: nothing    *)
(* the module does can come between them, and what the others do is the    *)
(* same before and after.                                                  *)
tickReloads ==
    /\ portsAt = "serve" /\ ~loaded
    /\ \/ applyTable /\ forgetList /\ UNCHANGED trouble
       \/ Trouble /\ UNCHANGED <<loaded, kernel, lastPorts>>
    /\ UNCHANGED <<up, pending, portsAt, changes>>

tickRefreshes ==
    /\ portsAt = "serve" /\ loaded
    /\ refreshPorts
    /\ UNCHANGED <<up, pending, portsAt, loaded, changes>>

(* Another tool flushes nftables: the table and its sets are gone. *)
tableLost ==
    /\ Trouble /\ loaded
    /\ loaded' = FALSE /\ kernel' = {}
    /\ UNCHANGED <<up, pending, portsAt, lastPorts, changes>>

(* The table outlives the daemon; the memory of the last refresh does not.  *)
guardRestarts ==
    /\ Trouble /\ portsAt = "serve"
    /\ portsAt' = "apply" /\ pending' = 0 /\ lastPorts' = <<>>
    /\ UNCHANGED <<up, loaded, kernel, changes>>

(* What happens between the first refresh and the subscription is not told. *)
(* An Apply that fails here ends the module, and is left out.               *)
Run ==
    \/ /\ portsAt = "apply" /\ portsAt' = "refresh"
       /\ applyTable
       /\ UNCHANGED <<up, pending, lastPorts, changes, trouble>>
    \/ /\ portsAt = "refresh" /\ portsAt' = "subscribe"
       /\ refreshPorts
       /\ UNCHANGED <<up, pending, loaded, changes>>
    \/ /\ portsAt = "subscribe" /\ portsAt' = "serve"
       /\ UNCHANGED <<up, pending, loaded, kernel, lastPorts, changes, trouble>>

PortsNext ==
    \/ \E s \in Containers : serverTurns(s)
    \/ readEvent \/ tickReloads \/ tickRefreshes \/ tableLost \/ guardRestarts \/ Run

(* The ticker keeps ticking, and systemd starts the daemon again.  *)
PortsFair ==
    /\ WF_portVars(tickReloads) /\ WF_portVars(tickRefreshes)
    /\ WF_portVars(Run)

PortsSpec == PortsInit /\ [][PortsNext]_portVars /\ PortsFair

-----------------------------------------------------------------------------
(* When servers and other tools leave the node alone, the kernel comes to  *)
(* protect what the containers publish and goes on doing so, whatever      *)
(* events were lost and whatever table was lost before.                    *)
PortsFollow == <>[](loaded /\ kernel = Published)

(* What a refresh is skipped for is true: while the table is there, the    *)
(* list the module remembers is the one the kernel has, whatever flushed   *)
(* or reloaded the table since it was remembered.                          *)
RememberedIsThere == loaded /\ lastPorts # <<>> => lastPorts = <<kernel>>
=============================================================================
