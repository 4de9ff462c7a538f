------------------------------ MODULE Services ------------------------------
(***************************************************************************)
(* Nine components of the node and the egg that share nothing.  One        *)
(* behaviour is one component's, the others stay as they began.            *)
(***************************************************************************)
EXTENDS HostPorts, HostWatch, Alerts, EggRun, EggState, Cleanup, SelfUpdate,
        EggBoot, ConsoleLog

VARIABLE component    \* the component that acts in this behaviour

Components == {"ports", "watch", "alerts", "run", "state", "cleanup", "update", "boot", "log"}

allVars == <<component, portVars, watchVars, alertVars, runVars, stateVars, cleanupVars, updateVars, bootVars,
             logVars>>

Init ==
    /\ component \in Components
    /\ PortsInit /\ WatchInit /\ AlertsInit /\ RunInit /\ StateInit /\ CleanupInit /\ UpdateInit
    /\ BootInit /\ LogInit

Next ==
    \/ /\ component = "ports" /\ PortsNext
       /\ UNCHANGED <<component, watchVars, alertVars, runVars, stateVars,
                       cleanupVars, updateVars, bootVars, logVars>>
    \/ /\ component = "watch" /\ WatchNext
       /\ UNCHANGED <<component, portVars, alertVars, runVars, stateVars,
                       cleanupVars, updateVars, bootVars, logVars>>
    \/ /\ component = "alerts" /\ AlertsNext
       /\ UNCHANGED <<component, portVars, watchVars, runVars, stateVars,
                       cleanupVars, updateVars, bootVars, logVars>>
    \/ /\ component = "run" /\ RunNext
       /\ UNCHANGED <<component, portVars, watchVars, alertVars, stateVars,
                       cleanupVars, updateVars, bootVars, logVars>>
    \/ /\ component = "state" /\ StateNext
       /\ UNCHANGED <<component, portVars, watchVars, alertVars, runVars,
                       cleanupVars, updateVars, bootVars, logVars>>
    \/ /\ component = "cleanup" /\ CleanupNext
       /\ UNCHANGED <<component, portVars, watchVars, alertVars, runVars,
                       stateVars, updateVars, bootVars, logVars>>
    \/ /\ component = "update" /\ UpdateNext
       /\ UNCHANGED <<component, portVars, watchVars, alertVars, runVars,
                       stateVars, cleanupVars, bootVars, logVars>>
    \/ /\ component = "boot" /\ EggBootNext
       /\ UNCHANGED <<component, portVars, watchVars, alertVars, runVars,
                       stateVars, cleanupVars, updateVars, logVars>>
    \/ /\ component = "log" /\ LogNext
       /\ UNCHANGED <<component, portVars, watchVars, alertVars, runVars,
                       stateVars, cleanupVars, updateVars, bootVars>>

(* The fairness of each component, in its own behaviours. *)
PortsGoOn ==
    /\ WF_portVars(component = "ports" /\ tickReloads)
    /\ WF_portVars(component = "ports" /\ tickRefreshes)
    /\ WF_portVars(component = "ports" /\ Run)
WatchGoesOn ==
    /\ WF_watchVars(component = "watch" /\ idleLoop)
    /\ \A c \in Clients : WF_watchVars(component = "watch" /\ graceEnds(c))
AlertsGoOn ==
    /\ WF_alertVars(component = "alerts" /\ OnNotify)
    /\ WF_alertVars(component = "alerts" /\ TimerFires)
    /\ WF_alertVars(component = "alerts" /\ PostEnds)
RunGoesOn ==
    /\ \A p \in Typists : /\ WF_runVars(component = "run" /\ Takes(p))
                          /\ WF_runVars(component = "run" /\ Writes(p))
    /\ WF_runVars(component = "run" /\ Start) /\ WF_runVars(component = "run" /\ StopAsked)
    /\ WF_runVars(component = "run" /\ Kill) /\ WF_runVars(component = "run" /\ Line)
    /\ WF_runVars(component = "run" /\ RunReturns) /\ WF_runVars(component = "run" /\ Exits)
StateGoesOn ==
    /\ \A p \in Senders : /\ WF_stateVars(component = "state" /\ reads(p))
                          /\ WF_stateVars(component = "state" /\ send(p))
    /\ WF_stateVars(component = "state" /\ Heartbeat)
    /\ WF_stateVars(component = "state" /\ LinkLost)
    /\ WF_stateVars(component = "state" /\ Connect)

Fair == PortsGoOn /\ WatchGoesOn /\ AlertsGoOn /\ RunGoesOn /\ StateGoesOn

Spec == Init /\ [][Next]_allVars /\ Fair

(* One type invariant for all of them: what acts keeps its type. *)
ServicesTypeOK ==
    CASE component = "ports"   -> PortsTypeOK
      [] component = "watch"   -> WatchTypeOK
      [] component = "alerts"  -> AlertsTypeOK
      [] component = "run"     -> RunTypeOK
      [] component = "state"   -> StateTypeOK
      [] component = "cleanup" -> CleanupTypeOK
      [] component = "update"  -> UpdateTypeOK
      [] component = "boot"    -> BootTypeOK
      [] component = "log"     -> LogTypeOK

(* Once nobody disturbs it, the kernel protects the ports that the         *)
(* containers publish, and before that the module remembers no list that   *)
(* the kernel lost (HostPorts), where the ports act.                       *)
PortsSettle == component = "ports" => PortsFollow /\ []RememberedIsThere

(* Once it settles, the node knows the server's state, and a node whose    *)
(* connection lasts knows how the run ended (EggState), where the state    *)
(* acts.                                                                   *)
NodeSettles == component = "state" => NodeLearns /\ []EndIsTold
=============================================================================
