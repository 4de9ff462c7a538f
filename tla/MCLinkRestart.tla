---------------------------- MODULE MCLinkRestart ---------------------------
(***************************************************************************)
(* A TLC instance of the egg's socket and of the owed restarts, which      *)
(* share nothing: one behaviour is one component's, the other stays as it  *)
(* began.  In the link two connections overlap on the node while the serve *)
(* goroutine of the first is still at work, and two sockets let the        *)
(* container or the daemon go away once in between.                        *)
(***************************************************************************)
EXTENDS EggLink, VpkRestart

CONSTANTS c1, e1, e2

VARIABLE component    \* the component that acts in this behaviour

allVars == <<component, linkVars, restartVars>>

(* Of the restarts that rest beside the link one initial state is enough. *)
Init ==
    /\ component \in {"link", "restart"} /\ LinkInit /\ RestartInit
    /\ component = "link" => ~open /\ \A c \in Containers : ~players[c]

Next ==
    \/ component = "link" /\ LinkNext /\ UNCHANGED <<component, restartVars>>
    \/ component = "restart" /\ RestartNext /\ UNCHANGED <<component, linkVars>>

(* The fairness of each component, in its own behaviours. *)
LinkGoesOn ==
    /\ \A k \in Conns : /\ WF_linkVars(component = "link" /\ Serve(k))
                        /\ WF_linkVars(component = "link" /\ Job(k))
    /\ WF_linkVars(component = "link" /\ Boot)
    /\ WF_linkVars(component = "link" /\ Subscribe)
RestartsGoOn ==
    /\ \A c \in Containers :
          /\ WF_restartVars(component = "restart" /\ owe(c))
          /\ SF_restartVars(component = "restart" /\ tick(c))
          /\ WF_restartVars(component = "restart" /\ forget(c))
          /\ WF_restartVars(component = "restart" /\ serverStarts(c))
    /\ \A p \in Settlers : WF_restartVars(component = "restart" /\ settle(p))
    /\ WF_restartVars(component = "restart" /\ timePasses)

Spec == Init /\ [][Next]_allVars /\ LinkGoesOn /\ RestartsGoOn
=============================================================================
