------------------------------- MODULE Guards -------------------------------
(***************************************************************************)
(* Four components that share nothing: the egg's guard, the host guard's   *)
(* blocks, the addon cache and the bundles.  One behaviour is one          *)
(* component's, the others stay as they began.                             *)
(***************************************************************************)
EXTENDS EggGuard, HostBlocks, Addons, Bundles

VARIABLE component    \* the component that acts in this behaviour

allVars == <<component, guardVars, blocksVars, addonVars, bundleVars>>

Init ==
    /\ component \in {"guard", "blocks", "addons", "bundles"}
    /\ GuardInit /\ BlocksInit /\ AddonsInit /\ BundlesInit

Next ==
    \/ /\ component = "guard" /\ EggGuardNext
       /\ UNCHANGED <<component, blocksVars, addonVars, bundleVars>>
    \/ /\ component = "blocks" /\ HostBlocksNext
       /\ UNCHANGED <<component, guardVars, addonVars, bundleVars>>
    \/ /\ component = "addons" /\ AddonsNext
       /\ UNCHANGED <<component, guardVars, blocksVars, bundleVars>>
    \/ /\ component = "bundles" /\ BundlesNext
       /\ UNCHANGED <<component, guardVars, blocksVars, addonVars>>

Spec == Init /\ [][Next]_allVars

(* One type invariant for all of them: what acts keeps its type. *)
GuardsTypeOK ==
    CASE component = "guard"   -> GuardTypeOK
      [] component = "blocks"  -> BlocksTypeOK
      [] component = "addons"  -> AddonsTypeOK
      [] component = "bundles" -> BundlesTypeOK
=============================================================================
