-------------------------- MODULE MaintenancePlans --------------------------
(***************************************************************************)
(* Which incidents a work plan covers (maintenance/checker.py).  A plan    *)
(* has a first and a last moment, a status, the devices it is about with a *)
(* scope, and the events it expects (none listed: any).  Asking the graph  *)
(* about a device it does not have is an error, which the caller gets.     *)
(***************************************************************************)
EXTENDS NodeGraph

NoPlan    == [id |-> 0]
PlanError == [id |-> -1]

\* The first element of s that satisfies P, or none.
FirstIndex(s, P(_)) ==
    {k \in DOMAIN s : P(s[k]) /\ \A j \in 1..(k - 1) : ~P(s[j])}

ActiveAt(plan, at) ==
    /\ plan.status \in {"planned", "in-progress"}
    /\ plan.start <= at
    /\ at <= plan.end

\* What one device of a plan says of device d.
CoverBy(dev, d) ==
    IF dev.id = d THEN "yes"
    ELSE IF dev.scope = "device-only" THEN "no"
    ELSE IF dev.id \notin Nodes THEN "error"
    ELSE IF d \in (IF dev.scope = "including-links" THEN Neighbours(dev.id)
                                                    ELSE Descendants(dev.id))
         THEN "yes" ELSE "no"

\* The first device that covers d, or that the graph does not know, decides.
CoversDevice(plan, d) ==
    LET decisive == FirstIndex(plan.devices, LAMBDA dev : CoverBy(dev, d) # "no")
    IN  IF decisive = {} THEN "no" ELSE CoverBy(plan.devices[CHOOSE k \in decisive : TRUE], d)

MatchesEvent(plan, event) == plan.expected = {} \/ event \in plan.expected

\* The first plan that is active at the time of the line, covers the root
\* cause and expects its event.
FindActivePlan(plans, root, event, at) ==
    LET decides(plan) ==
          /\ ActiveAt(plan, at)
          /\ \/ CoversDevice(plan, root) = "error"
             \/ CoversDevice(plan, root) = "yes" /\ MatchesEvent(plan, event)
        found == FirstIndex(plans, decides)
    IN  IF found = {} THEN NoPlan
        ELSE LET plan == plans[CHOOSE k \in found : TRUE]
             IN  IF CoversDevice(plan, root) = "error" THEN PlanError ELSE plan
=============================================================================
