------------------------------ MODULE Incident ------------------------------
(***************************************************************************)
(* The incident record and the pure operations on it: the lifecycle rules  *)
(* of correlation/hypothesis_lifecycle.py, the merge of a fresh projection *)
(* into a stored incident (api/main.py) and the state changes a            *)
(* node-monitor event makes (api/routes/node_state_events.py).             *)
(*                                                                         *)
(* Of a record only what those rules read or write is kept: texts, raw     *)
(* logs, confidences and evidence lists are left out.  Instants are        *)
(* naturals from 1; Never stands for a None timestamp.                     *)
(***************************************************************************)
EXTENDS Integers, FiniteSets, Sequences

CONSTANTS
    Objects,      \* objects of the causal topology that observations and roots name
    NoObj,        \* a None root object
    Nodes,        \* devices
    Edges,        \* edges of CausalTopology.graph, a subset of Objects \X Objects
    Upstream,     \* <<a, b>> where a is an ancestor of b in that graph
    TypeOf,       \* [Objects -> ObjectTypes]
    NodeOf,       \* [Objects -> Nodes]: the representative device of an object
    Quiet         \* recovery_quiet_period_sec, in clock units

ObjectTypes == {"device", "interface", "physical-link", "session"}

ASSUME TopologyAssumption ==
    /\ NoObj \notin Objects
    /\ Edges \subseteq Upstream
    /\ Upstream \subseteq Objects \X Objects
    /\ TypeOf \in [Objects -> ObjectTypes]
    /\ NodeOf \in [Objects -> Nodes]
    /\ Quiet \in Nat

Never == 0

Statuses   == {"OPEN", "CLOSED"}
Conditions == {"ACTIVE", "DEGRADED", "RECOVERING", "RECOVERED"}
NodeStates == {"UP", "DOWN", "DEGRADED", "UNKNOWN"}

\* An incident.  "obj" is the column root_cause_object, "root" the object the
\* stored RCA explanation names (the two differ in a child incident), "impact"
\* the explanation's impact objects, "kids" the length of child_incident_ids,
\* which is always <<id-CH001, ..., id-CHkids>>.
Incidents == [status : Statuses, cond : Conditions,
              obj : Objects \cup {NoObj}, root : Objects \cup {NoObj},
              impact : SUBSET Objects, node : Nodes, sec : SUBSET Nodes,
              fault : Nat, rec : Nat, kids : Nat]

-----------------------------------------------------------------------------
(* Topology questions.                                                      *)

CommonPhysicalLink(a, b) ==
    \E l \in Objects : TypeOf[l] = "physical-link" /\ <<a, l>> \in Edges /\ <<b, l>> \in Edges

Related(root, observed) ==
    \/ root = observed
    \/ <<root, observed>> \in Edges
    \/ <<observed, root>> \in Edges
    \/ CommonPhysicalLink(root, observed)

Priority(o) == CASE TypeOf[o] = "device"        -> 1
                 [] TypeOf[o] = "interface"     -> 2
                 [] TypeOf[o] = "physical-link" -> 3
                 [] OTHER                       -> 0

-----------------------------------------------------------------------------
(* Lifecycle of one incident.  A rule that does not match leaves the        *)
(* incident as it is (event NO_MATCH).                                      *)

RecoveryMatches(r, o) == r.status = "OPEN" /\ r.root # NoObj /\ Related(r.root, o)

ApplyRecovery(r, o, at) ==
    [r EXCEPT !.rec  = at,
              !.cond = IF o = r.root \/ TypeOf[r.root] \in {"physical-link", "device"}
                       THEN "RECOVERING" ELSE "DEGRADED"]

FaultMatches(r, kind, o) ==
    r.status = "OPEN" /\ kind = "fault" /\ (r.root = NoObj \/ Related(r.root, o))

ApplyFault(r, kind, o, at) ==
    IF FaultMatches(r, kind, o) THEN [r EXCEPT !.fault = at, !.cond = "ACTIVE"] ELSE r

\* Mutants: the quiet period is not compared with the last recovery; it must be exceeded.
CanConfirmAnyTime(r, now) ==
    r.status = "OPEN" /\ r.cond = "RECOVERING" /\ r.rec # Never /\ r.fault <= r.rec
CanConfirmLater(r, now) == CanConfirmAnyTime(r, now) /\ now - r.rec > Quiet

CanConfirm(r, now) ==
    /\ r.status = "OPEN" /\ r.cond = "RECOVERING"
    /\ r.rec # Never /\ now - r.rec >= Quiet
    /\ r.fault <= r.rec

-----------------------------------------------------------------------------
(* Projection, merge and children.                                          *)

\* A fresh projection of the RCA root "root" over observations, each the object
\* observed and the device that reported it.
ObjectsOf(obs) == {o[1] : o \in obs}
SourcesOf(obs) == {o[2] : o \in obs}

Projection(root, obs, fault, status) ==
    [status |-> status, cond |-> "ACTIVE", obj |-> root, root |-> root,
     impact |-> ObjectsOf(obs) \ {root}, node |-> NodeOf[root],
     sec |-> SourcesOf(obs) \ {NodeOf[root]},
     fault |-> fault, rec |-> Never, kids |-> 0]

RootObject(r) == IF r.obj # NoObj THEN r.obj ELSE r.root

KeepsRoot(existing, projected) ==
    LET e == RootObject(existing)
        p == RootObject(projected)
    IN  /\ e # NoObj /\ p # NoObj /\ e # p
        /\ <<e, p>> \in Upstream
        /\ Priority(e) >= Priority(p)

\* _merge_projected_hypothesis_incident: everything the lifecycle owns comes from
\* the snapshot "existing", the explanation from the projection unless the stored
\* root is an upstream object of at least the same rank.
Merge(existing, projected, kind, o, at) ==
    LET rca == IF KeepsRoot(existing, projected) THEN existing ELSE projected
    IN  ApplyFault([existing EXCEPT !.sec    = (@ \cup projected.sec) \ {projected.node},
                                    !.obj    = rca.obj,
                                    !.root   = rca.root,
                                    !.node   = rca.node,
                                    !.impact = rca.impact],
                   kind, o, at)

Child(parent, o) == [parent EXCEPT !.obj = o, !.impact = {}, !.kids = 0,
                                   !.sec = @ \ {parent.node}]

-----------------------------------------------------------------------------
(* What a node-monitor event does to an incident it is related to.          *)

StartsRecovery(r, s) == s = "UP" /\ r.cond = "DEGRADED"

\* Mutant: the state of the node becomes the condition of the incident.
ApplyNodeStateVerbatim(r, s, at) ==
    IF s = "DOWN" THEN [r EXCEPT !.cond = s]
    ELSE IF StartsRecovery(r, s) THEN [r EXCEPT !.cond = "RECOVERING", !.rec = at] ELSE r

ApplyNodeState(r, s, at) ==
    IF \/ s \in {"DOWN", "DEGRADED"} /\ r.cond = "ACTIVE"
       \/ s = "DOWN" /\ r.cond \in {"RECOVERED", "RECOVERING"}
    THEN [r EXCEPT !.cond = "DEGRADED"]
    ELSE IF StartsRecovery(r, s)
         THEN [r EXCEPT !.cond = "RECOVERING", !.rec = at]
         ELSE r

NodeIncident(n, at) ==
    [status |-> "OPEN", cond |-> "DEGRADED", obj |-> NoObj, root |-> NoObj,
     impact |-> {}, node |-> n, sec |-> {}, fault |-> at, rec |-> Never, kids |-> 0]
=============================================================================
