----------------------------- MODULE Observation -----------------------------
(***************************************************************************)
(* From a classified SYSLOG line to an observation of a causal object      *)
(* (correlation/observation.py).  What the regular expressions find in a   *)
(* line is part of the line here: the device of its host name and of its   *)
(* address (0: not in the topology), the protocol its signature names, the *)
(* neighbour (Nobody: none named, 0: not in the topology) and the          *)
(* interface (0: none named), and whether the line tells a change of the   *)
(* interface's state.  Weights are in thousandths.                         *)
(***************************************************************************)
EXTENDS CausalTopology

NoPeer        == 0
Nobody        == -1
NoRule        == -1       \* the line has no rule; a rule may cap the weight
Uncapped      == 1000
NoObservation == [at |-> -1]

Least(a, b)    == IF a < b THEN a ELSE b
Greatest(a, b) == IF a < b THEN b ELSE a

\* The device the line is about: by its host name, else by its address.
Reporter(line) == IF line.host \in Devices THEN line.host ELSE line.address

SessionOf(type, pairs, a, b) ==
    {[type |-> type, id |-> s] : s \in {t \in pairs : KnownPair(t) /\ Ends(t) = {a, b}}}

LacpSessionOf(i) == {LacpSession(s) : s \in {t \in KnownLacp : i \in Ends(t)}}

\* A neighbour's line is about the session with it, if there is one.
NeighbourSighting(line, type, pairs) ==
    LET d        == Reporter(line)
        sessions == IF line.neighbour = NoPeer THEN {}
                    ELSE SessionOf(type, pairs, d, line.neighbour)
    IN  IF sessions # {}
        THEN [object |-> CHOOSE s \in sessions : TRUE, weight |-> 900, peer |-> line.neighbour]
        ELSE [object |-> Device(d), weight |-> 450, peer |-> line.neighbour]

\* The object a line is about, how sure that is, and the peer it names: what
\* the first pattern that applies finds.
Sighting(line) ==
    LET d == Reporter(line)
        i == <<d, line.interface>>
        found(o, sure) == [object |-> o, weight |-> sure, peer |-> NoPeer]
    IN  IF line.protocol = "LACP" /\ line.interface # 0 /\ LacpSessionOf(i) # {}
        THEN found(CHOOSE s \in LacpSessionOf(i) : TRUE, 900)
        ELSE IF line.protocol = "BGP" /\ line.neighbour # Nobody
        THEN NeighbourSighting(line, "bgp-session", BgpSessions)
        ELSE IF line.protocol = "OSPF" /\ line.neighbour # Nobody
        THEN NeighbourSighting(line, "ospf-session", OspfSessions)
        ELSE IF line.interface # 0 /\ line.state
        THEN found(Interface(i), 950)
        ELSE IF line.interface # 0 /\ i \in Interfaces
        THEN found(Interface(i), 650)
        ELSE found(Device(d), 500)

\* What the line asserts, by its class and the action of its rule.
Assertion(line) ==
    IF line.recovery \/ line.class = "recovery" THEN "recovery"
    ELSE IF line.action = "retain_only" \/ line.class \in {"noise", "retain-only"} THEN "noise"
    ELSE IF line.class = "fault-signal" \/ line.action = "create_incident" THEN "fault"
    ELSE IF line.class \in {"state-change", "config-change"} \/ line.action = "correlate_only"
    THEN "state_change"
    ELSE IF line.class = "security" THEN "security" ELSE "fault"

\* The weight of the observation: little for noise and for lines nobody knows,
\* never more than the rule allows, and none when the rule's number is negative.
Weight(line, sure) ==
    LET noise    == Assertion(line) = "noise"
        unknown  == ~noise /\ line.class = "unknown" /\ line.rule = NoRule
        recovery == ~noise /\ ~unknown /\ Assertion(line) = "recovery"
        base     == CASE noise    -> Least(sure, 200)
                      [] unknown  -> Least(sure, 350)
                      [] recovery -> Greatest(sure, 800)
                      [] OTHER    -> sure
    IN  IF line.rule = NoRule THEN base ELSE Greatest(0, Least(base, line.rule))

\* The observation of a line received at time now; none when neither its host
\* name nor its address is a device of the topology.
Normalize(line, now) ==
    LET sighting == Sighting(line)
    IN  IF Reporter(line) \notin Devices THEN NoObservation
        ELSE [at        |-> now,
              source    |-> Reporter(line),
              object    |-> sighting.object,
              assertion |-> Assertion(line),
              weight    |-> Weight(line, sighting.weight),
              peer      |-> sighting.peer,
              strong    |-> line.strong]
=============================================================================
