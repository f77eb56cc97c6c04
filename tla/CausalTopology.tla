--------------------------- MODULE CausalTopology ---------------------------
(***************************************************************************)
(* The causal graph of topology/causal_topology.py: devices, interfaces,   *)
(* physical links and routing sessions, and an edge from what can fail to  *)
(* what its failure affects.  The topology file is the constants; names    *)
(* are numbers in the order of the names, and an object is its type and    *)
(* the numbers of its id, so the order of ids is the order of the tuples.  *)
(***************************************************************************)
EXTENDS Integers, FiniteSets, Sequences

CONSTANTS
    Devices,        \* the devices of the physical layer
    Role,           \* Role[d]: the role of device d
    Interfaces,     \* pairs <<device, number>>
    Connections,    \* pairs of interfaces, the lesser one first
    BgpSessions,    \* pairs of devices, in any order
    OspfSessions,
    LacpSessions    \* sequences of interfaces

\* The loader refuses a connection whose ends it does not know, and skips a
\* session with an end it does not know.
ASSUME TopologyAssumption ==
    /\ Devices \subseteq Nat \ {0} /\ IsFiniteSet(Devices)
    /\ DOMAIN Role = Devices
    /\ Interfaces \subseteq Devices \X Nat /\ IsFiniteSet(Interfaces)
    /\ Connections \subseteq Interfaces \X Interfaces /\ IsFiniteSet(Connections)
    /\ BgpSessions \cup OspfSessions \subseteq Nat \X Nat
    /\ IsFiniteSet(BgpSessions) /\ IsFiniteSet(OspfSessions) /\ IsFiniteSet(LacpSessions)

RolePriority(r) ==
    CASE r \in {"border", "spine"}   -> 0
      [] r = "core"                  -> 1
      [] r = "distribution"          -> 2
      [] r \in {"access", "leaf"}    -> 3
      [] r = "oob"                   -> 4
      [] OTHER                       -> 5

Device(d)       == [type |-> "device", id |-> <<d>>]
Interface(i)    == [type |-> "interface", id |-> i]
PhysicalLink(c) == [type |-> "physical-link", id |-> c[1] \o c[2]]
BgpSession(s)   == [type |-> "bgp-session", id |-> s]
OspfSession(s)  == [type |-> "ospf-session", id |-> s]
LacpSession(s)  == [type |-> "lacp-session", id |-> s[1]]

Ends(s)         == {s[i] : i \in DOMAIN s}
KnownPair(s)    == Ends(s) \subseteq Devices
KnownLacp       == {s \in LacpSessions : s # <<>> /\ \A i \in Ends(s) : i[1] \in Devices}

PhysicalLinks   == {PhysicalLink(c) : c \in Connections}
PeerSessions    == {BgpSession(s) : s \in {t \in BgpSessions : KnownPair(t)}}
                     \cup {OspfSession(s) : s \in {t \in OspfSessions : KnownPair(t)}}
Sessions        == PeerSessions \cup {LacpSession(s) : s \in KnownLacp}
Objects         == {Device(d) : d \in Devices} \cup {Interface(i) : i \in Interfaces}
                     \cup PhysicalLinks \cup Sessions

\* The links whose ends are on the two devices.
LinksBetween(a, b) ==
    {PhysicalLink(c) : c \in {k \in Connections : {a, b} \subseteq {k[1][1], k[2][1]}}}

\* Of two connected devices the one nearer the core, and of two of one rank
\* the first by name, affects the other.
Upstream(a, b) ==
    \/ RolePriority(Role[a]) < RolePriority(Role[b])
    \/ RolePriority(Role[a]) = RolePriority(Role[b]) /\ a < b

OwnsEdges == {<<Device(i[1]), Interface(i)>> : i \in Interfaces}

LinkEdges ==
    UNION {UNION {{<<Interface(i), PhysicalLink(c)>>, <<PhysicalLink(c), Interface(i)>>,
                   <<Device(i[1]), PhysicalLink(c)>>} : i \in {c[1], c[2]}} : c \in Connections}

DeviceEdges ==
    {<<Device(p[1]), Device(p[2])>> : p \in
        {q \in Devices \X Devices : /\ q[1] # q[2]
                                    /\ LinksBetween(q[1], q[2]) # {}
                                    /\ Upstream(q[1], q[2])}}

PeerSessionEdges ==
    UNION {{<<Device(d), s>> : d \in Ends(s.id)}
             \cup {<<l, s>> : l \in LinksBetween(s.id[1], s.id[2])} : s \in PeerSessions}

LacpSessionEdges ==
    UNION {{<<Device(i[1]), LacpSession(s)>> : i \in Ends(s)}
             \cup {<<l, LacpSession(s)>> :
                     l \in IF Len(s) = 2 THEN LinksBetween(s[1][1], s[2][1]) ELSE {}} :
           s \in KnownLacp}

Edges == OwnsEdges \cup LinkEdges \cup DeviceEdges \cup PeerSessionEdges \cup LacpSessionEdges

Successors(o) == {e[2] : e \in {f \in Edges : f[1] = o}}

NoPath == -1

\* Layer n of a breadth first search (networkx): what is one edge further away
\* than what has been reached is at distance n.
Layer(n, dist) ==
    LET new == (UNION {Successors(x) : x \in DOMAIN dist}) \ DOMAIN dist
    IN  [x \in DOMAIN dist \cup new |-> IF x \in new THEN n ELSE dist[x]]

\* The distances from o of all objects that a path from o leads to.
Layers(o) ==
    LET L[n \in 0..Cardinality(Objects)] ==
          IF n = 0 THEN [x \in {o} |-> 0] ELSE Layer(n, L[n - 1])
    IN  L[Cardinality(Objects)]

PathLength == [o \in Objects |->
                 LET d == Layers(o)
                 IN  [x \in Objects |-> IF x \in DOMAIN d THEN d[x] ELSE NoPath]]

\* The distance from a candidate to an observed object, which need not be in
\* the graph (an interface the topology does not list).
Distance(c, o) == IF c = o THEN 0
                  ELSE IF {c, o} \subseteq Objects THEN PathLength[c][o] ELSE NoPath

\* The candidates that an observed object suggests: itself and its ancestors,
\* of the types that can be a root cause.
CandidateTypes == {"device", "interface", "physical-link"}
Suspects(o)    == {c \in Objects : c.type \in CandidateTypes /\ Distance(c, o) # NoPath}
=============================================================================
