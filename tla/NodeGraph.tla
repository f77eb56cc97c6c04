------------------------------ MODULE NodeGraph ------------------------------
(***************************************************************************)
(* The device graph of topology/yang_loader.py and what                    *)
(* topology/graph_engine.py answers about it.  An edge leads from the      *)
(* device nearer the core to the other; the edge of a BGP session without  *)
(* a cable counts only for devices that logged a routing event.            *)
(***************************************************************************)
EXTENDS Integers, FiniteSets, Sequences

CONSTANTS
    Nodes,          \* the devices, numbered in the order of their names
    Rank,           \* Rank[n]: the priority of n's role, 0 nearest the core
    Cables,         \* pairs of devices, in the order of the topology file
    EbgpSessions,
    IbgpSessions

ASSUME GraphAssumption ==
    /\ Nodes \subseteq Nat \ {0}
    /\ IsFiniteSet(Nodes)
    /\ Rank \in [Nodes -> 0..5]

Known(pairs)   == {p \in pairs : p[1] \in Nodes /\ p[2] \in Nodes}
Oriented(p)    == IF Rank[p[1]] <= Rank[p[2]] THEN p ELSE <<p[2], p[1]>>
ByName(p)      == IF p[1] <= p[2] THEN p ELSE <<p[2], p[1]>>

PhysicalEdges  == {Oriented(p) : p \in Known(Cables)}
BgpEdges       == ({Oriented(p) : p \in Known(EbgpSessions)}
                     \cup {ByName(p) : p \in Known(IbgpSessions)}) \ PhysicalEdges
AllEdges       == PhysicalEdges \cup BgpEdges

\* The edges that count when the devices bgp logged routing events.
EdgesFor(bgp)  == PhysicalEdges \cup {e \in BgpEdges : e[2] \in bgp}

\* The pairs of devices that a path of the edges joins: the second is in every set
\* that has the devices after the first and, of each device it has, those after it.
Paths(edges) ==
    LET after(s) == {e[2] : e \in {f \in edges : f[1] \in s}}
    IN  {p \in Nodes \X Nodes :
           \A s \in SUBSET Nodes : after({p[1]} \cup s) \subseteq s => p[2] \in s}

AllPaths       == Paths(AllEdges)

\* The paths there are when the devices bgp logged routing events.
FilteredPaths  == UNION {{<<bgp, p[1], p[2]>> : p \in Paths(EdgesFor(bgp))} : bgp \in SUBSET Nodes}

\* get_descendants and get_ancestors need a device of the graph; the filtered
\* forms have nothing to say of any other.
Descendants(n) == {m \in Nodes \ {n} : <<n, m>> \in AllPaths}
Ancestors(n)   == {m \in Nodes \ {n} : <<m, n>> \in AllPaths}
DescendantsFiltered(n, bgp) == {m \in Nodes \ {n} : <<bgp, n, m>> \in FilteredPaths}
AncestorsFiltered(n, bgp)   == {m \in Nodes \ {n} : <<bgp, m, n>> \in FilteredPaths}
Neighbours(n)  == {m \in Nodes : <<m, n>> \in AllEdges \/ <<n, m>> \in AllEdges}
=============================================================================
