------------------------- MODULE RootCauseInferencer -------------------------
(***************************************************************************)
(* The device-level inference of correlation/root_cause_inferencer.py: it  *)
(* makes incidents of the messages of a window.  A message is a record of  *)
(* the host, whether its severity is beyond the threshold (minor), whether *)
(* it is a routing event, and the device whose address it names as a lost  *)
(* neighbour (Nobody if none).  Where the code goes through a set of names *)
(* (string hashes, so in any order) the order is a parameter.              *)
(***************************************************************************)
EXTENDS NodeGraph, Ordering, SequencesExt

CONSTANTS Coverage      \* silent_coverage, in percent

ASSUME CoverageAssumption == Coverage \in 0..100

Nobody == 0
Larger(a, b) == IF a < b THEN b ELSE a

\* Messages that take part, and the devices of the graph that sent them.
Active(msgs)      == {k \in DOMAIN msgs : ~msgs[k].minor}
Senders(msgs)     == {msgs[k].host : k \in Active(msgs)} \cap Nodes
RoutingNodes(msgs) == {msgs[k].host : k \in {j \in Active(msgs) : msgs[j].routing}} \cap Nodes
From(msgs, nodes) == {k \in DOMAIN msgs : msgs[k].host \in nodes}

\* Silent devices that several senders have as an ancestor over cables, with
\* how many do.
SilentCoverage(msgs) ==
    LET s == Senders(msgs)
    IN  [n \in (UNION {AncestorsFiltered(m, {}) : m \in s}) \ s |->
           Cardinality({m \in s : n \in AncestorsFiltered(m, {})})]

SilentCandidates(msgs) ==
    LET c    == SilentCoverage(msgs)
        need == Larger(2, (Cardinality(Senders(msgs)) * Coverage) \div 100)
    IN  IF Cardinality(Senders(msgs)) < 2 THEN {} ELSE {n \in DOMAIN c : c[n] >= need}

\* Silent neighbours that a message names as lost, with who named them.
NamedSilent(msgs) ==
    LET names(k, p) == /\ msgs[k].lost = p
                       /\ p \in Nodes \ Senders(msgs)
                       /\ msgs[k].host \in Neighbours(p)
    IN  [p \in {q \in Nodes : \E k \in Active(msgs) : names(k, q)} |->
           {msgs[k].host : k \in {j \in Active(msgs) : names(j, p)}}]

\* Neighbours of senders that the node monitor knows to be down.
MonitoredDown(msgs, down) ==
    [p \in {q \in down : Neighbours(q) \cap Senders(msgs) # {}} |->
       Neighbours(p) \cap Senders(msgs)]

\* Senders above which nobody else sent anything.
TopSenders(msgs) ==
    {n \in Senders(msgs) : AncestorsFiltered(n, RoutingNodes(msgs)) \cap Senders(msgs) = {}}

\* An incident: its root, the other senders it explains, its messages, and
\* the message that is its event (none for a silent root).
Found(msgs, root, secondary, logs, events) ==
    [root |-> root, secondary |-> secondary, logs |-> logs,
     event |-> IF events = {} THEN 0 ELSE CHOOSE k \in events : \A j \in events : k <= j]

\* The confidence of score_rca_explanation, in percent, for an incident: a
\* silent root has no event, and a root is known to be down or not.
Confidence(msgs, inc, isDown) ==
    LET silent   == inc.event = 0
        upstream == AncestorsFiltered(inc.root, RoutingNodes(msgs))
                      \cap {msgs[k].host : k \in inc.logs}
    IN  (IF silent THEN 25 ELSE 30) + (IF inc.secondary # {} THEN 20 ELSE 0)
          + (IF isDown THEN 30 ELSE 0) + (IF upstream = {} /\ ~silent THEN 15 ELSE 0)

\* The four passes; each adds incidents to what the passes before found, and
\* assigns senders that later passes leave alone.
AddMonitored(msgs, src, covered, acc) ==
    LET related == {src} \cup covered
    IN  [found    |-> Append(acc.found, Found(msgs, src, covered, From(msgs, related), {})),
         assigned |-> acc.assigned \cup related]

AddSilent(msgs, src, covered, least, acc) ==
    IF Cardinality(covered) < least THEN acc
    ELSE [found    |-> Append(acc.found, Found(msgs, src, covered, From(msgs, covered), {})),
          assigned |-> acc.assigned \cup covered]

AddRoot(msgs, root, others, acc) ==
    LET related == {root} \cup others
    IN  IF root \in acc.assigned THEN acc
        ELSE [found    |-> Append(acc.found,
                             Found(msgs, root, others, From(msgs, related),
                                   From(msgs, {root}) \cap Active(msgs))),
              assigned |-> acc.assigned \cup related]

AddAlone(msgs, node, acc) ==
    [acc EXCEPT !.found = Append(@, Found(msgs, node, {}, From(msgs, {node}), From(msgs, {node})))]

\* infer, for hosts of the graph: silentOrder and rootOrder are the orders in
\* which the code meets the silent candidates and the top senders.
Infer(msgs, down, silentOrder, rootOrder) ==
    LET bgp       == RoutingNodes(msgs)
        named     == NamedSilent(msgs)
        seen      == MonitoredDown(msgs, down)
        below(n)  == DescendantsFiltered(n, bgp) \cap Senders(msgs)
        monitored == FoldLeft(LAMBDA acc, n : AddMonitored(msgs, n, seen[n] \ acc.assigned, acc),
                              [found |-> <<>>, assigned |-> {}], InOrder(DOMAIN seen))
        explicit  == FoldLeft(LAMBDA acc, n : AddSilent(msgs, n, named[n] \ acc.assigned, 1, acc),
                              monitored, InOrder(DOMAIN named))
        common    == FoldLeft(LAMBDA acc, n : AddSilent(msgs, n, below(n) \ acc.assigned, 2, acc),
                              explicit, silentOrder)
        roots     == FoldLeft(LAMBDA acc, n : AddRoot(msgs, n, below(n) \ acc.assigned, acc),
                              common, rootOrder)
    IN  FoldLeft(LAMBDA acc, n : AddAlone(msgs, n, acc),
                 roots, InOrder(Senders(msgs) \ roots.assigned)).found

\* The orders the code may take: silent candidates by how much they cover, top
\* senders by their first message.
FirstAt(msgs, n) ==
    LET times == {msgs[k].at : k \in {j \in Active(msgs) : msgs[j].host = n}}
    IN  CHOOSE t \in times : \A u \in times : t <= u

SilentOrders(msgs) ==
    LET c == SilentCoverage(msgs)
    IN  {s \in SetToSeqs(SilentCandidates(msgs)) :
           \A i, j \in DOMAIN s : i < j => c[s[i]] >= c[s[j]]}

RootOrders(msgs) ==
    {s \in SetToSeqs(TopSenders(msgs)) :
       \A i, j \in DOMAIN s : i < j => FirstAt(msgs, s[i]) <= FirstAt(msgs, s[j])}
=============================================================================
