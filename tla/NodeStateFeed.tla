----------------------------- MODULE NodeStateFeed -----------------------------
(***************************************************************************)
(* What the delivery of node-state events promises: the state of a node    *)
(* that the backend acts on only moves forward, through states the monitor *)
(* really emitted.  An event may be skipped; none takes effect twice or    *)
(* after a later one (node_monitor/README.md, Steps 8 and 9).              *)
(***************************************************************************)
EXTENDS Integers

CONSTANT Nodes

VARIABLES
    emitted,    \* events emitted for each node; the k-th is event k
    effective   \* the event of each node that took effect last, 0 for none

Init ==
    /\ emitted = [n \in Nodes |-> 0]
    /\ effective = [n \in Nodes |-> 0]

Emit(n) ==
    /\ emitted' = [emitted EXCEPT ![n] = @ + 1]
    /\ UNCHANGED effective

TakeEffect(n) ==
    /\ \E k \in effective[n] + 1 .. emitted[n] : effective' = [effective EXCEPT ![n] = k]
    /\ UNCHANGED emitted

Next == \E n \in Nodes : Emit(n) \/ TakeEffect(n)

Spec == Init /\ [][Next]_<<emitted, effective>>
=============================================================================
