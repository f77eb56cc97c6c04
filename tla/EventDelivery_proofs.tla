-------------------------- MODULE EventDelivery_proofs --------------------------
(***************************************************************************)
(* Proofs about EventDelivery, for every number of nodes, events, retries, *)
(* losses and crashes: the type invariant, and that the delivery           *)
(* implements NodeStateFeed.                                               *)
(***************************************************************************)
EXTENDS EventDelivery, SequenceTheorems, TLAPS

\* An event that the monitor really emitted.
Emitted(e) == e.seq \in 1..emitted[e.node]

\* Every event under way is an emitted one, wherever it is.
InTransitEmitted ==
    /\ \A i \in 1..Len(queue) : Emitted(queue[i])
    /\ current # NoEvent => Emitted(current)
    /\ \A r \in network : Emitted(r.event)

\* The latest effect of a node is the effect of an event on record.
EffectRecorded ==
    \A n \in Nodes : effective[n] = 0 \/ [node |-> n, seq |-> effective[n]] \in recorded

DeliveryInv == TypeOK /\ InTransitEmitted /\ EffectRecorded

-----------------------------------------------------------------------------
\* The queue, the worker and the table start empty.
LEMMA InitDelivery == Init => DeliveryInv
<1> SUFFICES ASSUME Init PROVE DeliveryInv
  OBVIOUS
<1> USE DeliveryAssumption DEF Init
<1>1. TypeOK
  BY DEF TypeOK, Events, Requests
<1>2. InTransitEmitted
  BY DEF InTransitEmitted
<1>3. EffectRecorded
  BY DEF EffectRecorded
<1> QED
  BY <1>1, <1>2, <1>3 DEF DeliveryInv

\* Each step keeps every variable in its type: the queue stays within its capacity
\* (webhook.py:29, 45-49) and a request is never sent without a payload.
LEMMA NextTypeOK == TypeOK /\ [Next]_vars => TypeOK'
<1> SUFFICES ASSUME TypeOK, [Next]_vars PROVE TypeOK'
  OBVIOUS
<1> USE DeliveryAssumption DEF TypeOK
<1>1. ASSUME NEW n \in Nodes, Publish(n) PROVE TypeOK'
  <2>1. [node |-> n, seq |-> emitted[n] + 1] \in Events
    BY DEF Events
  <2>2. queue' \in Seq(Events) /\ Len(queue') <= QueueSize
    BY <1>1, <2>1 DEF Publish, HasRoom
  <2>3. emitted' \in [Nodes -> Nat]
    BY <1>1 DEF Publish
  <2> QED
    BY <1>1, <2>2, <2>3 DEF Publish
<1>2. CASE Take
  <2>1. /\ Head(queue) \in Events
        /\ Tail(queue) \in Seq(Events)
        /\ Len(Tail(queue)) <= QueueSize
    BY <1>2, HeadTailProperties DEF Take
  <2>2. Head(queue) # NoEvent
    BY <2>1 DEF Events
  <2> QED
    BY <1>2, <2>1, <2>2 DEF Take
<1>3. CASE Post
  <2>1. current \in Events
    BY <1>3 DEF Post
  <2>2. [event |-> current, try |-> attempt] \in Requests
    BY <2>1 DEF Requests
  <2> QED
    BY <1>3, <2>2 DEF Post
<1>4. CASE Delivered
  BY <1>4 DEF Delivered
<1>5. CASE Fail
  BY <1>5 DEF Fail, GivesUp
<1>6. CASE Close \/ Break
  <2>1. CASE Close
    BY <2>1 DEF Close
  <2>2. CASE Break
    BY <2>2 DEF Break
  <2> QED
    BY <1>6, <2>1, <2>2
<1>7. ASSUME NEW r \in network, Receive(r) PROVE TypeOK'
  <2>1. r.event \in Events /\ r \in Requests
    BY DEF Requests
  <2>2. r.event.node \in Nodes /\ r.event.seq \in Nat
    BY <2>1 DEF Events
  <2>3. effective' \in [Nodes -> Nat]
    BY <1>7, <2>2 DEF Receive
  <2> QED
    BY <1>7, <2>1, <2>3 DEF Receive
<1>8. CASE Lose
  BY <1>8 DEF Lose
<1>9. CASE Crash
  <2>1. left' \in [losses : Nat, crashes : Nat]
    <3>1. left.crashes \in Nat /\ left.crashes - 1 \in Nat
      BY <1>9 DEF Crash
    <3> QED
      BY <1>9, <3>1 DEF Crash
  <2>2. up' \in BOOLEAN /\ network' \subseteq Requests /\ answers' \subseteq Requests
    BY <1>9 DEF Crash
  <2> QED
    BY <1>9, <2>1, <2>2 DEF Crash
<1>10. CASE Recover
  BY <1>10 DEF Recover
<1>11. CASE UNCHANGED vars
  BY <1>11 DEF vars
<1> QED
  BY <1>1, <1>2, <1>3, <1>4, <1>5, <1>6, <1>7, <1>8, <1>9, <1>10, <1>11 DEF Next

\* Taking a payload from the queue, dropping one and losing a message only moves emitted
\* events or forgets them; publish appends an event it has just counted.
LEMMA NextInTransit == TypeOK /\ InTransitEmitted /\ [Next]_vars => InTransitEmitted'
<1> SUFFICES ASSUME TypeOK, InTransitEmitted, [Next]_vars PROVE InTransitEmitted'
  OBVIOUS
<1> USE DeliveryAssumption
<1>1. ASSUME NEW n \in Nodes, Publish(n) PROVE InTransitEmitted'
  <2> DEFINE new == [node |-> n, seq |-> emitted[n] + 1]
  <2>1. \A e \in Events : Emitted(e) => e.seq \in 1..emitted'[e.node]
    BY <1>1 DEF Publish, TypeOK, Events, Emitted
  <2>2. new \in Events /\ new.seq \in 1..emitted'[new.node]
    BY <1>1 DEF Publish, TypeOK, Events
  <2>3. \A i \in 1..Len(queue') : queue'[i].seq \in 1..emitted'[queue'[i].node]
    <3>1. \A i \in 1..Len(queue) : queue[i].seq \in 1..emitted'[queue[i].node]
      BY <2>1, ElementOfSeq DEF InTransitEmitted, TypeOK
    <3>2. CASE queue' = queue
      BY <3>1, <3>2
    <3>3. CASE queue' = Append(queue, new)
      <4> HIDE DEF new
      <4>1. /\ Len(queue') = Len(queue) + 1
            /\ \A i \in 1..Len(queue) : queue'[i] = queue[i]
            /\ queue'[Len(queue) + 1] = new
        BY <2>2, <3>3, AppendProperties DEF TypeOK
      <4>2. queue'[Len(queue) + 1].seq \in 1..emitted'[queue'[Len(queue) + 1].node]
        BY <2>2, <4>1
      <4>3. \A i \in 1..Len(queue) : queue'[i].seq \in 1..emitted'[queue'[i].node]
        BY <3>1, <4>1
      <4>4. Len(queue) \in Nat
        BY LenProperties DEF TypeOK
      <4>5. ASSUME NEW i \in 1..Len(queue') PROVE i \in 1..Len(queue) \/ i = Len(queue) + 1
        BY <4>1, <4>4
      <4> QED
        BY <4>2, <4>3, <4>5
    <3> QED
      BY <1>1, <3>2, <3>3 DEF Publish
  <2>4. current' # NoEvent => Emitted(current)'
    BY <1>1, <2>1 DEF Publish, TypeOK, InTransitEmitted, Emitted
  <2>5. \A r \in network' : r.event.seq \in 1..emitted'[r.event.node]
    <3>1. \A r \in network : r.event \in Events
      BY DEF TypeOK, Requests
    <3> QED
      BY <1>1, <2>1, <3>1 DEF Publish, InTransitEmitted
  <2> QED
    BY <2>3, <2>4, <2>5 DEF InTransitEmitted, Emitted
<1>2. CASE Take
  <2>1. /\ Len(Tail(queue)) = Len(queue) - 1
        /\ \A i \in 1..Len(Tail(queue)) : Tail(queue)[i] = queue[i + 1]
        /\ Head(queue) = queue[1]
        /\ Len(queue) \in Nat \ {0}
    BY <1>2, HeadTailProperties, EmptySeq DEF Take, TypeOK
  <2>2. \A i \in 1..Len(Tail(queue)) : Emitted(Tail(queue)[i])
    BY <2>1 DEF InTransitEmitted
  <2>3. Emitted(Head(queue))
    BY <2>1 DEF InTransitEmitted
  <2> QED
    BY <1>2, <2>2, <2>3 DEF Take, InTransitEmitted, Emitted
<1>3. CASE Post
  <2>1. \A r \in network' : r \in network \/ r.event = current
    BY <1>3 DEF Post
  <2>2. current # NoEvent
    BY <1>3 DEF Post, TypeOK
  <2> QED
    BY <1>3, <2>1, <2>2 DEF Post, InTransitEmitted, Emitted
<1>4. CASE Delivered
  BY <1>4 DEF Delivered, InTransitEmitted, Emitted
<1>5. CASE Fail
  BY <1>5 DEF Fail, InTransitEmitted, Emitted
<1>6. CASE Close \/ Break
  BY <1>6 DEF Close, Break, InTransitEmitted, Emitted
<1>7. ASSUME NEW r \in network, Receive(r) PROVE InTransitEmitted'
  BY <1>7 DEF Receive, InTransitEmitted, Emitted
<1>8. CASE Lose
  BY <1>8 DEF Lose, InTransitEmitted, Emitted
<1>9. CASE Crash
  BY <1>9 DEF Crash, InTransitEmitted, Emitted
<1>10. CASE Recover
  BY <1>10 DEF Recover, InTransitEmitted, Emitted
<1>11. CASE UNCHANGED vars
  BY <1>11 DEF vars, InTransitEmitted, Emitted
<1> QED
  BY <1>1, <1>2, <1>3, <1>4, <1>5, <1>6, <1>7, <1>8, <1>9, <1>10, <1>11 DEF Next

\* The table only grows, and an effect is recorded with it (node_state_event_store.py:62-79).
LEMMA NextEffectRecorded == TypeOK /\ EffectRecorded /\ [Next]_vars => EffectRecorded'
<1> SUFFICES ASSUME TypeOK, EffectRecorded, [Next]_vars PROVE EffectRecorded'
  OBVIOUS
<1>1. ASSUME NEW r \in network, Receive(r) PROVE EffectRecorded'
  <2>1. r.event \in Events
    BY DEF TypeOK, Requests
  <2>2. r.event.node \in Nodes /\ r.event = [node |-> r.event.node, seq |-> r.event.seq]
    BY <2>1 DEF Events
  <2>3. recorded' = recorded \cup {r.event}
    BY <1>1 DEF Receive
  <2>4. CASE effective' = effective
    BY <2>3, <2>4 DEF EffectRecorded
  <2>5. CASE effective' = [effective EXCEPT ![r.event.node] = r.event.seq]
    BY <2>2, <2>3, <2>5 DEF EffectRecorded, TypeOK
  <2> QED
    BY <1>1, <2>4, <2>5 DEF Receive
<1>2. CASE UNCHANGED <<recorded, effective>>
  BY <1>2 DEF EffectRecorded
<1> QED
  BY <1>1, <1>2 DEF Next, vars, Publish, Take, Post, Delivered, Fail, Break, Close, Lose, Crash, Recover

\* DeliveryInv is inductive.
THEOREM DeliveryInvariant == Spec => []DeliveryInv
<1>1. DeliveryInv /\ [Next]_vars => DeliveryInv'
  BY NextTypeOK, NextInTransit, NextEffectRecorded DEF DeliveryInv
<1> QED
  BY InitDelivery, <1>1, PTL DEF Spec

\* The type invariant, for every queue size and every number of retries.
THEOREM DeliveryTypeOK == Spec => []TypeOK
<1>1. DeliveryInv => TypeOK
  BY DEF DeliveryInv
<1> QED
  BY <1>1, DeliveryInvariant, PTL

-----------------------------------------------------------------------------
\* An event that is neither a duplicate nor stale is later than the latest effect.
LEMMA NewIsLater ==
  ASSUME TypeOK, EffectRecorded, NEW e \in Events, ~Duplicate(e), ~StaleEvent(e), e.seq >= 1
  PROVE  e.seq > effective[e.node]
<1>1. /\ e.node \in Nodes /\ e.seq \in Nat /\ effective[e.node] \in Nat
      /\ e = [node |-> e.node, seq |-> e.seq]
  BY DEF Events, TypeOK
<1>2. CASE effective[e.node] = 0
  BY <1>1, <1>2
<1>3. CASE [node |-> e.node, seq |-> effective[e.node]] \in recorded
  <2>1. ~(e.seq < effective[e.node])
    BY <1>3 DEF StaleEvent
  <2>2. e.seq # effective[e.node]
    BY <1>1, <1>3 DEF Duplicate
  <2> QED
    BY <1>1, <2>1, <2>2
<1> QED
  BY <1>1, <1>2, <1>3 DEF EffectRecorded

\* publish is Emit, record_event is TakeEffect or a stutter, everything else a stutter.
LEMMA StepRefinesFeed ==
    DeliveryInv /\ [Next]_vars => [Feed!Next]_<<emitted, effective>>
<1> SUFFICES ASSUME DeliveryInv, [Next]_vars PROVE [Feed!Next]_<<emitted, effective>>
  OBVIOUS
<1> USE DEF DeliveryInv
<1>1. ASSUME NEW n \in Nodes, Publish(n) PROVE Feed!Next
  BY <1>1 DEF Publish, Feed!Next, Feed!Emit
<1>2. ASSUME NEW r \in network, Receive(r), effective' # effective PROVE Feed!Next
  <2> DEFINE e == r.event
  <2>1. e \in Events /\ e.node \in Nodes /\ e.seq \in 1..emitted[e.node]
    BY DEF TypeOK, Requests, Events, InTransitEmitted, Emitted
  <2>2. /\ ~Duplicate(e) /\ ~StaleEvent(e)
        /\ effective' = [effective EXCEPT ![e.node] = e.seq]
        /\ UNCHANGED emitted
    BY <1>2 DEF Receive
  <2>3. effective[e.node] \in Nat /\ emitted[e.node] \in Nat
    BY <2>1 DEF TypeOK
  <2>4. e.seq > effective[e.node]
    BY <2>1, <2>2, <2>3, NewIsLater
  <2>5. e.seq \in effective[e.node] + 1 .. emitted[e.node]
    BY <2>1, <2>3, <2>4
  <2> QED
    BY <2>1, <2>2, <2>5 DEF Feed!Next, Feed!TakeEffect
<1>3. ASSUME NEW r \in network, Receive(r), effective' = effective
      PROVE  UNCHANGED <<emitted, effective>>
  BY <1>3 DEF Receive
<1>4. CASE Take \/ Post \/ Delivered \/ Fail \/ Break \/ Close \/ Lose \/ Crash
          \/ Recover \/ UNCHANGED vars
  BY <1>4 DEF Take, Post, Delivered, Fail, Break, Close, Lose, Crash, Recover, vars
<1> QED
  BY <1>1, <1>2, <1>3, <1>4 DEF Next

\* Through retries, late and repeated requests, lost answers and crashes of the backend,
\* the state of a node that takes effect only moves forward, through emitted events, each
\* at most once (webhook.py, node_state_event_store.py:62-79).
THEOREM DeliveryImplementsFeed == Spec => ForwardOnly
<1>1. Init => Feed!Init
  BY DEF Init, Feed!Init
<1> QED
  BY <1>1, StepRefinesFeed, DeliveryInvariant, PTL DEF Spec, ForwardOnly, Feed!Spec
=============================================================================
