----------------------------- MODULE EventDelivery -----------------------------
(***************************************************************************)
(* The path of a node-state event: the bounded queue and the worker of     *)
(* WebhookEventPublisher (node_monitor/webhook.py), HTTP requests that may *)
(* be slow or lost, and the record of received events that the backend     *)
(* keeps in its database (persistence/node_state_event_store.py).          *)
(*                                                                         *)
(* record_event and the first effect of a new event are one stretch of     *)
(* event-loop code in the backend; what follows it is in IncidentBackend.  *)
(***************************************************************************)
EXTENDS Integers, FiniteSets, Sequences, SequencesExt

CONSTANTS
    Nodes,
    NoEvent,
    QueueSize,      \* queue_size
    MaxRetries,     \* max_retries
    MaxEvents,      \* bound: events per node
    Losses, Crashes \* bounds: requests or responses lost, crashes of the backend

ASSUME DeliveryAssumption ==
    /\ QueueSize \in Nat \ {0}
    /\ {MaxRetries, MaxEvents, Losses, Crashes} \subseteq Nat
    /\ NoEvent \notin [node : Nodes, seq : Nat]

Events   == [node : Nodes, seq : Nat]
Requests == [event : Events, try : 0..MaxRetries]

VARIABLES
    emitted,    \* events emitted per node; seq stands for observed_at and event_id
    queue,      \* _queue
    worker,     \* where _run is
    current,    \* the payload being delivered
    attempt,
    network,    \* requests sent and not handled
    answers,    \* responses sent and not read
    up,         \* whether the backend runs
    recorded,   \* table node_state_events
    effective,  \* the event of each node whose effect is the latest in the backend
    left        \* faults still to come

vars == <<emitted, queue, worker, current, attempt, network, answers, up, recorded, effective, left>>

Init ==
    /\ emitted = [n \in Nodes |-> 0]
    /\ queue = <<>>
    /\ worker = "idle"
    /\ current = NoEvent
    /\ attempt = 0
    /\ network = {}
    /\ answers = {}
    /\ up = TRUE
    /\ recorded = {}
    /\ effective = [n \in Nodes |-> 0]
    /\ left = [losses |-> Losses, crashes |-> Crashes]

-----------------------------------------------------------------------------
(* The publisher.                                                           *)

\* Mutant: one event more than the queue holds.
HasRoomForOneMore == Len(queue) <= QueueSize
HasRoom == Len(queue) < QueueSize

\* publish never waits: a full queue drops the event. It asks nothing of the worker: after
\* the shutdown, or when the worker is dead, the event stays in the queue.
Publish(n) ==
    /\ emitted[n] < MaxEvents
    /\ emitted' = [emitted EXCEPT ![n] = @ + 1]
    /\ queue' = IF HasRoom
                THEN Append(queue, [node |-> n, seq |-> emitted[n] + 1]) ELSE queue
    /\ UNCHANGED <<worker, current, attempt, network, answers, up, recorded, effective, left>>

Take ==
    /\ worker = "idle" /\ queue # <<>>
    /\ worker' = "send" /\ current' = Head(queue) /\ queue' = Tail(queue) /\ attempt' = 0
    /\ UNCHANGED <<emitted, network, answers, up, recorded, effective, left>>

\* A backend that is down refuses the connection, which fails like a timeout.
Post ==
    /\ worker = "send"
    /\ worker' = "wait"
    /\ network' = IF up THEN network \cup {[event |-> current, try |-> attempt]} ELSE network
    /\ UNCHANGED <<emitted, queue, current, attempt, answers, up, recorded, effective, left>>

Delivered ==
    /\ worker = "wait" /\ [event |-> current, try |-> attempt] \in answers
    /\ worker' = "idle" /\ current' = NoEvent
    /\ answers' = answers \ {[event |-> current, try |-> attempt]}
    /\ UNCHANGED <<emitted, queue, attempt, network, up, recorded, effective, left>>

\* Mutant: one retry less.
GivesUpEarly == attempt + 1 >= MaxRetries
GivesUp == attempt >= MaxRetries

\* A timeout or an HTTP error: the request may still be under way.
Fail ==
    /\ worker = "wait"
    /\ IF GivesUp
       THEN worker' = "idle" /\ current' = NoEvent /\ UNCHANGED attempt
       ELSE worker' = "send" /\ attempt' = attempt + 1 /\ UNCHANGED current
    /\ UNCHANGED <<emitted, queue, network, answers, up, recorded, effective, left>>

\* Anything but an httpx.HTTPError (an unusable URL, a broken client) ends _run with the
\* event in hand; nothing starts the worker again, and the queue is read no more.
Break ==
    /\ worker = "wait"
    /\ worker' = "dead" /\ current' = NoEvent
    /\ UNCHANGED <<emitted, queue, attempt, network, answers, up, recorded, effective, left>>

\* Awaiting a dead worker raises its exception again: close then empties nothing.
Close ==
    /\ worker \notin {"closed", "dead"}
    /\ worker' = "closed" /\ current' = NoEvent /\ queue' = <<>>
    /\ UNCHANGED <<emitted, attempt, network, answers, up, recorded, effective, left>>

-----------------------------------------------------------------------------
(* The network and the backend.                                             *)

Duplicate(e) == e \in recorded
\* Mutant: whatever is new is applied.
NeverStale(e) == FALSE
StaleEvent(e) == \E r \in recorded : r.node = e.node /\ e.seq < r.seq

\* record_event: a duplicate is not recorded again, a stale event is recorded only.
Receive(r) ==
    /\ up
    /\ network' = network \ {r}
    /\ recorded' = recorded \cup {r.event}
    /\ effective' = IF Duplicate(r.event) \/ StaleEvent(r.event) THEN effective
                    ELSE [effective EXCEPT ![r.event.node] = r.event.seq]
    /\ answers' = answers \cup {r}
    /\ UNCHANGED <<emitted, queue, worker, current, attempt, up, left>>

Lose ==
    /\ left.losses > 0 /\ left' = [left EXCEPT !.losses = @ - 1]
    /\ \/ \E r \in network : network' = network \ {r} /\ UNCHANGED answers
       \/ \E r \in answers : answers' = answers \ {r} /\ UNCHANGED network
    /\ UNCHANGED <<emitted, queue, worker, current, attempt, up, recorded, effective>>

\* A crash cuts the connections; the table survives.
Crash ==
    /\ up /\ left.crashes > 0 /\ left' = [left EXCEPT !.crashes = @ - 1]
    /\ up' = FALSE /\ network' = {} /\ answers' = {}
    /\ UNCHANGED <<emitted, queue, worker, current, attempt, recorded, effective>>

Recover ==
    /\ ~up /\ up' = TRUE
    /\ UNCHANGED <<emitted, queue, worker, current, attempt, network, answers, recorded,
                   effective, left>>

Next ==
    \/ \E n \in Nodes : Publish(n)
    \/ Take \/ Post \/ Delivered \/ Fail \/ Break \/ Close
    \/ \E r \in network : Receive(r)
    \/ Lose \/ Crash \/ Recover

Spec == Init /\ [][Next]_vars

\* The worker runs, a request or its timeout ends, the backend handles what it receives.
Fairness ==
    /\ WF_vars(Take) /\ WF_vars(Post) /\ WF_vars(Delivered \/ Fail) /\ WF_vars(Recover)
    /\ \A e \in [node : Nodes, seq : 1..MaxEvents], k \in 0..MaxRetries :
         WF_vars(\E r \in network : r = [event |-> e, try |-> k] /\ Receive(r))

FairSpec == Spec /\ Fairness

-----------------------------------------------------------------------------
(* Properties.                                                              *)

\* Type invariant.
TypeOK ==
    /\ emitted \in [Nodes -> Nat]
    /\ queue \in Seq(Events) /\ Len(queue) <= QueueSize
    /\ worker \in {"idle", "send", "wait", "dead", "closed"}
    /\ current \in Events \cup {NoEvent}
    /\ worker \in {"send", "wait"} => current # NoEvent
    /\ attempt \in 0..MaxRetries
    /\ network \subseteq Requests
    /\ answers \subseteq Requests
    /\ up \in BOOLEAN
    /\ recorded \subseteq Events
    /\ effective \in [Nodes -> Nat]
    /\ left \in [losses : Nat, crashes : Nat]

\* Through retries, late requests, lost responses and restarts of the backend, what takes
\* effect for a node are emitted events, in order and each once (README of node_monitor,
\* Steps 8 and 9; node_state_event_store.py:62-79).
Feed == INSTANCE NodeStateFeed WITH Nodes <- Nodes, emitted <- emitted, effective <- effective
ForwardOnly == Feed!Spec

\* As long as no more messages are lost than there are retries, an event that got into
\* the queue is recorded by the backend, unless it crashes, the worker dies of an error it
\* does not handle or the monitor shuts down: however the worker's timeouts race with slow
\* answers (webhook.py:75-91).
Interrupted == left.crashes < Crashes \/ worker \in {"dead", "closed"}
QueuedArrives ==
    \A e \in [node : Nodes, seq : 1..MaxEvents] :
        e \in ToSet(queue) ~> (e \in recorded \/ Interrupted)
=============================================================================
