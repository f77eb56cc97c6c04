------------------------------ MODULE NodeMonitor ------------------------------
(***************************************************************************)
(* The node-monitor service: NodeMonitor.check, the check task it starts,  *)
(* the periodic loop over all targets, the TTL store it writes to and the  *)
(* state-change events it emits (node_monitor/scheduler.py, store.py,      *)
(* evaluator.py).                                                          *)
(*                                                                         *)
(* Everything runs on one event loop; a step is the code between two       *)
(* awaits.  A check is called by the round or by a client of the class,    *)
(* and calls that overlap share a task.  Instants are replaced by ages     *)
(* that Tick moves: what is left of a record's TTL, and the time since the *)
(* last check was started.                                                 *)
(***************************************************************************)
EXTENDS Integers, FiniteSets, Sequences

CONSTANTS
    Nodes,          \* registered targets
    Probes,         \* probe types: icmp and one per TCP port
    TaskIds,        \* bound: check tasks that exist at the same time
    NoTask,
    Ttl, MinInterval, MaxBackoff,   \* ttl_sec, min_check_interval_sec, max_failure_backoff_sec
    MaxConcurrent,                  \* max_concurrent_checks
    Interval,                       \* interval_sec of run_periodically
    OverflowAt,     \* failures from which MinInterval * 2^failures overflows a timedelta
    FailureCap,     \* bound: failure counts are not told apart beyond it
    Clients,        \* nodes that clients check besides the periodic round
    Changing        \* bound: nodes that do not always answer

ASSUME MonitorAssumption ==
    /\ NoTask \notin TaskIds
    /\ {Ttl, MinInterval, MaxBackoff, Interval, OverflowAt, FailureCap} \subseteq Nat
    /\ Ttl > 0 /\ Interval > 0 /\ MinInterval <= MaxBackoff
    /\ MaxConcurrent \in Nat \ {0}
    /\ Clients \subseteq Nodes /\ Changing \subseteq Nodes

States  == {"UP", "DOWN", "UNKNOWN"}      \* evaluate_state yields no DEGRADED here
Known   == {"UP", "DOWN"}
Results == {"success", "failure", "error"}   \* ProbeResult.success: True, False, None

VARIABLES
    reachable,  \* the world: whether a node answers
    record,     \* _records[n].state, "none" while nothing is stored
    ttl,        \* time until the record expires
    since,      \* time since _last_started[n]; MaxBackoff stands for it and all above, and for None
    failures,   \* _failure_counts[n]
    inFlight,   \* _in_flight
    tasks,      \* check tasks some caller still awaits
    queue,      \* tasks waiting for the semaphore, first come first served
    calls,      \* suspended check coroutines
    todo,       \* checks of the round that have not run yet
    phase,      \* run_periodically
    rest,       \* time until the loop wakes up
    stop,       \* stop_event
    told        \* history: state of the last event emitted for a node

vars == <<reachable, record, ttl, since, failures, inFlight, tasks, queue, calls, todo,
          phase, rest, stop, told>>

Init ==
    /\ reachable \in {f \in [Nodes -> BOOLEAN] : \A n \in Nodes \ Changing : f[n]}
    /\ record = [n \in Nodes |-> "none"]
    /\ ttl = [n \in Nodes |-> 0]
    /\ since = [n \in Nodes |-> MaxBackoff]
    /\ failures = [n \in Nodes |-> 0]
    /\ inFlight = [n \in Nodes |-> NoTask]
    /\ tasks = [t \in TaskIds |-> NoTask]
    /\ queue = <<>>
    /\ calls = {}
    /\ todo = {}
    /\ phase = "sleep"
    /\ rest = 0
    /\ stop = FALSE
    /\ told = [n \in Nodes |-> "none"]

-----------------------------------------------------------------------------
(* Rules.                                                                   *)

\* Mutant: a record never expires.
StateForever(n) == IF record[n] = "none" THEN "UNKNOWN" ELSE record[n]

\* InMemoryNodeStateStore.get: nothing stored, or an expired record, is UNKNOWN.
StateOf(n) == IF record[n] = "none" \/ ttl[n] = 0 THEN "UNKNOWN" ELSE record[n]

AtMost(bound, x) == IF x <= bound THEN x ELSE bound

RetryInterval(n) == AtMost(MaxBackoff, MinInterval * 2^failures[n])
\* Mutant: failures do not lengthen the interval.
LimitedWithoutBackoff(n) == since[n] < AtMost(MaxBackoff, MinInterval)
RateLimited(n)   == since[n] < RetryInterval(n)

\* Mutant: a node that answers some probes is DEGRADED.
EvaluateDegraded(results) ==
    IF \A p \in Probes : results[p] = "success" THEN "UP"
    ELSE IF \E p \in Probes : results[p] = "success" THEN "DEGRADED"
    ELSE IF Cardinality({p \in Probes : results[p] = "failure"}) >= 2 THEN "DOWN"
    ELSE "UNKNOWN"

\* evaluate_state without required probe types.
Evaluate(results) ==
    IF \E p \in Probes : results[p] = "success" THEN "UP"
    ELSE IF Cardinality({p \in Probes : results[p] = "failure"}) >= 2 THEN "DOWN"
    ELSE "UNKNOWN"

\* Mutant: the first state known of a node is not an event.
AnnouncedIfKnownBefore(prev, state, last) ==
    IF prev # state /\ prev # "UNKNOWN" THEN state ELSE last

\* The state announced last, after a check.
Announced(prev, state, last) == IF prev # state THEN state ELSE last

\* External: what the probes of a node can return.
Outcomes(n) == {r \in [Probes -> Results] : reachable[n] <=> \E p \in Probes : r[p] = "success"}

Probing == {t \in TaskIds : tasks[t] # NoTask /\ tasks[t].pc = "probe"}

-----------------------------------------------------------------------------
(* check(node_id, force).                                                   *)

Called(n, by) == todo' = IF by = "round" THEN todo \ {n} ELSE todo

CheckCached(n, by, force) ==
    /\ ~force /\ StateOf(n) # "UNKNOWN"
    /\ UNCHANGED <<calls, tasks, inFlight, phase>>

CheckJoins(n, by, force) ==
    /\ force \/ StateOf(n) = "UNKNOWN"
    /\ inFlight[n] # NoTask
    /\ calls' = calls \cup {[node |-> n, by |-> by, task |-> inFlight[n], owner |-> FALSE]}
    /\ UNCHANGED <<tasks, inFlight, phase>>

\* The arithmetic of the rate limit raises: gather passes it on and run_periodically ends.
CheckOverflows(n, by, force) ==
    /\ ~force /\ StateOf(n) = "UNKNOWN" /\ inFlight[n] = NoTask
    /\ failures[n] >= OverflowAt
    /\ phase' = IF by = "round" THEN "dead" ELSE phase
    /\ UNCHANGED <<calls, tasks, inFlight>>

CheckLimited(n, by, force) ==
    /\ ~force /\ StateOf(n) = "UNKNOWN" /\ inFlight[n] = NoTask
    /\ failures[n] < OverflowAt /\ RateLimited(n)
    /\ UNCHANGED <<calls, tasks, inFlight, phase>>

CheckStarts(n, by, force) ==
    /\ inFlight[n] = NoTask
    /\ \/ force
       \/ StateOf(n) = "UNKNOWN" /\ failures[n] < OverflowAt /\ ~RateLimited(n)
    /\ \E t \in TaskIds :
         /\ tasks[t] = NoTask
         /\ t = CHOOSE u \in TaskIds : tasks[u] = NoTask
         /\ tasks' = [tasks EXCEPT ![t] = [node |-> n, pc |-> "new", prev |-> "UNKNOWN",
                                         forced |-> force]]
         /\ inFlight' = [inFlight EXCEPT ![n] = t]
         /\ calls' = calls \cup {[node |-> n, by |-> by, task |-> t, owner |-> TRUE]}
    /\ UNCHANGED phase

CheckBody(n, by, force) ==
    \/ CheckCached(n, by, force)    \/ CheckJoins(n, by, force)
    \/ CheckOverflows(n, by, force) \/ CheckLimited(n, by, force)
    \/ CheckStarts(n, by, force)

\* The round's checks are unforced and each runs once.
RoundCheck(n) ==
    /\ n \in todo
    /\ CheckBody(n, "round", FALSE)
    /\ Called(n, "round")
    /\ UNCHANGED <<reachable, record, ttl, since, failures, queue, rest, stop, told>>

\* A client awaits its check before it calls again.
ClientCheck(n, force) ==
    /\ n \in Clients /\ ~stop /\ \A c \in calls : c.by = "client" => c.node # n
    /\ CheckBody(n, "client", force)
    /\ Called(n, "client")
    /\ UNCHANGED <<reachable, record, ttl, since, failures, queue, rest, stop, told>>

-----------------------------------------------------------------------------
(* _run_check: the task.                                                    *)

Begin(t) ==
    /\ tasks[t] # NoTask /\ tasks[t].pc = "new"
    /\ LET n    == tasks[t].node
           free == queue = <<>> /\ Cardinality(Probing) < MaxConcurrent
       IN  /\ tasks' = [tasks EXCEPT ![t].pc   = IF free THEN "probe" ELSE "queue",
                                     ![t].prev = StateOf(n)]
           /\ since' = [since EXCEPT ![n] = 0]
           /\ queue' = IF free THEN queue ELSE Append(queue, t)
    /\ UNCHANGED <<reachable, record, ttl, failures, inFlight, calls, todo, phase, rest, stop, told>>

Acquire ==
    /\ queue # <<>> /\ Cardinality(Probing) < MaxConcurrent
    /\ tasks' = [tasks EXCEPT ![Head(queue)].pc = "probe"]
    /\ queue' = Tail(queue)
    /\ UNCHANGED <<reachable, record, ttl, since, failures, inFlight, calls, todo, phase, rest,
                   stop, told>>

\* The probes have returned: release the semaphore, store the record, and emit an
\* event if the state differs from the one read when the task began.
Finish(t) ==
    /\ tasks[t] # NoTask /\ tasks[t].pc = "probe"
    /\ LET n == tasks[t].node
       IN  \E results \in Outcomes(n) :
           LET state == Evaluate(results)
           IN  /\ record' = [record EXCEPT ![n] = state]
               /\ ttl' = [ttl EXCEPT ![n] = Ttl]
               /\ failures' = [failures EXCEPT ![n] = IF state = "UP" THEN 0
                                                      ELSE AtMost(FailureCap, @ + 1)]
               /\ told' = [told EXCEPT ![n] = Announced(tasks[t].prev, state, @)]
    /\ tasks' = [tasks EXCEPT ![t].pc = "done"]
    /\ UNCHANGED <<reachable, since, inFlight, queue, calls, todo, phase, rest, stop>>

\* Mutant: every caller of the task removes it from _in_flight.
ResumeAnyClears(c) ==
    /\ tasks[c.task].pc = "done"
    /\ calls' = calls \ {c}
    /\ inFlight' = [inFlight EXCEPT ![c.node] = NoTask]
    /\ tasks' = IF \E d \in calls \ {c} : d.task = c.task
                THEN tasks ELSE [tasks EXCEPT ![c.task] = NoTask]
    /\ UNCHANGED <<reachable, record, ttl, since, failures, queue, todo, phase, rest, stop, told>>

\* A caller gets the task's record; the one that created the task removes it.
Resume(c) ==
    /\ tasks[c.task].pc = "done"
    /\ calls' = calls \ {c}
    /\ inFlight' = IF c.owner /\ inFlight[c.node] = c.task
                   THEN [inFlight EXCEPT ![c.node] = NoTask] ELSE inFlight
    /\ tasks' = IF \E d \in calls \ {c} : d.task = c.task
                THEN tasks ELSE [tasks EXCEPT ![c.task] = NoTask]
    /\ UNCHANGED <<reachable, record, ttl, since, failures, queue, todo, phase, rest, stop, told>>

-----------------------------------------------------------------------------
(* run_periodically and the world.                                          *)

StartRound ==
    /\ phase = "sleep" /\ rest = 0 /\ ~stop
    /\ phase' = "round" /\ todo' = Nodes
    /\ UNCHANGED <<reachable, record, ttl, since, failures, inFlight, tasks, queue, calls, rest,
                   stop, told>>

EndRound ==
    /\ phase = "round" /\ todo = {} /\ \A c \in calls : c.by # "round"
    /\ phase' = "sleep" /\ rest' = Interval
    /\ UNCHANGED <<reachable, record, ttl, since, failures, inFlight, tasks, queue, calls, todo,
                   stop, told>>

RequestStop ==
    /\ ~stop /\ stop' = TRUE
    /\ UNCHANGED <<reachable, record, ttl, since, failures, inFlight, tasks, queue, calls, todo,
                   phase, rest, told>>

Less(x) == IF x = 0 THEN 0 ELSE x - 1

\* The loop has ended and, with the server, the process: nothing happens any more.
Stopped == stop /\ phase = "sleep" /\ calls = {}

Tick ==
    /\ ~Stopped
    /\ ttl' = [n \in Nodes |-> Less(ttl[n])]
    /\ since' = [n \in Nodes |-> AtMost(MaxBackoff, since[n] + 1)]
    /\ rest' = Less(rest)
    /\ UNCHANGED <<reachable, record, failures, inFlight, tasks, queue, calls, todo, phase, stop, told>>

Flip(n) ==
    /\ n \in Changing /\ ~Stopped
    /\ reachable' = [reachable EXCEPT ![n] = ~@]
    /\ UNCHANGED <<record, ttl, since, failures, inFlight, tasks, queue, calls, todo, phase, rest,
                   stop, told>>

TaskNext(t) == Begin(t) \/ Finish(t)

Next ==
    \/ \E n \in Nodes : RoundCheck(n) \/ Flip(n) \/ \E force \in BOOLEAN : ClientCheck(n, force)
    \/ \E t \in TaskIds : TaskNext(t)
    \/ \E c \in calls : Resume(c)
    \/ Acquire \/ StartRound \/ EndRound \/ RequestStop \/ Tick
    \/ Stopped /\ UNCHANGED vars

Spec == Init /\ [][Next]_vars

\* The loop runs what is ready, probes end (they have timeouts), time passes.
Fairness ==
    /\ \A n \in Nodes : WF_vars(RoundCheck(n))
    /\ \A t \in TaskIds : WF_vars(TaskNext(t))
    /\ \A n \in Nodes, by \in {"round", "client"} :
         WF_vars(\E c \in calls : c.node = n /\ c.by = by /\ Resume(c))
    /\ WF_vars(Acquire) /\ WF_vars(StartRound) /\ WF_vars(EndRound) /\ WF_vars(Tick)

FairSpec == Spec /\ Fairness

-----------------------------------------------------------------------------
(* Properties.                                                              *)

TaskStates == [node : Nodes, pc : {"new", "queue", "probe", "done"}, prev : States,
               forced : BOOLEAN]
ASSUME TaskAssumption == NoTask \notin TaskStates

Calls == [node : Nodes, by : {"round", "client"}, task : TaskIds, owner : BOOLEAN]

\* Type invariant.
TypeOK ==
    /\ reachable \in [Nodes -> BOOLEAN]
    /\ record \in [Nodes -> States \cup {"none"}]
    /\ ttl \in [Nodes -> 0..Ttl]
    /\ since \in [Nodes -> 0..MaxBackoff]
    /\ failures \in [Nodes -> Nat]
    /\ inFlight \in [Nodes -> TaskIds \cup {NoTask}]
    /\ tasks \in [TaskIds -> TaskStates \cup {NoTask}]
    /\ queue \in Seq(TaskIds)
    /\ calls \subseteq Calls
    /\ todo \subseteq Nodes
    /\ phase \in {"sleep", "round", "dead"}
    /\ rest \in 0..Interval
    /\ stop \in BOOLEAN
    /\ told \in [Nodes -> States \cup {"none"}]

\* However rounds and clients overlap, a node is checked by one task at a time
\* (node_monitor/README.md, in-flight checks are shared; scheduler.py:82-94).
SingleFlight == \A t, u \in TaskIds :
    /\ tasks[t] # NoTask /\ tasks[t].pc # "done"
    /\ tasks[u] # NoTask /\ tasks[u].pc # "done"
    /\ tasks[t].node = tasks[u].node
    => t = u

\* A stored UP or DOWN is the state the backend was told last, although records expire
\* and forced checks read the previous state before a probe that takes arbitrarily long
\* (scheduler.py:119-168, store.py:30-37).
KnownStateAnnounced == \A n \in Nodes : record[n] \in Known => told[n] = record[n]

\* A check that nobody forced never starts its probes before the retry interval of the
\* node's failures has passed since the last start, although the rate limit is tested
\* before the task runs (scheduler.py:85-88, 109-121).
NoEarlyRetry ==
    [][\A t \in TaskIds : Begin(t) /\ ~tasks[t].forced
           => since[tasks[t].node] >= RetryInterval(tasks[t].node)]_vars

\* A node that answers from some time on, while the service runs, is found to be UP (node_monitor/README.md: it
\* is checked again after DOWN, at a low rate, and its recovery is detected).
RecoveryDetected == \A n \in Nodes : <>[](reachable[n] /\ ~stop) => <>[](record[n] = "UP")
=============================================================================
