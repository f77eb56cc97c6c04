--------------------------- MODULE NodeMonitor_proofs ---------------------------
(***************************************************************************)
(* Proofs about NodeMonitor, for every set of nodes, probes and clients,   *)
(* every number of probe slots and every setting of the intervals.         *)
(***************************************************************************)
EXTENDS NodeMonitor, SequenceTheorems, TLAPS

Live(t) == tasks[t] # NoTask /\ tasks[t].pc # "done"

\* A check that has not stored its record is the one in flight for its node.
LiveInFlight == \A t \in TaskIds : Live(t) => inFlight[tasks[t].node] = t

\* Who waits for the semaphore is a task that waits, and waits once.
QueueWaits ==
    /\ \A i \in 1..Len(queue) : tasks[queue[i]] # NoTask /\ tasks[queue[i]].pc = "queue"
    /\ \A i, j \in 1..Len(queue) : queue[i] = queue[j] => i = j

\* While a check runs, the state it began with, if known, is the one announced last.
PreviousAnnounced == \A t \in TaskIds :
    Live(t) /\ tasks[t].prev \in Known => told[tasks[t].node] = tasks[t].prev

\* A check nobody forced that has not begun is still allowed by the rate limit.
NewNotLimited == \A t \in TaskIds :
    tasks[t] # NoTask /\ tasks[t].pc = "new" /\ ~tasks[t].forced => ~RateLimited(tasks[t].node)

MonitorInv ==
    /\ TypeOK
    /\ LiveInFlight
    /\ QueueWaits
    /\ PreviousAnnounced
    /\ NewNotLimited
    /\ KnownStateAnnounced

-----------------------------------------------------------------------------
\* A retry interval is a number no greater than the largest backoff (scheduler.py:113-116).
LEMMA RetryIntervalBounded ==
  ASSUME TypeOK, NEW n \in Nodes
  PROVE  RetryInterval(n) \in Int /\ RetryInterval(n) <= MaxBackoff
<1>1. failures[n] \in Nat /\ MinInterval \in Nat /\ MaxBackoff \in Nat
  BY MonitorAssumption DEF TypeOK
<1> DEFINE product == MinInterval * 2^failures[n]
<1>2. product \in Int
  BY <1>1
<1>3. RetryInterval(n) = IF product <= MaxBackoff THEN product ELSE MaxBackoff
  BY DEF RetryInterval, AtMost
<1> HIDE DEF product
<1> QED
  BY <1>1, <1>2, <1>3

\* evaluate_state yields UP, DOWN or UNKNOWN (evaluator.py:7-23).
LEMMA EvaluateType == \A results : Evaluate(results) \in States
  BY DEF Evaluate, States

\* Nothing is stored, running or announced at the start.
LEMMA InitMonitor == Init => MonitorInv
<1> SUFFICES ASSUME Init PROVE MonitorInv
  OBVIOUS
<1> USE MonitorAssumption DEF Init
<1>1. TypeOK
  <2>1. reachable \in [Nodes -> BOOLEAN]
    OBVIOUS
  <2>2. ttl \in [Nodes -> 0..Ttl] /\ since \in [Nodes -> 0..MaxBackoff] /\ rest \in 0..Interval
    OBVIOUS
  <2>3. queue \in Seq(TaskIds) /\ calls \subseteq Calls /\ todo \subseteq Nodes
    OBVIOUS
  <2> QED
    BY <2>1, <2>2, <2>3 DEF TypeOK, States
<1>2. LiveInFlight /\ PreviousAnnounced /\ NewNotLimited
  BY DEF LiveInFlight, PreviousAnnounced, NewNotLimited, Live
<1>3. QueueWaits
  BY DEF QueueWaits
<1>4. KnownStateAnnounced
  BY DEF KnownStateAnnounced, Known
<1> QED
  BY <1>1, <1>2, <1>3, <1>4 DEF MonitorInv

\* The part of a check call before its first await keeps the types.
LEMMA CheckBodyType ==
  ASSUME TypeOK, NEW n \in Nodes, NEW by \in {"round", "client"}, NEW force \in BOOLEAN,
         CheckBody(n, by, force)
  PROVE  /\ tasks' \in [TaskIds -> TaskStates \cup {NoTask}]
         /\ inFlight' \in [Nodes -> TaskIds \cup {NoTask}]
         /\ calls' \subseteq Calls
         /\ phase' \in {"sleep", "round", "dead"}
<1> USE MonitorAssumption DEF TypeOK
<1>1. CASE CheckCached(n, by, force)
  BY <1>1 DEF CheckCached
<1>2. CASE CheckJoins(n, by, force)
  <2>1. inFlight[n] \in TaskIds
    BY <1>2 DEF CheckJoins
  <2>2. [node |-> n, by |-> by, task |-> inFlight[n], owner |-> FALSE] \in Calls
    BY <2>1 DEF Calls
  <2> QED
    BY <1>2, <2>2 DEF CheckJoins
<1>3. CASE CheckOverflows(n, by, force)
  BY <1>3 DEF CheckOverflows
<1>4. CASE CheckLimited(n, by, force)
  BY <1>4 DEF CheckLimited
<1>5. CASE CheckStarts(n, by, force)
  <2>1. PICK t \in TaskIds :
          /\ tasks' = [tasks EXCEPT ![t] = [node |-> n, pc |-> "new", prev |-> "UNKNOWN",
                                            forced |-> force]]
          /\ inFlight' = [inFlight EXCEPT ![n] = t]
          /\ calls' = calls \cup {[node |-> n, by |-> by, task |-> t, owner |-> TRUE]}
    BY <1>5 DEF CheckStarts
  <2>2. [node |-> n, pc |-> "new", prev |-> "UNKNOWN", forced |-> force] \in TaskStates
    BY DEF TaskStates, States
  <2>3. [node |-> n, by |-> by, task |-> t, owner |-> TRUE] \in Calls
    BY DEF Calls
  <2> QED
    BY <1>5, <2>1, <2>2, <2>3 DEF CheckStarts
<1> QED
  BY <1>1, <1>2, <1>3, <1>4, <1>5 DEF CheckBody

\* A check call creates a task for a node without one, or changes neither of the two tables.
NewTask(t, n, force) ==
    /\ tasks[t] = NoTask /\ inFlight[n] = NoTask
    /\ force \/ ~RateLimited(n)
    /\ tasks' = [tasks EXCEPT ![t] = [node |-> n, pc |-> "new", prev |-> "UNKNOWN",
                                      forced |-> force]]
    /\ inFlight' = [inFlight EXCEPT ![n] = t]

LEMMA CheckBodyEffect ==
  ASSUME NEW n \in Nodes, NEW by, NEW force \in BOOLEAN, CheckBody(n, by, force)
  PROVE  UNCHANGED <<tasks, inFlight>> \/ \E t \in TaskIds : NewTask(t, n, force)
<1>1. CASE CheckStarts(n, by, force)
  BY <1>1 DEF CheckStarts, NewTask
<1> QED
  BY <1>1 DEF CheckBody, CheckCached, CheckJoins, CheckOverflows, CheckLimited

\* Both callers of check: the round, and a client.
LEMMA CheckCalls ==
  ASSUME NEW n \in Nodes, RoundCheck(n) \/ \E force \in BOOLEAN : ClientCheck(n, force)
  PROVE  /\ \E by \in {"round", "client"}, force \in BOOLEAN : CheckBody(n, by, force)
         /\ todo' \subseteq todo
         /\ UNCHANGED <<reachable, record, ttl, since, failures, queue, rest, stop, told>>
<1>1. CASE RoundCheck(n)
  BY <1>1 DEF RoundCheck, Called
<1>2. ASSUME NEW force \in BOOLEAN, ClientCheck(n, force)
      PROVE  /\ \E by \in {"round", "client"} : CheckBody(n, by, force)
             /\ todo' \subseteq todo
             /\ UNCHANGED <<reachable, record, ttl, since, failures, queue, rest, stop, told>>
  BY <1>2 DEF ClientCheck, Called
<1> QED
  BY <1>1, <1>2

-----------------------------------------------------------------------------
\* Types.  The queue of the semaphore must hold tasks for Acquire to keep them.
LEMMA MonitorTypeStep == TypeOK /\ QueueWaits /\ [Next]_vars => TypeOK'
<1> SUFFICES ASSUME TypeOK, QueueWaits, [Next]_vars PROVE TypeOK'
  OBVIOUS
<1> USE MonitorAssumption
<1>1. ASSUME NEW n \in Nodes, RoundCheck(n) \/ \E force \in BOOLEAN : ClientCheck(n, force)
      PROVE  TypeOK'
  <2>1. PICK by \in {"round", "client"}, force \in BOOLEAN : CheckBody(n, by, force)
    BY <1>1, CheckCalls
  <2>2. /\ tasks' \in [TaskIds -> TaskStates \cup {NoTask}]
        /\ inFlight' \in [Nodes -> TaskIds \cup {NoTask}]
        /\ calls' \subseteq Calls
        /\ phase' \in {"sleep", "round", "dead"}
    BY <2>1, CheckBodyType
  <2>3. /\ todo' \subseteq todo
        /\ UNCHANGED <<reachable, record, ttl, since, failures, queue, rest, stop, told>>
    BY <1>1, CheckCalls
  <2> QED
    BY <2>2, <2>3 DEF TypeOK
<1>2. ASSUME NEW t \in TaskIds, Begin(t) PROVE TypeOK'
  <2>1. tasks[t] \in TaskStates /\ tasks[t].node \in Nodes
    BY <1>2 DEF Begin, TypeOK, TaskStates
  <2>2. StateOf(tasks[t].node) \in States
    BY <2>1 DEF StateOf, States, TypeOK
  <2>3. tasks' \in [TaskIds -> TaskStates \cup {NoTask}]
    <3>1. PICK pc \in {"probe", "queue"} :
            tasks' = [tasks EXCEPT ![t] = [tasks[t] EXCEPT !.pc = pc, !.prev = StateOf(tasks[t].node)]]
      BY <1>2 DEF Begin
    <3>2. [tasks[t] EXCEPT !.pc = pc, !.prev = StateOf(tasks[t].node)] \in TaskStates
      BY <2>1, <2>2 DEF TaskStates
    <3> QED
      BY <3>1, <3>2 DEF TypeOK
  <2>4. queue' \in Seq(TaskIds)
    BY <1>2 DEF Begin, TypeOK
  <2>5. since' \in [Nodes -> 0..MaxBackoff]
    <3>1. since' = [since EXCEPT ![tasks[t].node] = 0]
      BY <1>2 DEF Begin
    <3>2. 0 \in 0..MaxBackoff
      OBVIOUS
    <3> QED
      BY <3>1, <3>2 DEF TypeOK
  <2> QED
    BY <1>2, <2>3, <2>4, <2>5 DEF Begin, TypeOK
<1>3. CASE Acquire
  <2>1. /\ Head(queue) = queue[1] /\ Head(queue) \in TaskIds
        /\ Tail(queue) \in Seq(TaskIds)
        /\ 1 \in 1..Len(queue)
    BY <1>3, HeadTailProperties, EmptySeq DEF Acquire, TypeOK
  <2>2. tasks[Head(queue)] \in TaskStates
    BY <2>1 DEF QueueWaits, TypeOK
  <2>3. [tasks[Head(queue)] EXCEPT !.pc = "probe"] \in TaskStates
    BY <2>2 DEF TaskStates
  <2>4. tasks' \in [TaskIds -> TaskStates \cup {NoTask}]
    BY <1>3, <2>1, <2>3 DEF Acquire, TypeOK
  <2> QED
    BY <1>3, <2>1, <2>4 DEF Acquire, TypeOK
<1>4. ASSUME NEW t \in TaskIds, Finish(t) PROVE TypeOK'
  <2>1. tasks[t] \in TaskStates /\ tasks[t].node \in Nodes
    BY <1>4 DEF Finish, TypeOK, TaskStates
  <2>2. PICK state \in States :
          /\ record' = [record EXCEPT ![tasks[t].node] = state]
          /\ ttl' = [ttl EXCEPT ![tasks[t].node] = Ttl]
          /\ failures' = [failures EXCEPT ![tasks[t].node] =
                            IF state = "UP" THEN 0 ELSE AtMost(FailureCap, @ + 1)]
          /\ told' = [told EXCEPT ![tasks[t].node] = Announced(tasks[t].prev, state, @)]
    BY <1>4, EvaluateType DEF Finish
  <2>3. [tasks[t] EXCEPT !.pc = "done"] \in TaskStates
    BY <2>1 DEF TaskStates
  <2>4. tasks' \in [TaskIds -> TaskStates \cup {NoTask}]
    BY <1>4, <2>3 DEF Finish, TypeOK
  <2>5. failures' \in [Nodes -> Nat]
    BY <2>1, <2>2 DEF TypeOK, AtMost
  <2>6. told' \in [Nodes -> States \cup {"none"}]
    BY <2>1, <2>2 DEF TypeOK, Announced
  <2>7. record' \in [Nodes -> States \cup {"none"}] /\ ttl' \in [Nodes -> 0..Ttl]
    BY <2>1, <2>2 DEF TypeOK
  <2> QED
    BY <1>4, <2>4, <2>5, <2>6, <2>7 DEF Finish, TypeOK
<1>5. ASSUME NEW c \in calls, Resume(c) PROVE TypeOK'
  <2>1. c.task \in TaskIds /\ c.node \in Nodes
    BY DEF TypeOK, Calls
  <2> QED
    BY <1>5, <2>1 DEF Resume, TypeOK
<1>6. CASE Tick
  <2>1. \A n \in Nodes : Less(ttl[n]) \in 0..Ttl
    BY DEF Less, TypeOK
  <2>2. \A n \in Nodes : AtMost(MaxBackoff, since[n] + 1) \in 0..MaxBackoff
    BY DEF AtMost, TypeOK
  <2>3. Less(rest) \in 0..Interval
    BY DEF Less, TypeOK
  <2>4. /\ ttl' = [n \in Nodes |-> Less(ttl[n])]
        /\ since' = [n \in Nodes |-> AtMost(MaxBackoff, since[n] + 1)]
        /\ rest' = Less(rest)
    BY <1>6 DEF Tick
  <2>5. ttl' \in [Nodes -> 0..Ttl] /\ since' \in [Nodes -> 0..MaxBackoff] /\ rest' \in 0..Interval
    BY <2>1, <2>2, <2>3, <2>4
  <2> QED
    BY <1>6, <2>5 DEF Tick, TypeOK
<1>7. CASE StartRound \/ RequestStop \/ UNCHANGED vars
  BY <1>7 DEF StartRound, RequestStop, vars, TypeOK
<1>8. CASE EndRound
  <2>1. Interval \in 0..Interval
    OBVIOUS
  <2> QED
    BY <1>8, <2>1 DEF EndRound, TypeOK
<1>9. ASSUME NEW n \in Nodes, Flip(n) PROVE TypeOK'
  BY <1>9 DEF Flip, TypeOK
<1> QED
  BY <1>1, <1>2, <1>3, <1>4, <1>5, <1>6, <1>7, <1>8, <1>9 DEF Next, TaskNext

-----------------------------------------------------------------------------
\* What is left of the semaphore's queue still waits; Begin adds a task that is not in it.
LEMMA QueueWaitsStep == TypeOK /\ QueueWaits /\ [Next]_vars => QueueWaits'
<1> SUFFICES ASSUME TypeOK, QueueWaits, [Next]_vars PROVE QueueWaits'
  OBVIOUS
<1>q. queue \in Seq(TaskIds) /\ Len(queue) \in Nat /\ \A i \in 1..Len(queue) : queue[i] \in TaskIds
  BY LenProperties, ElementOfSeq DEF TypeOK
<1>0. ASSUME UNCHANGED queue,
             NEW s, \A u \in TaskIds \ {s} : tasks'[u] = tasks[u],
             ~(tasks[s] # NoTask /\ tasks[s].pc = "queue")
      PROVE  QueueWaits'
  BY <1>0, <1>q DEF QueueWaits
<1>1. ASSUME NEW n \in Nodes, RoundCheck(n) \/ \E force \in BOOLEAN : ClientCheck(n, force)
      PROVE  QueueWaits'
  <2>1. UNCHANGED queue
    BY <1>1, CheckCalls
  <2>2. CASE UNCHANGED tasks
    BY <2>1, <2>2 DEF QueueWaits
  <2>3. ASSUME NEW t \in TaskIds, NEW force \in BOOLEAN, NewTask(t, n, force) PROVE QueueWaits'
    BY <2>1, <2>3, <1>0 DEF NewTask, TypeOK
  <2> QED
    BY <1>1, <2>2, <2>3, CheckCalls, CheckBodyEffect
<1>2. ASSUME NEW t \in TaskIds, Begin(t) PROVE QueueWaits'
  <2>1. tasks[t] # NoTask /\ tasks[t].pc = "new" /\ tasks[t] \in TaskStates
    BY <1>2 DEF Begin, TypeOK
  <2>2. \A i \in 1..Len(queue) : queue[i] # t
    BY <2>1 DEF QueueWaits
  <2>3. \A u \in TaskIds \ {t} : tasks'[u] = tasks[u]
    BY <1>2 DEF Begin, TypeOK
  <2>4. CASE UNCHANGED queue
    BY <2>2, <2>3, <2>4, <1>q DEF QueueWaits
  <2>5. CASE ~ UNCHANGED queue
    <3>1. queue' = Append(queue, t) /\ tasks'[t] # NoTask /\ tasks'[t].pc = "queue"
      <4>1. queue' = Append(queue, t)
            /\ tasks' = [tasks EXCEPT ![t] = [tasks[t] EXCEPT !.pc = "queue",
                                                            !.prev = StateOf(tasks[t].node)]]
        BY <1>2, <2>5 DEF Begin
      <4>2. tasks'[t] = [tasks[t] EXCEPT !.pc = "queue", !.prev = StateOf(tasks[t].node)]
        BY <4>1 DEF TypeOK
      <4>3. tasks'[t].pc = "queue"
        BY <2>1, <4>2 DEF TaskStates
      <4>4. StateOf(tasks[t].node) \in States
        BY <2>1 DEF StateOf, States, TypeOK, TaskStates
      <4>5. tasks'[t] \in TaskStates
        BY <2>1, <4>2, <4>4 DEF TaskStates
      <4> QED
        BY <4>1, <4>3, <4>5, TaskAssumption
    <3>2. /\ Len(queue') = Len(queue) + 1
          /\ \A i \in 1..Len(queue) : queue'[i] = queue[i]
          /\ queue'[Len(queue) + 1] = t
      BY <3>1, <1>q, AppendProperties
    <3>3. \A i \in 1..Len(queue') : i \in 1..Len(queue) \/ i = Len(queue) + 1
      BY <3>2, <1>q
    <3>4. \A i \in 1..Len(queue') : tasks'[queue'[i]] # NoTask /\ tasks'[queue'[i]].pc = "queue"
      BY <2>2, <2>3, <3>1, <3>2, <3>3, <1>q DEF QueueWaits
    <3>5. \A i, j \in 1..Len(queue') : queue'[i] = queue'[j] => i = j
      BY <2>2, <3>2, <3>3 DEF QueueWaits
    <3> QED
      BY <3>4, <3>5 DEF QueueWaits
  <2> QED
    BY <2>4, <2>5
<1>3. CASE Acquire
  <2>1. /\ Head(queue) = queue[1] /\ Head(queue) \in TaskIds
        /\ queue' = Tail(queue)
        /\ Len(queue') = Len(queue) - 1
        /\ \A i \in 1..Len(queue') : queue'[i] = queue[i + 1]
    BY <1>3, HeadTailProperties, EmptySeq DEF Acquire, TypeOK
  <2>2. \A i \in 1..Len(queue') : i + 1 \in 1..Len(queue) /\ i + 1 # 1
    BY <2>1, <1>q
  <2>3. 1 \in 1..Len(queue)
    BY <1>3, <1>q, EmptySeq DEF Acquire
  <2>4. \A i \in 1..Len(queue') : queue'[i] # Head(queue)
    BY <2>1, <2>2, <2>3 DEF QueueWaits
  <2>5. \A u \in TaskIds \ {Head(queue)} : tasks'[u] = tasks[u]
    BY <1>3, <2>1 DEF Acquire, TypeOK
  <2>6. \A i \in 1..Len(queue') : tasks'[queue'[i]] # NoTask /\ tasks'[queue'[i]].pc = "queue"
    BY <2>1, <2>2, <2>4, <2>5, <1>q DEF QueueWaits
  <2>7. \A i, j \in 1..Len(queue') : queue'[i] = queue'[j] => i = j
    <3>1. ASSUME NEW i \in 1..Len(queue'), NEW j \in 1..Len(queue'), queue'[i] = queue'[j]
          PROVE  i = j
      <4>1. i + 1 = j + 1
        BY <2>1, <2>2, <3>1 DEF QueueWaits
      <4> QED
        BY <4>1
    <3> QED
      BY <3>1
  <2> QED
    BY <2>6, <2>7 DEF QueueWaits
<1>4. ASSUME NEW t \in TaskIds, Finish(t) PROVE QueueWaits'
  BY <1>4, <1>0 DEF Finish, TypeOK
<1>5. ASSUME NEW c \in calls, Resume(c) PROVE QueueWaits'
  <2>1. c.task \in TaskIds
    BY DEF TypeOK, Calls
  <2> QED
    BY <1>5, <2>1, <1>0 DEF Resume, TypeOK
<1>6. CASE UNCHANGED <<tasks, queue>>
  BY <1>6 DEF QueueWaits
<1> QED
  BY <1>1, <1>2, <1>3, <1>4, <1>5, <1>6
     DEF Next, TaskNext, Flip, Tick, StartRound, EndRound, RequestStop, vars

\* A task that has begun is registered until it has stored its record: only its own caller
\* removes it, and only when it is done (scheduler.py:82-94).
LEMMA LiveInFlightStep ==
    TypeOK /\ QueueWaits /\ LiveInFlight /\ [Next]_vars => LiveInFlight'
<1> SUFFICES ASSUME TypeOK, QueueWaits, LiveInFlight, [Next]_vars PROVE LiveInFlight'
  OBVIOUS
<1>0. ASSUME NEW s \in TaskIds, Live(s), UNCHANGED inFlight,
             \A u \in TaskIds \ {s} : tasks'[u] = tasks[u],
             tasks'[s].node = tasks[s].node
      PROVE  LiveInFlight'
  BY <1>0 DEF LiveInFlight, Live
<1>1. ASSUME NEW n \in Nodes, RoundCheck(n) \/ \E force \in BOOLEAN : ClientCheck(n, force)
      PROVE  LiveInFlight'
  <2>1. CASE UNCHANGED <<tasks, inFlight>>
    BY <2>1 DEF LiveInFlight, Live
  <2>2. ASSUME NEW t \in TaskIds, NEW force \in BOOLEAN, NewTask(t, n, force) PROVE LiveInFlight'
    <3>1. /\ tasks'[t].node = n /\ inFlight'[n] = t
          /\ \A u \in TaskIds \ {t} : tasks'[u] = tasks[u]
          /\ \A m \in Nodes \ {n} : inFlight'[m] = inFlight[m]
      BY <2>2 DEF NewTask, TypeOK
    <3>2. ASSUME NEW u \in TaskIds \ {t}, Live(u) PROVE tasks[u].node \in Nodes \ {n}
      <4>1. inFlight[tasks[u].node] = u /\ tasks[u].node \in Nodes
        BY <3>2 DEF LiveInFlight, Live, TypeOK, TaskStates
      <4>2. inFlight[n] = NoTask
        BY <2>2 DEF NewTask
      <4> QED
        BY <4>1, <4>2, MonitorAssumption
    <3> QED
      BY <3>1, <3>2 DEF LiveInFlight, Live
  <2> QED
    BY <1>1, <2>1, <2>2, CheckCalls, CheckBodyEffect
<1>2. ASSUME NEW t \in TaskIds, Begin(t) PROVE LiveInFlight'
  <2>1. Live(t) /\ tasks[t] \in TaskStates
    BY <1>2 DEF Begin, Live, TypeOK
  <2>2. PICK pc \in {"probe", "queue"} :
          tasks' = [tasks EXCEPT ![t] = [tasks[t] EXCEPT !.pc = pc, !.prev = StateOf(tasks[t].node)]]
    BY <1>2 DEF Begin
  <2>3. tasks'[t].node = tasks[t].node /\ \A u \in TaskIds \ {t} : tasks'[u] = tasks[u]
    BY <2>1, <2>2 DEF TypeOK, TaskStates
  <2> QED
    BY <1>2, <2>1, <2>3, <1>0 DEF Begin
<1>3. CASE Acquire
  <2>1. Head(queue) = queue[1] /\ Head(queue) \in TaskIds /\ 1 \in 1..Len(queue)
    BY <1>3, HeadTailProperties, EmptySeq DEF Acquire, TypeOK
  <2>2. Live(Head(queue)) /\ tasks[Head(queue)] \in TaskStates
    BY <2>1 DEF QueueWaits, Live, TypeOK
  <2>3. /\ tasks'[Head(queue)].node = tasks[Head(queue)].node
        /\ \A u \in TaskIds \ {Head(queue)} : tasks'[u] = tasks[u]
    BY <1>3, <2>1, <2>2 DEF Acquire, TypeOK, TaskStates
  <2> QED
    BY <1>3, <2>1, <2>2, <2>3, <1>0 DEF Acquire
<1>4. ASSUME NEW t \in TaskIds, Finish(t) PROVE LiveInFlight'
  <2>1. Live(t) /\ tasks[t] \in TaskStates
    BY <1>4 DEF Finish, Live, TypeOK
  <2> QED
    BY <1>4, <2>1, <1>0 DEF Finish, TypeOK, TaskStates
<1>5. ASSUME NEW c \in calls, Resume(c) PROVE LiveInFlight'
  <2>1. c.task \in TaskIds /\ c.node \in Nodes /\ tasks[c.task].pc = "done"
    BY <1>5 DEF Resume, TypeOK, Calls
  <2>2. \A u \in TaskIds \ {c.task} : tasks'[u] = tasks[u]
    BY <1>5, <2>1 DEF Resume, TypeOK
  <2>3. tasks'[c.task] = NoTask \/ tasks'[c.task] = tasks[c.task]
    BY <1>5, <2>1 DEF Resume, TypeOK
  <2>4. ASSUME NEW u \in TaskIds, Live(u)' PROVE inFlight'[tasks'[u].node] = u
    <3>1. u # c.task /\ Live(u) /\ tasks'[u] = tasks[u]
      BY <2>1, <2>2, <2>3, <2>4 DEF Live
    <3>2. inFlight[tasks[u].node] = u
      BY <3>1 DEF LiveInFlight
    <3> QED
      BY <1>5, <2>1, <3>1, <3>2 DEF Resume, TypeOK
  <2> QED
    BY <2>4 DEF LiveInFlight
<1>6. CASE UNCHANGED <<tasks, inFlight>>
  BY <1>6 DEF LiveInFlight, Live
<1> QED
  BY <1>1, <1>2, <1>3, <1>4, <1>5, <1>6
     DEF Next, TaskNext, Flip, Tick, StartRound, EndRound, RequestStop, vars

\* A node has one check at a time.
LEMMA OneLiveTask ==
  ASSUME LiveInFlight, NEW t \in TaskIds, NEW u \in TaskIds, Live(t), Live(u),
         tasks[t].node = tasks[u].node
  PROVE  t = u
  BY DEF LiveInFlight

-----------------------------------------------------------------------------
\* What a check announces and stores goes together, although it compares with a state read
\* before its probes: in between nobody else announces anything for its node.
LEMMA AnnouncedStep ==
    MonitorInv /\ [Next]_vars => PreviousAnnounced' /\ KnownStateAnnounced'
<1> DEFINE Goal == PreviousAnnounced /\ KnownStateAnnounced
<1> SUFFICES ASSUME MonitorInv, [Next]_vars PROVE Goal'
  OBVIOUS
<1> USE DEF MonitorInv
<1>0. ASSUME UNCHANGED <<record, told>>,
             \A u \in TaskIds : Live(u)' /\ tasks'[u].prev \in Known =>
                \/ told[tasks'[u].node] = tasks'[u].prev
                \/ Live(u) /\ tasks'[u].node = tasks[u].node /\ tasks'[u].prev = tasks[u].prev
      PROVE  Goal'
  BY <1>0 DEF PreviousAnnounced, KnownStateAnnounced
<1>1. ASSUME NEW n \in Nodes, RoundCheck(n) \/ \E force \in BOOLEAN : ClientCheck(n, force)
      PROVE  Goal'
  <2>1. UNCHANGED <<record, told>>
    BY <1>1, CheckCalls
  <2>2. CASE UNCHANGED tasks
    BY <2>1, <2>2, <1>0 DEF Live
  <2>3. ASSUME NEW t \in TaskIds, NEW force \in BOOLEAN, NewTask(t, n, force) PROVE Goal'
    <3>1. /\ tasks'[t].prev = "UNKNOWN"
          /\ \A u \in TaskIds \ {t} : tasks'[u] = tasks[u]
      BY <2>3 DEF NewTask, TypeOK
    <3> QED
      BY <2>1, <3>1, <1>0 DEF Live, Known
  <2> QED
    BY <1>1, <2>2, <2>3, CheckCalls, CheckBodyEffect
<1>2. ASSUME NEW t \in TaskIds, Begin(t) PROVE Goal'
  <2>1. Live(t) /\ tasks[t] \in TaskStates /\ tasks[t].node \in Nodes
    BY <1>2 DEF Begin, Live, TypeOK, TaskStates
  <2>2. PICK pc \in {"probe", "queue"} :
          tasks' = [tasks EXCEPT ![t] = [tasks[t] EXCEPT !.pc = pc, !.prev = StateOf(tasks[t].node)]]
    BY <1>2 DEF Begin
  <2>3. /\ tasks'[t].node = tasks[t].node /\ tasks'[t].prev = StateOf(tasks[t].node)
        /\ \A u \in TaskIds \ {t} : tasks'[u] = tasks[u]
    BY <2>1, <2>2 DEF TypeOK, TaskStates
  <2>4. StateOf(tasks[t].node) \in Known => told[tasks[t].node] = StateOf(tasks[t].node)
    BY <2>1 DEF StateOf, Known, KnownStateAnnounced
  <2>5. UNCHANGED <<record, told>>
    BY <1>2 DEF Begin
  <2> QED
    BY <2>3, <2>4, <2>5, <1>0 DEF Live
<1>3. CASE Acquire
  <2>1. Head(queue) = queue[1] /\ Head(queue) \in TaskIds /\ 1 \in 1..Len(queue)
    BY <1>3, HeadTailProperties, EmptySeq DEF Acquire, TypeOK
  <2>2. Live(Head(queue)) /\ tasks[Head(queue)] \in TaskStates
    BY <2>1 DEF QueueWaits, Live, TypeOK
  <2>3. /\ tasks'[Head(queue)].node = tasks[Head(queue)].node
        /\ tasks'[Head(queue)].prev = tasks[Head(queue)].prev
        /\ \A u \in TaskIds \ {Head(queue)} : tasks'[u] = tasks[u]
    BY <1>3, <2>1, <2>2 DEF Acquire, TypeOK, TaskStates
  <2>4. UNCHANGED <<record, told>>
    BY <1>3 DEF Acquire
  <2> QED
    BY <2>2, <2>3, <2>4, <1>0 DEF Live
<1>4. ASSUME NEW t \in TaskIds, Finish(t) PROVE Goal'
  <2> DEFINE n == tasks[t].node
  <2>1. Live(t) /\ tasks[t] \in TaskStates /\ n \in Nodes
    BY <1>4 DEF Finish, Live, TypeOK, TaskStates
  <2>2. PICK state \in States :
          /\ record' = [record EXCEPT ![n] = state]
          /\ told' = [told EXCEPT ![n] = Announced(tasks[t].prev, state, @)]
    BY <1>4, EvaluateType DEF Finish
  <2>3. /\ tasks'[t].pc = "done"
        /\ \A u \in TaskIds \ {t} : tasks'[u] = tasks[u]
    BY <1>4, <2>1 DEF Finish, TypeOK, TaskStates
  <2>4. ASSUME NEW u \in TaskIds, Live(u)', tasks'[u].prev \in Known
        PROVE  told'[tasks'[u].node] = tasks'[u].prev
    <3>1. u # t /\ Live(u) /\ tasks'[u] = tasks[u]
      BY <2>3, <2>4 DEF Live
    <3>2. tasks[u].node # n
      BY <2>1, <3>1, OneLiveTask
    <3>3. told[tasks[u].node] = tasks[u].prev
      BY <2>4, <3>1 DEF PreviousAnnounced
    <3>4. tasks[u].node \in Nodes
      BY <3>1 DEF Live, TypeOK, TaskStates
    <3> QED
      BY <2>2, <3>1, <3>2, <3>3, <3>4 DEF TypeOK
  <2>5. ASSUME NEW m \in Nodes, record'[m] \in Known PROVE told'[m] = record'[m]
    <3>1. CASE m = n
      <4>1. record'[n] = state /\ told'[n] = Announced(tasks[t].prev, state, told[n])
        BY <2>1, <2>2 DEF TypeOK
      <4>2. tasks[t].prev = state => told[n] = state
        BY <2>1, <2>5, <3>1, <4>1 DEF PreviousAnnounced
      <4> QED
        BY <3>1, <4>1, <4>2 DEF Announced
    <3>2. CASE m # n
      <4>1. record'[m] = record[m] /\ told'[m] = told[m]
        BY <2>2, <3>2 DEF TypeOK
      <4> QED
        BY <2>5, <4>1 DEF KnownStateAnnounced
    <3> QED
      BY <3>1, <3>2
  <2> QED
    BY <2>4, <2>5 DEF PreviousAnnounced, KnownStateAnnounced
<1>5. ASSUME NEW c \in calls, Resume(c) PROVE Goal'
  <2>1. c.task \in TaskIds /\ tasks[c.task].pc = "done"
    BY <1>5 DEF Resume, TypeOK, Calls
  <2>2. \A u \in TaskIds : Live(u)' => Live(u) /\ tasks'[u] = tasks[u]
    BY <1>5, <2>1 DEF Resume, TypeOK, Live
  <2>3. UNCHANGED <<record, told>>
    BY <1>5 DEF Resume
  <2> QED
    BY <2>2, <2>3, <1>0
<1>6. CASE UNCHANGED <<tasks, record, told>>
  BY <1>6, <1>0 DEF Live
<1> QED
  BY <1>1, <1>2, <1>3, <1>4, <1>5, <1>6
     DEF Next, TaskNext, Flip, Tick, StartRound, EndRound, RequestStop, vars

\* Between the test of the rate limit and the start of the task nothing shortens the time
\* since the last start or lengthens the interval of its node (scheduler.py:85-91, 119-121).
LEMMA NewNotLimitedStep == MonitorInv /\ [Next]_vars => NewNotLimited'
<1> SUFFICES ASSUME MonitorInv, [Next]_vars PROVE NewNotLimited'
  OBVIOUS
<1> USE DEF MonitorInv
<1>0. ASSUME UNCHANGED <<since, failures>>,
             \A u \in TaskIds : tasks'[u] # NoTask /\ tasks'[u].pc = "new" => tasks'[u] = tasks[u]
      PROVE  NewNotLimited'
  BY <1>0 DEF NewNotLimited, RateLimited, RetryInterval
<1>1. ASSUME NEW n \in Nodes, RoundCheck(n) \/ \E force \in BOOLEAN : ClientCheck(n, force)
      PROVE  NewNotLimited'
  <2>1. UNCHANGED <<since, failures>>
    BY <1>1, CheckCalls
  <2>2. CASE UNCHANGED tasks
    BY <2>1, <2>2, <1>0
  <2>3. ASSUME NEW t \in TaskIds, NEW force \in BOOLEAN, NewTask(t, n, force)
        PROVE  NewNotLimited'
    <3>1. /\ tasks'[t].node = n /\ tasks'[t].forced = force
          /\ \A u \in TaskIds \ {t} : tasks'[u] = tasks[u]
      BY <2>3 DEF NewTask, TypeOK
    <3>2. force \/ ~RateLimited(n)
      BY <2>3 DEF NewTask
    <3> QED
      BY <2>1, <3>1, <3>2 DEF NewNotLimited, RateLimited, RetryInterval
  <2> QED
    BY <1>1, <2>2, <2>3, CheckCalls, CheckBodyEffect
<1>2. ASSUME NEW t \in TaskIds, Begin(t) PROVE NewNotLimited'
  <2>1. Live(t) /\ tasks[t] \in TaskStates /\ tasks[t].node \in Nodes
    BY <1>2 DEF Begin, Live, TypeOK, TaskStates
  <2>2. /\ tasks'[t].pc # "new"
        /\ \A u \in TaskIds \ {t} : tasks'[u] = tasks[u]
    <3>1. PICK pc \in {"probe", "queue"} :
            tasks' = [tasks EXCEPT ![t] = [tasks[t] EXCEPT !.pc = pc, !.prev = StateOf(tasks[t].node)]]
      BY <1>2 DEF Begin
    <3> QED
      BY <2>1, <3>1 DEF TypeOK, TaskStates
  <2>3. UNCHANGED failures /\ \A m \in Nodes \ {tasks[t].node} : since'[m] = since[m]
    BY <1>2 DEF Begin, TypeOK
  <2>4. ASSUME NEW u \in TaskIds, tasks'[u] # NoTask, tasks'[u].pc = "new", ~tasks'[u].forced
        PROVE  (~RateLimited(tasks[u].node))'
    <3>1. u # t /\ tasks'[u] = tasks[u] /\ Live(u)
      BY <2>2, <2>4 DEF Live
    <3>2. tasks[u].node \in Nodes \ {tasks[t].node}
      BY <2>1, <3>1, OneLiveTask DEF Live, TypeOK, TaskStates
    <3>3. ~RateLimited(tasks[u].node)
      BY <2>4, <3>1 DEF NewNotLimited
    <3> QED
      BY <2>3, <3>1, <3>2, <3>3 DEF RateLimited, RetryInterval
  <2> QED
    BY <2>4 DEF NewNotLimited
<1>3. CASE Acquire
  <2>1. Head(queue) \in TaskIds /\ Head(queue) = queue[1] /\ 1 \in 1..Len(queue)
    BY <1>3, HeadTailProperties, EmptySeq DEF Acquire, TypeOK
  <2>2. tasks[Head(queue)] \in TaskStates
    BY <2>1 DEF QueueWaits, TypeOK
  <2>3. /\ tasks'[Head(queue)].pc = "probe"
        /\ \A u \in TaskIds \ {Head(queue)} : tasks'[u] = tasks[u]
    BY <1>3, <2>1, <2>2 DEF Acquire, TypeOK, TaskStates
  <2>4. UNCHANGED <<since, failures>>
    BY <1>3 DEF Acquire
  <2> QED
    BY <2>3, <2>4, <1>0
<1>4. ASSUME NEW t \in TaskIds, Finish(t) PROVE NewNotLimited'
  <2>1. Live(t) /\ tasks[t] \in TaskStates /\ tasks[t].node \in Nodes
    BY <1>4 DEF Finish, Live, TypeOK, TaskStates
  <2>2. /\ tasks'[t].pc = "done"
        /\ \A u \in TaskIds \ {t} : tasks'[u] = tasks[u]
    BY <1>4, <2>1 DEF Finish, TypeOK, TaskStates
  <2>3. UNCHANGED since /\ \A m \in Nodes \ {tasks[t].node} : failures'[m] = failures[m]
    BY <1>4 DEF Finish, TypeOK
  <2>4. ASSUME NEW u \in TaskIds, tasks'[u] # NoTask, tasks'[u].pc = "new", ~tasks'[u].forced
        PROVE  (~RateLimited(tasks[u].node))'
    <3>1. u # t /\ tasks'[u] = tasks[u] /\ Live(u)
      BY <2>2, <2>4 DEF Live
    <3>2. tasks[u].node \in Nodes \ {tasks[t].node}
      BY <2>1, <3>1, OneLiveTask DEF Live, TypeOK, TaskStates
    <3>3. ~RateLimited(tasks[u].node)
      BY <2>4, <3>1 DEF NewNotLimited
    <3> QED
      BY <2>3, <3>1, <3>2, <3>3 DEF RateLimited, RetryInterval
  <2> QED
    BY <2>4 DEF NewNotLimited
<1>5. ASSUME NEW c \in calls, Resume(c) PROVE NewNotLimited'
  <2>1. c.task \in TaskIds
    BY DEF TypeOK, Calls
  <2>2. \A u \in TaskIds : tasks'[u] # NoTask => tasks'[u] = tasks[u]
    BY <1>5, <2>1 DEF Resume, TypeOK
  <2>3. UNCHANGED <<since, failures>>
    BY <1>5 DEF Resume
  <2> QED
    BY <2>2, <2>3, <1>0
<1>6. CASE Tick
  <2>1. ASSUME NEW n \in Nodes, ~RateLimited(n) PROVE ~RateLimited(n)'
    <3>1. RetryInterval(n) \in Int /\ RetryInterval(n) <= MaxBackoff
      BY RetryIntervalBounded
    <3>2. since[n] \in 0..MaxBackoff /\ MaxBackoff \in Nat
      BY MonitorAssumption DEF TypeOK
    <3>3. since'[n] = IF since[n] + 1 <= MaxBackoff THEN since[n] + 1 ELSE MaxBackoff
      BY <1>6 DEF Tick, AtMost
    <3>4. RetryInterval(n)' = RetryInterval(n)
      BY <1>6 DEF Tick, RetryInterval
    <3>5. ~(since[n] < RetryInterval(n))
      BY <2>1 DEF RateLimited
    <3>6. ~(since'[n] < RetryInterval(n))
      BY <3>1, <3>2, <3>3, <3>5
    <3> QED
      BY <3>4, <3>6 DEF RateLimited
  <2>2. \A u \in TaskIds : tasks[u] # NoTask => tasks[u].node \in Nodes
    BY DEF TypeOK, TaskStates
  <2>3. UNCHANGED tasks
    BY <1>6 DEF Tick
  <2> QED
    BY <2>1, <2>2, <2>3 DEF NewNotLimited
<1>7. CASE UNCHANGED <<tasks, since, failures>>
  BY <1>7, <1>0
<1> QED
  BY <1>1, <1>2, <1>3, <1>4, <1>5, <1>6, <1>7
     DEF Next, TaskNext, Flip, StartRound, EndRound, RequestStop, vars

-----------------------------------------------------------------------------
\* MonitorInv is inductive.
THEOREM MonitorInvariant == Spec => []MonitorInv
<1>1. MonitorInv /\ [Next]_vars => MonitorInv'
  BY MonitorTypeStep, QueueWaitsStep, LiveInFlightStep, AnnouncedStep, NewNotLimitedStep
     DEF MonitorInv
<1> QED
  BY InitMonitor, <1>1, PTL DEF Spec

\* The type invariant, for every setting of the monitor.
THEOREM MonitorTypeOK == Spec => []TypeOK
<1>1. MonitorInv => TypeOK
  BY DEF MonitorInv
<1> QED
  BY <1>1, MonitorInvariant, PTL

\* However many rounds and clients call check, a node is checked by one task at a time
\* (scheduler.py:82-94).
THEOREM MonitorSingleFlight == Spec => []SingleFlight
<1>1. MonitorInv => SingleFlight
  BY DEF MonitorInv, SingleFlight, LiveInFlight, Live
<1> QED
  BY <1>1, MonitorInvariant, PTL

\* A stored UP or DOWN is what the backend was told last (scheduler.py:119-168).
THEOREM MonitorAnnounces == Spec => []KnownStateAnnounced
<1>1. MonitorInv => KnownStateAnnounced
  BY DEF MonitorInv
<1> QED
  BY <1>1, MonitorInvariant, PTL

\* No check starts before the retry interval of its node is over, unless it is forced
\* (scheduler.py:109-121).
THEOREM MonitorBacksOff == Spec => NoEarlyRetry
<1>1. MonitorInv /\ [Next]_vars =>
        [\A t \in TaskIds : Begin(t) /\ ~tasks[t].forced
            => since[tasks[t].node] >= RetryInterval(tasks[t].node)]_vars
  <2> SUFFICES ASSUME MonitorInv, NEW t \in TaskIds, Begin(t), ~tasks[t].forced
               PROVE  since[tasks[t].node] >= RetryInterval(tasks[t].node)
    OBVIOUS
  <2>1. tasks[t].node \in Nodes /\ ~RateLimited(tasks[t].node)
    BY DEF Begin, MonitorInv, NewNotLimited, TypeOK, TaskStates
  <2>2. /\ RetryInterval(tasks[t].node) \in Int
        /\ since[tasks[t].node] \in Int
    BY <2>1, RetryIntervalBounded, MonitorAssumption DEF MonitorInv, TypeOK
  <2> QED
    BY <2>1, <2>2 DEF RateLimited
<1> QED
  BY <1>1, MonitorInvariant, PTL DEF Spec, NoEarlyRetry
=============================================================================
