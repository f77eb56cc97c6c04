--------------------------- MODULE IncidentBackend ---------------------------
(***************************************************************************)
(* The backend process: the incident table and everything that reads and   *)
(* writes it concurrently.                                                 *)
(*                                                                         *)
(*   pipes    coroutines inside _process_message_immediately: the consumer *)
(*            of the UDP queue and any POST /ingest requests               *)
(*   hooks    coroutines inside POST /internal/node-state-events           *)
(*   tasks    quiet-period tasks that confirm a recovery                   *)
(*   operator resolve, reopen and purge requests (thread pool)             *)
(*                                                                         *)
(* All coroutines share one event loop and yield only at an await.  A      *)
(* store call made with asyncio.to_thread commits on a pool thread at any  *)
(* later moment; a step here is such a commit together with the loop code  *)
(* up to the next await, or a stretch of loop code that touches state of   *)
(* the process (buffer, active incident, task registry).  Every handler    *)
(* works on the snapshot it read and writes the whole row back.            *)
(***************************************************************************)
EXTENDS Incident

CONSTANTS
    Pipes, Hooks,    \* coroutines that may run at the same time
    TaskIds,         \* bound: quiet-period tasks that exist at the same time
    NoTask,
    Kinds,           \* assertions the normalizer yields: "fault", "state_change", "recovery"
    Observable,      \* what a syslog line can observe: <<object, device that sent it>>
    Roots,           \* roots the scorer may pick for a set of observed objects; NoObj: none
    Lineage,         \* <<n, m>>: n is an ancestor or a descendant of m in GraphEngine
    Events,          \* states a node-monitor event may carry
    Skew,            \* bound: how far ahead of the clock the time of an event may lie
    MaintenanceOn,   \* whether a maintenance plan may be active
    LastInput,       \* bound: the last instant at which an input arrives
    MaxTop, MaxKids, \* bounds: incident numbers, children of an incident
    Messages, NodeEvents, OperatorCalls, Restarts \* bounds on the inputs of a run

ASSUME BackendAssumption ==
    /\ NoTask \notin TaskIds
    /\ Kinds \subseteq {"fault", "state_change", "recovery"}
    /\ Observable \subseteq Objects \X Nodes
    /\ Roots \in [SUBSET Objects -> SUBSET (Objects \cup {NoObj})]
    /\ Events \subseteq NodeStates /\ Skew \in Nat
    /\ MaintenanceOn \in BOOLEAN
    /\ {LastInput, MaxTop, MaxKids} \subseteq Nat
    /\ {Messages, NodeEvents, OperatorCalls, Restarts} \subseteq Nat

\* INC-<date>-NNN is <<NNN>>, its child CHkkk is <<NNN, kkk>>, and so on.
Ids == {<<n>> : n \in 1..MaxTop}
         \cup {<<n, k>> : n \in 1..MaxTop, k \in 1..MaxKids}
         \cup {<<n, k, l>> : n \in 1..MaxTop, k \in 1..MaxKids, l \in 1..MaxKids}
NoId   == <<>>
Absent == [status |-> "absent"]
Tables == [Ids -> Incidents \cup {Absent}]
NoRows == [i \in Ids |-> Absent]

VARIABLES
    rows,      \* the incidents table
    counter,   \* IncidentProjector._counters of the date
    buffer,    \* ObservationBuffer: observations, last fault among them, last root
    active,    \* hypothesis_active_incident_id and hypothesis_active_root_object
    registry,  \* app.state.recovery_tasks
    tasks,     \* the quiet-period tasks that have not ended, or whose write is still to come
    pipes, hooks,
    seen,      \* node_state_events: node, state, observed_at and received_at of every event
    clock,
    left       \* inputs still to come

vars == <<rows, counter, buffer, active, registry, tasks, pipes, hooks, seen, clock, left>>

Row(i)     == rows[i] # Absent
In(table)  == {i \in Ids : table[i] # Absent}
Open(i)    == Row(i) /\ rows[i].status = "OPEN"
Spend(f)   == left[f] > 0 /\ left' = [left EXCEPT ![f] = @ - 1]

EmptyBuffer == [obs |-> {}, fault |-> Never, root |-> NoObj]
NoActive    == [id |-> NoId, root |-> NoObj]
IdleHook    == [pc |-> "idle", held |-> FALSE, node |-> "none", state |-> "none",
                at |-> Never, cur |-> NoId, snap |-> NoRows]
IdlePipe    == [pc |-> "idle", kind |-> "none", obj |-> NoObj, src |-> "none", at |-> Never,
                cur |-> NoObj, id |-> NoId, row |-> Absent, path |-> "none",
                todo |-> {}, kid |-> NoId, kidRow |-> Absent, snap |-> NoRows,
                hit |-> FALSE]

\* The node-state route reads and writes the table without an await in between:
\* no other coroutine runs meanwhile, only commits already handed to a thread.
LoopFree == \A h \in Hooks : ~hooks[h].held

Init ==
    /\ rows = NoRows
    /\ counter = 0
    /\ buffer = EmptyBuffer
    /\ active = NoActive
    /\ registry = [i \in Ids |-> NoTask]
    /\ tasks = [t \in TaskIds |-> NoTask]
    /\ pipes = [p \in Pipes |-> IdlePipe]
    /\ hooks = [h \in Hooks |-> IdleHook]
    /\ seen = {}
    /\ clock = 1
    /\ left = [messages |-> Messages, events |-> NodeEvents,
               calls |-> OperatorCalls, restarts |-> Restarts]

-----------------------------------------------------------------------------
(* Quiet-period tasks.                                                      *)

\* Mutant: the old task is forgotten and not cancelled.
NotCancelled(ts, t) == ts

\* task.cancel(): the task goes to its finally clause as soon as the loop runs it; a
\* write that was handed to a thread may still commit.  An ended task is left alone.
Cancelled(ts, t) ==
    IF t = NoTask \/ ts[t] = NoTask THEN ts
    ELSE [ts EXCEPT ![t].cancelled = TRUE, ![t].pc = IF @ = "sleep" THEN "end" ELSE @]

\* _schedule_recovery_confirmation and _schedule_recovery: cancel the registered
\* task of the incident, start a new one and register it.
Schedule(i, at, by) ==
    LET rest == Cancelled(tasks, registry[i])
        free == {t \in TaskIds : rest[t] = NoTask}
    IN  \E t \in free :
          /\ t = CHOOSE u \in free : TRUE
          /\ tasks' = [rest EXCEPT ![t] = [id |-> i, at |-> at, by |-> by, due |-> clock + Quiet,
                                           pc |-> "sleep", row |-> Absent, cancelled |-> FALSE]]
          /\ registry' = [registry EXCEPT ![i] = t]

\* Mutant: any recovery will do, not the one the task was started for.
ConfirmsAny(task, r) ==
    r # Absent /\ r.status = "OPEN" /\ r.cond = "RECOVERING"

Confirms(task, r) ==
    /\ r # Absent /\ r.status = "OPEN" /\ r.cond = "RECOVERING"
    /\ IF task.by = "syslog" THEN r.fault <= task.at /\ CanConfirm(r, clock)
                             ELSE r.rec = task.at

TaskRead(t) ==
    /\ tasks[t] # NoTask /\ tasks[t].pc = "sleep" /\ clock >= tasks[t].due /\ LoopFree
    /\ LET r == rows[tasks[t].id]
       IN  tasks' = IF Confirms(tasks[t], r)
                    THEN [tasks EXCEPT ![t].pc = "write",
                                       ![t].row = [r EXCEPT !.cond = "RECOVERED"]]
                    ELSE [tasks EXCEPT ![t].pc = "end"]
    /\ UNCHANGED <<rows, counter, buffer, active, registry, pipes, hooks, seen, clock, left>>

\* After the thread's part: the coroutine goes on, if it has not ended meanwhile.
Written(t) ==
    tasks' = [tasks EXCEPT ![t] = IF @.pc = "lost" THEN NoTask ELSE [@ EXCEPT !.pc = "end"]]

TaskWrite(t) ==
    /\ tasks[t] # NoTask /\ tasks[t].pc \in {"write", "lost"}
    /\ rows' = IF Row(tasks[t].id) THEN [rows EXCEPT ![tasks[t].id] = tasks[t].row] ELSE rows
    /\ Written(t)
    /\ UNCHANGED <<counter, buffer, active, registry, pipes, hooks, seen, clock, left>>

\* The pool had not started the write of a cancelled task.
TaskDropWrite(t) ==
    /\ tasks[t] # NoTask /\ tasks[t].cancelled /\ tasks[t].pc \in {"write", "lost"}
    /\ Written(t)
    /\ UNCHANGED <<rows, counter, buffer, active, registry, pipes, hooks, seen, clock, left>>

\* The coroutine ends: after the broadcast, or cancelled, perhaps before the thread has
\* written.
Ends(t) ==
    /\ tasks[t] # NoTask /\ LoopFree
    /\ \/ tasks[t].pc = "end" /\ tasks' = [tasks EXCEPT ![t] = NoTask]
       \/ /\ tasks[t].pc = "write" /\ tasks[t].cancelled
          /\ tasks' = [tasks EXCEPT ![t].pc = "lost"]

\* Mutant: the finally clause removes whatever task is registered.
TaskEndAlways(t) ==
    /\ Ends(t)
    /\ registry' = [registry EXCEPT ![tasks[t].id] = NoTask]
    /\ UNCHANGED <<rows, counter, buffer, active, pipes, hooks, seen, clock, left>>

\* finally: a task removes its registration if it is still its own.
TaskEnd(t) ==
    /\ Ends(t)
    /\ registry' = IF registry[tasks[t].id] = t
                   THEN [registry EXCEPT ![tasks[t].id] = NoTask] ELSE registry
    /\ UNCHANGED <<rows, counter, buffer, active, pipes, hooks, seen, clock, left>>

-----------------------------------------------------------------------------
(* The syslog pipeline.                                                     *)

At(p, pc) == pipes[p].pc = pc
Step(p, record) == pipes' = [pipes EXCEPT ![p] = record]

\* A line arrives and its raw log is being stored; observed_at is the time of arrival.
PipeReceive(p) ==
    /\ At(p, "idle") /\ clock <= LastInput /\ LoopFree /\ Spend("messages")
    /\ \E k \in Kinds, o \in Observable :
         Step(p, [IdlePipe EXCEPT !.pc = "raw", !.kind = k, !.obj = o[1], !.src = o[2],
                                  !.at = clock])
    /\ UNCHANGED <<rows, counter, buffer, active, registry, tasks, hooks, seen, clock>>

\* ObservationBuffer.add: the observation joins the event-time window ("fits") or
\* closes it and starts the next.
Window(fits) == IF fits THEN buffer ELSE EmptyBuffer

BufferAdd(o, kind, at, fits, cur) ==
    LET old == Window(fits)
    IN  [obs   |-> old.obs \cup {o},
         fault |-> IF kind = "fault" /\ at > old.fault THEN at ELSE old.fault,
         root  |-> cur]

\* Mutant: a new incident is numbered by counting the rows, as the node-state route does.
CountedNumber == Cardinality({i \in Ids : Row(i) /\ Len(i) = 1}) + 1

\* IncidentProjector._new_id.
NewNumber == counter + 1

\* Buffer, projection and the choice of the incident to continue are one stretch
\* of loop code.  The projector takes a new number even if it is then not used.
PipeAnalyze(p) ==
    LET m == pipes[p]
    IN
    /\ At(p, "raw") /\ m.kind # "recovery" /\ LoopFree
    /\ counter < MaxTop
    /\ \E fits \in (IF buffer.obs = {} THEN {TRUE} ELSE BOOLEAN),
          status \in (IF MaintenanceOn THEN {"OPEN", "CLOSED"} ELSE {"OPEN"}) :
       \E cur \in Roots[ObjectsOf(Window(fits).obs) \cup {m.obj}] \ {NoObj} :
         LET last  == Window(fits).root
             prev  == IF last # cur THEN last ELSE NoObj
             goOn  == active.id # NoId /\ active.root \in {cur, prev}
             added == BufferAdd(<<m.obj, m.src>>, m.kind, m.at, fits, cur)
         IN  /\ buffer' = added
             /\ Step(p, [m EXCEPT !.pc  = IF goOn THEN "get" ELSE "list",
                                  !.cur = cur,
                                  !.id  = <<NewNumber>>,
                                  !.kid = IF goOn THEN active.id ELSE NoId,
                                  !.row = Projection(cur, added.obs, added.fault, status)])
    /\ counter' = NewNumber
    /\ UNCHANGED <<rows, active, registry, tasks, hooks, seen, clock, left>>

\* Nothing in the topology explains the window: the observation stays in the buffer.
PipeUnexplained(p) ==
    LET m == pipes[p]
    IN
    /\ At(p, "raw") /\ m.kind # "recovery" /\ LoopFree
    /\ \E fits \in (IF buffer.obs = {} THEN {TRUE} ELSE BOOLEAN) :
         /\ NoObj \in Roots[ObjectsOf(Window(fits).obs) \cup {m.obj}]
         /\ buffer' = BufferAdd(<<m.obj, m.src>>, m.kind, m.at, fits, Window(fits).root)
    /\ Step(p, IdlePipe)
    /\ UNCHANGED <<rows, counter, active, registry, tasks, hooks, seen, clock, left>>

Merged(m, i) == Merge(rows[i], m.row, m.kind, m.obj, m.at)

PipeGetActive(p) ==
    LET m == pipes[p]
    IN
    /\ At(p, "get")
    /\ Step(p, IF Row(m.kid)
               THEN [m EXCEPT !.pc = "update", !.path = "active", !.kid = NoId,
                              !.id = m.kid, !.row = Merged(m, m.kid)]
               ELSE [m EXCEPT !.pc = "list", !.kid = NoId])
    /\ UNCHANGED <<rows, counter, buffer, active, registry, tasks, hooks, seen, clock, left>>

\* Incidents the root could belong to: the same root first, else a related one.
\* The newest wins in the code; which one that is stays open here.
Matching(root) ==
    LET live == {i \in Ids : Open(i) /\ rows[i].cond # "RECOVERED"}
        same == {i \in live : RootObject(rows[i]) = root}
        near == {i \in live : RootObject(rows[i]) # NoObj /\ Related(RootObject(rows[i]), root)}
    IN  IF same # {} THEN same ELSE near

PipeMatch(p) ==
    LET m == pipes[p]
    IN
    /\ At(p, "list")
    /\ IF Matching(m.cur) = {}
       THEN Step(p, [m EXCEPT !.pc = "save", !.path = "new",
                              !.row = ApplyFault(m.row, m.kind, m.obj, m.at)])
       ELSE \E i \in Matching(m.cur) :
              Step(p, [m EXCEPT !.pc = "update", !.path = "match",
                                !.id = i, !.row = Merged(m, i)])
    /\ UNCHANGED <<rows, counter, buffer, active, registry, tasks, hooks, seen, clock, left>>

\* _persist_impact_children has a next session to look at, or the path goes on.
NextKid(m) ==
    [m EXCEPT !.pc = IF m.todo # {} THEN "kid"
                     ELSE IF m.path = "active" THEN "evaluate" ELSE "finish",
              !.kid = NoId, !.kidRow = Absent]

Persisted(m) == NextKid([m EXCEPT !.todo = {o \in m.row.impact : TypeOf[o] = "session"}])

\* IncidentStore.update: a row that is gone is not written, the pipeline then
\* goes on to match, or from there to create.
PipeUpdate(p) ==
    LET m == pipes[p]
    IN
    /\ At(p, "update")
    /\ IF Row(m.id)
       THEN rows' = [rows EXCEPT ![m.id] = m.row] /\ Step(p, Persisted(m))
       ELSE /\ Step(p, IF m.path = "active"
                       THEN [m EXCEPT !.pc = "list"]
                       ELSE [m EXCEPT !.pc = "save", !.path = "new",
                                      !.row = ApplyFault(m.row, m.kind, m.obj, m.at)])
            /\ UNCHANGED rows
    /\ UNCHANGED <<counter, buffer, active, registry, tasks, hooks, seen, clock, left>>

\* Mutant: update in place of save, which creates no row.
PipeSaveExisting(p) ==
    /\ At(p, "save")
    /\ rows' = IF Row(pipes[p].id) THEN [rows EXCEPT ![pipes[p].id] = pipes[p].row] ELSE rows
    /\ Step(p, Persisted(pipes[p]))
    /\ UNCHANGED <<counter, buffer, active, registry, tasks, hooks, seen, clock, left>>

\* IncidentStore.save is session.merge: it replaces whatever row has the id.
PipeSave(p) ==
    /\ At(p, "save")
    /\ rows' = [rows EXCEPT ![pipes[p].id] = pipes[p].row]
    /\ Step(p, Persisted(pipes[p]))
    /\ UNCHANGED <<counter, buffer, active, registry, tasks, hooks, seen, clock, left>>

Parent(c)        == SubSeq(c, 1, Len(c) - 1)
ChildrenOf(i, o) == {c \in Ids : Row(c) /\ Parent(c) = i /\ rows[c].obj = o}

PipeKid(p) ==
    LET m == pipes[p]
    IN
    /\ At(p, "kid")
    /\ \E o \in m.todo :
       LET rest == [m EXCEPT !.todo = @ \ {o}]
           new  == Append(m.id, m.row.kids + 1)
       IN  IF ChildrenOf(m.id, o) # {}
           THEN \E c \in ChildrenOf(m.id, o) :
                  Step(p, IF FaultMatches(rows[c], m.kind, m.obj)
                          THEN [rest EXCEPT !.pc = "kidUpdate", !.kid = c,
                                            !.kidRow = ApplyFault(rows[c], m.kind, m.obj, m.at)]
                          ELSE NextKid(rest))
           ELSE /\ new \in Ids
                /\ Step(p, [rest EXCEPT !.pc = "kidSave", !.kid = new, !.kidRow = Child(m.row, o)])
    /\ UNCHANGED <<rows, counter, buffer, active, registry, tasks, hooks, seen, clock, left>>

PipeKidUpdate(p) ==
    LET m == pipes[p]
    IN
    /\ At(p, "kidUpdate")
    /\ rows' = IF Row(m.kid) THEN [rows EXCEPT ![m.kid] = m.kidRow] ELSE rows
    /\ Step(p, NextKid(m))
    /\ UNCHANGED <<counter, buffer, active, registry, tasks, hooks, seen, clock, left>>

\* Mutant: the child is updated in place of saved.
PipeKidSaveExisting(p) ==
    /\ At(p, "kidSave")
    /\ rows' = IF Row(pipes[p].kid) THEN [rows EXCEPT ![pipes[p].kid] = pipes[p].kidRow] ELSE rows
    /\ Step(p, [pipes[p] EXCEPT !.pc = "kidParent", !.row.kids = @ + 1])
    /\ UNCHANGED <<counter, buffer, active, registry, tasks, hooks, seen, clock, left>>

PipeKidSave(p) ==
    /\ At(p, "kidSave")
    /\ rows' = [rows EXCEPT ![pipes[p].kid] = pipes[p].kidRow]
    /\ Step(p, [pipes[p] EXCEPT !.pc = "kidParent", !.row.kids = @ + 1])
    /\ UNCHANGED <<counter, buffer, active, registry, tasks, hooks, seen, clock, left>>

PipeKidParent(p) ==
    LET m == pipes[p]
    IN
    /\ At(p, "kidParent")
    /\ rows' = IF Row(m.id) THEN [rows EXCEPT ![m.id] = m.row] ELSE rows
    /\ Step(p, NextKid(m))
    /\ UNCHANGED <<counter, buffer, active, registry, tasks, hooks, seen, clock, left>>

\* record_rca_evaluation writes the explanation once more.
PipeEvaluate(p) ==
    LET m == pipes[p]
    IN
    /\ At(p, "evaluate")
    /\ rows' = IF Row(m.id)
               THEN [rows EXCEPT ![m.id].root = m.row.root, ![m.id].impact = m.row.impact]
               ELSE rows
    /\ Step(p, [m EXCEPT !.pc = "finish"])
    /\ UNCHANGED <<counter, buffer, active, registry, tasks, hooks, seen, clock, left>>

PipeFinish(p) ==
    LET m == pipes[p]
    IN
    /\ At(p, "finish") /\ LoopFree
    /\ active' = IF m.path = "active" THEN [active EXCEPT !.root = m.cur]
                                      ELSE [id |-> m.id, root |-> m.cur]
    /\ Step(p, IdlePipe)
    /\ UNCHANGED <<rows, counter, buffer, registry, tasks, hooks, seen, clock, left>>

\* A recovery applies to every open incident of the snapshot it is related to.
PipeListRecovery(p) ==
    LET m    == pipes[p]
        hits == {i \in Ids : Row(i) /\ RecoveryMatches(rows[i], m.obj)}
    IN
    /\ At(p, "raw") /\ m.kind = "recovery"
    /\ Step(p, IF hits = {} THEN IdlePipe
               ELSE [m EXCEPT !.pc = "recUpdate",
                              !.snap = [i \in Ids |-> IF i \in hits
                                                      THEN ApplyRecovery(rows[i], m.obj, m.at)
                                                      ELSE Absent]])
    /\ UNCHANGED <<rows, counter, buffer, active, registry, tasks, hooks, seen, clock, left>>

PipeRecoveryUpdate(p) ==
    LET m == pipes[p]
    IN
    /\ At(p, "recUpdate")
    /\ \E i \in In(m.snap) :
         LET rest == [m EXCEPT !.snap[i] = Absent]
         IN  IF Row(i)
             THEN /\ rows' = [rows EXCEPT ![i] = m.snap[i]]
                  /\ Step(p, [rest EXCEPT !.pc = "recSchedule", !.id = i, !.hit = TRUE])
             ELSE /\ Step(p, [rest EXCEPT !.pc = "recSchedule", !.id = NoId])
                  /\ UNCHANGED rows
    /\ UNCHANGED <<counter, buffer, active, registry, tasks, hooks, seen, clock, left>>

\* After the notifications: schedule the confirmation and go on with the next
\* incident; after the last one forget the window and the active incident.
PipeRecoverySchedule(p) ==
    LET m    == pipes[p]
        done == In(m.snap) = {}
    IN
    /\ At(p, "recSchedule") /\ LoopFree
    /\ IF m.id # NoId THEN Schedule(m.id, m.at, "syslog") ELSE UNCHANGED <<tasks, registry>>
    /\ IF done /\ m.hit THEN buffer' = EmptyBuffer /\ active' = NoActive
                        ELSE UNCHANGED <<buffer, active>>
    /\ Step(p, IF done THEN IdlePipe ELSE [m EXCEPT !.pc = "recUpdate"])
    /\ UNCHANGED <<rows, counter, hooks, seen, clock, left>>

-----------------------------------------------------------------------------
(* Node-state events.                                                       *)

Observed(n) == {e.at : e \in {f \in seen : f.node = n}}
Stale(n, at) == \E x \in Observed(n) : at < x

\* _find_related_incidents: by root node, else by secondary node, else by topology.
RelatedTo(n, s) ==
    LET live  == {i \in Ids : Open(i) /\ (s \in {"DOWN", "UP"} => rows[i].cond # "RECOVERED")}
        root  == {i \in live : rows[i].node = n}
        sec   == {i \in live : n \in rows[i].sec}
        topo  == {i \in live : \E m \in {rows[i].node} \cup rows[i].sec : <<n, m>> \in Lineage}
    IN  IF root # {} THEN root ELSE IF sec # {} THEN sec ELSE topo

\* The number of a new incident is one more than the count of root incidents.
NextTop == <<Cardinality({i \in Ids : Row(i) /\ Len(i) = 1}) + 1>>

Received(e) == \E f \in seen : f.node = e.node /\ f.state = e.state /\ f.at = e.at

\* A duplicate or stale event is acknowledged and has no effect on incidents.  Its time
\* is the sender's, whatever the clock says.
HookReceive(h) ==
    /\ hooks[h].pc = "idle" /\ clock <= LastInput /\ LoopFree /\ Spend("events")
    /\ \E n \in Nodes, s \in Events, at \in 1..(clock + Skew) :
       LET e    == [node |-> n, state |-> s, at |-> at, got |-> clock]
           rel  == RelatedTo(n, s)
           mine == [IdleHook EXCEPT !.node = n, !.state = s, !.at = at]
       IN
       /\ seen' = IF Received(e) THEN seen ELSE seen \cup {e}
       /\ IF Received(e) \/ Stale(n, at) THEN UNCHANGED hooks
          ELSE IF rel # {}
          THEN hooks' = [hooks EXCEPT ![h] =
                 [mine EXCEPT !.pc = "apply", !.held = TRUE,
                              !.snap = [i \in Ids |-> IF i \in rel THEN rows[i] ELSE Absent]]]
          ELSE IF s = "DOWN"
          THEN /\ NextTop \in Ids
               /\ hooks' = [hooks EXCEPT ![h] =
                    [mine EXCEPT !.pc = "save", !.snap = [NoRows EXCEPT ![NextTop] = NodeIncident(n, at)]]]
          ELSE UNCHANGED hooks
    /\ UNCHANGED <<rows, counter, buffer, active, registry, tasks, pipes, clock>>

\* The event is then found in the new incident's evidence and not applied again.
HookSave(h) ==
    /\ hooks[h].pc = "save"
    /\ \E i \in In(hooks[h].snap) : rows' = [rows EXCEPT ![i] = hooks[h].snap[i]]
    /\ hooks' = [hooks EXCEPT ![h] = IdleHook]
    /\ UNCHANGED <<counter, buffer, active, registry, tasks, pipes, seen, clock, left>>

\* _apply_state_event for one incident of the snapshot: the confirmation is scheduled and
\* the row written, all on the loop.
HookApply(h) ==
    LET me == hooks[h]
    IN
    /\ me.pc = "apply" /\ (me.held \/ LoopFree)
    /\ \E i \in In(me.snap) :
       /\ rows' = IF Row(i) THEN [rows EXCEPT ![i] = ApplyNodeState(me.snap[i], me.state, me.at)]
                            ELSE rows
       /\ IF StartsRecovery(me.snap[i], me.state)
          THEN Schedule(i, me.at, "node") ELSE UNCHANGED <<tasks, registry>>
       /\ hooks' = [hooks EXCEPT ![h] = [me EXCEPT !.pc = "evaluate", !.held = TRUE, !.cur = i]]
    /\ UNCHANGED <<counter, buffer, active, pipes, seen, clock, left>>

\* record_rca_evaluation, a commit of its own, writes the explanation of the snapshot once
\* more; the broadcast then lets the loop go, before the next incident.
HookEvaluate(h) ==
    LET me   == hooks[h]
        old  == me.snap[me.cur]
        rest == [me.snap EXCEPT ![me.cur] = Absent]
    IN
    /\ me.pc = "evaluate"
    /\ rows' = IF Row(me.cur)
               THEN [rows EXCEPT ![me.cur].root = old.root, ![me.cur].impact = old.impact]
               ELSE rows
    /\ hooks' = [hooks EXCEPT ![h] =
                   IF In(rest) = {} THEN IdleHook
                   ELSE [me EXCEPT !.pc = "apply", !.held = FALSE, !.cur = NoId, !.snap = rest]]
    /\ UNCHANGED <<counter, buffer, active, registry, tasks, pipes, seen, clock, left>>

-----------------------------------------------------------------------------
(* Operator requests, restarts and time.                                    *)

SetStatus(i, status) ==
    /\ Row(i) /\ clock <= LastInput /\ Spend("calls")
    /\ rows' = [rows EXCEPT ![i].status = status]
    /\ UNCHANGED <<counter, buffer, active, registry, tasks, pipes, hooks, seen, clock>>

Resolve(i) == SetStatus(i, "CLOSED")
Reopen(i)  == SetStatus(i, "OPEN")

\* DELETE /incidents with a cut-off in the future; the cleanup job does the same
\* with incidents older than 90 days.
Purge ==
    /\ clock <= LastInput /\ Spend("calls")
    /\ rows' = [i \in Ids |-> IF Row(i) /\ rows[i].status = "CLOSED" THEN Absent ELSE rows[i]]
    /\ UNCHANGED <<counter, buffer, active, registry, tasks, pipes, hooks, seen, clock>>

\* The process stops and starts again: only the database survives.
Restart ==
    /\ Spend("restarts")
    /\ counter' = 0 /\ buffer' = EmptyBuffer /\ active' = NoActive
    /\ registry' = [i \in Ids |-> NoTask]
    /\ tasks' = [t \in TaskIds |-> NoTask]
    /\ pipes' = [p \in Pipes |-> IdlePipe]
    /\ hooks' = [h \in Hooks |-> IdleHook]
    /\ UNCHANGED <<rows, seen, clock>>

\* Time matters while inputs may come and while a task sleeps.
Tick ==
    /\ \/ clock < LastInput
       \/ \E t \in TaskIds : tasks[t] # NoTask /\ tasks[t].pc = "sleep" /\ clock < tasks[t].due
    /\ LoopFree
    /\ clock' = clock + 1
    /\ UNCHANGED <<rows, counter, buffer, active, registry, tasks, pipes, hooks, seen, left>>

\* Everything in progress has ended: the bounds stop the model here, not the system.
Done ==
    /\ clock >= LastInput
    /\ \A p \in Pipes : At(p, "idle")
    /\ \A h \in Hooks : hooks[h].pc = "idle"
    /\ \A t \in TaskIds : tasks[t] = NoTask
    /\ UNCHANGED vars

PipeNext(p) ==
    \/ PipeAnalyze(p)  \/ PipeUnexplained(p) \/ PipeGetActive(p) \/ PipeMatch(p)   \/ PipeUpdate(p)
    \/ PipeSave(p)     \/ PipeKid(p)       \/ PipeKidUpdate(p)
    \/ PipeKidSave(p)  \/ PipeKidParent(p) \/ PipeEvaluate(p) \/ PipeFinish(p)
    \/ PipeListRecovery(p) \/ PipeRecoveryUpdate(p) \/ PipeRecoverySchedule(p)

HookNext(h) == HookSave(h) \/ HookApply(h) \/ HookEvaluate(h)
TaskNext(t) == TaskRead(t) \/ TaskWrite(t) \/ TaskDropWrite(t) \/ TaskEnd(t)
Operator    == Purge \/ \E i \in Ids : Resolve(i) \/ Reopen(i)

Next ==
    \/ \E p \in Pipes : PipeReceive(p) \/ PipeNext(p)
    \/ \E h \in Hooks : HookReceive(h) \/ HookNext(h)
    \/ \E t \in TaskIds : TaskNext(t)
    \/ Operator \/ Restart \/ Tick \/ Done

Spec == Init /\ [][Next]_vars

\* The loop runs every ready coroutine, the pool every job, and time passes.
Fairness ==
    /\ \A p \in Pipes : WF_vars(PipeNext(p))
    /\ \A h \in Hooks : WF_vars(HookNext(h))
    /\ \A t \in TaskIds : WF_vars(TaskNext(t))
    /\ WF_vars(Tick)

FairSpec == Spec /\ Fairness

-----------------------------------------------------------------------------
(* Properties.                                                              *)

PipePcs == {"idle", "raw", "get", "list", "update", "save", "kid", "kidUpdate", "kidSave",
            "kidParent", "evaluate", "finish", "recUpdate", "recSchedule"}

PipeStates == [pc : PipePcs, kind : Kinds \cup {"none"}, obj : Objects \cup {NoObj},
               src : Nodes \cup {"none"}, at : Nat,
               cur : Objects \cup {NoObj}, id : Ids \cup {NoId}, row : Incidents \cup {Absent},
               path : {"none", "active", "match", "new"}, todo : SUBSET Objects,
               kid : Ids \cup {NoId}, kidRow : Incidents \cup {Absent}, snap : Tables,
               hit : BOOLEAN]

HookStates == [pc : {"idle", "save", "apply", "evaluate"}, held : BOOLEAN,
               node : Nodes \cup {"none"}, state : NodeStates \cup {"none"}, at : Nat,
               cur : Ids \cup {NoId}, snap : Tables]

TaskStates == [id : Ids, at : Nat, by : {"syslog", "node"}, due : Nat,
               pc : {"sleep", "write", "lost", "end"}, row : Incidents \cup {Absent}, cancelled : BOOLEAN]

ASSUME TaskAssumption == NoTask \notin TaskStates

\* Type invariant.
TypeOK ==
    /\ rows \in Tables
    /\ counter \in 0..MaxTop
    /\ buffer \in [obs : SUBSET (Objects \X Nodes), fault : Nat, root : Objects \cup {NoObj}]
    /\ active \in [id : Ids \cup {NoId}, root : Objects \cup {NoObj}]
    /\ registry \in [Ids -> TaskIds \cup {NoTask}]
    /\ tasks \in [TaskIds -> TaskStates \cup {NoTask}]
    /\ pipes \in [Pipes -> PipeStates]
    /\ hooks \in [Hooks -> HookStates]
    /\ seen \subseteq [node : Nodes, state : NodeStates, at : Nat, got : Nat]
    /\ clock \in Nat \ {0}
    /\ left \in [{"messages", "events", "calls", "restarts"} -> Nat]

\* A recovery seen at x is a quiet period old; if a node event told of one yet to come,
\* the event is.
Ripe(x, now) ==
    \/ x + Quiet <= now
    \/ \E e \in seen : e.state = "UP" /\ e.at = x /\ e.got + Quiet <= now

\* An incident the table shows as RECOVERED has a recovery that is at least a quiet
\* period old, whoever wrote the row and from whatever snapshot (README, "quiet period
\* ...": api/main.py:334-345, hypothesis_lifecycle.py:83-90, node_state_events.py:145-154).
Settled(r) == r # Absent /\ r.cond = "RECOVERED" => r.rec # Never /\ Ripe(r.rec, clock)
RecoveredAfterQuiet == \A i \in Ids : Settled(rows[i])

\* The registry and the tasks agree: a task that can still confirm a recovery is the
\* registered one of its incident, and a registered task exists and is that incident's.
\* So no incident has two, a cancelled task that ends late leaves its successor's
\* registration alone, and shutdown, which cancels the registered tasks, reaches all of
\* them (api/main.py:327-332, 357-361, node_state_events.py:135-142, 162-165).
RegistryMatchesTasks ==
    /\ \A t \in TaskIds : tasks[t] # NoTask /\ ~tasks[t].cancelled => registry[tasks[t].id] = t
    /\ \A i \in Ids : registry[i] # NoTask =>
         /\ tasks[registry[i]] # NoTask
         /\ tasks[registry[i]].id = i
         /\ ~tasks[registry[i]].cancelled

\* Every child an incident lists is in the table, in whatever order the child and the
\* parent were written, by whom, and across restarts (api/main.py:127-156).
ListedChildrenExist == \A i \in Ids : Row(i) =>
    \A k \in 1..rows[i].kids : Append(i, k) \in Ids => Row(Append(i, k))

\* The incident the pipeline continues is in the table (api/main.py:246-247, 280, 300).
ActiveExists == active.id # NoId => Row(active.id)

\* A new incident never takes the place of another: neither of one the projector
\* numbered nor of one the node-state route created (models.py:137, the ids
\* INC-YYYYMMDD-NNN; incident_store.py:142-145).
Creates(i) == \/ \E p \in Pipes : PipeSave(p) /\ i = pipes[p].id
              \/ \E h \in Hooks : HookSave(h) /\ i \in In(hooks[h].snap)
NewIdsAreFresh == [][\A i \in Ids : Creates(i) => ~Row(i)]_vars

\* What an operator closed stays closed until an operator reopens it (models.py:144:
\* status is managed by the operator, condition is updated automatically).
ClosedStaysClosed ==
    [][\A i \in Ids : Row(i) /\ rows[i].status = "CLOSED" /\ rows'[i] # Absent
                       /\ rows'[i].status = "OPEN" => Reopen(i)]_vars

\* Only a RECOVERING incident becomes RECOVERED: one in which a new fault was recorded
\* (ACTIVE or DEGRADED again) does not (README.md:314).
RecoveredOnlyFromRecovering ==
    [][\A i \in Ids : Row(i) /\ rows'[i] # Absent /\ rows[i].cond # "RECOVERED"
                       /\ rows'[i].cond = "RECOVERED" => rows[i].cond = "RECOVERING"]_vars

\* While a task that may still confirm its recovery sleeps, an incident is not left in
\* RECOVERING: it becomes RECOVERED, or a fault takes it out, whatever lines the consumer
\* handles meanwhile (README.md:313-314, api/main.py:327-360).  A state change that was
\* read before the task wrote may put RECOVERING back when no task is left; such an
\* incident is not spoken of.
Recovering(i) == Open(i) /\ rows[i].cond = "RECOVERING"
Awaited(i)    == registry[i] # NoTask /\ tasks[registry[i]].pc = "sleep"
RecoveryIsDecided == \A i \in Ids : Recovering(i) /\ Awaited(i) ~> ~Recovering(i)
=============================================================================
