# topology-syslog: verification development

TLA+ models of the `topology_syslog` backend and of its `node_monitor` service, TLC runs that
check them on small instances, and TLAPS proofs. Paths such as `api/main.py` are below
`src/topology_syslog/`.

## 1. The system

Two processes talk over HTTP.

* **Backend** (`api/`, `correlation/`, `persistence/`, ...): one asyncio event loop and the thread
  pool behind `asyncio.to_thread`. Syslog lines arrive by UDP (one consumer task) or by
  `POST /ingest` (one coroutine per request); each is normalised to an observation about an object
  of the causal topology and correlated into an *incident*. Recovery lines put incidents into
  `RECOVERING`; a task per incident confirms `RECOVERED` after a quiet period. Operators resolve,
  reopen and purge incidents.
* **Node monitor** (`node_monitor/`): probes devices in rounds, keeps the last state of each with a
  TTL, and posts every change of state to `POST /internal/node-state-events` of the backend, through
  a bounded queue and a worker that retries.

| Component | State | Operations | Hard behaviour |
|---|---|---|---|
| Message pipeline, `api/main.py:160-324` | observation buffer, active incident, incident numbers | receive, store raw log, analyse, merge or create, children, recovery | every step awaits; works on a snapshot and writes the whole row back; several pipelines at once |
| Quiet-period tasks, `main.py:327-361`, `routes/node_state_events.py:135-165` | `recovery_tasks`, sleeping tasks | schedule (cancels the old task), confirm, end | cancellation while a write is in the thread pool; lost by a restart |
| Node-state route, `routes/node_state_events.py` | table of received events | record, find related incidents, apply, create | duplicates, stale events, overlapping handlers, its own numbering |
| Incident table, `persistence/incident_store.py` | `incidents` | save (merge), update, resolve, reopen, purge | update writes every column, so it also writes the operator's |
| Operator requests, `routes/incidents.py` | - | resolve, reopen, purge | run in pool threads, between any two steps of a pipeline |
| Incident lifecycle, `correlation/hypothesis_lifecycle.py` | - | recovery, fault, confirmation | pure, on snapshots |
| Node-monitor scheduler, `node_monitor/scheduler.py`, `store.py`, `evaluator.py` | records with TTL, checks in flight, failure counts, start times | check, run_once, run_periodically | overlapping checks, slow probes, expiry during a check, backoff arithmetic |
| Event publisher, `node_monitor/webhook.py` | bounded queue, worker | publish, deliver with retries, close | late answers after a timeout, full queue, shutdown, a worker that died |
| Event record, `persistence/node_state_event_store.py` | `node_state_events` | record_event | redelivery, events out of order, crash |
| Observation buffer, `correlation/observation_buffer.py`, with normalizer, scorer and `topology/causal_topology.py` | the window, its last root | add, reset; observe, score, rank | lines arrive out of order; six terms decide which root wins |
| File ingestion, `ingestion/file_ingest.py`, with `root_cause_inferencer.py`, `incident_merger.py`, `topology/graph_engine.py`, `maintenance/checker.py` | numbers of the run, the table | read a line: recover, infer, merge or save | merges and promoted roots over many lines, ties in the order of sets, incidents of other runs under the same numbers |
| Knowledge rules, `knowledge/`, `api/routes/knowledge.py` | `rules.yaml`, `vendor_rules.yaml`, their copy, versions | create, update, approve, disable, roll back, match | requests in threads, an editor, files read while they are written, values of a wrong type, a copy that is older than the files |
| Work plans, `maintenance/checker.py` | files, their copy | reload, find the plan of an incident | an editor |
| Unknown events, `persistence/unknown_event_store.py` | counters | record | two threads on one row |
| Realtime, `api/routes/ws.py` | connections | connect, disconnect, broadcast | clients that leave in a broadcast, endpoints that end without notice, several broadcasts |
| Investigations, `api/routes/investigation.py`, `investigation/agent.py` | the row of the report, tasks | start, turn, report | two requests, restart |
| Notifications, AI reports, authentication, configuration, frontend | see `PROJECT.json` | | section 7 |

How they interact: the pipelines, the node-state handlers and the tasks share the event loop (they
interleave only at an `await`), the incident table (read and written in pool threads, except in the
node-state route, which uses it on the loop), the registry of tasks and the active incident. The
monitor and the backend share nothing but the event messages.

What makes each part correct, and what could break it, is listed per line in `PROJECT.json`
("hazards").

## 2. Modules

| Module | Models |
|---|---|
| `Incident` | The incident record and the pure rules on it: lifecycle, projection, merge, children, and what a node event does. |
| `IncidentBackend` | The backend process: pipelines, handlers, tasks, operators, restarts and time over one table. Extends `Incident`. |
| `NodeMonitor` | Checks, rounds, TTL, rate limit, events emitted. |
| `NodeStateFeed` | Abstract: the node state the backend acts on only moves forward through emitted events. |
| `EventDelivery` | Queue, worker, HTTP, record of received events; implements `NodeStateFeed`. |
| `CausalTopology` | Objects and edges of the causal graph, and what may cause what. |
| `Observation` | From a line to an observation. |
| `HypothesisScoring` | Candidate roots, their scores, the verdict on a window and its confidence. |
| `ObservationBuffer` | The window: lines received, added in any order, recoveries. Extends the three above. |
| `NodeGraph`, `MaintenancePlans`, `RootCauseInferencer` | The device graph and its paths; which plan covers an incident; the incidents in a window of messages. |
| `Ordering` | The numbers of a set in order, as `sorted()` gives them; used by the inferencer and `LiveServices`. |
| `FileIngest` | The file command over one table. Extends `RootCauseInferencer` and `MaintenancePlans`. |
| `EventClassifier` | What class and severity of a line lead to. |
| `KnowledgeBase` | Rules files, copy, requests and versions. Extends `EventClassifier`. |
| `LiveServices` | Clients, broadcasts, investigations. |
| `BackendServices` | Consumer, ingest request, unknown events, work plans, crash and start, over `KnowledgeBase` and `LiveServices`. |
| `EventDelivery_proofs`, `NodeMonitor_proofs`, `IncidentBackend_proofs`, `IncidentTable_proofs`, `ObservationBuffer_proofs`, `BackendServices_proofs`, `FileIngest_proofs` | Theorems (section 6). |
| `Ordering_proofs` | What `InOrder` gives, sums and counts over finite sets, the greatest in an order; used by the last three proof modules. |
| `MC*` | Instances for TLC: topologies and symmetry sets. |

### Backend (`Incident`, `IncidentBackend`)

A step is a commit of a store call together with the loop code up to the next `await`, or a stretch
of loop code that touches state of the process. The thread pool commits at any later moment, so every
pair of a read and a write of a handler is two steps, with the snapshot kept in the coroutine's
record (`pipes[p].row`, `pipes[p].snap`, `hooks[h].snap`, `tasks[t].row`). The program counter of a
pipeline names the next call:

```
PipeReceive -> raw -> PipeAnalyze -> get  -> PipeGetActive -> update -> PipeUpdate -> kid...
                                  -> list -> PipeMatch     -> update | save -> PipeSave -> kid...
               kid -> PipeKid -> kidUpdate | kidSave -> kidParent ... -> evaluate | finish -> PipeFinish
        raw -> PipeListRecovery -> recUpdate -> PipeRecoveryUpdate -> recSchedule -> PipeRecoverySchedule
        raw -> PipeUnexplained (no hypothesis explains the window)
```

`LoopFree` stands for the node-state route's stretch of code without an `await` between finding the
related incidents and the first write: no other coroutine runs in it, only commits that a thread
already has in hand. `Cancelled` models `task.cancel()`: a sleeping task goes to its `finally` clause
(pc `"end"`), which the loop runs at any later moment (`TaskEnd`), also when a successor is registered
by then. The coroutine of a task whose write is in the pool may end first (`"lost"`); the write may
still commit (`TaskWrite`) or not (`TaskDropWrite`). A handler's update of an incident and the
evaluation recorded after it are two commits (`HookApply`, `HookEvaluate`). The time of an event is
the sender's: up to `Skew` ahead of the clock.

Data are abstracted to what decides a step. An incident keeps its status, condition, root objects,
impact objects, nodes, times of the last fault and recovery and its number of children; texts, logs,
confidences and evidence are left out. An observation is its object and the device that sent it:
the secondary nodes of an incident are senders (`SourcesOf`), its impact objects (`ObjectsOf`). Ids are sequences (`<<3>>` for `INC-<date>-003`, `<<3, 1>>`
for its first child), which keeps the two ways of numbering and their collisions. Which roots the
scorer may pick for a set of observed objects is the constant `Roots`.

### Node monitor (`NodeMonitor`)

Instants are ages: `ttl[n]` is what is left of a record, `since[n]` the time since the last check of
`n` was started (everything from the largest backoff on is one value). The record outlives its TTL,
as in `store.py`, and is then read as UNKNOWN. `check` is split by its early returns (`CheckCached`,
`CheckJoins`, `CheckLimited`, `CheckOverflows`, `CheckStarts`); the task has its own steps (`Begin`,
`Acquire` for the semaphore's queue, `Finish`), and callers resume one by one (`Resume`).
`OverflowAt` is the number of failures from which `min_check_interval * 2 ** failures` raises
`OverflowError` (with the defaults, 44): the exception leaves `gather` and ends `run_periodically`
(phase `dead`).

### Event delivery (`EventDelivery`, `NodeStateFeed`)

An event is a node and a sequence number, which stands for both `event_id` and `observed_at`. A
request stays in the network after the worker has given up on it; requests and answers may be lost;
the backend may crash, which cuts connections and keeps the table. `record_event` and the first
effect of the event are one step here. Anything but an `httpx.HTTPError` ends the worker (`Break`);
`publish` asks nothing of it and goes on filling the queue, also after `close`.

### Observation window (`CausalTopology`, `Observation`, `HypothesisScoring`, `ObservationBuffer`)

A line is a record of what the regular expressions find in it: host, address, protocol, neighbour,
interface, class. `Normalize` turns it into an observation of an object, with a weight; all scores
and weights are in thousandths, as integers, with the rounding of the code where it rounds. The
graph is built from devices with roles, cables and sessions as in `from_iida_topology`; `Distance`
is the length of a shortest path. `Hypothesis` gives a candidate's score term by term, `Infer` the
best of them. `Receive` gives a line its time (the parser does, not the device), `Add` judges it in
the window, so any number of handlers may be between the two.

`Roots` of `IncidentBackend` stays a constant: it allows whatever root the scorer could pick, and the
products of both state spaces would not be checkable.

### File ingestion (`NodeGraph`, `RootCauseInferencer`, `MaintenancePlans`, `FileIngest`)

A line is judged as a window of its own: `run_stream` and `run_batch` both hand `infer` one message at
a time. `Infer` is written for any window, as the code is, and the theorem behind `LinesAccounted` is
about any. Sets that the code iterates or sorts by time only give an order; `SilentOrders` and
`RootOrders` are all the orders the build can produce. `Earlier` is what other runs have left in the
table, those of the same day too: this run's numbers start at 1 again, `save` replaces a row that has
the number, and until then lines are merged into it. Of one sort the newest incident is taken
(`Newest`, by `created_at`), and a row of the backend whose root cause is an object is not the device's
(`object`). A line read is kept in `input` with what became of it and the incident it went `into`,
which the table does not have; `logs` are the lines the table has, no more than `LogsCap` of them (200
in `incident_store.py:15`, 2 in the run, so that three lines of one incident reach it). The paths of
the graph are a closure by sets, without recursion.

### Services (`EventClassifier`, `KnowledgeBase`, `LiveServices`, `BackendServices`)

The consumer and an ingest request run the steps of `api/main.py` around the incidents: match the
line, count it if no rule knows it, judge it, ask for a work plan, store, tell the clients. What
becomes of incidents is in `IncidentBackend`. `LoopFree` again marks stretches without an `await`:
reading rules or plans holds the loop, while requests that change rules run in threads, and editors
outside. A reload is as the code has it: `rules.yaml` is read, `vendor_rules.yaml` is read, then the
time of change is taken, each with requests and editors in between. A save builds `rules.yaml` from the
whole copy, the vendors' rules included, empties the file and fills it; while it is `cut` a reader
finds nothing, a beginning of what is written (`Beginnings`: a list that breaks off may be valid YAML,
its last rule without a status), or what is an error. Two requests that write at once may leave a file
that is `bad`, no list of rules. `Match` raises for values of a wrong type, which the loader accepts
(`Incomparable`, `Misread`). A version is read and used in two steps; a rollback takes the first record
of a version.

`CallFails` lets any call to a database or a file fail, which ends the request or, for good, the
consumer; nothing in the code catches it. An endpoint that ends without `WebSocketDisconnect` leaves
its connection listed (`Break`). The start of the server marks running investigations (`Start`) before
it reads the rules (`Ready`), which may keep it down (`Refuse`).

Left out there: the unconditional reload of `POST /knowledge/reload`; two overlapped writes whose
remains happen to be valid YAML; a `vendor_rules.yaml` that cannot be read; times of the two files
taken at different moments; a file changed while the server starts; and the failure of a database call
of an investigation, which is assumed to succeed.

## 3. Runs

| Run | Instance and bounds | Shows |
|---|---|---|
| `IncidentPipelines` | two pipelines, three lines (fault or recovery) about one session, quiet period 1, inputs at instant 1, three incidents, one child each | `RegistryMatchesTasks`, `ListedChildrenExist`, `ActiveExists`, `NewIdsAreFresh` under overlapping stale writes |
| `IncidentBackend` | one pipeline, two node-event handlers, two lines, two node events up to one instant ahead of the clock, one operator call, one restart, inputs up to instant 2 | `TypeOK`, `RecoveredAfterQuiet`, `RegistryMatchesTasks` with all actors |
| `RecoveryLiveness` | the sequential consumer, four lines (fault, state change or recovery) about an interface and an unknown object, maintenance on | `RecoveryIsDecided` |
| `NodeMonitor` | two nodes, a client of one of them, two probes, one probe slot | `TypeOK`, `SingleFlight`, `KnownStateAnnounced`, `NoEarlyRetry`, `RecoveryDetected` |
| `EventDelivery` | three events, queue of two, one retry, one lost message, one crash | `TypeOK`, `ForwardOnly` (refinement), `QueuedArrives` |
| `ObservationBuffer` | two spines and two leaves with BGP sessions, twelve kinds of line, three lines, clock up to 2, window of 1 | `TypeOK`, `WindowSpan`, `VerdictOfWindow`, `LinkFailureNamed`, `SilentPeerNamed`, `RevisionsAreTold` |
| `FileIngest` | five devices, ten kinds of line, three lines, clock up to 3, merge window 1, three plans, two logs per incident, an earlier incident of another topology or two of the same day | `TypeOK`, `LinesAccounted`, `LostOnlyToForeignRoot`, `OneIncidentPerWindow`, `ClosedOnlyByPlan` |
| `BackendServices` | one rule of the vendors' file, lines of two severities, two rule requests (update, approve, roll back), two clients, two investigations of two turns, three inputs of which two change rules | `TypeOK`, `UnapprovedIsUnused`, `CountsAgree`, `PlansMatchTheirTime`, `BroadcastReachesAll`, `BroadcastSparesConsumer`, `QueueDrains`, `InvestigationsEnd` |
| `OperatorClose`, `FaultWhileConfirming`, `IncidentNumbers`, `BackoffOverflow` | smallest instances | the findings of section 5 |

Why the bounds suffice for what the runs ask. Two coroutines of a kind are the least that overlap,
and no rule of the code looks at more than two at a time: a handler only meets "somebody wrote since
I read". Three lines let a fault and two recoveries, whose tasks replace each other, or a recovery
and another fault meet one incident. In `IncidentBackend` and `RecoveryLiveness` `LastInput` = 2 with a
quiet period of 1 gives an input before and at the deadline of a task; `IncidentPipelines` has all
inputs at one instant, in every order, and does not ask when a recovery is confirmed. Time goes on until every task has ended. `TaskIds`, `MaxTop` and `MaxKids` are bounds of
the model only; the inputs of each run use them up at most. In `NodeMonitor`, a TTL of one unit and
an interval of one unit make records expire between rounds, and one slot makes checks queue.
`EventDelivery` has one event more than the queue holds and as many losses as retries. Events of
different nodes meet only in the queue; the refinement for more nodes is proved.
Three lines in `ObservationBuffer` are the two ends of a link and a session over it, or two
reporters and a line that disagrees; the clock makes them fit the window or not. Three lines in
`FileIngest` are an incident, one merged into it and one that meets the result, with its root
promoted. In `BackendServices` three inputs set two lines, or a line and two requests, or a line, an
editor and a crash against each other; what clients, threads and tasks do by themselves is not
bounded. `"created"` and `"disabled"` are left out of `Operations` there: they take the steps of
`"updated"` and `"approved"`, and cannot approve a rule.

Deadlock is checked everywhere except in `EventDelivery`, where the monitor may have shut down and
nothing is left to do, and in `ObservationBuffer`, `FileIngest` and `BackendServices`, which stop when
their lines or inputs are used up. In the backend, `Done` marks the states in which the bounds have used up all
inputs and every coroutine has ended.

Two properties need a restriction of the run, which is part of what they say.
`ListedChildrenExist` and `NewIdsAreFresh` are checked without purges, restarts and node events: a
purge leaves a parent with a list of children that are gone (`incident_store.py:381-395` does not
touch parents), and the numbering does collide with those inputs (section 5).
`LinkFailureNamed` asks for one line from each end of the link, no interface with two cables, and
no device that two lines name as the neighbour they lost, or one that tells of an expired session.
With a second line from one end (`%LINK` and `%LINEPROTO`) its interface wins over the link, whatever
`README.hypothesis-rca.md:137` says; with 14 for each line that names it, or 64
(`hypothesis_scoring.py:205-213`), a device may. A BGP and an OSPF session over the link, both
reported by one end before the other end of them reports its interface, are enough for that; the
example of `README.md:238-253` is about one session. The loader draws a shared segment as several
cables of one interface; one of those is not told from the others.
`LargeWindow` is needed because scores are rounded to thousandths.
`SilentPeerNamed` asks for two reporters, or a single line that tells of an expired session: a second
such line of the one reporter takes the verdict away (`hypothesis_scoring.py:205-213`). It also asks
that no more sessions of the peer are silent than there are lines: each counts 8 against it, so a
spine with many leaves of which two complain is not named.
`BroadcastSparesConsumer` is about the clients only: that the consumer survives failing calls is not
claimed, since it does not (`CallFails`, `Match`, a plan about an unknown device), and `QueueDrains`
holds while it lives. `UnapprovedIsUnused` speaks of rules that nobody has ever approved; that one which
was disabled is out of use is not true (section 7).
`LinesAccounted` and `LostOnlyToForeignRoot` except rows that an incident with the same number has
replaced, which a second run on one day does.
`RecoveryIsDecided` speaks of incidents whose task sleeps, and is checked without concurrent
pipelines, node events and restarts. That every recovering incident ends is not true of the code: a
restart loses the tasks and nothing restores them, and a state change that was read before the task
wrote `RECOVERED` puts `RECOVERING` back after it, already with the consumer alone.

## 4. Fairness

* Backend: weak fairness of every coroutine and task in progress (the loop runs what is ready, the
  pool runs every job) and of time. Inputs, operators and restarts are never forced.
* Monitor: weak fairness of checks, tasks, the semaphore, rounds and time; probes end because each
  has a timeout (`probes.py`). Nothing forces a node to answer, to change or to stop changing.
* Delivery: weak fairness of the worker, of a request's end (an answer or the client's timeout,
  whichever comes first) and of the backend's handling of each request that reached it, and the
  backend comes back after a crash. Losses, crashes and shutdown are never forced.

* Services: weak fairness of everything the process does by itself together (`Progress`), the start
  of the server included: calls in threads return, the database and the model answer or time out, a
  server that can start is started. Inputs, editors, clients and crashes are never forced. That one
  action of `Progress` might starve another plays no role: every step of it ends some work and new
  work comes only from the bounded inputs.

`ObservationBuffer` and `FileIngest` check safety only.

## 5. Findings

Each is a run that TLC refutes, for a property taken from a document or comment of the repository.

* `OperatorClose`: a handler that read an incident before the operator closed it writes `OPEN` back.
* `FaultWhileConfirming`: the quiet-period task reads and writes in two thread calls; a fault stored
  in between is overwritten by `RECOVERED`.
* `IncidentNumbers`: the node-state route and the projector number incidents independently and `save`
  merges: the second incident replaces the first. The projector's counter is also in memory, so the
  first new incident after a restart replaces one of the same day.
* `BackoffOverflow`: about forty failed checks in a row overflow the interval before it is capped,
  and the periodic loop ends.

## 6. Proofs

`EventDelivery_proofs` proves, for every set of nodes, queue size and numbers of retries, events,
losses and crashes, the type invariant and that the delivery implements `NodeStateFeed`. The
inductive invariant `DeliveryInv` adds to the types that every event under way was emitted
(`InTransitEmitted`) and that a node's latest effect is the effect of an event on record
(`EffectRecorded`). The second is what the refinement needs: `record_event` compares an event with
the table and not with the latest effect, and an event that is neither recorded nor older than a
recorded one is later than the effect only because the effect itself is recorded. The only
assumption is `DeliveryAssumption`.

`NodeMonitor_proofs` proves the types, `SingleFlight`, `KnownStateAnnounced` and `NoEarlyRetry` for
every set of nodes and probes and all timing parameters, from `MonitorAssumption` and
`TaskAssumption` (the value for "no task" is not a task). `MonitorInv` strengthens them with four
facts: a task that has not ended is the one registered in flight for its node (`LiveInFlight`, which
is why joining a check suffices for `SingleFlight`); the semaphore's queue holds waiting tasks, each
once (`QueueWaits`); the state a task read before its probes is still the one announced when it
stores the new one (`PreviousAnnounced`, without which the comparison in `_run_check` could be with
a stale state); and a task that is about to start was not refused by the rate limit
(`NewNotLimited`). `NoEarlyRetry` is an action property of one step of that invariant.

`IncidentBackend_proofs` proves the types and `RegistryMatchesTasks`, `IncidentTable_proofs` proves
`RecoveredAfterQuiet`, for every topology, choice of roots, quiet period and number of pipelines,
handlers, tasks, inputs and restarts, from `TopologyAssumption`, `BackendAssumption` and
`TaskAssumption`. `TypeOK` is not inductive: a pipeline's row is typed as an incident or absent, and
a step that merges it needs an incident, so `TypeInv` says which program counters have one.
`RegistryMatchesTasks` is inductive given the types: scheduling cancels the registered task of the
incident and registers a new one, and a cancelled task, which ends at a later step, finds that the
registration is no longer its own and leaves it. `RecoveredAfterQuiet` is not: rows are
written back from snapshots, so `QuietInv` asks of every copy of an incident (row, snapshot of a
pipeline or handler, row a task is about to write) that a RECOVERED one has a recovery a quiet
period old; that observations are never from the future; and that a task is due no earlier than a
quiet period after the recovery it is to confirm, which is the only reason why a node-state
confirmation, which compares no times itself, is late enough. `QuietInv` was model-checked with the
constants of the run `IncidentBackend` before it was proved.

`ObservationBuffer_proofs` proves the types, `WindowSpan`, `VerdictOfWindow`, `RevisionsAreTold`,
`LinkFailureNamed` and `SilentPeerNamed` for every finite topology, set of lines and length of the
window, from `BufferAssumption` and `TopologyAssumption`. The first two are inductive; the lemma they rest on is that an observation has
the time at which its line was received (`ObservedWhenReceived`). For the verdict the invariant is
`HeldInv`: the root held is the verdict on the window, and what was announced last is nothing or that
root. It is inductive because a line more never takes a verdict away (`VerdictStays`): without that,
a window with no verdict would keep the root of a smaller one. This in turn needs that a verdict is
one of the candidates and never "none": the ranking is a total order on the finitely many objects
that can be a root (`IdsAreOrdered`, `IdsInOrder`, `BestIsThere`), once every score is a number
(`ScoreType`), down to the distances of the breadth first search (`LayersType`) and the finiteness
of the graph (`ObjectsAreFinite`). That the order of the lines makes no difference
(`VerdictOfReordered`) is shown term by term of the score: a reordering that keeps lines of one time
in place renames the places of the window and keeps which of two is the earlier
(`ReorderedFacts`), and the counts, pairs and sums of a score do not depend on the names of what is
counted.

`LinkFailureNamed` and `SilentPeerNamed` say which object wins, so they compare numbers. The invariants
under them are `HeldInv` and that no recovery is in the window (`BufferNoRecoveries`), since one
that is explained costs 35. A candidate that explains k of n lines gets 100 k / n, a sum over all
lines it explains, and a mean of what each counts less 4 for each step it is away: a rounded quotient.
`ComparedInPoints` compares two of those without dividing. The winner w explains every line, one step
away; a line that the other does not explain costs it at least 90 / n (`Outweighed`), a step away
costs it 4, and what remains is to bound the sums. So the proof needs

* distances: one step is an edge, and a set closed under edges is never left (`NearObjects`,
  `ReachStays`); from the shapes of edges (`EdgeShapes`) follows what a device, an interface and a
  link affect, and that the failure of a link or an interface reaches the sessions of one cable only
  when no interface has two (`LinkReach`, `OverOneCable`);
* bounds: the order of n lines counts no more than 4 for each pair and 12 in all (`FitAtMost`), and
  nothing when all lines are equally far; a weight is between 0 and 1 (`WeightBounds`; for a rule
  with a negative number only because `observation.py` cuts it off at 0), so a line about the candidate
  counts between 0 and 12;
* who is ahead: of a failed link, a device or another interface gets too little to begin with, another
  link explains neither end (`LostOfTwo`), and an interface of the link itself is two steps from
  all lines but its own, which outweighs that line and the order (`FirstIsOutweighed`, where equal
  scores are decided by the type). Of a silent peer, another
  device is named by no line, and two reporters make any one cable miss a line (`OneCableMisses`).

`NamedWhenAhead` turns "ahead of every other candidate" into the verdict. The proofs gave the two
properties their preconditions: the run has one session over each link, two of each device, no shared
segment and few lines, and cannot show what the preconditions exclude.

`IncidentTable_proofs` also proves `ListedChildrenExist` and `ActiveExists`. `TableInv` speaks of
every copy of an incident as `QuietInv` does: whatever incident a copy may be written to, the
children it lists are in the table, a pipeline that is past its first write has its incident there,
and a child is saved before the parent lists it. Both theorems say "as long as no purge deletes an
incident" (`[][NothingPurged]_vars`): with a purge they are false, which section 3 says of the runs
too. `NewIdsAreFresh` is proved as long as there is no such purge, no restart and no incident saved
by the node-state route (`[][Undisturbed]_vars`); with them it is false, and `IncidentNumbers` of
section 5 is the counterexample. `NumberInv` says that no row has a number the counter has not
given, and that two pipelines that still create have different ones. `UndisturbedRuns` shows that
the hypotheses are those of the runs without operators, restarts and handlers.

`BackendServices_proofs` proves the types and every safety property of the run for any number of
rules, requests, clients, edits and crashes, from `ServicesAssumption` and
`KnowledgeAssumption`. `UnapprovedIsUnused` speaks of the rule a line has found; `RulesInv` has to
reach every place such a rule can have come from: both files, the copy in memory, the lists that a
request or a pipeline has read or is about to write, and the changes on record, since a rollback
takes an old one. A list is sound (`Sound`) if each rule approved in it was approved once, and the
beginning of a list that is being written is sound if the list is, so what is read of a half
written file is (`ReadingsAreSound`). `PlansInv` says that the copy of the plans is from no earlier
than the time it is taken for: the time is taken before the file is read. `ClientsInv` says of every
broadcast that a client which was there all the time was reached or is in the part of the copy that
is still to come, and of the connections that they are distinct, which `list.remove` rests on.
`CountsInv` says that the row a pipeline has read agrees with itself, so what it writes back does,
also when it overwrites another count. `BroadcastSparesConsumer` is an action property of one step of
these.

`FileIngest_proofs` proves the types, `LinesAccounted`, `LostOnlyToForeignRoot`,
`OneIncidentPerWindow` and `ClosedOnlyByPlan` for every graph, also one with a cycle, and all lines,
plans, windows and caps, from `GraphAssumption` and `IngestAssumption`. Every step is first shown to
be one of four (`StepCases`: no line, a line that is not kept, an incident stored, an incident
merged into), and the invariants are about these. `OneIncidentPerWindow` needs that paths join
(`PathsJoin`), since a promoted root must not come to stand above a third incident, and that
incidents are numbered in the order of their faults (`FaultsInOrder`).
`LinesAccounted` needs the incident that the inference finds in a single line. `LoneIncident` has it
from `InferPartitions`, a lemma about any messages and any order of the sets: each pass is a fold,
which `FoldExists` and `FoldSteps` turn into one step for each element of the sequence, and `Handed` is
what every step keeps, that the incidents found so far divide the senders assigned so far, each with
all its messages. The last pass adds the senders that are left, each once, since `InOrder` goes
through all of a set (`InOrderPermutes`). With one message there is one sender, so there is one
incident with the sender in it. `IngestAssumption` lets the table already hold incidents of the same
day under the numbers this run will give, and `LinesAccounted` says what they cost: a line merged into
one of them is lost when a new incident replaces its row.
`ClosedOnlyByPlan` is about all lines of the incident and not only the logs the table has
room for; that a new number has no line yet (`Placed`) is what a stored incident needs.

What is proved by induction over data is proved without an induction theorem: a set of
counterexamples that is not empty has a least number or a smallest member, which `Ordering_proofs`
uses for `InOrder`, for sums over finite sets, their bounds, and the greatest in an order, and
`FileIngest_proofs` for the passes of the inference.

Model-checked only: liveness (`QueuedArrives`, `RecoveryDetected`, `RecoveryIsDecided`, `QueueDrains`,
`InvestigationsEnd`), which is out of the prover's reach, as is `ENABLED`; they all rest on
fairness. Every safety invariant and action property of a passing run is a theorem.

## 7. Not modelled, and the plan

Left out: parsing and formatting (no state), HTTP, sockets, database engines, the language model and
device connections (I/O), notifications (their errors are caught; the fingerprints of `VigilNotifier`
are only added to), AI reports, authentication, configuration and entry points, the frontend, and
`time_window_buffer.py` and `recovery_matcher.py`, which nothing but tests uses.

What the models contain and no run is about, because no document says otherwise: a rule that one
request saved and another one's save of an older copy removes; two investigations of one incident at
once; broadcasts of two coroutines that reach clients in different orders; a second run of the file command
on one day, which numbers from 1 again, so that `save` replaces the incidents of the first.

What the models contain and a document contradicts, also without a run of its own. The hazards in
`PROJECT.json` name the lines of the code:

* a node that stays up is announced UP again when its record has expired
  (`node_monitor/README.md:247`);
* an edit of the rules between reading them and taking their time is not seen until the next edit
  (`configs/syslog_knowledge/README.md:11`);
* a rule disabled by a request is saved in `rules.yaml`, while its copy in a vendor's file still
  matches; and an update that keeps a status read before (`routes/knowledge.py:94-102`) brings a
  disabled rule back (`configs/syslog_knowledge/README.md:126`);
* two requests that read the same latest version record their changes under one number, and a
  rollback to it finds only the first (`configs/syslog_knowledge/README.md:155`);
* a line handled across the end of a quiet-period task can write `RECOVERING` back, with no task left
  to confirm it (`README.hypothesis-rca.md:403`).

Next:

1. A crash of the backend between recording an event and applying it, composed of `EventDelivery` and
   the node-state route.
2. Replacing the graph while the service runs (`sync_engine.py`), with the pipelines that hold the
   old one.
