------------------------- MODULE IncidentBackend_proofs -------------------------
(***************************************************************************)
(* Proofs about IncidentBackend, for every topology, every number of       *)
(* pipelines, handlers and tasks, every quiet period and every bound.      *)
(***************************************************************************)
EXTENDS IncidentBackend, TLAPS

-----------------------------------------------------------------------------
(* The operators of Incident yield incidents.                               *)

\* apply_fault and apply_recovery change condition and times only.
LEMMA ApplyFaultType ==
  ASSUME NEW r \in Incidents, NEW kind, NEW o, NEW at \in Nat
  PROVE  ApplyFault(r, kind, o, at) \in Incidents
BY DEF ApplyFault, Incidents, Conditions

LEMMA ApplyRecoveryType ==
  ASSUME NEW r \in Incidents, NEW o, NEW at \in Nat
  PROVE  ApplyRecovery(r, o, at) \in Incidents
BY DEF ApplyRecovery, Incidents, Conditions

\* A projection is about a real root.
LEMMA ProjectionType ==
  ASSUME NEW root \in Objects, NEW obs \in SUBSET (Objects \X Nodes), NEW fault \in Nat,
         NEW status \in Statuses
  PROVE  Projection(root, obs, fault, status) \in Incidents
<1>1. NodeOf[root] \in Nodes
  BY TopologyAssumption
<1>2. ObjectsOf(obs) \in SUBSET Objects /\ SourcesOf(obs) \in SUBSET Nodes
  BY DEF ObjectsOf, SourcesOf
<1> QED
  BY <1>1, <1>2 DEF Projection, Incidents, Conditions, Never

LEMMA MergeType ==
  ASSUME NEW existing \in Incidents, NEW projected \in Incidents, NEW kind, NEW o, NEW at \in Nat
  PROVE  Merge(existing, projected, kind, o, at) \in Incidents
<1> DEFINE rca == IF KeepsRoot(existing, projected) THEN existing ELSE projected
           merged == [existing EXCEPT !.sec    = (@ \cup projected.sec) \ {projected.node},
                                      !.obj    = rca.obj,
                                      !.root   = rca.root,
                                      !.node   = rca.node,
                                      !.impact = rca.impact]
<1>1. rca \in Incidents
  OBVIOUS
<1>2. merged \in Incidents
  <2> HIDE DEF rca
  <2> QED
    BY <1>1 DEF Incidents
<1>3. Merge(existing, projected, kind, o, at) = ApplyFault(merged, kind, o, at)
  BY DEF Merge
<1> HIDE DEF merged
<1> QED
  BY <1>2, <1>3, ApplyFaultType

LEMMA ChildType ==
  ASSUME NEW r \in Incidents, NEW o \in Objects
  PROVE  Child(r, o) \in Incidents
BY DEF Child, Incidents

LEMMA ApplyNodeStateType ==
  ASSUME NEW r \in Incidents, NEW s, NEW at \in Nat
  PROVE  ApplyNodeState(r, s, at) \in Incidents
BY DEF ApplyNodeState, Incidents, Conditions

LEMMA NodeIncidentType ==
  ASSUME NEW n \in Nodes, NEW at \in Nat
  PROVE  NodeIncident(n, at) \in Incidents
BY DEF NodeIncident, Incidents, Statuses, Conditions, Never

-----------------------------------------------------------------------------
(* The type invariant, with what a coroutine must know at its program       *)
(* counter.                                                                 *)

Working == {"get", "list", "update", "save", "kid", "kidUpdate", "kidSave", "kidParent",
            "evaluate", "finish"}

SoundPipe(m) ==
    /\ m \in PipeStates
    /\ m.pc # "idle" => m.obj \in Objects /\ m.src \in Nodes
    /\ m.pc \in Working => m.id \in Ids /\ m.row \in Incidents
    /\ m.pc = "get" => m.kid \in Ids

SoundHook(m) == m.pc = "evaluate" => m.cur \in Ids /\ m.snap[m.cur] \in Incidents

TypeInv ==
    /\ TypeOK
    /\ \A p \in Pipes : SoundPipe(pipes[p])
    /\ \A h \in Hooks : SoundHook(hooks[h])

\* The tables start empty.
LEMMA InitTypes == Init => TypeInv
<1> SUFFICES ASSUME Init PROVE TypeInv
  OBVIOUS
<1> USE TopologyAssumption, BackendAssumption DEF Init
<1>1. NoRows \in Tables
  BY DEF NoRows, Tables
<1>2. IdlePipe \in PipeStates /\ SoundPipe(IdlePipe)
  BY <1>1 DEF IdlePipe, PipeStates, PipePcs, SoundPipe, Working, Never
<1>3. IdleHook \in HookStates /\ SoundHook(IdleHook)
  BY <1>1 DEF IdleHook, HookStates, SoundHook, Never
<1>4. left \in [{"messages", "events", "calls", "restarts"} -> Nat]
  OBVIOUS
<1>5. /\ buffer \in [obs : SUBSET (Objects \X Nodes), fault : Nat, root : Objects \cup {NoObj}]
      /\ active \in [id : Ids \cup {NoId}, root : Objects \cup {NoObj}]
  BY DEF EmptyBuffer, NoActive, Never
<1> QED
  BY <1>1, <1>2, <1>3, <1>4, <1>5 DEF TypeInv, TypeOK

\* Setting a coroutine's record to a sound one.
LEMMA StepTypes ==
  ASSUME TypeInv, NEW p \in Pipes, NEW m, SoundPipe(m), Step(p, m)
  PROVE  pipes' \in [Pipes -> PipeStates] /\ \A q \in Pipes : SoundPipe(pipes'[q])
BY DEF TypeInv, TypeOK, Step, SoundPipe

\* A cancelled task is a task of the same incident.
Halted(v) == [v EXCEPT !.cancelled = TRUE, !.pc = IF @ = "sleep" THEN "end" ELSE @]

LEMMA HaltedTask ==
  ASSUME NEW v \in TaskStates
  PROVE  Halted(v) \in TaskStates /\ Halted(v).cancelled /\ Halted(v).id = v.id
BY DEF Halted, TaskStates

LEMMA CancelledHalts ==
  ASSUME NEW ts \in [TaskIds -> TaskStates \cup {NoTask}], NEW t \in TaskIds,
         ts[t] # NoTask
  PROVE  Cancelled(ts, t) = [ts EXCEPT ![t] = Halted(ts[t])]
<1>1. t # NoTask /\ ts[t] \in TaskStates
  BY BackendAssumption
<1>2. Cancelled(ts, t) =
        [ts EXCEPT ![t].cancelled = TRUE, ![t].pc = IF @ = "sleep" THEN "end" ELSE @]
  BY <1>1 DEF Cancelled
<1> QED
  BY <1>1, <1>2 DEF Halted, TaskStates

\* Scheduling keeps the registry and the tasks typed.
LEMMA ScheduleTypes ==
  ASSUME TypeInv, NEW i \in Ids, NEW at \in Nat, NEW by \in {"syslog", "node"},
         Schedule(i, at, by)
  PROVE  /\ tasks' \in [TaskIds -> TaskStates \cup {NoTask}]
         /\ registry' \in [Ids -> TaskIds \cup {NoTask}]
<1> DEFINE rest == Cancelled(tasks, registry[i])
<1>0. /\ tasks \in [TaskIds -> TaskStates \cup {NoTask}]
      /\ registry \in [Ids -> TaskIds \cup {NoTask}]
  BY DEF TypeInv, TypeOK
<1>1. rest \in [TaskIds -> TaskStates \cup {NoTask}]
  <2>1. CASE registry[i] \in TaskIds /\ tasks[registry[i]] # NoTask
    <3>0. tasks[registry[i]] \in TaskStates
      BY <1>0, <2>1
    <3>1. Halted(tasks[registry[i]]) \in TaskStates
      BY <3>0, HaltedTask
    <3>2. rest = [tasks EXCEPT ![registry[i]] = Halted(tasks[registry[i]])]
      BY <1>0, <2>1, CancelledHalts
    <3> HIDE DEF rest
    <3> QED
      BY <1>0, <2>1, <3>1, <3>2
  <2>2. CASE ~(registry[i] \in TaskIds /\ tasks[registry[i]] # NoTask)
    BY <1>0, <2>2 DEF Cancelled
  <2> QED
    BY <2>1, <2>2
<1>2. PICK t \in TaskIds :
        /\ tasks' = [rest EXCEPT ![t] = [id |-> i, at |-> at, by |-> by, due |-> clock + Quiet,
                                         pc |-> "sleep", row |-> Absent, cancelled |-> FALSE]]
        /\ registry' = [registry EXCEPT ![i] = t]
  BY DEF Schedule
<1>3. [id |-> i, at |-> at, by |-> by, due |-> clock + Quiet,
       pc |-> "sleep", row |-> Absent, cancelled |-> FALSE] \in TaskStates
  BY TopologyAssumption DEF TaskStates, TypeInv, TypeOK
<1> HIDE DEF rest
<1> QED
  BY <1>0, <1>1, <1>2, <1>3

\* A commit of a row.
LEMMA WriteType ==
  ASSUME NEW table \in Tables, NEW i, NEW r \in Incidents \cup {Absent}
  PROVE  [table EXCEPT ![i] = r] \in Tables
BY DEF Tables

\* A step that writes the incident table and a pipeline's record only.
LEMMA RowsAndPipe ==
  ASSUME TypeInv, rows' \in Tables, NEW p \in Pipes, NEW m, SoundPipe(m), Step(p, m),
         UNCHANGED <<counter, buffer, active, registry, tasks, hooks, seen, clock, left>>
  PROVE  TypeInv'
<1>1. pipes' \in [Pipes -> PipeStates] /\ \A q \in Pipes : SoundPipe(pipes'[q])
  BY StepTypes
<1> QED
  BY <1>1 DEF TypeInv, TypeOK

-----------------------------------------------------------------------------
(* Types: the steps of a pipeline.                                          *)

LEMMA ReceivedPipe ==
  ASSUME NEW k \in Kinds, NEW obj \in Objects, NEW src \in Nodes, NEW at \in Nat
  PROVE  SoundPipe([IdlePipe EXCEPT !.pc = "raw", !.kind = k, !.obj = obj, !.src = src,
                                    !.at = at])
<1> DEFINE idle == IdlePipe
           line == [idle EXCEPT !.pc = "raw", !.kind = k, !.at = at]
           m    == [line EXCEPT !.obj = obj, !.src = src]
<1>1. NoRows \in Tables
  BY DEF NoRows, Tables
<1>2. idle \in PipeStates
  BY <1>1 DEF IdlePipe, PipeStates, PipePcs, Never
<1> HIDE DEF idle
<1>3. "raw" \in PipePcs /\ k \in Kinds \cup {"none"}
  BY DEF PipePcs
<1>4. line \in PipeStates
  BY <1>2, <1>3 DEF PipeStates
<1>5. line.pc = "raw"
  BY <1>2 DEF PipeStates
<1>6. [idle EXCEPT !.pc = "raw", !.kind = k, !.obj = obj, !.src = src, !.at = at] = m
  BY <1>2 DEF PipeStates
<1> HIDE DEF line
<1>7. m \in PipeStates /\ m.pc = "raw" /\ m.obj = obj /\ m.src = src
  BY <1>4, <1>5 DEF PipeStates
<1> HIDE DEF m
<1>8. SoundPipe(m)
  BY <1>7 DEF SoundPipe, Working
<1> QED
  BY <1>6, <1>8 DEF idle

LEMMA PipeReceiveType ==
  ASSUME TypeInv, NEW p \in Pipes, PipeReceive(p)
  PROVE  TypeInv'
<1>1. PICK k \in Kinds, o \in Observable :
        Step(p, [IdlePipe EXCEPT !.pc = "raw", !.kind = k, !.obj = o[1], !.src = o[2],
                                 !.at = clock])
  BY DEF PipeReceive
<1> DEFINE m == [IdlePipe EXCEPT !.pc = "raw", !.kind = k, !.obj = o[1], !.src = o[2],
                                 !.at = clock]
<1>2. SoundPipe(m)
  <2>1. o[1] \in Objects /\ o[2] \in Nodes /\ clock \in Nat
    BY BackendAssumption DEF TypeInv, TypeOK
  <2> QED
    BY <2>1, ReceivedPipe
<1>3. pipes' \in [Pipes -> PipeStates] /\ \A q \in Pipes : SoundPipe(pipes'[q])
  BY <1>1, <1>2, StepTypes
<1>4. left' \in [{"messages", "events", "calls", "restarts"} -> Nat]
  BY DEF PipeReceive, Spend, TypeInv, TypeOK
<1> QED
  BY <1>3, <1>4 DEF PipeReceive, TypeInv, TypeOK

\* The window and its root stay typed.
BufferType == [obs : SUBSET (Objects \X Nodes), fault : Nat, root : Objects \cup {NoObj}]

LEMMA WindowType ==
  ASSUME TypeInv, NEW fits
  PROVE  Window(fits) \in BufferType
BY DEF Window, EmptyBuffer, Never, TypeInv, TypeOK, BufferType

LEMMA BufferAddType ==
  ASSUME TypeInv, NEW o \in Objects \X Nodes, NEW kind, NEW at \in Nat, NEW fits,
         NEW cur \in Objects \cup {NoObj}
  PROVE  BufferAdd(o, kind, at, fits, cur) \in BufferType
<1> DEFINE old == Window(fits)
<1>1. old \in BufferType
  BY WindowType
<1>2. BufferAdd(o, kind, at, fits, cur) =
        [obs   |-> old.obs \cup {o},
         fault |-> IF kind = "fault" /\ at > old.fault THEN at ELSE old.fault,
         root  |-> cur]
  BY DEF BufferAdd
<1> HIDE DEF old
<1> QED
  BY <1>1, <1>2 DEF BufferType

LEMMA PipeAnalyzeType ==
  ASSUME TypeInv, NEW p \in Pipes, PipeAnalyze(p)
  PROVE  TypeInv'
<1> DEFINE m == pipes[p]
<1>0. /\ SoundPipe(m) /\ m \in PipeStates /\ m.at \in Nat /\ m.pc = "raw"
      /\ m.obj \in Objects /\ m.src \in Nodes
  BY DEF TypeInv, SoundPipe, PipeStates, PipeAnalyze, At
<1> DEFINE next(cur, goOn, added, status) ==
             [m EXCEPT !.pc  = IF goOn THEN "get" ELSE "list",
                       !.cur = cur,
                       !.id  = <<NewNumber>>,
                       !.kid = IF goOn THEN active.id ELSE NoId,
                       !.row = Projection(cur, added.obs, added.fault, status)]
       chosen(fits, status, cur) ==
         LET last  == Window(fits).root
             prev  == IF last # cur THEN last ELSE NoObj
             goOn  == active.id # NoId /\ active.root \in {cur, prev}
             added == BufferAdd(<<m.obj, m.src>>, m.kind, m.at, fits, cur)
         IN  buffer' = added /\ Step(p, next(cur, goOn, added, status))
<1>1. PICK fits \in (IF buffer.obs = {} THEN {TRUE} ELSE BOOLEAN),
           status \in (IF MaintenanceOn THEN {"OPEN", "CLOSED"} ELSE {"OPEN"}) :
        \E cur \in Roots[ObjectsOf(Window(fits).obs) \cup {m.obj}] \ {NoObj} : chosen(fits, status, cur)
  BY DEF PipeAnalyze
<1>12. PICK cur \in Roots[ObjectsOf(Window(fits).obs) \cup {m.obj}] \ {NoObj} : chosen(fits, status, cur)
  BY <1>1
<1>2. PICK goOn \in BOOLEAN :
        /\ goOn => active.id # NoId
        /\ buffer' = BufferAdd(<<m.obj, m.src>>, m.kind, m.at, fits, cur)
        /\ Step(p, next(cur, goOn, buffer', status))
  <2> HIDE DEF next
  <2> QED
    BY <1>12
<1>3. cur \in Objects
  <2>1. ObjectsOf(Window(fits).obs) \cup {m.obj} \in SUBSET Objects
    BY <1>0, WindowType DEF BufferType, ObjectsOf
  <2> QED
    BY <1>12, <2>1, BackendAssumption
<1>4. buffer' \in BufferType
  BY <1>0, <1>2, <1>3, BufferAddType
<1>5. Projection(cur, buffer'.obs, buffer'.fault, status) \in Incidents
  BY <1>1, <1>3, <1>4, ProjectionType DEF BufferType, Statuses
<1>6. counter' \in 0..MaxTop /\ <<NewNumber>> \in Ids
  BY BackendAssumption DEF PipeAnalyze, NewNumber, TypeInv, TypeOK, Ids
<1>7. active.id \in Ids \cup {NoId}
  BY DEF TypeInv, TypeOK
<1> DEFINE new == next(cur, goOn, buffer', status)
<1>8. SoundPipe(new)
  <2> HIDE DEF m
  <2>1. new \in PipeStates
    BY <1>0, <1>3, <1>5, <1>6, <1>7 DEF PipeStates, PipePcs
  <2>2. /\ new.obj \in Objects /\ new.src \in Nodes
        /\ new.id \in Ids /\ new.row \in Incidents
    BY <1>0, <1>5, <1>6 DEF PipeStates
  <2>3. new.pc = "get" => new.kid \in Ids
    BY <1>0, <1>2, <1>7 DEF PipeStates
  <2> QED
    BY <2>1, <2>2, <2>3 DEF SoundPipe
<1>9. pipes' \in [Pipes -> PipeStates] /\ \A q \in Pipes : SoundPipe(pipes'[q])
  BY <1>2, <1>8, StepTypes
<1>10. UNCHANGED <<rows, active, registry, tasks, hooks, seen, clock, left>>
  BY DEF PipeAnalyze
<1> QED
  BY <1>4, <1>6, <1>9, <1>10 DEF TypeInv, TypeOK, BufferType

LEMMA IdlePipeSound == SoundPipe(IdlePipe)
<1>1. NoRows \in Tables
  BY DEF NoRows, Tables
<1> QED
  BY <1>1 DEF IdlePipe, PipeStates, PipePcs, SoundPipe, Working, Never

LEMMA PipeUnexplainedType ==
  ASSUME TypeInv, NEW p \in Pipes, PipeUnexplained(p)
  PROVE  TypeInv'
<1> DEFINE m == pipes[p]
<1>0. m.obj \in Objects /\ m.src \in Nodes /\ m.at \in Nat
  BY DEF TypeInv, SoundPipe, PipeStates, PipeUnexplained, At
<1>1. PICK fits \in BOOLEAN : buffer' = BufferAdd(<<m.obj, m.src>>, m.kind, m.at, fits, Window(fits).root)
  BY DEF PipeUnexplained
<1>2. buffer' \in BufferType
  BY <1>0, <1>1, WindowType, BufferAddType DEF BufferType
<1>3. pipes' \in [Pipes -> PipeStates] /\ \A q \in Pipes : SoundPipe(pipes'[q])
  BY IdlePipeSound, StepTypes DEF PipeUnexplained
<1>4. UNCHANGED <<rows, counter, active, registry, tasks, hooks, seen, clock, left>>
  BY DEF PipeUnexplained
<1> QED
  BY <1>2, <1>3, <1>4 DEF TypeInv, TypeOK, BufferType

\* What a pipeline that works on an incident knows of itself.
LEMMA WorkingPipe ==
  ASSUME TypeInv, NEW p \in Pipes, pipes[p].pc \in Working
  PROVE  /\ pipes[p] \in PipeStates /\ pipes[p].obj \in Objects /\ pipes[p].src \in Nodes /\ pipes[p].at \in Nat
         /\ pipes[p].id \in Ids /\ pipes[p].row \in Incidents
         /\ pipes[p].pc = "get" => pipes[p].kid \in Ids
<1>1. SoundPipe(pipes[p])
  BY DEF TypeInv
<1>2. pipes[p].pc # "idle"
  BY DEF Working
<1> QED
  BY <1>1, <1>2 DEF SoundPipe, PipeStates

LEMMA RowType ==
  ASSUME TypeInv, NEW i \in Ids, Row(i)
  PROVE  rows[i] \in Incidents
BY DEF TypeInv, TypeOK, Tables, Row

LEMMA PipeGetActiveType ==
  ASSUME TypeInv, NEW p \in Pipes, PipeGetActive(p)
  PROVE  TypeInv'
<1> DEFINE m == pipes[p]
<1>0. /\ m \in PipeStates /\ m.obj \in Objects /\ m.src \in Nodes /\ m.at \in Nat
      /\ m.id \in Ids /\ m.row \in Incidents /\ m.kid \in Ids
  BY WorkingPipe DEF PipeGetActive, At, Working
<1>1. CASE Row(m.kid)
  <2> DEFINE merged == Merged(m, m.kid)
             new == [m EXCEPT !.pc = "update", !.path = "active", !.kid = NoId,
                              !.id = m.kid, !.row = merged]
  <2>1. merged \in Incidents
    BY <1>0, <1>1, RowType, MergeType DEF Merged
  <2>2. SoundPipe(new)
    <3> HIDE DEF merged, m
    <3> QED
      BY <1>0, <2>1 DEF SoundPipe, PipeStates, PipePcs
  <2>3. Step(p, new)
    BY <1>1 DEF PipeGetActive
  <2>4. rows' \in Tables
    BY DEF PipeGetActive, TypeInv, TypeOK
  <2>5. UNCHANGED <<counter, buffer, active, registry, tasks, hooks, seen, clock, left>>
    BY DEF PipeGetActive
  <2> HIDE DEF new
  <2> QED
    BY <2>2, <2>3, <2>4, <2>5, RowsAndPipe
<1>2. CASE ~Row(m.kid)
  <2> DEFINE new == [m EXCEPT !.pc = "list", !.kid = NoId]
  <2>1. SoundPipe(new)
    <3> HIDE DEF m
    <3> QED
      BY <1>0 DEF SoundPipe, PipeStates, PipePcs
  <2>2. Step(p, new)
    BY <1>2 DEF PipeGetActive
  <2>3. rows' \in Tables
    BY DEF PipeGetActive, TypeInv, TypeOK
  <2>4. UNCHANGED <<counter, buffer, active, registry, tasks, hooks, seen, clock, left>>
    BY DEF PipeGetActive
  <2> HIDE DEF new
  <2> QED
    BY <2>1, <2>2, <2>3, <2>4, RowsAndPipe
<1> QED
  BY <1>1, <1>2

LEMMA PipeMatchType ==
  ASSUME TypeInv, NEW p \in Pipes, PipeMatch(p)
  PROVE  TypeInv'
<1> DEFINE m == pipes[p]
<1>0. /\ m \in PipeStates /\ m.obj \in Objects /\ m.src \in Nodes /\ m.at \in Nat
      /\ m.id \in Ids /\ m.row \in Incidents
  BY WorkingPipe DEF PipeMatch, At, Working
<1>1. rows' \in Tables
  BY DEF PipeMatch, TypeInv, TypeOK
<1>2. UNCHANGED <<counter, buffer, active, registry, tasks, hooks, seen, clock, left>>
  BY DEF PipeMatch
<1>3. CASE Matching(m.cur) = {}
  <2> DEFINE row == ApplyFault(m.row, m.kind, m.obj, m.at)
             new == [m EXCEPT !.pc = "save", !.path = "new", !.row = row]
  <2>1. row \in Incidents
    BY <1>0, ApplyFaultType
  <2>2. SoundPipe(new)
    <3> HIDE DEF row, m
    <3> QED
      BY <1>0, <2>1 DEF SoundPipe, PipeStates, PipePcs
  <2>3. Step(p, new)
    BY <1>3 DEF PipeMatch
  <2> HIDE DEF new
  <2> QED
    BY <1>1, <1>2, <2>2, <2>3, RowsAndPipe
<1>4. CASE Matching(m.cur) # {}
  <2>1. PICK i \in Matching(m.cur) :
          Step(p, [m EXCEPT !.pc = "update", !.path = "match", !.id = i, !.row = Merged(m, i)])
    BY <1>4 DEF PipeMatch
  <2>2. i \in Ids /\ Row(i)
    BY DEF Matching, Open
  <2> DEFINE merged == Merged(m, i)
             new == [m EXCEPT !.pc = "update", !.path = "match", !.id = i, !.row = merged]
  <2>3. merged \in Incidents
    BY <1>0, <2>2, RowType, MergeType DEF Merged
  <2>4. SoundPipe(new)
    <3> HIDE DEF merged, m
    <3> QED
      BY <1>0, <2>2, <2>3 DEF SoundPipe, PipeStates, PipePcs
  <2>5. Step(p, new)
    BY <2>1
  <2> HIDE DEF new
  <2> QED
    BY <1>1, <1>2, <2>4, <2>5, RowsAndPipe
<1> QED
  BY <1>3, <1>4

\* The loop over the children.
LEMMA NextKidSound ==
  ASSUME NEW m \in PipeStates, m.obj \in Objects, m.src \in Nodes, m.id \in Ids, m.row \in Incidents
  PROVE  SoundPipe(NextKid(m))
<1>1. PICK pc \in {"kid", "evaluate", "finish"} :
        NextKid(m) = [m EXCEPT !.pc = pc, !.kid = NoId, !.kidRow = Absent]
  BY DEF NextKid
<1>2. NextKid(m) \in PipeStates /\ NextKid(m).pc = pc
  BY <1>1 DEF PipeStates, PipePcs
<1>3. NextKid(m).obj = m.obj /\ NextKid(m).src = m.src /\ NextKid(m).id = m.id /\ NextKid(m).row = m.row
  BY <1>1 DEF PipeStates
<1> QED
  BY <1>2, <1>3 DEF SoundPipe

LEMMA PersistedSound ==
  ASSUME NEW m \in PipeStates, m.obj \in Objects, m.src \in Nodes, m.id \in Ids, m.row \in Incidents
  PROVE  SoundPipe(Persisted(m))
<1> DEFINE kids == {o \in m.row.impact : TypeOf[o] = "session"}
           new == [m EXCEPT !.todo = kids]
<1>1. kids \in SUBSET Objects
  BY DEF Incidents
<1>2. new \in PipeStates /\ new.obj \in Objects /\ new.src \in Nodes /\ new.id \in Ids /\ new.row \in Incidents
  <2> HIDE DEF kids
  <2> QED
    BY <1>1 DEF PipeStates
<1>3. Persisted(m) = NextKid(new)
  BY DEF Persisted
<1> HIDE DEF new
<1> QED
  BY <1>2, <1>3, NextKidSound

LEMMA PipeUpdateType ==
  ASSUME TypeInv, NEW p \in Pipes, PipeUpdate(p)
  PROVE  TypeInv'
<1> DEFINE m == pipes[p]
<1>0. /\ m \in PipeStates /\ m.obj \in Objects /\ m.src \in Nodes /\ m.at \in Nat
      /\ m.id \in Ids /\ m.row \in Incidents
  BY WorkingPipe DEF PipeUpdate, At, Working
<1>1. UNCHANGED <<counter, buffer, active, registry, tasks, hooks, seen, clock, left>>
  BY DEF PipeUpdate
<1>2. rows \in Tables
  BY DEF TypeInv, TypeOK
<1>3. CASE Row(m.id)
  <2>1. rows' = [rows EXCEPT ![m.id] = m.row] /\ Step(p, Persisted(m))
    BY <1>3 DEF PipeUpdate
  <2>2. rows' \in Tables
    BY <1>0, <1>2, <2>1, WriteType
  <2>3. SoundPipe(Persisted(m))
    BY <1>0, PersistedSound
  <2> QED
    BY <1>1, <2>1, <2>2, <2>3, RowsAndPipe
<1>4. CASE ~Row(m.id)
  <2>1. rows' \in Tables
    BY <1>2, <1>4 DEF PipeUpdate
  <2> DEFINE row == ApplyFault(m.row, m.kind, m.obj, m.at)
  <2>2. PICK new \in {[m EXCEPT !.pc = "list"],
                      [m EXCEPT !.pc = "save", !.path = "new", !.row = row]} : Step(p, new)
    BY <1>4 DEF PipeUpdate
  <2>3. row \in Incidents
    BY <1>0, ApplyFaultType
  <2>4. SoundPipe(new)
    <3> HIDE DEF row, m
    <3> QED
      BY <1>0, <2>2, <2>3 DEF SoundPipe, PipeStates, PipePcs
  <2> QED
    BY <1>1, <2>1, <2>2, <2>4, RowsAndPipe
<1> QED
  BY <1>3, <1>4

LEMMA PipeSaveType ==
  ASSUME TypeInv, NEW p \in Pipes, PipeSave(p)
  PROVE  TypeInv'
<1> DEFINE m == pipes[p]
<1>0. m \in PipeStates /\ m.obj \in Objects /\ m.src \in Nodes /\ m.id \in Ids /\ m.row \in Incidents
  BY WorkingPipe DEF PipeSave, At, Working
<1>1. rows' \in Tables
  BY <1>0, WriteType DEF PipeSave, TypeInv, TypeOK
<1>2. SoundPipe(Persisted(m))
  BY <1>0, PersistedSound
<1>3. /\ Step(p, Persisted(m))
      /\ UNCHANGED <<counter, buffer, active, registry, tasks, hooks, seen, clock, left>>
  BY DEF PipeSave
<1> QED
  BY <1>1, <1>2, <1>3, RowsAndPipe

LEMMA PipeKidType ==
  ASSUME TypeInv, NEW p \in Pipes, PipeKid(p)
  PROVE  TypeInv'
<1> DEFINE m == pipes[p]
<1>0. /\ m \in PipeStates /\ m.obj \in Objects /\ m.src \in Nodes /\ m.at \in Nat
      /\ m.id \in Ids /\ m.row \in Incidents
  BY WorkingPipe DEF PipeKid, At, Working
<1>1. UNCHANGED <<rows, counter, buffer, active, registry, tasks, hooks, seen, clock, left>>
  BY DEF PipeKid
<1>2. PICK o \in m.todo :
        LET rest == [m EXCEPT !.todo = @ \ {o}]
            new  == Append(m.id, m.row.kids + 1)
        IN  IF ChildrenOf(m.id, o) # {}
            THEN \E c \in ChildrenOf(m.id, o) :
                   Step(p, IF FaultMatches(rows[c], m.kind, m.obj)
                           THEN [rest EXCEPT !.pc = "kidUpdate", !.kid = c,
                                             !.kidRow = ApplyFault(rows[c], m.kind, m.obj, m.at)]
                           ELSE NextKid(rest))
            ELSE /\ new \in Ids
                 /\ Step(p, [rest EXCEPT !.pc = "kidSave", !.kid = new, !.kidRow = Child(m.row, o)])
  BY DEF PipeKid
<1> DEFINE rest == [m EXCEPT !.todo = @ \ {o}]
<1>3. /\ rest \in PipeStates /\ rest.obj \in Objects /\ rest.src \in Nodes /\ rest.id \in Ids /\ rest.row \in Incidents
      /\ o \in Objects
  <2> HIDE DEF m
  <2> QED
    BY <1>0 DEF PipeStates
<1>4. \A c \in ChildrenOf(m.id, o) : c \in Ids /\ rows[c] \in Incidents
  BY RowType DEF ChildrenOf
<1>5. ASSUME NEW pc \in {"kidUpdate", "kidSave"}, NEW c \in Ids, NEW r \in Incidents
      PROVE  SoundPipe([rest EXCEPT !.pc = pc, !.kid = c, !.kidRow = r])
  <2> HIDE DEF rest
  <2> QED
    BY <1>3 DEF SoundPipe, PipeStates, PipePcs
<1>6. \E new : SoundPipe(new) /\ Step(p, new)
  <2>1. CASE ChildrenOf(m.id, o) # {}
    <3>1. PICK c \in ChildrenOf(m.id, o) :
            Step(p, IF FaultMatches(rows[c], m.kind, m.obj)
                    THEN [rest EXCEPT !.pc = "kidUpdate", !.kid = c,
                                      !.kidRow = ApplyFault(rows[c], m.kind, m.obj, m.at)]
                    ELSE NextKid(rest))
      BY <1>2, <2>1
    <3> DEFINE row == ApplyFault(rows[c], m.kind, m.obj, m.at)
               new == [rest EXCEPT !.pc = "kidUpdate", !.kid = c, !.kidRow = row]
    <3>2. row \in Incidents
      BY <1>0, <1>4, ApplyFaultType
    <3>3. SoundPipe(new)
      <4> HIDE DEF row, rest
      <4> QED
        BY <1>4, <1>5, <3>2
    <3>4. SoundPipe(NextKid(rest))
      <4> HIDE DEF rest
      <4> QED
        BY <1>3, NextKidSound
    <3>5. Step(p, new) \/ Step(p, NextKid(rest))
      BY <3>1
    <3> HIDE DEF new, rest
    <3> QED
      BY <3>3, <3>4, <3>5
  <2>2. CASE ChildrenOf(m.id, o) = {}
    <3> DEFINE kid == Append(m.id, m.row.kids + 1)
               row == Child(m.row, o)
               new == [rest EXCEPT !.pc = "kidSave", !.kid = kid, !.kidRow = row]
    <3>1. kid \in Ids /\ Step(p, new)
      BY <1>2, <2>2
    <3>2. row \in Incidents
      BY <1>0, <1>3, ChildType
    <3>3. SoundPipe(new)
      <4> HIDE DEF row, kid, rest
      <4> QED
        BY <1>5, <3>1, <3>2
    <3> HIDE DEF new
    <3> QED
      BY <3>1, <3>3
  <2> QED
    BY <2>1, <2>2
<1>7. rows' \in Tables
  BY <1>1 DEF TypeInv, TypeOK
<1> QED
  BY <1>1, <1>6, <1>7, RowsAndPipe

LEMMA PipeKidUpdateType ==
  ASSUME TypeInv, NEW p \in Pipes, PipeKidUpdate(p)
  PROVE  TypeInv'
<1> DEFINE m == pipes[p]
<1>0. m \in PipeStates /\ m.obj \in Objects /\ m.src \in Nodes /\ m.id \in Ids /\ m.row \in Incidents
  BY WorkingPipe DEF PipeKidUpdate, At, Working
<1>1. m.kidRow \in Incidents \cup {Absent}
  BY <1>0 DEF PipeStates
<1>2. rows' \in Tables
  BY <1>1, WriteType DEF PipeKidUpdate, TypeInv, TypeOK
<1>3. SoundPipe(NextKid(m))
  BY <1>0, NextKidSound
<1>4. /\ Step(p, NextKid(m))
      /\ UNCHANGED <<counter, buffer, active, registry, tasks, hooks, seen, clock, left>>
  BY DEF PipeKidUpdate
<1> QED
  BY <1>2, <1>3, <1>4, RowsAndPipe

LEMMA PipeKidSaveType ==
  ASSUME TypeInv, NEW p \in Pipes, PipeKidSave(p)
  PROVE  TypeInv'
<1> DEFINE m == pipes[p]
           row == [m.row EXCEPT !.kids = @ + 1]
           new == [m EXCEPT !.pc = "kidParent", !.row = row]
<1>0. m \in PipeStates /\ m.obj \in Objects /\ m.src \in Nodes /\ m.id \in Ids /\ m.row \in Incidents
  BY WorkingPipe DEF PipeKidSave, At, Working
<1>1. m.kidRow \in Incidents \cup {Absent}
  BY <1>0 DEF PipeStates
<1>2. rows' \in Tables
  BY <1>1, WriteType DEF PipeKidSave, TypeInv, TypeOK
<1>3. row \in Incidents
  <2> DEFINE r == m.row
  <2>1. r \in Incidents
    BY <1>0
  <2> HIDE DEF r
  <2>2. [r EXCEPT !.kids = @ + 1] \in Incidents
    BY <2>1 DEF Incidents
  <2> QED
    BY <2>2 DEF r
<1>4. SoundPipe(new)
  <2> HIDE DEF row, m
  <2> QED
    BY <1>0, <1>3 DEF SoundPipe, PipeStates, PipePcs
<1>5. Step(p, new)
  BY DEF PipeKidSave
<1>6. UNCHANGED <<counter, buffer, active, registry, tasks, hooks, seen, clock, left>>
  BY DEF PipeKidSave
<1> HIDE DEF new
<1> QED
  BY <1>2, <1>4, <1>5, <1>6, RowsAndPipe

LEMMA PipeKidParentType ==
  ASSUME TypeInv, NEW p \in Pipes, PipeKidParent(p)
  PROVE  TypeInv'
<1> DEFINE m == pipes[p]
<1>0. m \in PipeStates /\ m.obj \in Objects /\ m.src \in Nodes /\ m.id \in Ids /\ m.row \in Incidents
  BY WorkingPipe DEF PipeKidParent, At, Working
<1>1. rows' \in Tables
  BY <1>0, WriteType DEF PipeKidParent, TypeInv, TypeOK
<1>2. SoundPipe(NextKid(m))
  BY <1>0, NextKidSound
<1>3. /\ Step(p, NextKid(m))
      /\ UNCHANGED <<counter, buffer, active, registry, tasks, hooks, seen, clock, left>>
  BY DEF PipeKidParent
<1> QED
  BY <1>1, <1>2, <1>3, RowsAndPipe

LEMMA PipeEvaluateType ==
  ASSUME TypeInv, NEW p \in Pipes, PipeEvaluate(p)
  PROVE  TypeInv'
<1> DEFINE m == pipes[p]
           new == [m EXCEPT !.pc = "finish"]
<1>0. m \in PipeStates /\ m.obj \in Objects /\ m.src \in Nodes /\ m.id \in Ids /\ m.row \in Incidents
  BY WorkingPipe DEF PipeEvaluate, At, Working
<1>1. rows' \in Tables
  <2>1. CASE Row(m.id)
    <3> DEFINE old == rows[m.id]
               row == [old EXCEPT !.root = m.row.root, !.impact = m.row.impact]
    <3>1. old \in Incidents
      BY <1>0, <2>1, RowType
    <3>2. row \in Incidents
      <4> HIDE DEF old
      <4> QED
        BY <1>0, <3>1 DEF Incidents
    <3>3. rows' = [rows EXCEPT ![m.id] = row]
      BY <1>0, <2>1 DEF PipeEvaluate, TypeInv, TypeOK, Tables
    <3> HIDE DEF row
    <3> QED
      BY <3>2, <3>3, WriteType DEF TypeInv, TypeOK
  <2>2. CASE ~Row(m.id)
    BY <2>2 DEF PipeEvaluate, TypeInv, TypeOK
  <2> QED
    BY <2>1, <2>2
<1>2. SoundPipe(new)
  <2> HIDE DEF m
  <2> QED
    BY <1>0 DEF SoundPipe, PipeStates, PipePcs
<1>3. Step(p, new)
  BY DEF PipeEvaluate
<1>4. UNCHANGED <<counter, buffer, active, registry, tasks, hooks, seen, clock, left>>
  BY DEF PipeEvaluate
<1> HIDE DEF new
<1> QED
  BY <1>1, <1>2, <1>3, <1>4, RowsAndPipe

LEMMA PipeFinishType ==
  ASSUME TypeInv, NEW p \in Pipes, PipeFinish(p)
  PROVE  TypeInv'
<1> DEFINE m == pipes[p]
<1>0. m \in PipeStates /\ m.id \in Ids
  BY WorkingPipe DEF PipeFinish, At, Working
<1>1. m.cur \in Objects \cup {NoObj}
  BY <1>0 DEF PipeStates
<1>2. active' \in [id : Ids \cup {NoId}, root : Objects \cup {NoObj}]
  <2>1. active \in [id : Ids \cup {NoId}, root : Objects \cup {NoObj}]
    BY DEF TypeInv, TypeOK
  <2>2. active' = [active EXCEPT !.root = m.cur] \/ active' = [id |-> m.id, root |-> m.cur]
    BY DEF PipeFinish
  <2> HIDE DEF m
  <2> QED
    BY <1>0, <1>1, <2>1, <2>2
<1>3. pipes' \in [Pipes -> PipeStates] /\ \A q \in Pipes : SoundPipe(pipes'[q])
  BY IdlePipeSound, StepTypes DEF PipeFinish
<1>4. UNCHANGED <<rows, counter, buffer, registry, tasks, hooks, seen, clock, left>>
  BY DEF PipeFinish
<1> QED
  BY <1>2, <1>3, <1>4 DEF TypeInv, TypeOK

LEMMA PipeListRecoveryType ==
  ASSUME TypeInv, NEW p \in Pipes, PipeListRecovery(p)
  PROVE  TypeInv'
<1> DEFINE m    == pipes[p]
           hits == {i \in Ids : Row(i) /\ RecoveryMatches(rows[i], m.obj)}
           snap == [i \in Ids |-> IF i \in hits THEN ApplyRecovery(rows[i], m.obj, m.at)
                                                ELSE Absent]
           new  == [m EXCEPT !.pc = "recUpdate", !.snap = snap]
<1>0. m \in PipeStates /\ m.obj \in Objects /\ m.src \in Nodes /\ m.at \in Nat
  BY DEF TypeInv, SoundPipe, PipeStates, PipeListRecovery, At
<1>1. UNCHANGED <<rows, counter, buffer, active, registry, tasks, hooks, seen, clock, left>>
  BY DEF PipeListRecovery
<1>2. Step(p, IdlePipe) \/ Step(p, new)
  BY DEF PipeListRecovery
<1>3. snap \in Tables
  <2>1. \A i \in hits : ApplyRecovery(rows[i], m.obj, m.at) \in Incidents
    BY <1>0, RowType, ApplyRecoveryType
  <2> HIDE DEF hits
  <2> QED
    BY <2>1 DEF Tables
<1>4. SoundPipe(new)
  <2> HIDE DEF snap, m
  <2>1. new \in PipeStates
    BY <1>0, <1>3 DEF PipeStates, PipePcs
  <2>2. new.pc = "recUpdate" /\ new.obj = m.obj /\ new.src = m.src
    BY <1>0 DEF PipeStates
  <2> HIDE DEF new
  <2> QED
    BY <1>0, <2>1, <2>2 DEF SoundPipe, Working
<1>5. rows' \in Tables
  BY <1>1 DEF TypeInv, TypeOK
<1> HIDE DEF new
<1> QED
  BY <1>1, <1>2, <1>4, <1>5, IdlePipeSound, RowsAndPipe

LEMMA PipeRecoveryUpdateType ==
  ASSUME TypeInv, NEW p \in Pipes, PipeRecoveryUpdate(p)
  PROVE  TypeInv'
<1> DEFINE m == pipes[p]
<1>0. m \in PipeStates /\ m.obj \in Objects /\ m.src \in Nodes /\ m.snap \in Tables
  BY DEF TypeInv, SoundPipe, PipeStates, PipeRecoveryUpdate, At
<1>1. UNCHANGED <<counter, buffer, active, registry, tasks, hooks, seen, clock, left>>
  BY DEF PipeRecoveryUpdate
<1>2. PICK i \in In(m.snap) :
         LET rest == [m EXCEPT !.snap[i] = Absent]
         IN  IF Row(i)
             THEN /\ rows' = [rows EXCEPT ![i] = m.snap[i]]
                  /\ Step(p, [rest EXCEPT !.pc = "recSchedule", !.id = i, !.hit = TRUE])
             ELSE /\ Step(p, [rest EXCEPT !.pc = "recSchedule", !.id = NoId])
                  /\ UNCHANGED rows
  BY DEF PipeRecoveryUpdate
<1>3. i \in Ids /\ m.snap[i] \in Incidents
  BY <1>0 DEF In, Tables
<1>4. rows' \in Tables
  <2>1. rows' = rows \/ rows' = [rows EXCEPT ![i] = m.snap[i]]
    BY <1>2
  <2>2. rows \in Tables
    BY DEF TypeInv, TypeOK
  <2>3. [rows EXCEPT ![i] = m.snap[i]] \in Tables
    BY <1>3, <2>2, WriteType
  <2> QED
    BY <2>1, <2>2, <2>3
<1> DEFINE snap == [m.snap EXCEPT ![i] = Absent]
           rest == [m EXCEPT !.snap = snap]
<1>5. snap \in Tables
  BY <1>0, WriteType
<1>6. rest \in PipeStates /\ rest.obj \in Objects /\ rest.src \in Nodes
  <2> HIDE DEF snap, m
  <2> QED
    BY <1>0, <1>5 DEF PipeStates
<1>7. \E new : SoundPipe(new) /\ Step(p, new)
  <2>1. \/ Step(p, [rest EXCEPT !.pc = "recSchedule", !.id = i, !.hit = TRUE])
        \/ Step(p, [rest EXCEPT !.pc = "recSchedule", !.id = NoId])
    BY <1>2
  <2>2. ASSUME NEW new \in PipeStates, new.pc = "recSchedule", new.obj = rest.obj, new.src = rest.src
        PROVE  SoundPipe(new)
    <3> HIDE DEF rest
    <3> QED
      BY <1>6, <2>2 DEF SoundPipe, Working
  <2>3. SoundPipe([rest EXCEPT !.pc = "recSchedule", !.id = i, !.hit = TRUE])
    <3> HIDE DEF rest
    <3> DEFINE new == [rest EXCEPT !.pc = "recSchedule", !.id = i, !.hit = TRUE]
    <3>1. new \in PipeStates
      BY <1>3, <1>6 DEF PipeStates, PipePcs
    <3>2. new.pc = "recSchedule" /\ new.obj = rest.obj /\ new.src = rest.src
      BY <1>6 DEF PipeStates
    <3>3. SoundPipe(new)
      <4> HIDE DEF new
      <4> QED
        BY <2>2, <3>1, <3>2
    <3> QED
      BY <3>3
  <2>4. SoundPipe([rest EXCEPT !.pc = "recSchedule", !.id = NoId])
    <3> HIDE DEF rest
    <3> DEFINE new == [rest EXCEPT !.pc = "recSchedule", !.id = NoId]
    <3>1. new \in PipeStates
      BY <1>6 DEF PipeStates, PipePcs
    <3>2. new.pc = "recSchedule" /\ new.obj = rest.obj /\ new.src = rest.src
      BY <1>6 DEF PipeStates
    <3>3. SoundPipe(new)
      <4> HIDE DEF new
      <4> QED
        BY <2>2, <3>1, <3>2
    <3> QED
      BY <3>3
  <2> HIDE DEF rest
  <2> QED
    BY <2>1, <2>3, <2>4
<1> QED
  BY <1>1, <1>4, <1>7, RowsAndPipe

LEMMA PipeRecoveryScheduleType ==
  ASSUME TypeInv, NEW p \in Pipes, PipeRecoverySchedule(p)
  PROVE  TypeInv'
<1> DEFINE m   == pipes[p]
           new == [m EXCEPT !.pc = "recUpdate"]
<1>0. /\ m \in PipeStates /\ m.obj \in Objects /\ m.src \in Nodes /\ m.at \in Nat /\ m.id \in Ids \cup {NoId}
  BY DEF TypeInv, SoundPipe, PipeStates, PipeRecoverySchedule, At
<1>1. UNCHANGED <<rows, counter, hooks, seen, clock, left>>
  BY DEF PipeRecoverySchedule
<1>2. /\ tasks' \in [TaskIds -> TaskStates \cup {NoTask}]
      /\ registry' \in [Ids -> TaskIds \cup {NoTask}]
  <2>1. CASE m.id # NoId
    BY <1>0, <2>1, ScheduleTypes DEF PipeRecoverySchedule
  <2>2. CASE m.id = NoId
    BY <2>2 DEF PipeRecoverySchedule, TypeInv, TypeOK
  <2> QED
    BY <2>1, <2>2
<1>3. /\ buffer' \in [obs : SUBSET (Objects \X Nodes), fault : Nat, root : Objects \cup {NoObj}]
      /\ active' \in [id : Ids \cup {NoId}, root : Objects \cup {NoObj}]
  BY DEF PipeRecoverySchedule, EmptyBuffer, NoActive, Never, TypeInv, TypeOK
<1>4. SoundPipe(new)
  <2> HIDE DEF m
  <2> QED
    BY <1>0 DEF SoundPipe, PipeStates, PipePcs, Working
<1>5. Step(p, IdlePipe) \/ Step(p, new)
  BY DEF PipeRecoverySchedule
<1>6. pipes' \in [Pipes -> PipeStates] /\ \A q \in Pipes : SoundPipe(pipes'[q])
  <2> HIDE DEF new
  <2> QED
    BY <1>4, <1>5, IdlePipeSound, StepTypes
<1> QED
  BY <1>1, <1>2, <1>3, <1>6 DEF TypeInv, TypeOK

LEMMA PipeType == ASSUME TypeInv, NEW p \in Pipes, PipeNext(p) PROVE TypeInv'
BY PipeAnalyzeType, PipeUnexplainedType, PipeGetActiveType, PipeMatchType, PipeUpdateType,
   PipeSaveType, PipeKidType, PipeKidUpdateType, PipeKidSaveType, PipeKidParentType,
   PipeEvaluateType, PipeFinishType, PipeListRecoveryType, PipeRecoveryUpdateType,
   PipeRecoveryScheduleType
   DEF PipeNext

-----------------------------------------------------------------------------
(* Types: tasks, handlers, operators, time.                                 *)

LEMMA TaskType == ASSUME TypeInv, NEW t \in TaskIds, TaskNext(t) PROVE TypeInv'
<1> DEFINE task == tasks[t]
<1>0. task \in TaskStates
  BY DEF TaskNext, TaskRead, TaskWrite, TaskDropWrite, TaskEnd, Ends, TypeInv, TypeOK
<1>1. task.id \in Ids /\ task.row \in Incidents \cup {Absent}
  <2> HIDE DEF task
  <2> QED
    BY <1>0 DEF TaskStates
<1>2. ASSUME NEW v \in TaskStates \cup {NoTask}, tasks' = [tasks EXCEPT ![t] = v]
      PROVE  tasks' \in [TaskIds -> TaskStates \cup {NoTask}]
  BY <1>2 DEF TypeInv, TypeOK
<1>3. \A pc \in {"end", "lost"} : [task EXCEPT !.pc = pc] \in TaskStates
  <2> HIDE DEF task
  <2> QED
    BY <1>0 DEF TaskStates
<1>4. CASE TaskRead(t)
  <2> DEFINE r   == rows[task.id]
             row == [r EXCEPT !.cond = "RECOVERED"]
             new == [task EXCEPT !.pc = "write", !.row = row]
  <2>1. CASE Confirms(task, r)
    <3>1. r \in Incidents
      BY <1>1, <2>1, RowType DEF Confirms, Row
    <3>2. row \in Incidents
      <4> HIDE DEF r
      <4> QED
        BY <3>1 DEF Incidents, Conditions
    <3>3. new \in TaskStates
      <4> HIDE DEF row, task
      <4> QED
        BY <1>0, <3>2 DEF TaskStates
    <3>4. tasks' = [tasks EXCEPT ![t] = new]
      BY <1>4, <2>1 DEF TaskRead
    <3>5. tasks' \in [TaskIds -> TaskStates \cup {NoTask}]
      <4> HIDE DEF new
      <4> QED
        BY <1>2, <3>3, <3>4
    <3> QED
      BY <1>4, <3>5 DEF TaskRead, TypeInv, TypeOK
  <2>2. CASE ~Confirms(task, r)
    <3>1. tasks' = [tasks EXCEPT ![t] = [task EXCEPT !.pc = "end"]]
      BY <1>4, <2>2 DEF TaskRead
    <3>2. tasks' \in [TaskIds -> TaskStates \cup {NoTask}]
      <4> DEFINE ended == [task EXCEPT !.pc = "end"]
      <4>1. ended \in TaskStates /\ tasks' = [tasks EXCEPT ![t] = ended]
        BY <1>3, <3>1
      <4> HIDE DEF ended
      <4> QED
        BY <1>2, <4>1
    <3> QED
      BY <1>4, <3>2 DEF TaskRead, TypeInv, TypeOK
  <2> QED
    BY <2>1, <2>2
<1>5. ASSUME Written(t) PROVE tasks' \in [TaskIds -> TaskStates \cup {NoTask}]
  <2>1. PICK v \in {NoTask, [task EXCEPT !.pc = "end"]} : tasks' = [tasks EXCEPT ![t] = v]
    BY <1>5 DEF Written
  <2> HIDE DEF task
  <2> QED
    BY <1>2, <1>3, <2>1
<1>6. CASE TaskWrite(t)
  <2>1. rows' \in Tables
    BY <1>1, <1>6, WriteType DEF TaskWrite, TypeInv, TypeOK
  <2> QED
    BY <1>5, <1>6, <2>1 DEF TaskWrite, TypeInv, TypeOK
<1>7. CASE TaskDropWrite(t)
  BY <1>5, <1>7 DEF TaskDropWrite, TypeInv, TypeOK
<1>8. CASE TaskEnd(t)
  <2>1. PICK v \in {NoTask, [task EXCEPT !.pc = "lost"]} : tasks' = [tasks EXCEPT ![t] = v]
    BY <1>8 DEF TaskEnd, Ends
  <2>2. tasks' \in [TaskIds -> TaskStates \cup {NoTask}]
    <3> HIDE DEF task
    <3> QED
      BY <1>2, <1>3, <2>1
  <2>3. registry' \in [Ids -> TaskIds \cup {NoTask}]
    BY <1>8 DEF TaskEnd, TypeInv, TypeOK
  <2> QED
    BY <1>8, <2>2, <2>3 DEF TaskEnd, TypeInv, TypeOK
<1> QED
  BY <1>4, <1>6, <1>7, <1>8 DEF TaskNext

\* Setting a handler's record to a sound one.
LEMMA HookStepType ==
  ASSUME TypeInv, NEW h \in Hooks, NEW m \in HookStates, SoundHook(m),
         hooks' = [hooks EXCEPT ![h] = m]
  PROVE  hooks' \in [Hooks -> HookStates] /\ \A g \in Hooks : SoundHook(hooks'[g])
BY DEF TypeInv, TypeOK

LEMMA IdleHookType == IdleHook \in HookStates /\ SoundHook(IdleHook)
BY DEF IdleHook, HookStates, SoundHook, Never, NoRows, Tables

LEMMA HookReceiveType == ASSUME TypeInv, NEW h \in Hooks, HookReceive(h) PROVE TypeInv'
<1>1. PICK n \in Nodes, s \in Events, at \in 1..(clock + Skew) :
        LET e    == [node |-> n, state |-> s, at |-> at, got |-> clock]
            rel  == RelatedTo(n, s)
            mine == [IdleHook EXCEPT !.node = n, !.state = s, !.at = at]
        IN
        /\ seen' = IF Received(e) THEN seen ELSE seen \cup {e}
        /\ IF Received(e) \/ Stale(n, at) THEN UNCHANGED hooks
           ELSE IF rel # {}
           THEN hooks' = [hooks EXCEPT ![h] =
                  [mine EXCEPT !.pc = "apply", !.held = TRUE,
                               !.snap = [i \in Ids |-> IF i \in rel THEN rows[i] ELSE Absent]]]
           ELSE IF s = "DOWN"
           THEN /\ NextTop \in Ids
                /\ hooks' = [hooks EXCEPT ![h] =
                     [mine EXCEPT !.pc = "save", !.snap = [NoRows EXCEPT ![NextTop] = NodeIncident(n, at)]]]
           ELSE UNCHANGED hooks
  BY ZenonT(60) DEF HookReceive
<1> DEFINE e    == [node |-> n, state |-> s, at |-> at, got |-> clock]
           copy == [i \in Ids |-> IF i \in RelatedTo(n, s) THEN rows[i] ELSE Absent]
           only == [NoRows EXCEPT ![NextTop] = NodeIncident(n, at)]
           mine == [IdleHook EXCEPT !.node = n, !.state = s, !.at = at]
<1>2. clock \in Nat /\ at \in Nat /\ s \in NodeStates
  BY BackendAssumption DEF TypeInv, TypeOK
<1>3. seen' \subseteq [node : Nodes, state : NodeStates, at : Nat, got : Nat]
  <2>1. e \in [node : Nodes, state : NodeStates, at : Nat, got : Nat]
    BY <1>2
  <2>2. seen' = seen \/ seen' = seen \cup {e}
    BY <1>1
  <2> HIDE DEF e
  <2> QED
    BY <2>1, <2>2 DEF TypeInv, TypeOK
<1>4. copy \in Tables
  BY DEF TypeInv, TypeOK, Tables
<1>5. only \in Tables
  <2>1. NoRows \in Tables /\ NodeIncident(n, at) \in Incidents
    BY <1>2, NodeIncidentType DEF NoRows, Tables
  <2> QED
    BY <2>1, WriteType
<1> DEFINE found == [mine EXCEPT !.pc = "apply", !.held = TRUE, !.snap = copy]
           fresh == [mine EXCEPT !.pc = "save", !.snap = only]
<1>6. found \in HookStates /\ SoundHook(found) /\ fresh \in HookStates /\ SoundHook(fresh)
  <2> HIDE DEF copy, only
  <2> QED
    BY <1>2, <1>4, <1>5 DEF IdleHook, HookStates, SoundHook
<1>7. hooks' \in [Hooks -> HookStates] /\ \A g \in Hooks : SoundHook(hooks'[g])
  <2>1. CASE hooks' = hooks
    BY <2>1 DEF TypeInv, TypeOK
  <2>2. \/ hooks' = hooks
        \/ hooks' = [hooks EXCEPT ![h] = found]
        \/ hooks' = [hooks EXCEPT ![h] = fresh]
    BY <1>1
  <2> HIDE DEF found, fresh
  <2> QED
    BY <1>6, <2>1, <2>2, HookStepType
<1>8. left' \in [{"messages", "events", "calls", "restarts"} -> Nat]
  BY DEF HookReceive, Spend, TypeInv, TypeOK
<1>9. UNCHANGED <<rows, counter, buffer, active, registry, tasks, pipes, clock>>
  BY DEF HookReceive
<1> QED
  BY <1>3, <1>7, <1>8, <1>9 DEF TypeInv, TypeOK

LEMMA HookSaveType == ASSUME TypeInv, NEW h \in Hooks, HookSave(h) PROVE TypeInv'
<1>1. /\ rows \in Tables /\ hooks \in [Hooks -> HookStates]
      /\ hooks[h] \in HookStates
  BY DEF TypeInv, TypeOK
<1>2. hooks[h].snap \in Tables
  BY <1>1 DEF HookStates
<1>3. PICK i \in In(hooks[h].snap) : rows' = [rows EXCEPT ![i] = hooks[h].snap[i]]
  BY DEF HookSave
<1>4. hooks[h].snap[i] \in Incidents
  BY <1>2, <1>3 DEF In, Tables
<1>5. rows' \in Tables
  BY <1>1, <1>3, <1>4, WriteType
<1>6. hooks' \in [Hooks -> HookStates] /\ \A g \in Hooks : SoundHook(hooks'[g])
  BY IdleHookType, HookStepType DEF HookSave
<1> QED
  BY <1>5, <1>6 DEF HookSave, TypeInv, TypeOK

LEMMA HookApplyType == ASSUME TypeInv, NEW h \in Hooks, HookApply(h) PROVE TypeInv'
<1> DEFINE me == hooks[h]
<1>1. rows \in Tables /\ me \in HookStates
  BY DEF TypeInv, TypeOK
<1>2. me.snap \in Tables /\ me.at \in Nat
  BY <1>1 DEF HookStates
<1>3. PICK i \in In(me.snap) :
        /\ rows' = IF Row(i) THEN [rows EXCEPT ![i] = ApplyNodeState(me.snap[i], me.state, me.at)]
                             ELSE rows
        /\ IF StartsRecovery(me.snap[i], me.state)
           THEN Schedule(i, me.at, "node") ELSE UNCHANGED <<tasks, registry>>
        /\ hooks' = [hooks EXCEPT ![h] = [me EXCEPT !.pc = "evaluate", !.held = TRUE, !.cur = i]]
  BY DEF HookApply
<1> DEFINE new == [me EXCEPT !.pc = "evaluate", !.held = TRUE, !.cur = i]
           row == ApplyNodeState(me.snap[i], me.state, me.at)
<1>4. i \in Ids /\ me.snap[i] \in Incidents
  BY <1>2, <1>3 DEF In, Tables
<1>5. rows' \in Tables
  <2>1. row \in Incidents
    BY <1>2, <1>4, ApplyNodeStateType
  <2>2. [rows EXCEPT ![i] = row] \in Tables
    BY <1>1, <2>1, WriteType
  <2> HIDE DEF row, me
  <2>3. rows' = rows \/ rows' = [rows EXCEPT ![i] = row]
    BY <1>3 DEF row, me
  <2> QED
    BY <1>1, <2>2, <2>3
<1>6. /\ tasks' \in [TaskIds -> TaskStates \cup {NoTask}]
      /\ registry' \in [Ids -> TaskIds \cup {NoTask}]
  <2>1. CASE StartsRecovery(me.snap[i], me.state)
    BY <1>2, <1>3, <1>4, <2>1, ScheduleTypes
  <2>2. CASE ~StartsRecovery(me.snap[i], me.state)
    <3>1. UNCHANGED <<tasks, registry>>
      BY <1>3, <2>2
    <3> QED
      BY <3>1 DEF TypeInv, TypeOK
  <2> QED
    BY <2>1, <2>2
<1>7. hooks' \in [Hooks -> HookStates] /\ \A g \in Hooks : SoundHook(hooks'[g])
  <2>1. new \in HookStates /\ SoundHook(new)
    <3> HIDE DEF me
    <3> QED
      BY <1>1, <1>4 DEF HookStates, SoundHook
  <2>2. hooks' = [hooks EXCEPT ![h] = new]
    BY <1>3
  <2> HIDE DEF new
  <2> QED
    BY <2>1, <2>2, HookStepType
<1>8. UNCHANGED <<counter, buffer, active, pipes, seen, clock, left>>
  BY DEF HookApply
<1> QED
  BY <1>5, <1>6, <1>7, <1>8 DEF TypeInv, TypeOK

\* The explanation written once more is that of an incident.
LEMMA HookEvaluateType == ASSUME TypeInv, NEW h \in Hooks, HookEvaluate(h) PROVE TypeInv'
<1> DEFINE me   == hooks[h]
           rest == [me.snap EXCEPT ![me.cur] = Absent]
           next == [me EXCEPT !.pc = "apply", !.held = FALSE, !.cur = NoId, !.snap = rest]
<1>1. /\ rows \in Tables /\ me \in HookStates /\ me.snap \in Tables
      /\ me.cur \in Ids /\ me.snap[me.cur] \in Incidents
  BY DEF HookEvaluate, TypeInv, TypeOK, SoundHook, HookStates
<1>2. rows' \in Tables
  <2>1. CASE Row(me.cur)
    <3> DEFINE old == rows[me.cur]
               row == [old EXCEPT !.root = me.snap[me.cur].root, !.impact = me.snap[me.cur].impact]
    <3>1. old \in Incidents
      BY <1>1, <2>1, RowType
    <3>2. row \in Incidents
      <4> HIDE DEF old, me
      <4> QED
        BY <1>1, <3>1 DEF Incidents
    <3>3. rows' = [rows EXCEPT ![me.cur] = row]
      BY <1>1, <2>1 DEF HookEvaluate, Tables
    <3> HIDE DEF row
    <3> QED
      BY <1>1, <3>2, <3>3, WriteType
  <2>2. CASE ~Row(me.cur)
    BY <1>1, <2>2 DEF HookEvaluate
  <2> QED
    BY <2>1, <2>2
<1>3. next \in HookStates /\ SoundHook(next)
  <2>1. rest \in Tables
    BY <1>1, WriteType
  <2> HIDE DEF rest, me
  <2> QED
    BY <1>1, <2>1 DEF HookStates, SoundHook
<1>4. hooks' = [hooks EXCEPT ![h] = IdleHook] \/ hooks' = [hooks EXCEPT ![h] = next]
  BY DEF HookEvaluate
<1>5. hooks' \in [Hooks -> HookStates] /\ \A g \in Hooks : SoundHook(hooks'[g])
  <2> HIDE DEF next
  <2> QED
    BY <1>3, <1>4, IdleHookType, HookStepType
<1>6. UNCHANGED <<counter, buffer, active, registry, tasks, pipes, seen, clock, left>>
  BY DEF HookEvaluate
<1> QED
  BY <1>2, <1>5, <1>6 DEF TypeInv, TypeOK

-----------------------------------------------------------------------------
(* Types: operators, restarts, time; the theorem.                           *)

LEMMA OperatorType == ASSUME TypeInv, Operator PROVE TypeInv'
<1>0. rows \in Tables
  BY DEF TypeInv, TypeOK
<1>1. ASSUME NEW i \in Ids, NEW status \in Statuses, SetStatus(i, status)
      PROVE  TypeInv'
  <2> DEFINE row == [rows[i] EXCEPT !.status = status]
  <2>1. rows[i] \in Incidents
    BY <1>1, RowType DEF SetStatus
  <2>2. row \in Incidents
    BY <2>1 DEF Incidents
  <2>3. rows' = [rows EXCEPT ![i] = row]
    BY <1>1 DEF SetStatus
  <2> HIDE DEF row
  <2>4. rows' \in Tables
    BY <1>0, <2>2, <2>3, WriteType
  <2>5. left' \in [{"messages", "events", "calls", "restarts"} -> Nat]
    BY <1>1 DEF SetStatus, Spend, TypeInv, TypeOK
  <2> QED
    BY <1>1, <2>4, <2>5 DEF SetStatus, TypeInv, TypeOK
<1>2. CASE Purge
  <2>1. rows' \in Tables
    BY <1>0, <1>2 DEF Purge, Tables
  <2>2. left' \in [{"messages", "events", "calls", "restarts"} -> Nat]
    BY <1>2 DEF Purge, Spend, TypeInv, TypeOK
  <2> QED
    BY <1>2, <2>1, <2>2 DEF Purge, TypeInv, TypeOK
<1> QED
  BY <1>1, <1>2 DEF Operator, Resolve, Reopen, Statuses

LEMMA RestartType == ASSUME TypeInv, Restart PROVE TypeInv'
<1>1. /\ pipes' \in [Pipes -> PipeStates]
      /\ \A q \in Pipes : SoundPipe(pipes'[q])
  BY IdlePipeSound DEF Restart, SoundPipe
<1>2. hooks' \in [Hooks -> HookStates] /\ \A g \in Hooks : SoundHook(hooks'[g])
  BY IdleHookType DEF Restart
<1>3. left' \in [{"messages", "events", "calls", "restarts"} -> Nat]
  BY DEF Restart, Spend, TypeInv, TypeOK
<1>4. /\ counter' \in 0..MaxTop
      /\ buffer' \in [obs : SUBSET (Objects \X Nodes), fault : Nat, root : Objects \cup {NoObj}]
      /\ active' \in [id : Ids \cup {NoId}, root : Objects \cup {NoObj}]
  BY BackendAssumption DEF Restart, EmptyBuffer, NoActive, Never
<1>5. /\ registry' \in [Ids -> TaskIds \cup {NoTask}]
      /\ tasks' \in [TaskIds -> TaskStates \cup {NoTask}]
  BY DEF Restart
<1> QED
  BY <1>1, <1>2, <1>3, <1>4, <1>5 DEF Restart, TypeInv, TypeOK

LEMMA TypeStep == TypeInv /\ [Next]_vars => TypeInv'
<1> SUFFICES ASSUME TypeInv, [Next]_vars PROVE TypeInv'
  OBVIOUS
<1>1. CASE Tick
  BY <1>1 DEF Tick, TypeInv, TypeOK
<1>2. CASE UNCHANGED vars
  BY <1>2 DEF vars, TypeInv, TypeOK
<1> QED
  BY <1>1, <1>2, PipeReceiveType, PipeType, HookReceiveType, HookSaveType, HookApplyType,
     HookEvaluateType, TaskType, OperatorType, RestartType
     DEF Next, HookNext, Done

\* Every reachable state is typed: whatever the interleaving of pipelines, handlers,
\* tasks, operator requests and restarts, rows and snapshots are whole incidents and a
\* pipeline past its analysis has an incident in hand.
THEOREM BackendInvariant == Spec => []TypeInv
BY InitTypes, TypeStep, PTL DEF Spec

\* The type invariant of the run IncidentBackend, for every topology and all bounds.
THEOREM BackendTypeOK == Spec => []TypeOK
<1>1. TypeInv => TypeOK
  BY DEF TypeInv
<1> QED
  BY <1>1, BackendInvariant, PTL

-----------------------------------------------------------------------------
(* The registry and the tasks.                                              *)

\* Only a cancelled task ends before its write: no incident's registration depends on it.
LostAreCancelled ==
    \A t \in TaskIds : tasks[t] # NoTask /\ tasks[t].pc = "lost" => tasks[t].cancelled

RegistryInv == RegistryMatchesTasks /\ LostAreCancelled

\* Rescheduling: the old task of the incident is gone or cancelled, the new one takes
\* a free place, and no other incident's task is touched.
LEMMA ScheduleMatches ==
  ASSUME TypeOK, RegistryMatchesTasks, NEW i \in Ids, NEW at \in Nat, NEW by \in {"syslog", "node"},
         Schedule(i, at, by)
  PROVE  RegistryMatchesTasks'
<1> DEFINE old  == registry[i]
           rest == Cancelled(tasks, old)
<1>1. PICK t \in TaskIds :
        LET new == [id |-> i, at |-> at, by |-> by, due |-> clock + Quiet,
                    pc |-> "sleep", row |-> Absent, cancelled |-> FALSE]
        IN  /\ rest[t] = NoTask
            /\ tasks' = [rest EXCEPT ![t] = new]
            /\ registry' = [registry EXCEPT ![i] = t]
  BY DEF Schedule
<1> DEFINE new == [id |-> i, at |-> at, by |-> by, due |-> clock + Quiet,
                   pc |-> "sleep", row |-> Absent, cancelled |-> FALSE]
<1>2. /\ tasks \in [TaskIds -> TaskStates \cup {NoTask}]
      /\ registry \in [Ids -> TaskIds \cup {NoTask}]
      /\ NoTask \notin TaskIds
  BY BackendAssumption DEF TypeOK
<1>3. old # NoTask => old \in TaskIds /\ tasks[old] # NoTask /\ tasks[old].id = i
  BY <1>2 DEF RegistryMatchesTasks
<1>4. rest \in [TaskIds -> TaskStates \cup {NoTask}]
      /\ \A u \in TaskIds : u # old => rest[u] = tasks[u]
  <2>1. CASE old = NoTask
    BY <1>2, <2>1 DEF Cancelled
  <2>2. CASE old # NoTask
    <3>1. tasks[old] \in TaskStates
      BY <1>2, <1>3, <2>2
    <3>2. Halted(tasks[old]) \in TaskStates
      BY <3>1, HaltedTask
    <3>3. rest = [tasks EXCEPT ![old] = Halted(tasks[old])]
      BY <1>2, <1>3, <2>2, CancelledHalts
    <3> HIDE DEF rest, old
    <3> QED
      BY <1>2, <1>3, <2>2, <3>2, <3>3
  <2> QED
    BY <2>1, <2>2
<1>5. old # NoTask => rest[old].cancelled
  <2> SUFFICES ASSUME old # NoTask PROVE rest[old].cancelled
    OBVIOUS
  <2>1. tasks[old] \in TaskStates
    BY <1>2, <1>3
  <2>2. Halted(tasks[old]).cancelled
    BY <2>1, HaltedTask
  <2>3. rest = [tasks EXCEPT ![old] = Halted(tasks[old])]
    BY <1>2, <1>3, CancelledHalts
  <2> HIDE DEF rest, old
  <2> QED
    BY <1>2, <1>3, <2>2, <2>3
<1>6. new.id = i /\ ~new.cancelled
  OBVIOUS
<1>7. new # NoTask
  <2>1. new \in TaskStates
    BY TopologyAssumption DEF TaskStates, TypeOK
  <2> QED
    BY <2>1, TaskAssumption
<1>8. /\ tasks'[t] = new /\ registry'[i] = t
      /\ \A u \in TaskIds \ {t} : tasks'[u] = rest[u]
      /\ \A j \in Ids \ {i} : registry'[j] = registry[j]
  <2> HIDE DEF new, rest
  <2> QED
    BY <1>1, <1>2, <1>4 DEF new
<1> HIDE DEF new, rest, old
<1>9. ASSUME NEW u \in TaskIds, tasks'[u] # NoTask, ~tasks'[u].cancelled
      PROVE  registry'[tasks'[u].id] = u
  <2>1. CASE u = t
    BY <1>6, <1>8, <2>1
  <2>2. CASE u # t
    <3>1. tasks'[u] = rest[u] /\ u # old /\ rest[u] = tasks[u]
      BY <1>2, <1>4, <1>5, <1>8, <1>9, <2>2
    <3>2. registry[tasks[u].id] = u /\ tasks[u].id \in Ids
      BY <1>2, <1>9, <3>1 DEF RegistryMatchesTasks, TaskStates
    <3>3. tasks[u].id # i
      BY <3>1, <3>2 DEF old
    <3> QED
      BY <1>8, <3>1, <3>2, <3>3
  <2> QED
    BY <2>1, <2>2
<1>10. ASSUME NEW j \in Ids, registry'[j] # NoTask
       PROVE  /\ tasks'[registry'[j]] # NoTask
              /\ tasks'[registry'[j]].id = j
              /\ ~tasks'[registry'[j]].cancelled
  <2>1. CASE j = i
    BY <1>6, <1>7, <1>8, <2>1
  <2>2. CASE j # i
    <3> DEFINE u == registry[j]
    <3>1. registry'[j] = u /\ u \in TaskIds /\ tasks[u] # NoTask /\ tasks[u].id = j /\ ~tasks[u].cancelled
      BY <1>2, <1>8, <1>10, <2>2 DEF RegistryMatchesTasks
    <3>2. u # old
      BY <1>2, <1>3, <2>2, <3>1
    <3>3. u # t /\ tasks'[u] = tasks[u]
      BY <1>1, <1>4, <1>8, <3>1, <3>2
    <3> QED
      BY <3>1, <3>3
  <2> QED
    BY <2>1, <2>2
<1> QED
  BY <1>9, <1>10 DEF RegistryMatchesTasks

LEMMA TaskMatches ==
  ASSUME TypeOK, RegistryMatchesTasks, LostAreCancelled, NEW t \in TaskIds, TaskNext(t)
  PROVE  RegistryMatchesTasks'
<1>0. /\ tasks \in [TaskIds -> TaskStates \cup {NoTask}]
      /\ registry \in [Ids -> TaskIds \cup {NoTask}]
      /\ tasks[t] \in TaskStates /\ tasks[t] # NoTask
      /\ NoTask \notin TaskIds
  BY BackendAssumption DEF TypeOK, TaskNext, TaskRead, TaskWrite, TaskDropWrite, TaskEnd, Ends
\* A task that keeps its incident and is not cancelled keeps its registration.
<1>1. ASSUME NEW v, v # NoTask, v.id = tasks[t].id, v.cancelled = tasks[t].cancelled,
             tasks' = [tasks EXCEPT ![t] = v], UNCHANGED registry
      PROVE  RegistryMatchesTasks'
  BY <1>0, <1>1 DEF RegistryMatchesTasks
\* A task that is not registered may go.
<1>2. ASSUME tasks[t].cancelled, tasks' = [tasks EXCEPT ![t] = NoTask], UNCHANGED registry
      PROVE  RegistryMatchesTasks'
  BY <1>0, <1>2 DEF RegistryMatchesTasks
<1>3. \A pc : LET v == [tasks[t] EXCEPT !.pc = pc]
              IN  v.id = tasks[t].id /\ v.cancelled = tasks[t].cancelled
  BY <1>0 DEF TaskStates
<1>4. [tasks[t] EXCEPT !.pc = "end"] # NoTask
  <2>1. [tasks[t] EXCEPT !.pc = "end"] \in TaskStates
    BY <1>0 DEF TaskStates
  <2> QED
    BY <2>1, TaskAssumption
<1>5. CASE TaskRead(t) /\ Confirms(tasks[t], rows[tasks[t].id])
  <2> DEFINE r   == rows[tasks[t].id]
             row == [r EXCEPT !.cond = "RECOVERED"]
             v   == [tasks[t] EXCEPT !.pc = "write", !.row = row]
  <2>1. r \in Incidents
    <3>1. tasks[t].id \in Ids
      BY <1>0 DEF TaskStates
    <3> QED
      BY <1>5, <3>1 DEF Confirms, TypeOK, Tables
  <2>2. row \in Incidents
    <3> HIDE DEF r
    <3> QED
      BY <2>1 DEF Incidents, Conditions
  <2>3. v \in TaskStates /\ v.id = tasks[t].id /\ v.cancelled = tasks[t].cancelled
    <3> HIDE DEF row
    <3> QED
      BY <1>0, <2>2 DEF TaskStates
  <2>4. v # NoTask
    <3> HIDE DEF v
    <3> QED
      BY <2>3, TaskAssumption
  <2>5. tasks' = [tasks EXCEPT ![t] = v] /\ UNCHANGED registry
    BY <1>5 DEF TaskRead
  <2> HIDE DEF v
  <2> QED
    BY <1>1, <2>3, <2>4, <2>5
<1>6. CASE TaskRead(t) /\ ~Confirms(tasks[t], rows[tasks[t].id])
  <2>1. tasks' = [tasks EXCEPT ![t] = [tasks[t] EXCEPT !.pc = "end"]] /\ UNCHANGED registry
    BY <1>6 DEF TaskRead
  <2> QED
    BY <1>1, <1>3, <1>4, <2>1
<1>7. ASSUME Written(t), UNCHANGED registry PROVE RegistryMatchesTasks'
  <2>1. CASE tasks[t].pc = "lost"
    <3>1. tasks[t].cancelled
      BY <1>0, <2>1 DEF LostAreCancelled
    <3> QED
      BY <1>2, <1>7, <2>1, <3>1 DEF Written
  <2>2. CASE tasks[t].pc # "lost"
    <3>1. tasks' = [tasks EXCEPT ![t] = [tasks[t] EXCEPT !.pc = "end"]]
      BY <1>7, <2>2 DEF Written
    <3> QED
      BY <1>1, <1>3, <1>4, <1>7, <3>1
  <2> QED
    BY <2>1, <2>2
<1>8. CASE TaskWrite(t)
  BY <1>7, <1>8 DEF TaskWrite
<1>9. CASE TaskDropWrite(t)
  BY <1>7, <1>9 DEF TaskDropWrite
\* A task that ends takes its registration with it, and no other.
<1>10. CASE TaskEnd(t)
  <2>1. CASE tasks' = [tasks EXCEPT ![t] = NoTask]
    BY <1>0, <1>10, <2>1 DEF TaskEnd, RegistryMatchesTasks, TaskStates
  <2>2. CASE tasks[t].cancelled /\ tasks' = [tasks EXCEPT ![t] = [tasks[t] EXCEPT !.pc = "lost"]]
    <3> DEFINE v == [tasks[t] EXCEPT !.pc = "lost"]
    <3>1. v \in TaskStates /\ v.id = tasks[t].id /\ v.cancelled = tasks[t].cancelled
      BY <1>0 DEF TaskStates
    <3>2. v # NoTask
      <4> HIDE DEF v
      <4> QED
        BY <3>1, TaskAssumption
    <3>3. UNCHANGED registry
      <4>1. tasks[t].id \in Ids
        BY <1>0 DEF TaskStates
      <4>2. registry[tasks[t].id] # t
        BY <1>0, <2>2, <4>1 DEF RegistryMatchesTasks
      <4> QED
        BY <1>10, <4>2 DEF TaskEnd
    <3>4. tasks' = [tasks EXCEPT ![t] = v]
      BY <2>2
    <3> HIDE DEF v
    <3> QED
      BY <1>1, <3>1, <3>2, <3>3, <3>4
  <2> QED
    BY <1>10, <2>1, <2>2 DEF TaskEnd, Ends
<1> QED
  BY <1>5, <1>6, <1>8, <1>9, <1>10 DEF TaskNext

\* A task is cancelled before its coroutine is lost.
LEMMA ScheduleLost ==
  ASSUME TypeOK, RegistryMatchesTasks, LostAreCancelled, NEW i \in Ids, NEW at \in Nat,
         NEW by \in {"syslog", "node"}, Schedule(i, at, by)
  PROVE  LostAreCancelled'
<1> DEFINE old  == registry[i]
           rest == Cancelled(tasks, old)
           new  == [id |-> i, at |-> at, by |-> by, due |-> clock + Quiet,
                    pc |-> "sleep", row |-> Absent, cancelled |-> FALSE]
<1>1. PICK t \in TaskIds : tasks' = [rest EXCEPT ![t] = new]
  BY DEF Schedule
<1>2. /\ tasks \in [TaskIds -> TaskStates \cup {NoTask}]
      /\ registry \in [Ids -> TaskIds \cup {NoTask}]
  BY DEF TypeOK
<1>3. /\ rest \in [TaskIds -> TaskStates \cup {NoTask}]
      /\ \A u \in TaskIds : rest[u] # NoTask /\ rest[u].pc = "lost" => rest[u].cancelled
  <2>1. CASE old = NoTask
    BY <1>2, <2>1 DEF Cancelled, LostAreCancelled
  <2>2. CASE old # NoTask
    <3>1. old \in TaskIds /\ tasks[old] # NoTask
      BY <1>2, <2>2 DEF RegistryMatchesTasks
    <3>2. Halted(tasks[old]) \in TaskStates /\ Halted(tasks[old]).cancelled
      BY <1>2, <3>1, HaltedTask
    <3>3. rest = [tasks EXCEPT ![old] = Halted(tasks[old])]
      BY <1>2, <3>1, CancelledHalts
    <3> HIDE DEF rest, old
    <3> QED
      BY <1>2, <3>1, <3>2, <3>3 DEF LostAreCancelled
  <2> QED
    BY <2>1, <2>2
<1>4. new.pc # "lost"
  OBVIOUS
<1> HIDE DEF rest, new
<1> QED
  BY <1>1, <1>3, <1>4 DEF LostAreCancelled

LEMMA TaskLost ==
  ASSUME TypeOK, LostAreCancelled, NEW t \in TaskIds, TaskNext(t)
  PROVE  LostAreCancelled'
<1>1. /\ tasks \in [TaskIds -> TaskStates \cup {NoTask}]
      /\ tasks[t] \in TaskStates /\ tasks[t] # NoTask
  BY DEF TypeOK, TaskNext, TaskRead, TaskWrite, TaskDropWrite, TaskEnd, Ends
<1>2. PICK v : /\ tasks' = [tasks EXCEPT ![t] = v]
               /\ v # NoTask /\ v.pc = "lost" => v.cancelled
  <2>1. \A pc : [tasks[t] EXCEPT !.pc = pc].pc = pc
    BY <1>1 DEF TaskStates
  <2>2. CASE TaskRead(t)
    <3>1. \A row : [tasks[t] EXCEPT !.pc = "write", !.row = row].pc = "write"
      BY <1>1 DEF TaskStates
    <3> DEFINE ended   == [tasks[t] EXCEPT !.pc = "end"]
               written == [tasks[t] EXCEPT !.pc = "write",
                             !.row = [rows[tasks[t].id] EXCEPT !.cond = "RECOVERED"]]
    <3>2. ended.pc = "end" /\ written.pc = "write"
      BY <2>1, <3>1
    <3>3. tasks' = [tasks EXCEPT ![t] = ended] \/ tasks' = [tasks EXCEPT ![t] = written]
      BY <2>2 DEF TaskRead
    <3> HIDE DEF ended, written
    <3> QED
      BY <3>2, <3>3
  <2>3. CASE Written(t)
    BY <2>1, <2>3 DEF Written
  <2>4. CASE Ends(t)
    <3>1. [tasks[t] EXCEPT !.pc = "lost"].cancelled = tasks[t].cancelled
      BY <1>1 DEF TaskStates
    <3> QED
      BY <2>4, <3>1 DEF Ends
  <2> QED
    BY <2>2, <2>3, <2>4 DEF TaskNext, TaskWrite, TaskDropWrite, TaskEnd
<1> QED
  BY <1>1, <1>2 DEF LostAreCancelled

\* Only scheduling, the tasks themselves and a restart touch the registry.
LEMMA RegistryStep == TypeInv /\ RegistryInv /\ [Next]_vars => RegistryInv'
<1> SUFFICES ASSUME TypeInv, RegistryInv, [Next]_vars PROVE RegistryInv'
  OBVIOUS
<1>0. TypeOK /\ RegistryMatchesTasks /\ LostAreCancelled
  BY DEF TypeInv, RegistryInv
<1>1. ASSUME UNCHANGED <<registry, tasks>> PROVE RegistryInv'
  BY <1>1 DEF RegistryInv, RegistryMatchesTasks, LostAreCancelled
<1>2. ASSUME NEW p \in Pipes, PipeRecoverySchedule(p) PROVE RegistryInv'
  <2> DEFINE m == pipes[p]
  <2>1. m.id \in Ids \cup {NoId} /\ m.at \in Nat
    BY DEF TypeInv, SoundPipe, PipeStates
  <2>2. IF m.id # NoId THEN Schedule(m.id, m.at, "syslog") ELSE UNCHANGED <<tasks, registry>>
    BY <1>2 DEF PipeRecoverySchedule
  <2> HIDE DEF m
  <2> QED
    BY <1>0, <1>1, <2>1, <2>2, ScheduleMatches, ScheduleLost DEF RegistryInv
<1>3. ASSUME NEW h \in Hooks, HookApply(h) PROVE RegistryInv'
  <2> DEFINE me == hooks[h]
  <2>1. me.at \in Nat
    BY DEF TypeInv, TypeOK, HookStates
  <2>2. PICK i \in Ids : IF StartsRecovery(me.snap[i], me.state)
                         THEN Schedule(i, me.at, "node") ELSE UNCHANGED <<tasks, registry>>
    BY <1>3 DEF HookApply, In
  <2> HIDE DEF me
  <2> QED
    BY <1>0, <1>1, <2>1, <2>2, ScheduleMatches, ScheduleLost DEF RegistryInv
<1>4. CASE \E t \in TaskIds : TaskNext(t)
  BY <1>0, <1>4, TaskMatches, TaskLost DEF RegistryInv
<1>5. CASE Restart
  BY <1>5 DEF Restart, RegistryInv, RegistryMatchesTasks, LostAreCancelled
<1>6. CASE \E p \in Pipes : PipeReceive(p) \/ PipeNext(p)
  <2>1. PICK p \in Pipes : PipeReceive(p) \/ PipeNext(p)
    BY <1>6
  <2>2. PipeRecoverySchedule(p) \/ UNCHANGED <<registry, tasks>>
    BY <2>1 DEF PipeReceive, PipeNext, PipeAnalyze, PipeUnexplained, PipeGetActive, PipeMatch,
       PipeUpdate, PipeSave, PipeKid, PipeKidUpdate, PipeKidSave, PipeKidParent, PipeEvaluate,
       PipeFinish, PipeListRecovery, PipeRecoveryUpdate
  <2> QED
    BY <1>1, <1>2, <2>2
<1>7. CASE \E h \in Hooks : HookReceive(h) \/ HookSave(h) \/ HookEvaluate(h)
  BY <1>1, <1>7 DEF HookReceive, HookSave, HookEvaluate
<1>8. CASE Operator
  BY <1>1, <1>8 DEF Operator, Resolve, Reopen, SetStatus, Purge
<1>9. CASE Tick \/ UNCHANGED vars
  BY <1>1, <1>9 DEF Tick, vars
<1> QED
  BY <1>3, <1>4, <1>5, <1>6, <1>7, <1>8, <1>9 DEF Next, HookNext, Done

\* The registry is exact: a task that can still confirm is registered for its incident,
\* a registered task exists.  No incident has two, whatever two handlers and pipelines
\* schedule or a task ends in between.
THEOREM RegistryIsExact == Spec => []RegistryMatchesTasks
<1>1. Init => RegistryInv
  BY DEF Init, RegistryInv, RegistryMatchesTasks, LostAreCancelled
<1>2. RegistryInv => RegistryMatchesTasks
  BY DEF RegistryInv
<1> QED
  BY <1>1, <1>2, RegistryStep, BackendInvariant, PTL DEF Spec
=============================================================================
