-------------------------- MODULE IncidentTable_proofs --------------------------
(***************************************************************************)
(* What the table of incidents shows: that an incident is RECOVERED only   *)
(* after a quiet period, that the children it lists and the incident the   *)
(* pipeline continues are there, and that a new incident takes a new       *)
(* number.  A row may be written long after it was read, so the invariants *)
(* speak of every copy of an incident: of the rows, of the snapshots in a  *)
(* coroutine's hand and of what a task is about to write.                  *)
(***************************************************************************)
EXTENDS IncidentBackend_proofs

-----------------------------------------------------------------------------
(* The quiet period.                                                        *)

\* What decides whether a recovery is ripe: the time and the events received.
Now == [clock |-> clock, seen |-> seen]

RipeAt(x, now) ==
    \/ x + Quiet <= now.clock
    \/ \E e \in now.seen : e.state = "UP" /\ e.at = x /\ e.got + Quiet <= now.clock

SettledAt(r, now) == r # Absent /\ r.cond = "RECOVERED" => r.rec # Never /\ RipeAt(r.rec, now)

SettledTable(table, now) == \A i \in Ids : SettledAt(table[i], now)

SettledPipe(m, now) ==
    /\ SettledAt(m.row, now) /\ SettledAt(m.kidRow, now) /\ SettledTable(m.snap, now)
    /\ m.pc # "idle" => m.at \in 1..now.clock

\* The event a handler applies was received.
Told(state, at, now) == \E e \in now.seen : e.state = state /\ e.at = at /\ e.got <= now.clock

SettledHook(m, now) ==
    /\ SettledTable(m.snap, now)
    /\ m.pc \in {"apply", "evaluate"} => m.at # Never /\ Told(m.state, m.at, now)

\* A recovery seen at x is a quiet period old at the instant due: for a task, when it wakes.
RipeBy(x, due, now) ==
    \/ x + Quiet <= due
    \/ \E e \in now.seen : e.state = "UP" /\ e.at = x /\ e.got + Quiet <= due

SettledTask(m, now) ==
    m # NoTask => SettledAt(m.row, now) /\ m.at # Never /\ RipeBy(m.at, m.due, now)

QuietInv ==
    /\ SettledTable(rows, Now)
    /\ \A p \in Pipes : SettledPipe(pipes[p], Now)
    /\ \A h \in Hooks : SettledHook(hooks[h], Now)
    /\ \A t \in TaskIds : SettledTask(tasks[t], Now)

-----------------------------------------------------------------------------
(* The operators of Incident.                                               *)

LEMMA Present == \A r \in Incidents : r # Absent
BY DEF Incidents, Absent, Statuses

Instants == [clock : Nat, seen : SUBSET [node : Nodes, state : NodeStates, at : Nat, got : Nat]]

LEMMA NowType == TypeInv => Now \in Instants
BY DEF TypeInv, TypeOK, Now, Instants

\* What is settled stays so.
LEMMA SettledLater ==
  ASSUME NEW r \in Incidents \cup {Absent}, NEW now \in Instants, NEW later \in Instants,
         now.clock <= later.clock, now.seen \subseteq later.seen, SettledAt(r, now)
  PROVE  SettledAt(r, later)
<1> SUFFICES ASSUME r # Absent, r.cond = "RECOVERED" PROVE RipeAt(r.rec, later)
  BY DEF SettledAt
<1>1. r.rec \in Nat /\ RipeAt(r.rec, now) /\ Quiet \in Nat
  BY TopologyAssumption DEF SettledAt, Incidents
<1>2. CASE r.rec + Quiet <= now.clock
  BY <1>1, <1>2 DEF RipeAt, Instants
<1>3. CASE \E e \in now.seen : e.state = "UP" /\ e.at = r.rec /\ e.got + Quiet <= now.clock
  <2>1. PICK e \in now.seen : e.state = "UP" /\ e.at = r.rec /\ e.got + Quiet <= now.clock
    BY <1>3
  <2>2. e.got \in Nat /\ e \in later.seen
    BY <2>1 DEF Instants
  <2> QED
    BY <1>1, <2>1, <2>2 DEF RipeAt, Instants
<1> QED
  BY <1>1, <1>2, <1>3 DEF RipeAt

LEMMA ApplyFaultSettled ==
  ASSUME NEW r \in Incidents, NEW kind, NEW o, NEW at, NEW now, SettledAt(r, now)
  PROVE  SettledAt(ApplyFault(r, kind, o, at), now)
BY DEF ApplyFault, Incidents, SettledAt

LEMMA ApplyRecoverySettled ==
  ASSUME NEW r \in Incidents, NEW o, NEW at, NEW now
  PROVE  SettledAt(ApplyRecovery(r, o, at), now)
BY DEF ApplyRecovery, Incidents, SettledAt

LEMMA ProjectionSettled ==
  ASSUME NEW root, NEW obs, NEW fault, NEW status, NEW now
  PROVE  SettledAt(Projection(root, obs, fault, status), now)
BY DEF Projection, SettledAt

\* The merge keeps the condition and the recovery of the stored incident.
LEMMA MergeSettled ==
  ASSUME NEW existing \in Incidents, NEW projected \in Incidents, NEW kind, NEW o, NEW at, NEW now,
         SettledAt(existing, now)
  PROVE  SettledAt(Merge(existing, projected, kind, o, at), now)
<1> DEFINE rca == IF KeepsRoot(existing, projected) THEN existing ELSE projected
           merged == [existing EXCEPT !.sec    = (@ \cup projected.sec) \ {projected.node},
                                      !.obj    = rca.obj,
                                      !.root   = rca.root,
                                      !.node   = rca.node,
                                      !.impact = rca.impact]
<1>1. merged \in Incidents
  <2>1. rca \in Incidents
    OBVIOUS
  <2> HIDE DEF rca
  <2> QED
    BY <2>1 DEF Incidents
<1>2. merged.cond = existing.cond /\ merged.rec = existing.rec
  <2> HIDE DEF rca
  <2> QED
    BY DEF Incidents
<1>3. Merge(existing, projected, kind, o, at) = ApplyFault(merged, kind, o, at)
  BY DEF Merge
<1> HIDE DEF merged
<1>4. SettledAt(merged, now)
  BY <1>2, Present DEF SettledAt
<1> QED
  BY <1>1, <1>3, <1>4, ApplyFaultSettled

LEMMA ChildSettled ==
  ASSUME NEW r \in Incidents, NEW o, NEW now, SettledAt(r, now)
  PROVE  SettledAt(Child(r, o), now)
<1>1. Child(r, o).cond = r.cond /\ Child(r, o).rec = r.rec
  BY DEF Child, Incidents
<1> QED
  BY <1>1, Present DEF SettledAt

LEMMA ApplyNodeStateSettled ==
  ASSUME NEW r \in Incidents, NEW s, NEW at, NEW now, SettledAt(r, now)
  PROVE  SettledAt(ApplyNodeState(r, s, at), now)
BY DEF ApplyNodeState, Incidents, SettledAt

LEMMA AbsentSettled == ASSUME NEW now PROVE SettledAt(Absent, now) /\ SettledTable(NoRows, now)
BY DEF SettledAt, SettledTable, NoRows

\* A commit of a settled row.
LEMMA WriteSettled ==
  ASSUME NEW table \in Tables, NEW i, NEW r, NEW now, SettledTable(table, now), SettledAt(r, now)
  PROVE  SettledTable([table EXCEPT ![i] = r], now)
BY DEF Tables, SettledTable

-----------------------------------------------------------------------------
(* The steps of a pipeline.                                                 *)

LEMMA QuietStep ==
  ASSUME TypeInv, QuietInv, NEW p \in Pipes, NEW m, SettledPipe(m, Now), Step(p, m),
         SettledTable(rows', Now), UNCHANGED <<hooks, tasks, seen, clock>>
  PROVE  QuietInv'
<1>1. \A q \in Pipes : SettledPipe(pipes'[q], Now)
  BY DEF TypeInv, TypeOK, Step, QuietInv
<1>2. Now' = Now
  BY DEF Now
<1> QED
  BY <1>1, <1>2 DEF QuietInv

\* A busy pipeline that keeps its snapshot and its instant.
LEMMA SettledFields ==
  ASSUME NEW m, NEW now, SettledPipe(m, now), m.pc # "idle",
         NEW new, new.snap = m.snap, new.at = m.at,
         SettledAt(new.row, now), SettledAt(new.kidRow, now)
  PROVE  SettledPipe(new, now)
BY DEF SettledPipe

LEMMA IdlePipeSettled == ASSUME NEW now PROVE SettledPipe(IdlePipe, now)
BY AbsentSettled DEF SettledPipe, IdlePipe

\* What a pipeline that works on an incident holds.
LEMMA WorkingSettled ==
  ASSUME TypeInv, QuietInv, NEW p \in Pipes, pipes[p].pc \in Working
  PROVE  /\ SettledPipe(pipes[p], Now) /\ pipes[p].pc # "idle"
         /\ SettledAt(pipes[p].row, Now) /\ SettledAt(pipes[p].kidRow, Now)
         /\ rows \in Tables /\ SettledTable(rows, Now)
BY DEF TypeInv, TypeOK, QuietInv, SettledPipe, Working

LEMMA NextKidSettled ==
  ASSUME NEW m \in PipeStates, NEW now, SettledPipe(m, now), m.pc # "idle"
  PROVE  SettledPipe(NextKid(m), now)
<1>1. /\ NextKid(m).row = m.row /\ NextKid(m).kidRow = Absent
      /\ NextKid(m).snap = m.snap /\ NextKid(m).at = m.at
  BY DEF NextKid, PipeStates
<1> QED
  BY <1>1, AbsentSettled, SettledFields DEF SettledPipe

LEMMA PersistedSettled ==
  ASSUME NEW m \in PipeStates, NEW now, SettledPipe(m, now), m.pc # "idle", m.row \in Incidents
  PROVE  SettledPipe(Persisted(m), now)
<1> DEFINE kids == {o \in m.row.impact : TypeOf[o] = "session"}
           new == [m EXCEPT !.todo = kids]
<1>1. kids \in SUBSET Objects
  BY DEF Incidents
<1> HIDE DEF kids
<1>2. new \in PipeStates /\ new.pc = m.pc
  BY <1>1 DEF PipeStates
<1>3. new.row = m.row /\ new.kidRow = m.kidRow /\ new.snap = m.snap /\ new.at = m.at
  BY DEF PipeStates
<1>4. Persisted(m) = NextKid(new)
  BY DEF Persisted, kids
<1> HIDE DEF new
<1>5. SettledPipe(new, now)
  BY <1>3, SettledFields DEF SettledPipe
<1> QED
  BY <1>2, <1>4, <1>5, NextKidSettled

LEMMA ReceiveQuiet == ASSUME TypeInv, QuietInv, NEW p \in Pipes, PipeReceive(p) PROVE QuietInv'
<1>1. PICK k \in Kinds, o \in Observable :
        Step(p, [IdlePipe EXCEPT !.pc = "raw", !.kind = k, !.obj = o[1], !.src = o[2],
                                 !.at = clock])
  BY DEF PipeReceive
<1> DEFINE m == [IdlePipe EXCEPT !.pc = "raw", !.kind = k, !.obj = o[1], !.src = o[2],
                                 !.at = clock]
<1>2. m.row = Absent /\ m.kidRow = Absent /\ m.snap = NoRows /\ m.at = clock
  BY DEF IdlePipe
<1>3. clock \in 1..Now.clock
  BY DEF TypeInv, TypeOK, Now
<1>4. Step(p, m) /\ UNCHANGED <<rows, hooks, tasks, seen, clock>>
  BY <1>1 DEF PipeReceive
<1> HIDE DEF m
<1>5. SettledPipe(m, Now)
  BY <1>2, <1>3, AbsentSettled DEF SettledPipe
<1>6. SettledTable(rows', Now)
  BY <1>4 DEF QuietInv
<1> QED
  BY <1>4, <1>5, <1>6, QuietStep

\* A projection is ACTIVE.
LEMMA AnalyzeQuiet == ASSUME TypeInv, QuietInv, NEW p \in Pipes, PipeAnalyze(p) PROVE QuietInv'
<1> DEFINE m == pipes[p]
<1>0. m \in PipeStates /\ m.pc = "raw" /\ SettledPipe(m, Now)
  BY DEF TypeInv, TypeOK, QuietInv, PipeAnalyze, At
<1> DEFINE next(cur, goOn, added, status) ==
             [m EXCEPT !.pc  = IF goOn THEN "get" ELSE "list",
                       !.cur = cur,
                       !.id  = <<NewNumber>>,
                       !.kid = IF goOn THEN active.id ELSE NoId,
                       !.row = Projection(cur, added.obs, added.fault, status)]
       chosen(fits, status, cur) ==
         LET last  == Window(fits).root
             prev  == IF last # cur THEN last ELSE NoObj
             goOn  == active.id # NoId /\ active.root \in {cur, prev}
             added == BufferAdd(<<m.obj, m.src>>, m.kind, m.at, fits, cur)
         IN  buffer' = added /\ Step(p, next(cur, goOn, added, status))
<1>1. PICK fits \in (IF buffer.obs = {} THEN {TRUE} ELSE BOOLEAN),
           status \in (IF MaintenanceOn THEN {"OPEN", "CLOSED"} ELSE {"OPEN"}) :
        \E cur \in Roots[ObjectsOf(Window(fits).obs) \cup {m.obj}] \ {NoObj} : chosen(fits, status, cur)
  BY DEF PipeAnalyze
<1>2. PICK cur, goOn, added : Step(p, next(cur, goOn, added, status))
  <2> HIDE DEF next
  <2> QED
    BY <1>1
<1> DEFINE row == Projection(cur, added.obs, added.fault, status)
           new == next(cur, goOn, added, status)
<1>3. new.row = row /\ new.kidRow = m.kidRow /\ new.snap = m.snap /\ new.at = m.at
  <2> HIDE DEF row, m
  <2> QED
    BY <1>0 DEF PipeStates, row
<1>4. SettledAt(row, Now) /\ SettledAt(m.kidRow, Now)
  BY <1>0, ProjectionSettled DEF SettledPipe
<1>5. Step(p, new) /\ UNCHANGED <<rows, hooks, tasks, seen, clock>>
  BY <1>2 DEF PipeAnalyze
<1>6. SettledTable(rows', Now)
  BY <1>5 DEF QuietInv
<1> HIDE DEF new, row, m
<1>7. SettledPipe(new, Now)
  BY <1>0, <1>3, <1>4, SettledFields
<1> QED
  BY <1>5, <1>6, <1>7, QuietStep

LEMMA GetActiveQuiet == ASSUME TypeInv, QuietInv, NEW p \in Pipes, PipeGetActive(p) PROVE QuietInv'
<1> DEFINE m == pipes[p]
<1>0. m \in PipeStates /\ m.row \in Incidents /\ m.kid \in Ids /\ m.at \in Nat /\ m.obj \in Objects
  BY WorkingPipe DEF PipeGetActive, At, Working
<1>1. SettledPipe(m, Now) /\ m.pc # "idle" /\ SettledAt(m.row, Now) /\ SettledAt(m.kidRow, Now)
      /\ SettledTable(rows, Now)
  BY WorkingSettled DEF PipeGetActive, At, Working
<1> DEFINE merged == Merged(m, m.kid)
           found  == [m EXCEPT !.pc = "update", !.path = "active", !.kid = NoId,
                               !.id = m.kid, !.row = merged]
           gone   == [m EXCEPT !.pc = "list", !.kid = NoId]
<1>2. Row(m.kid) => SettledAt(merged, Now)
  <2>1. Row(m.kid) => rows[m.kid] \in Incidents /\ SettledAt(rows[m.kid], Now)
    BY <1>0, <1>1, RowType DEF SettledTable
  <2> QED
    BY <1>0, <2>1, MergeSettled DEF Merged
<1>3. /\ found.row = merged /\ found.kidRow = m.kidRow /\ found.snap = m.snap /\ found.at = m.at
      /\ gone.row = m.row /\ gone.kidRow = m.kidRow /\ gone.snap = m.snap /\ gone.at = m.at
  <2> HIDE DEF merged, m
  <2> QED
    BY <1>0 DEF PipeStates
<1>4. Step(p, IF Row(m.kid) THEN found ELSE gone) /\ UNCHANGED <<rows, hooks, tasks, seen, clock>>
  BY DEF PipeGetActive
<1> HIDE DEF found, gone, merged, m
<1>5. /\ Row(m.kid) => SettledPipe(found, Now)
      /\ SettledPipe(gone, Now)
  BY <1>1, <1>2, <1>3, SettledFields
<1>6. SettledTable(rows', Now)
  BY <1>1, <1>4
<1> QED
  BY <1>4, <1>5, <1>6, QuietStep

LEMMA MatchQuiet == ASSUME TypeInv, QuietInv, NEW p \in Pipes, PipeMatch(p) PROVE QuietInv'
<1> DEFINE m == pipes[p]
<1>0. m \in PipeStates /\ m.row \in Incidents /\ m.at \in Nat /\ m.obj \in Objects
  BY WorkingPipe DEF PipeMatch, At, Working
<1>1. SettledPipe(m, Now) /\ m.pc # "idle" /\ SettledAt(m.row, Now) /\ SettledAt(m.kidRow, Now)
      /\ SettledTable(rows, Now)
  BY WorkingSettled DEF PipeMatch, At, Working
<1>2. UNCHANGED <<rows, hooks, tasks, seen, clock>>
  BY DEF PipeMatch
<1>3. SettledTable(rows', Now)
  BY <1>1, <1>2
<1>4. ASSUME NEW row, SettledAt(row, Now), NEW pc, NEW path, NEW id,
             Step(p, [m EXCEPT !.pc = pc, !.path = path, !.id = id, !.row = row])
      PROVE  QuietInv'
  <2> DEFINE new == [m EXCEPT !.pc = pc, !.path = path, !.id = id, !.row = row]
  <2>1. new.row = row /\ new.kidRow = m.kidRow /\ new.snap = m.snap /\ new.at = m.at
    <3> HIDE DEF m
    <3> QED
      BY <1>0 DEF PipeStates
  <2>2. Step(p, new)
    BY <1>4
  <2> HIDE DEF new, m
  <2>3. SettledPipe(new, Now)
    BY <1>1, <1>4, <2>1, SettledFields
  <2> QED
    BY <1>2, <1>3, <2>2, <2>3, QuietStep
<1>5. CASE Matching(m.cur) = {}
  <2> DEFINE row == ApplyFault(m.row, m.kind, m.obj, m.at)
  <2>1. SettledAt(row, Now)
    BY <1>0, <1>1, ApplyFaultSettled
  <2>2. Step(p, [m EXCEPT !.pc = "save", !.path = "new", !.row = row])
    BY <1>5 DEF PipeMatch
  <2> HIDE DEF row
  <2>3. [m EXCEPT !.pc = "save", !.path = "new", !.row = row]
          = [m EXCEPT !.pc = "save", !.path = "new", !.id = m.id, !.row = row]
    <3> HIDE DEF m
    <3> QED
      BY <1>0 DEF PipeStates
  <2>4. Step(p, [m EXCEPT !.pc = "save", !.path = "new", !.id = m.id, !.row = row])
    BY <2>2, <2>3
  <2> HIDE DEF m
  <2> QED
    BY <1>4, <2>1, <2>4
<1>6. CASE Matching(m.cur) # {}
  <2>1. PICK i \in Matching(m.cur) :
          Step(p, [m EXCEPT !.pc = "update", !.path = "match", !.id = i, !.row = Merged(m, i)])
    BY <1>6 DEF PipeMatch
  <2>2. i \in Ids /\ Row(i)
    BY DEF Matching, Open
  <2> DEFINE merged == Merged(m, i)
  <2>3. rows[i] \in Incidents /\ SettledAt(rows[i], Now)
    BY <1>1, <2>2, RowType DEF SettledTable
  <2>4. SettledAt(merged, Now)
    BY <1>0, <2>3, MergeSettled DEF Merged
  <2>5. Step(p, [m EXCEPT !.pc = "update", !.path = "match", !.id = i, !.row = merged])
    BY <2>1
  <2> HIDE DEF merged, m
  <2> QED
    BY <1>4, <2>4, <2>5
<1> QED
  BY <1>5, <1>6

\* A step that writes a settled row into the table, or leaves the table alone.
LEMMA WriteStep ==
  ASSUME TypeInv, QuietInv, NEW p \in Pipes, NEW m, SettledPipe(m, Now), Step(p, m),
         NEW i, NEW r, SettledAt(r, Now),
         rows' = rows \/ rows' = [rows EXCEPT ![i] = r], UNCHANGED <<hooks, tasks, seen, clock>>
  PROVE  QuietInv'
<1>1. rows \in Tables /\ SettledTable(rows, Now)
  BY DEF TypeInv, TypeOK, QuietInv
<1>2. SettledTable([rows EXCEPT ![i] = r], Now)
  BY <1>1, WriteSettled
<1>3. SettledTable(rows', Now)
  BY <1>1, <1>2
<1> QED
  BY <1>3, QuietStep

LEMMA UpdateQuiet == ASSUME TypeInv, QuietInv, NEW p \in Pipes, PipeUpdate(p) PROVE QuietInv'
<1> DEFINE m == pipes[p]
<1>0. m \in PipeStates /\ m.row \in Incidents /\ m.at \in Nat /\ m.obj \in Objects
  BY WorkingPipe DEF PipeUpdate, At, Working
<1>1. SettledPipe(m, Now) /\ m.pc # "idle" /\ SettledAt(m.row, Now) /\ SettledAt(m.kidRow, Now)
  BY WorkingSettled DEF PipeUpdate, At, Working
<1>2. UNCHANGED <<hooks, tasks, seen, clock>>
  BY DEF PipeUpdate
<1> DEFINE row  == ApplyFault(m.row, m.kind, m.obj, m.at)
           list == [m EXCEPT !.pc = "list"]
           save == [m EXCEPT !.pc = "save", !.path = "new", !.row = row]
<1>3. SettledAt(row, Now)
  BY <1>0, <1>1, ApplyFaultSettled
<1>4. SettledPipe(Persisted(m), Now)
  BY <1>0, <1>1, PersistedSettled
<1>5. /\ list.row = m.row /\ list.kidRow = m.kidRow /\ list.snap = m.snap /\ list.at = m.at
      /\ save.row = row   /\ save.kidRow = m.kidRow /\ save.snap = m.snap /\ save.at = m.at
  <2> HIDE DEF row, m
  <2> QED
    BY <1>0 DEF PipeStates
<1>6. /\ rows' = rows \/ rows' = [rows EXCEPT ![m.id] = m.row]
      /\ Step(p, Persisted(m)) \/ Step(p, list) \/ Step(p, save)
  BY DEF PipeUpdate
<1> HIDE DEF row, list, save, m
<1>7. SettledPipe(list, Now) /\ SettledPipe(save, Now)
  BY <1>1, <1>3, <1>5, SettledFields
<1> QED
  BY <1>1, <1>2, <1>4, <1>6, <1>7, WriteStep

LEMMA SaveQuiet == ASSUME TypeInv, QuietInv, NEW p \in Pipes, PipeSave(p) PROVE QuietInv'
<1> DEFINE m == pipes[p]
<1>0. m \in PipeStates /\ m.row \in Incidents
  BY WorkingPipe DEF PipeSave, At, Working
<1>1. SettledPipe(m, Now) /\ m.pc # "idle" /\ SettledAt(m.row, Now)
  BY WorkingSettled DEF PipeSave, At, Working
<1>2. SettledPipe(Persisted(m), Now)
  BY <1>0, <1>1, PersistedSettled
<1>3. /\ rows' = [rows EXCEPT ![m.id] = m.row] /\ Step(p, Persisted(m))
      /\ UNCHANGED <<hooks, tasks, seen, clock>>
  BY DEF PipeSave
<1> HIDE DEF m
<1> QED
  BY <1>1, <1>2, <1>3, WriteStep

LEMMA KidQuiet == ASSUME TypeInv, QuietInv, NEW p \in Pipes, PipeKid(p) PROVE QuietInv'
<1> DEFINE m == pipes[p]
<1>0. m \in PipeStates /\ m.row \in Incidents
  BY WorkingPipe DEF PipeKid, At, Working
<1>1. SettledPipe(m, Now) /\ m.pc # "idle" /\ SettledAt(m.row, Now) /\ SettledAt(m.kidRow, Now)
      /\ SettledTable(rows, Now)
  BY WorkingSettled DEF PipeKid, At, Working
<1>2. UNCHANGED <<rows, hooks, tasks, seen, clock>>
  BY DEF PipeKid
<1>3. PICK o \in m.todo :
        LET rest == [m EXCEPT !.todo = @ \ {o}]
            new  == Append(m.id, m.row.kids + 1)
        IN  IF ChildrenOf(m.id, o) # {}
            THEN \E c \in ChildrenOf(m.id, o) :
                   Step(p, IF FaultMatches(rows[c], m.kind, m.obj)
                           THEN [rest EXCEPT !.pc = "kidUpdate", !.kid = c,
                                             !.kidRow = ApplyFault(rows[c], m.kind, m.obj, m.at)]
                           ELSE NextKid(rest))
            ELSE /\ new \in Ids
                 /\ Step(p, [rest EXCEPT !.pc = "kidSave", !.kid = new, !.kidRow = Child(m.row, o)])
  BY DEF PipeKid
<1> DEFINE rest == [m EXCEPT !.todo = @ \ {o}]
<1>4. rest \in PipeStates /\ rest.pc # "idle" /\ SettledPipe(rest, Now) /\ SettledAt(rest.row, Now)
  <2>1. rest \in PipeStates /\ rest.pc = m.pc
        /\ rest.row = m.row /\ rest.kidRow = m.kidRow /\ rest.snap = m.snap /\ rest.at = m.at
    <3> HIDE DEF m
    <3> QED
      BY <1>0 DEF PipeStates
  <2> HIDE DEF rest, m
  <2> QED
    BY <1>1, <2>1, SettledFields
<1>5. ASSUME NEW pc, NEW c, NEW r, SettledAt(r, Now),
             Step(p, [rest EXCEPT !.pc = pc, !.kid = c, !.kidRow = r])
      PROVE  QuietInv'
  <2> DEFINE new == [rest EXCEPT !.pc = pc, !.kid = c, !.kidRow = r]
  <2>1. new.row = rest.row /\ new.kidRow = r /\ new.snap = rest.snap /\ new.at = rest.at
    <3> HIDE DEF rest
    <3> QED
      BY <1>4 DEF PipeStates
  <2>2. Step(p, new)
    BY <1>5
  <2> HIDE DEF new, rest
  <2>3. SettledPipe(new, Now)
    BY <1>4, <1>5, <2>1, SettledFields
  <2> QED
    BY <1>1, <1>2, <2>2, <2>3, QuietStep
<1>6. Step(p, NextKid(rest)) => QuietInv'
  <2> HIDE DEF rest
  <2>1. SettledPipe(NextKid(rest), Now)
    BY <1>4, NextKidSettled
  <2> QED
    BY <1>1, <1>2, <2>1, QuietStep
<1>7. CASE ChildrenOf(m.id, o) # {}
  <2>1. PICK c \in ChildrenOf(m.id, o) :
          Step(p, IF FaultMatches(rows[c], m.kind, m.obj)
                  THEN [rest EXCEPT !.pc = "kidUpdate", !.kid = c,
                                    !.kidRow = ApplyFault(rows[c], m.kind, m.obj, m.at)]
                  ELSE NextKid(rest))
    BY <1>3, <1>7
  <2> DEFINE row == ApplyFault(rows[c], m.kind, m.obj, m.at)
  <2>2. SettledAt(row, Now)
    <3>1. c \in Ids /\ Row(c)
      BY DEF ChildrenOf
    <3>2. rows[c] \in Incidents /\ SettledAt(rows[c], Now)
      BY <1>1, <3>1, RowType DEF SettledTable
    <3> QED
      BY <3>2, ApplyFaultSettled
  <2>3. \/ Step(p, [rest EXCEPT !.pc = "kidUpdate", !.kid = c, !.kidRow = row])
        \/ Step(p, NextKid(rest))
    BY <2>1
  <2> HIDE DEF row, rest
  <2> QED
    BY <1>5, <1>6, <2>2, <2>3
<1>8. CASE ChildrenOf(m.id, o) = {}
  <2> DEFINE kid == Append(m.id, m.row.kids + 1)
             row == Child(m.row, o)
  <2>1. Step(p, [rest EXCEPT !.pc = "kidSave", !.kid = kid, !.kidRow = row])
    BY <1>3, <1>8
  <2>2. SettledAt(row, Now)
    BY <1>0, <1>1, ChildSettled
  <2> HIDE DEF row, kid, rest
  <2> QED
    BY <1>5, <2>1, <2>2
<1> QED
  BY <1>7, <1>8

LEMMA KidUpdateQuiet == ASSUME TypeInv, QuietInv, NEW p \in Pipes, PipeKidUpdate(p) PROVE QuietInv'
<1> DEFINE m == pipes[p]
<1>0. m \in PipeStates
  BY WorkingPipe DEF PipeKidUpdate, At, Working
<1>1. SettledPipe(m, Now) /\ m.pc # "idle" /\ SettledAt(m.kidRow, Now)
  BY WorkingSettled DEF PipeKidUpdate, At, Working
<1>2. SettledPipe(NextKid(m), Now)
  BY <1>0, <1>1, NextKidSettled
<1>3. /\ rows' = rows \/ rows' = [rows EXCEPT ![m.kid] = m.kidRow]
      /\ Step(p, NextKid(m))
      /\ UNCHANGED <<hooks, tasks, seen, clock>>
  BY DEF PipeKidUpdate
<1> HIDE DEF m
<1> QED
  BY <1>1, <1>2, <1>3, WriteStep

LEMMA KidSaveQuiet == ASSUME TypeInv, QuietInv, NEW p \in Pipes, PipeKidSave(p) PROVE QuietInv'
<1> DEFINE m   == pipes[p]
           row == [m.row EXCEPT !.kids = @ + 1]
           new == [m EXCEPT !.pc = "kidParent", !.row = row]
<1>0. m \in PipeStates /\ m.row \in Incidents
  BY WorkingPipe DEF PipeKidSave, At, Working
<1>1. SettledPipe(m, Now) /\ m.pc # "idle" /\ SettledAt(m.row, Now) /\ SettledAt(m.kidRow, Now)
  BY WorkingSettled DEF PipeKidSave, At, Working
<1>2. SettledAt(row, Now)
  <2>1. row.cond = m.row.cond /\ row.rec = m.row.rec
    BY <1>0 DEF Incidents
  <2> HIDE DEF row
  <2> QED
    BY <1>0, <1>1, <2>1, Present DEF SettledAt
<1>3. new.row = row /\ new.kidRow = m.kidRow /\ new.snap = m.snap /\ new.at = m.at
  <2> HIDE DEF row, m
  <2> QED
    BY <1>0 DEF PipeStates
<1>4. /\ rows' = [rows EXCEPT ![m.kid] = m.kidRow]
      /\ Step(p, new)
      /\ UNCHANGED <<hooks, tasks, seen, clock>>
  BY DEF PipeKidSave
<1> HIDE DEF new, row, m
<1>5. SettledPipe(new, Now)
  BY <1>1, <1>2, <1>3, SettledFields
<1> QED
  BY <1>1, <1>4, <1>5, WriteStep

LEMMA KidParentQuiet == ASSUME TypeInv, QuietInv, NEW p \in Pipes, PipeKidParent(p) PROVE QuietInv'
<1> DEFINE m == pipes[p]
<1>0. m \in PipeStates
  BY WorkingPipe DEF PipeKidParent, At, Working
<1>1. SettledPipe(m, Now) /\ m.pc # "idle" /\ SettledAt(m.row, Now)
  BY WorkingSettled DEF PipeKidParent, At, Working
<1>2. SettledPipe(NextKid(m), Now)
  BY <1>0, <1>1, NextKidSettled
<1>3. /\ rows' = rows \/ rows' = [rows EXCEPT ![m.id] = m.row]
      /\ Step(p, NextKid(m))
      /\ UNCHANGED <<hooks, tasks, seen, clock>>
  BY DEF PipeKidParent
<1> HIDE DEF m
<1> QED
  BY <1>1, <1>2, <1>3, WriteStep

LEMMA EvaluateQuiet == ASSUME TypeInv, QuietInv, NEW p \in Pipes, PipeEvaluate(p) PROVE QuietInv'
<1> DEFINE m   == pipes[p]
           new == [m EXCEPT !.pc = "finish"]
           old == rows[m.id]
           row == [old EXCEPT !.root = m.row.root, !.impact = m.row.impact]
<1>0. m \in PipeStates /\ m.id \in Ids
  BY WorkingPipe DEF PipeEvaluate, At, Working
<1>1. SettledPipe(m, Now) /\ m.pc # "idle" /\ SettledAt(m.row, Now) /\ SettledAt(m.kidRow, Now)
      /\ SettledTable(rows, Now) /\ rows \in Tables
  BY WorkingSettled DEF PipeEvaluate, At, Working
<1>2. Row(m.id) => SettledAt(row, Now)
  <2> SUFFICES ASSUME Row(m.id) PROVE SettledAt(row, Now)
    OBVIOUS
  <2>1. old \in Incidents /\ SettledAt(old, Now)
    BY <1>0, <1>1, RowType DEF SettledTable
  <2>2. row.cond = old.cond /\ row.rec = old.rec
    <3> HIDE DEF old, m
    <3> QED
      BY <2>1 DEF Incidents
  <2> HIDE DEF row, old
  <2> QED
    BY <2>1, <2>2, Present DEF SettledAt
<1>3. new.row = m.row /\ new.kidRow = m.kidRow /\ new.snap = m.snap /\ new.at = m.at
  <2> HIDE DEF m
  <2> QED
    BY <1>0 DEF PipeStates
<1>4. /\ rows' = IF Row(m.id) THEN [rows EXCEPT ![m.id] = row] ELSE rows
      /\ Step(p, new) /\ UNCHANGED <<hooks, tasks, seen, clock>>
  <2>1. Row(m.id) => rows' = [rows EXCEPT ![m.id] = row]
    BY <1>0, <1>1 DEF PipeEvaluate, Tables
  <2> QED
    BY <2>1 DEF PipeEvaluate
<1> HIDE DEF new, row, old, m
<1>5. SettledPipe(new, Now)
  BY <1>1, <1>3, SettledFields
<1>6. CASE Row(m.id)
  BY <1>2, <1>4, <1>5, <1>6, WriteStep
<1>7. CASE ~Row(m.id)
  BY <1>1, <1>4, <1>5, <1>7, QuietStep
<1> QED
  BY <1>6, <1>7

\* A pipeline that ends leaves the table alone.
LEMMA EndQuiet ==
  ASSUME TypeInv, QuietInv, NEW p \in Pipes, PipeFinish(p) \/ PipeUnexplained(p)
  PROVE  QuietInv'
<1>1. Step(p, IdlePipe) /\ UNCHANGED <<rows, hooks, tasks, seen, clock>>
  BY DEF PipeFinish, PipeUnexplained
<1>2. SettledTable(rows', Now)
  BY <1>1 DEF QuietInv
<1> QED
  BY <1>1, <1>2, IdlePipeSettled, QuietStep

\* A recovery never makes an incident RECOVERED by itself.
LEMMA ListRecoveryQuiet ==
  ASSUME TypeInv, QuietInv, NEW p \in Pipes, PipeListRecovery(p)
  PROVE  QuietInv'
<1> DEFINE m    == pipes[p]
           hits == {i \in Ids : Row(i) /\ RecoveryMatches(rows[i], m.obj)}
           snap == [i \in Ids |-> IF i \in hits THEN ApplyRecovery(rows[i], m.obj, m.at)
                                                ELSE Absent]
           new  == [m EXCEPT !.pc = "recUpdate", !.snap = snap]
<1>0. m \in PipeStates /\ m.pc # "idle" /\ SettledPipe(m, Now) /\ SettledTable(rows, Now)
  BY DEF TypeInv, TypeOK, QuietInv, PipeListRecovery, At
<1>1. SettledTable(snap, Now)
  <2>1. ASSUME NEW i \in Ids PROVE SettledAt(snap[i], Now)
    <3>1. CASE i \in hits
      BY <3>1, RowType, ApplyRecoverySettled
    <3>2. CASE i \notin hits
      BY <3>2, AbsentSettled
    <3> QED
      BY <3>1, <3>2
  <2> HIDE DEF snap
  <2> QED
    BY <2>1 DEF SettledTable
<1>2. new.row = m.row /\ new.kidRow = m.kidRow /\ new.snap = snap /\ new.at = m.at
  <2> HIDE DEF snap, m
  <2> QED
    BY <1>0 DEF PipeStates
<1>3. Step(p, IdlePipe) \/ Step(p, new)
  BY DEF PipeListRecovery
<1>4. UNCHANGED <<rows, hooks, tasks, seen, clock>>
  BY DEF PipeListRecovery
<1> HIDE DEF new, snap, m
<1>5. SettledPipe(new, Now)
  BY <1>0, <1>1, <1>2 DEF SettledPipe
<1>6. SettledTable(rows', Now)
  BY <1>0, <1>4
<1> QED
  BY <1>3, <1>4, <1>5, <1>6, IdlePipeSettled, QuietStep

LEMMA RecoveryUpdateQuiet ==
  ASSUME TypeInv, QuietInv, NEW p \in Pipes, PipeRecoveryUpdate(p)
  PROVE  QuietInv'
<1> DEFINE m == pipes[p]
<1>0. m \in PipeStates /\ m.pc # "idle" /\ m.snap \in Tables /\ SettledPipe(m, Now)
  BY DEF TypeInv, TypeOK, QuietInv, PipeRecoveryUpdate, At, PipeStates
<1>1. UNCHANGED <<hooks, tasks, seen, clock>>
  BY DEF PipeRecoveryUpdate
<1>2. PICK i \in In(m.snap) :
         LET rest == [m EXCEPT !.snap[i] = Absent]
         IN  IF Row(i)
             THEN /\ rows' = [rows EXCEPT ![i] = m.snap[i]]
                  /\ Step(p, [rest EXCEPT !.pc = "recSchedule", !.id = i, !.hit = TRUE])
             ELSE /\ Step(p, [rest EXCEPT !.pc = "recSchedule", !.id = NoId])
                  /\ UNCHANGED rows
  BY DEF PipeRecoveryUpdate
<1> DEFINE snap == [m.snap EXCEPT ![i] = Absent]
           rest == [m EXCEPT !.snap = snap]
           hit  == [rest EXCEPT !.pc = "recSchedule", !.id = i, !.hit = TRUE]
           miss == [rest EXCEPT !.pc = "recSchedule", !.id = NoId]
           row  == m.snap[i]
<1>3. SettledAt(row, Now) /\ SettledTable(snap, Now)
  <2>1. SettledTable(m.snap, Now) /\ i \in Ids
    BY <1>0 DEF SettledPipe, In
  <2> QED
    BY <1>0, <2>1, AbsentSettled, WriteSettled DEF SettledTable
<1>4. /\ hit.row = m.row  /\ hit.kidRow = m.kidRow  /\ hit.snap = snap  /\ hit.at = m.at
      /\ miss.row = m.row /\ miss.kidRow = m.kidRow /\ miss.snap = snap /\ miss.at = m.at
  <2> HIDE DEF snap, m
  <2> QED
    BY <1>0 DEF PipeStates
<1>5. /\ rows' = rows \/ rows' = [rows EXCEPT ![i] = row]
      /\ Step(p, hit) \/ Step(p, miss)
  BY <1>2
<1> HIDE DEF hit, miss, rest, snap, row, m
<1>6. SettledPipe(hit, Now) /\ SettledPipe(miss, Now)
  BY <1>0, <1>3, <1>4 DEF SettledPipe
<1> QED
  BY <1>1, <1>3, <1>5, <1>6, WriteStep

\* A task is started no earlier than the recovery it confirms was observed.
LEMMA ScheduleSettled ==
  ASSUME TypeInv, QuietInv, NEW i \in Ids, NEW at, at # Never, RipeBy(at, clock + Quiet, Now),
         NEW by, Schedule(i, at, by)
  PROVE  \A t \in TaskIds : SettledTask(tasks'[t], Now)
<1> DEFINE old  == registry[i]
           rest == Cancelled(tasks, old)
           new  == [id |-> i, at |-> at, by |-> by, due |-> clock + Quiet,
                    pc |-> "sleep", row |-> Absent, cancelled |-> FALSE]
<1>0. /\ tasks \in [TaskIds -> TaskStates \cup {NoTask}]
      /\ \A t \in TaskIds : SettledTask(tasks[t], Now)
      /\ registry[i] \in TaskIds \cup {NoTask}
  BY DEF TypeInv, TypeOK, QuietInv
<1>1. PICK t \in TaskIds : tasks' = [rest EXCEPT ![t] = new]
  BY DEF Schedule
<1>2. SettledTask(new, Now)
  <2>1. new.row = Absent /\ new.at = at /\ new.due = clock + Quiet
    OBVIOUS
  <2> HIDE DEF new
  <2> QED
    BY <2>1, AbsentSettled DEF SettledTask
<1>3. DOMAIN rest = TaskIds /\ \A u \in TaskIds : SettledTask(rest[u], Now)
  <2>1. CASE old = NoTask \/ tasks[old] = NoTask
    BY <1>0, <2>1 DEF Cancelled
  <2>2. CASE old # NoTask /\ tasks[old] # NoTask
    <3> DEFINE gone == Halted(tasks[old])
    <3>1. old \in TaskIds /\ tasks[old] \in TaskStates
      BY <1>0, <2>2
    <3>2. gone.row = tasks[old].row /\ gone.at = tasks[old].at /\ gone.due = tasks[old].due
      <4> HIDE DEF old
      <4> QED
        BY <3>1 DEF TaskStates, Halted
    <3>3. rest = [tasks EXCEPT ![old] = gone]
      BY <1>0, <2>2, <3>1, CancelledHalts
    <3> HIDE DEF gone, rest, old
    <3>4. SettledTask(gone, Now)
      BY <1>0, <2>2, <3>1, <3>2 DEF SettledTask
    <3> QED
      BY <1>0, <3>1, <3>3, <3>4
  <2> QED
    BY <2>1, <2>2
<1> HIDE DEF rest, new
<1> QED
  BY <1>1, <1>2, <1>3

LEMMA RecoveryScheduleQuiet ==
  ASSUME TypeInv, QuietInv, NEW p \in Pipes, PipeRecoverySchedule(p)
  PROVE  QuietInv'
<1> DEFINE m   == pipes[p]
           new == [m EXCEPT !.pc = "recUpdate"]
<1>0. m \in PipeStates /\ m.pc # "idle" /\ m.id \in Ids \cup {NoId} /\ SettledPipe(m, Now)
  BY DEF TypeInv, TypeOK, QuietInv, PipeRecoverySchedule, At, PipeStates
<1>1. UNCHANGED <<rows, hooks, seen, clock>> /\ (Step(p, IdlePipe) \/ Step(p, new))
  BY DEF PipeRecoverySchedule
<1>2. \A t \in TaskIds : SettledTask(tasks'[t], Now)
  <2>1. m.at # Never /\ RipeBy(m.at, clock + Quiet, Now)
    <3>1. m.at \in 1..clock /\ clock \in Nat /\ Quiet \in Nat
      BY <1>0, TopologyAssumption DEF SettledPipe, Now, TypeInv, TypeOK
    <3> QED
      BY <3>1 DEF RipeBy, Never
  <2>2. CASE m.id # NoId
    <3>1. Schedule(m.id, m.at, "syslog")
      BY <2>2 DEF PipeRecoverySchedule
    <3> HIDE DEF m
    <3> QED
      BY <1>0, <2>1, <2>2, <3>1, ScheduleSettled
  <2>3. CASE m.id = NoId
    BY <2>3 DEF PipeRecoverySchedule, QuietInv
  <2> QED
    BY <2>2, <2>3
<1>3. new.row = m.row /\ new.kidRow = m.kidRow /\ new.snap = m.snap /\ new.at = m.at
  <2> HIDE DEF m
  <2> QED
    BY <1>0 DEF PipeStates
<1> HIDE DEF new, m
<1>4. SettledPipe(new, Now)
  BY <1>0, <1>3, SettledFields DEF SettledPipe
<1>5. \A q \in Pipes : SettledPipe(pipes'[q], Now)
  BY <1>1, <1>4, IdlePipeSettled DEF TypeInv, TypeOK, Step, QuietInv
<1> QED
  BY <1>1, <1>2, <1>5 DEF QuietInv, Now

LEMMA PipeQuiet == ASSUME TypeInv, QuietInv, NEW p \in Pipes, PipeNext(p) PROVE QuietInv'
BY AnalyzeQuiet, GetActiveQuiet, MatchQuiet, UpdateQuiet, SaveQuiet, KidQuiet, KidUpdateQuiet,
   KidSaveQuiet, KidParentQuiet, EvaluateQuiet, EndQuiet, ListRecoveryQuiet, RecoveryUpdateQuiet,
   RecoveryScheduleQuiet
   DEF PipeNext

-----------------------------------------------------------------------------
(* Handlers, tasks, operators and time.                                     *)

LEMMA IdleHookSettled == ASSUME NEW now PROVE SettledHook(IdleHook, now)
BY AbsentSettled DEF SettledHook, IdleHook

\* Time and further events only age recoveries.
LEMMA LaterQuiet ==
  ASSUME TypeInv, QuietInv, NEW later \in Instants, clock <= later.clock, seen \subseteq later.seen
  PROVE  /\ SettledTable(rows, later)
         /\ \A p \in Pipes : SettledPipe(pipes[p], later)
         /\ \A h \in Hooks : SettledHook(hooks[h], later)
         /\ \A t \in TaskIds : SettledTask(tasks[t], later)
<1>1. /\ Now \in Instants /\ Now.clock = clock /\ Now.seen = seen
      /\ clock \in Nat /\ later.clock \in Nat /\ Quiet \in Nat
      /\ later.seen \subseteq [node : Nodes, state : NodeStates, at : Nat, got : Nat]
      /\ seen \subseteq [node : Nodes, state : NodeStates, at : Nat, got : Nat]
  BY NowType, TopologyAssumption DEF Now, TypeInv, TypeOK, Instants
<1>2. \A r \in Incidents \cup {Absent} : SettledAt(r, Now) => SettledAt(r, later)
  BY <1>1, SettledLater
<1>3. ASSUME NEW table \in Tables, SettledTable(table, Now) PROVE SettledTable(table, later)
  BY <1>2, <1>3 DEF SettledTable, Tables
<1>4. SettledTable(rows, later)
  BY <1>3 DEF QuietInv, TypeInv, TypeOK
<1>5. \A p \in Pipes : SettledPipe(pipes[p], later)
  <2> SUFFICES ASSUME NEW p \in Pipes PROVE SettledPipe(pipes[p], later)
    OBVIOUS
  <2> DEFINE m == pipes[p]
  <2>1. m \in PipeStates /\ SettledPipe(m, Now)
    BY DEF TypeInv, TypeOK, QuietInv
  <2>2. /\ m.row \in Incidents \cup {Absent} /\ m.kidRow \in Incidents \cup {Absent}
        /\ m.snap \in Tables /\ m.at \in Nat
    BY <2>1 DEF PipeStates
  <2> HIDE DEF m
  <2> QED
    BY <1>1, <1>2, <1>3, <2>1, <2>2 DEF SettledPipe, m
<1>6. \A h \in Hooks : SettledHook(hooks[h], later)
  <2> SUFFICES ASSUME NEW h \in Hooks PROVE SettledHook(hooks[h], later)
    OBVIOUS
  <2>1. hooks[h] \in HookStates /\ SettledHook(hooks[h], Now)
    BY DEF TypeInv, TypeOK, QuietInv
  <2>2. hooks[h].snap \in Tables
    BY <2>1 DEF HookStates
  <2>3. ASSUME Told(hooks[h].state, hooks[h].at, Now) PROVE Told(hooks[h].state, hooks[h].at, later)
    BY <1>1, <2>3 DEF Told
  <2> QED
    BY <1>3, <2>1, <2>2, <2>3 DEF SettledHook
<1>7. \A t \in TaskIds : SettledTask(tasks[t], later)
  <2> SUFFICES ASSUME NEW t \in TaskIds, tasks[t] # NoTask PROVE SettledTask(tasks[t], later)
    BY DEF SettledTask
  <2>1. tasks[t] \in TaskStates /\ SettledTask(tasks[t], Now)
    BY DEF TypeInv, TypeOK, QuietInv
  <2>2. tasks[t].row \in Incidents \cup {Absent}
    BY <2>1 DEF TaskStates
  <2>3. RipeBy(tasks[t].at, tasks[t].due, later)
    BY <1>1, <2>1 DEF SettledTask, RipeBy
  <2> QED
    BY <1>2, <2>1, <2>2, <2>3 DEF SettledTask
<1> QED
  BY <1>4, <1>5, <1>6, <1>7

\* The event is received when the handler starts, even if it tells of a time to come.
LEMMA HookReceiveQuiet == ASSUME TypeInv, QuietInv, NEW h \in Hooks, HookReceive(h) PROVE QuietInv'
<1>1. PICK n \in Nodes, s \in Events, at \in 1..(clock + Skew) :
        LET e    == [node |-> n, state |-> s, at |-> at, got |-> clock]
            rel  == RelatedTo(n, s)
            mine == [IdleHook EXCEPT !.node = n, !.state = s, !.at = at]
        IN
        /\ seen' = IF Received(e) THEN seen ELSE seen \cup {e}
        /\ IF Received(e) \/ Stale(n, at) THEN UNCHANGED hooks
           ELSE IF rel # {}
           THEN hooks' = [hooks EXCEPT ![h] =
                  [mine EXCEPT !.pc = "apply", !.held = TRUE,
                               !.snap = [i \in Ids |-> IF i \in rel THEN rows[i] ELSE Absent]]]
           ELSE IF s = "DOWN"
           THEN /\ NextTop \in Ids
                /\ hooks' = [hooks EXCEPT ![h] =
                     [mine EXCEPT !.pc = "save", !.snap = [NoRows EXCEPT ![NextTop] = NodeIncident(n, at)]]]
           ELSE UNCHANGED hooks
  BY ZenonT(60) DEF HookReceive
<1> DEFINE e    == [node |-> n, state |-> s, at |-> at, got |-> clock]
           copy == [i \in Ids |-> IF i \in RelatedTo(n, s) THEN rows[i] ELSE Absent]
           only == [NoRows EXCEPT ![NextTop] = NodeIncident(n, at)]
           mine == [IdleHook EXCEPT !.node = n, !.state = s, !.at = at]
           apply == [mine EXCEPT !.pc = "apply", !.held = TRUE, !.snap = copy]
           save  == [mine EXCEPT !.pc = "save", !.snap = only]
<1>2. /\ Now' \in Instants /\ Now'.clock = clock /\ clock \in Nat
      /\ seen \subseteq Now'.seen /\ UNCHANGED <<rows, pipes, tasks>>
  <2>1. TypeInv'
    BY HookReceiveType
  <2>2. clock' = clock /\ seen \subseteq seen' /\ UNCHANGED <<rows, pipes, tasks>>
    BY <1>1 DEF HookReceive
  <2>3. Now' \in Instants
    BY <2>1 DEF TypeInv, TypeOK, Now, Instants
  <2> QED
    BY <2>2, <2>3 DEF Now, TypeInv, TypeOK
<1>3. /\ SettledTable(rows, Now')
      /\ \A p \in Pipes : SettledPipe(pipes[p], Now')
      /\ \A g \in Hooks : SettledHook(hooks[g], Now')
      /\ \A t \in TaskIds : SettledTask(tasks[t], Now')
  BY <1>2, LaterQuiet
<1>4. SettledTable(copy, Now')
  BY <1>3, AbsentSettled DEF SettledTable
<1>5. SettledTable(only, Now')
  <2>1. SettledAt(NodeIncident(n, at), Now')
    BY DEF NodeIncident, SettledAt
  <2>2. NoRows \in Tables
    BY DEF NoRows, Tables
  <2> QED
    BY <2>1, <2>2, AbsentSettled, WriteSettled
<1>6. /\ apply.snap = copy /\ apply.at = at /\ apply.state = s
      /\ save.snap = only /\ save.pc = "save"
  <2> HIDE DEF copy, only
  <2> QED
    BY DEF IdleHook
<1>7. hooks' = [hooks EXCEPT ![h] = apply] => Told(s, at, Now')
  <2> SUFFICES ASSUME hooks' = [hooks EXCEPT ![h] = apply] PROVE Told(s, at, Now')
    OBVIOUS
  <2>1. hooks' # hooks
    <3>1. apply.pc = "apply" /\ hooks[h].pc = "idle"
      BY DEF IdleHook, HookReceive
    <3> HIDE DEF apply
    <3> QED
      BY <3>1 DEF TypeInv, TypeOK
  <2>2. e \in Now'.seen
    <3>1. ~Received(e)
      BY <1>1, <2>1
    <3> QED
      BY <1>1, <3>1 DEF Now
  <2>3. e.state = s /\ e.at = at /\ e.got = clock
    OBVIOUS
  <2> HIDE DEF e
  <2> QED
    BY <1>2, <2>2, <2>3 DEF Told
<1>8. hooks' = hooks \/ hooks' = [hooks EXCEPT ![h] = apply] \/ hooks' = [hooks EXCEPT ![h] = save]
  BY <1>1
<1>9. at # Never
  BY <1>2, BackendAssumption DEF Never
<1> HIDE DEF apply, save, copy, only
<1>10. /\ hooks' = [hooks EXCEPT ![h] = apply] => SettledHook(apply, Now')
       /\ SettledHook(save, Now')
  BY <1>4, <1>5, <1>6, <1>7, <1>9 DEF SettledHook
<1>11. \A g \in Hooks : SettledHook(hooks'[g], Now')
  BY <1>3, <1>8, <1>10 DEF TypeInv, TypeOK
<1> QED
  BY <1>2, <1>3, <1>11 DEF QuietInv

LEMMA HookSaveQuiet == ASSUME TypeInv, QuietInv, NEW h \in Hooks, HookSave(h) PROVE QuietInv'
<1>1. PICK i \in In(hooks[h].snap) : rows' = [rows EXCEPT ![i] = hooks[h].snap[i]]
  BY DEF HookSave
<1>2. SettledAt(hooks[h].snap[i], Now)
  BY DEF In, QuietInv, SettledHook, SettledTable
<1>3. SettledTable(rows', Now)
  BY <1>1, <1>2, WriteSettled DEF TypeInv, TypeOK, QuietInv
<1>4. \A g \in Hooks : SettledHook(hooks'[g], Now)
  BY IdleHookSettled DEF HookSave, TypeInv, TypeOK, QuietInv
<1> QED
  BY <1>3, <1>4 DEF HookSave, QuietInv, Now

\* The task the handler starts wakes a quiet period after the event was received.
LEMMA HookApplyQuiet == ASSUME TypeInv, QuietInv, NEW h \in Hooks, HookApply(h) PROVE QuietInv'
<1> DEFINE me == hooks[h]
<1>0. /\ rows \in Tables /\ hooks \in [Hooks -> HookStates] /\ me \in HookStates
      /\ SettledTable(rows, Now) /\ SettledHook(me, Now) /\ me.pc = "apply"
  BY DEF TypeInv, TypeOK, QuietInv, HookApply
<1>1. /\ me.snap \in Tables /\ SettledTable(me.snap, Now)
      /\ me.at # Never /\ Told(me.state, me.at, Now)
  BY <1>0 DEF HookStates, SettledHook
<1>2. PICK i \in In(me.snap) :
        /\ rows' = IF Row(i) THEN [rows EXCEPT ![i] = ApplyNodeState(me.snap[i], me.state, me.at)]
                             ELSE rows
        /\ IF StartsRecovery(me.snap[i], me.state)
           THEN Schedule(i, me.at, "node") ELSE UNCHANGED <<tasks, registry>>
        /\ hooks' = [hooks EXCEPT ![h] = [me EXCEPT !.pc = "evaluate", !.held = TRUE, !.cur = i]]
  BY DEF HookApply
<1> DEFINE new == [me EXCEPT !.pc = "evaluate", !.held = TRUE, !.cur = i]
           row == ApplyNodeState(me.snap[i], me.state, me.at)
<1>3. i \in Ids /\ me.snap[i] \in Incidents /\ SettledAt(me.snap[i], Now)
  BY <1>1 DEF In, Tables, SettledTable
<1>4. SettledTable(rows', Now)
  <2>1. SettledAt(row, Now)
    BY <1>3, ApplyNodeStateSettled
  <2>2. rows' = rows \/ rows' = [rows EXCEPT ![i] = row]
    BY <1>2
  <2> HIDE DEF row
  <2>3. SettledTable([rows EXCEPT ![i] = row], Now)
    BY <1>0, <2>1, WriteSettled
  <2> QED
    BY <1>0, <2>2, <2>3
<1>5. \A t \in TaskIds : SettledTask(tasks'[t], Now)
  <2>1. CASE StartsRecovery(me.snap[i], me.state)
    <3>1. Schedule(i, me.at, "node")
      BY <1>2, <2>1
    <3>2. RipeBy(me.at, clock + Quiet, Now)
      <4>1. Told("UP", me.at, Now)
        BY <1>1, <2>1 DEF StartsRecovery
      <4>2. PICK e \in Now.seen : e.state = "UP" /\ e.at = me.at /\ e.got <= Now.clock
        BY <4>1 DEF Told
      <4>3. e.got \in Nat /\ Now.clock = clock /\ clock \in Nat /\ Quiet \in Nat
        BY NowType, TopologyAssumption DEF Instants, Now
      <4> HIDE DEF me
      <4> QED
        BY <4>2, <4>3 DEF RipeBy
    <3> QED
      BY <1>1, <1>3, <3>1, <3>2, ScheduleSettled
  <2>2. CASE ~StartsRecovery(me.snap[i], me.state)
    <3>1. UNCHANGED tasks
      BY <1>2, <2>2
    <3> QED
      BY <3>1 DEF QuietInv
  <2> QED
    BY <2>1, <2>2
<1>6. \A g \in Hooks : SettledHook(hooks'[g], Now)
  <2>1. new.snap = me.snap /\ new.at = me.at /\ new.state = me.state
    <3> HIDE DEF me
    <3> QED
      BY <1>0 DEF HookStates
  <2>2. hooks' = [hooks EXCEPT ![h] = new]
    BY <1>2
  <2> HIDE DEF new, me
  <2>3. SettledHook(new, Now)
    BY <1>1, <2>1 DEF SettledHook
  <2> QED
    BY <1>0, <2>2, <2>3 DEF QuietInv
<1>7. UNCHANGED <<pipes, seen, clock>>
  BY DEF HookApply
<1> QED
  BY <1>4, <1>5, <1>6, <1>7 DEF QuietInv, Now

\* The explanation is written once more, condition and recovery are not.
LEMMA HookEvaluateQuiet == ASSUME TypeInv, QuietInv, NEW h \in Hooks, HookEvaluate(h) PROVE QuietInv'
<1> DEFINE me   == hooks[h]
           i    == me.cur
           old  == rows[i]
           row  == [old EXCEPT !.root = me.snap[i].root, !.impact = me.snap[i].impact]
           rest == [me.snap EXCEPT ![i] = Absent]
           new  == [me EXCEPT !.pc = "apply", !.held = FALSE, !.cur = NoId, !.snap = rest]
<1>0. /\ rows \in Tables /\ hooks \in [Hooks -> HookStates] /\ me \in HookStates
      /\ me.snap \in Tables /\ i \in Ids
      /\ SettledTable(rows, Now) /\ SettledHook(me, Now) /\ me.pc = "evaluate"
  BY DEF TypeInv, TypeOK, QuietInv, HookEvaluate, SoundHook, HookStates
<1>1. SettledTable(rows', Now)
  <2>1. CASE Row(i)
    <3>1. old \in Incidents /\ SettledAt(old, Now)
      BY <1>0, <2>1, RowType DEF SettledTable
    <3>2. row.cond = old.cond /\ row.rec = old.rec
      <4> HIDE DEF old, me
      <4> QED
        BY <3>1 DEF Incidents
    <3>3. rows' = [rows EXCEPT ![i] = row]
      BY <1>0, <2>1 DEF HookEvaluate, Tables
    <3> HIDE DEF row, old
    <3>4. SettledAt(row, Now)
      BY <3>1, <3>2, Present DEF SettledAt
    <3> QED
      BY <1>0, <3>3, <3>4, WriteSettled
  <2>2. CASE ~Row(i)
    BY <1>0, <2>2 DEF HookEvaluate
  <2> QED
    BY <2>1, <2>2
<1>2. \A g \in Hooks : SettledHook(hooks'[g], Now)
  <2>1. SettledTable(rest, Now)
    BY <1>0, AbsentSettled, WriteSettled DEF SettledHook
  <2>2. new.snap = rest /\ new.at = me.at /\ new.state = me.state
    <3> HIDE DEF rest, me
    <3> QED
      BY <1>0 DEF HookStates
  <2>3. hooks' = [hooks EXCEPT ![h] = IdleHook] \/ hooks' = [hooks EXCEPT ![h] = new]
    BY DEF HookEvaluate
  <2> HIDE DEF new, rest, me
  <2>4. SettledHook(new, Now)
    BY <1>0, <2>1, <2>2 DEF SettledHook
  <2> QED
    BY <1>0, <2>3, <2>4, IdleHookSettled DEF QuietInv
<1>3. UNCHANGED <<tasks, pipes, seen, clock>>
  BY DEF HookEvaluate
<1> QED
  BY <1>1, <1>2, <1>3 DEF QuietInv, Now

\* A task that confirms has waited: by the row it read, or by its own due time.
LEMMA ConfirmSettled ==
  ASSUME TypeInv, QuietInv, NEW t \in TaskIds, TaskRead(t), Confirms(tasks[t], rows[tasks[t].id])
  PROVE  SettledAt([rows[tasks[t].id] EXCEPT !.cond = "RECOVERED"], Now)
<1> DEFINE task == tasks[t]
           r    == rows[task.id]
           row  == [r EXCEPT !.cond = "RECOVERED"]
<1>0. task \in TaskStates /\ SettledTask(task, Now) /\ task # NoTask /\ clock \in Nat
  BY DEF TypeInv, TypeOK, QuietInv, TaskRead
<1>1. task.id \in Ids /\ task.at \in Nat /\ task.due \in Nat
  BY <1>0 DEF TaskStates
<1>2. r \in Incidents
  BY <1>1, RowType DEF Confirms, Row
<1>3. r.rec \in Nat /\ row.rec = r.rec
  <2> HIDE DEF r
  <2> QED
    BY <1>2 DEF Incidents
<1>4. clock >= task.due
  BY DEF TaskRead
<1>5. r.rec # Never /\ RipeAt(r.rec, Now)
  <2> HIDE DEF r, task
  <2>1. Confirms(task, r)
    BY DEF r, task
  <2>2. CASE task.by = "syslog"
    BY <1>0, <1>3, <2>1, <2>2, TopologyAssumption DEF Confirms, CanConfirm, RipeAt, Now
  <2>3. CASE task.by # "syslog"
    <3>1. r.rec = task.at /\ r.rec # Never /\ RipeBy(r.rec, task.due, Now)
      BY <1>0, <2>1, <2>3 DEF Confirms, SettledTask
    <3>2. \A e \in Now.seen : e.got \in Nat
      BY NowType DEF Instants
    <3>3. Now.clock = clock /\ Quiet \in Nat
      BY TopologyAssumption DEF Now
    <3> QED
      BY <1>0, <1>1, <1>3, <1>4, <3>1, <3>2, <3>3 DEF RipeBy, RipeAt
  <2> QED
    BY <2>2, <2>3
<1>6. SettledAt(row, Now)
  <2> HIDE DEF r
  <2> HIDE DEF row
  <2> QED
    BY <1>3, <1>5 DEF SettledAt
<1> QED
  BY <1>6

LEMMA TaskQuiet == ASSUME TypeInv, QuietInv, NEW t \in TaskIds, TaskNext(t) PROVE QuietInv'
<1> DEFINE task == tasks[t]
<1>0. /\ task \in TaskStates /\ SettledTask(task, Now) /\ task # NoTask
      /\ tasks \in [TaskIds -> TaskStates \cup {NoTask}]
      /\ rows \in Tables /\ SettledTable(rows, Now)
  BY DEF TypeInv, TypeOK, QuietInv, TaskNext, TaskRead, TaskWrite, TaskDropWrite, TaskEnd, Ends
<1>1. UNCHANGED <<pipes, hooks, seen, clock>>
  BY DEF TaskNext, TaskRead, TaskWrite, TaskDropWrite, TaskEnd
<1>2. ASSUME NEW v, SettledTask(v, Now), tasks' = [tasks EXCEPT ![t] = v], SettledTable(rows', Now)
      PROVE  QuietInv'
  <2>1. \A u \in TaskIds : SettledTask(tasks'[u], Now)
    BY <1>0, <1>2 DEF QuietInv
  <2> QED
    BY <1>1, <1>2, <2>1 DEF QuietInv, Now
<1>3. SettledTask(NoTask, Now)
  BY DEF SettledTask
<1> DEFINE ended == [task EXCEPT !.pc = "end"]
           lost  == [task EXCEPT !.pc = "lost"]
<1>4. SettledTask(ended, Now) /\ SettledTask(lost, Now)
  <2>1. /\ ended.row = task.row /\ ended.at = task.at /\ ended.due = task.due
        /\ lost.row = task.row /\ lost.at = task.at /\ lost.due = task.due
    <3> HIDE DEF task
    <3> QED
      BY <1>0 DEF TaskStates
  <2> HIDE DEF ended, lost
  <2> QED
    BY <1>0, <2>1 DEF SettledTask
<1>5. CASE TaskRead(t) /\ Confirms(task, rows[task.id])
  <2> DEFINE row == [rows[task.id] EXCEPT !.cond = "RECOVERED"]
             new == [task EXCEPT !.pc = "write", !.row = row]
  <2>1. SettledAt(row, Now)
    BY <1>5, ConfirmSettled
  <2>2. new.row = row /\ new.at = task.at /\ new.due = task.due
    <3> HIDE DEF row, task
    <3> QED
      BY <1>0 DEF TaskStates
  <2>3. tasks' = [tasks EXCEPT ![t] = new] /\ rows' = rows
    BY <1>5 DEF TaskRead
  <2> HIDE DEF new, row
  <2>4. SettledTask(new, Now)
    BY <1>0, <2>1, <2>2 DEF SettledTask
  <2>5. SettledTable(rows', Now)
    BY <1>0, <2>3
  <2> QED
    BY <1>2, <2>3, <2>4, <2>5
<1>6. CASE TaskRead(t) /\ ~Confirms(task, rows[task.id])
  <2>1. tasks' = [tasks EXCEPT ![t] = ended] /\ rows' = rows
    BY <1>6 DEF TaskRead
  <2>2. SettledTable(rows', Now)
    BY <1>0, <2>1
  <2> HIDE DEF ended
  <2> QED
    BY <1>2, <1>4, <2>1, <2>2
<1>7. CASE TaskWrite(t)
  <2>1. tasks' = [tasks EXCEPT ![t] = NoTask] \/ tasks' = [tasks EXCEPT ![t] = ended]
    BY <1>7 DEF TaskWrite, Written
  <2>2. rows' = rows \/ rows' = [rows EXCEPT ![task.id] = task.row]
    BY <1>7 DEF TaskWrite
  <2>3. SettledTable([rows EXCEPT ![task.id] = task.row], Now)
    BY <1>0, WriteSettled DEF SettledTask
  <2>4. SettledTable(rows', Now)
    BY <1>0, <2>2, <2>3
  <2> HIDE DEF ended
  <2> QED
    BY <1>2, <1>3, <1>4, <2>1, <2>4
<1>8. CASE TaskDropWrite(t) \/ TaskEnd(t)
  <2>1. /\ rows' = rows
        /\ \/ tasks' = [tasks EXCEPT ![t] = NoTask]
           \/ tasks' = [tasks EXCEPT ![t] = ended]
           \/ tasks' = [tasks EXCEPT ![t] = lost]
    BY <1>8 DEF TaskDropWrite, TaskEnd, Written, Ends
  <2>2. SettledTable(rows', Now)
    BY <1>0, <2>1
  <2> HIDE DEF ended, lost
  <2> QED
    BY <1>2, <1>3, <1>4, <2>1, <2>2
<1> QED
  BY <1>5, <1>6, <1>7, <1>8 DEF TaskNext

\* An operator changes the status, never condition or recovery.
LEMMA OperatorQuiet == ASSUME TypeInv, QuietInv, Operator PROVE QuietInv'
<1>0. rows \in Tables /\ SettledTable(rows, Now)
  BY DEF TypeInv, TypeOK, QuietInv
<1>1. SettledTable(rows', Now)
  <2>1. ASSUME NEW i \in Ids, NEW status, SetStatus(i, status) PROVE SettledTable(rows', Now)
    <3> DEFINE row == [rows[i] EXCEPT !.status = status]
    <3>1. rows[i] \in Incidents /\ SettledAt(rows[i], Now)
      BY <1>0, <2>1, RowType DEF SetStatus, SettledTable
    <3>2. row.cond = rows[i].cond /\ row.rec = rows[i].rec
      BY <3>1 DEF Incidents
    <3>3. rows' = [rows EXCEPT ![i] = row]
      BY <2>1 DEF SetStatus
    <3> HIDE DEF row
    <3>4. SettledAt(row, Now)
      BY <3>1, <3>2, Present DEF SettledAt
    <3> QED
      BY <1>0, <3>3, <3>4, WriteSettled
  <2>2. CASE Purge
    BY <1>0, <2>2, AbsentSettled DEF Purge, SettledTable
  <2> QED
    BY <2>1, <2>2 DEF Operator, Resolve, Reopen
<1>2. UNCHANGED <<pipes, hooks, tasks, seen, clock>>
  BY DEF Operator, Resolve, Reopen, SetStatus, Purge
<1> QED
  BY <1>1, <1>2 DEF QuietInv, Now

LEMMA RestartQuiet == ASSUME TypeInv, QuietInv, Restart PROVE QuietInv'
BY IdlePipeSettled, IdleHookSettled DEF Restart, QuietInv, SettledTask, Now

LEMMA TickQuiet == ASSUME TypeInv, QuietInv, Tick PROVE QuietInv'
<1>1. /\ clock \in Nat /\ clock' = clock + 1
      /\ UNCHANGED <<rows, pipes, hooks, tasks, seen>>
  BY DEF Tick, TypeInv, TypeOK
<1>2. Now' \in Instants /\ clock <= Now'.clock /\ seen \subseteq Now'.seen
  BY <1>1 DEF Now, Instants, TypeInv, TypeOK
<1>3. /\ SettledTable(rows, Now')
      /\ \A p \in Pipes : SettledPipe(pipes[p], Now')
      /\ \A h \in Hooks : SettledHook(hooks[h], Now')
      /\ \A t \in TaskIds : SettledTask(tasks[t], Now')
  BY <1>2, LaterQuiet
<1> QED
  BY <1>1, <1>3 DEF QuietInv

LEMMA QuietInit == Init => QuietInv
BY AbsentSettled, IdlePipeSettled, IdleHookSettled DEF Init, QuietInv, SettledTask

LEMMA QuietNext == TypeInv /\ QuietInv /\ [Next]_vars => QuietInv'
<1> SUFFICES ASSUME TypeInv, QuietInv, [Next]_vars PROVE QuietInv'
  OBVIOUS
<1>1. CASE UNCHANGED vars
  BY <1>1 DEF vars, QuietInv, Now
<1> QED
  BY <1>1, ReceiveQuiet, PipeQuiet, HookReceiveQuiet, HookSaveQuiet, HookApplyQuiet,
     HookEvaluateQuiet, TaskQuiet, OperatorQuiet, RestartQuiet, TickQuiet
     DEF Next, HookNext, Done

\* No incident is shown as RECOVERED before its recovery is a quiet period old: not by
\* a task that raced a newer recovery, not by a stale snapshot written back, for any
\* number of pipelines, handlers and restarts.
THEOREM RecoveredOnlyAfterQuiet == Spec => []RecoveredAfterQuiet
<1>1. QuietInv => RecoveredAfterQuiet
  BY DEF QuietInv, SettledTable, SettledAt, RecoveredAfterQuiet, Settled, RipeAt, Ripe, Now
<1> QED
  BY <1>1, QuietInit, QuietNext, BackendInvariant, PTL DEF Spec

-----------------------------------------------------------------------------
(* The children an incident lists are in the table, and so is the incident  *)
(* the pipeline continues.  A row is written from a copy, so the invariant  *)
(* speaks of every copy: whatever incident i it may be written to, the      *)
(* children it lists are among those "here".                                *)

Listed(i, r, here) ==
    r # Absent => \A k \in 1..r.kids : Append(i, k) \in Ids => Append(i, k) \in here

ListedTable(table, here) == \A i \in Ids : Listed(i, table[i], here)

\* The incident a pipeline works on is in the table once it was written.
Stored == {"kid", "kidUpdate", "kidSave", "kidParent", "evaluate", "finish"}

ListedPipe(m, here) ==
    /\ m.pc \in Working => Listed(m.id, m.row, here)
    /\ m.pc \in Stored => m.id \in here
    /\ m.pc \in {"kidUpdate", "kidSave"} => m.kidRow # Absent /\ Listed(m.kid, m.kidRow, here)
    /\ m.pc = "kidSave" => m.kid = Append(m.id, m.row.kids + 1)
    /\ ListedTable(m.snap, here)

ListedTask(m, here) ==
    /\ m # NoTask => Listed(m.id, m.row, here)
    /\ m # NoTask /\ m.pc \in {"write", "lost"} => m.row # Absent

ActiveIn(here) == active.id # NoId => active.id \in here

TableInv ==
    /\ ListedTable(rows, In(rows))
    /\ \A p \in Pipes : ListedPipe(pipes[p], In(rows))
    /\ \A h \in Hooks : ListedTable(hooks[h].snap, In(rows))
    /\ \A t \in TaskIds : ListedTask(tasks[t], In(rows))
    /\ ActiveIn(In(rows))

-----------------------------------------------------------------------------
(* Copies of an incident.                                                   *)

\* No operation on an incident but the creation of a child changes the list of children.
LEMMA KidsKept ==
  ASSUME NEW r \in Incidents, NEW kind, NEW o, NEW at, NEW s
  PROVE  /\ ApplyFault(r, kind, o, at).kids = r.kids
         /\ ApplyRecovery(r, o, at).kids = r.kids
         /\ ApplyNodeState(r, s, at).kids = r.kids
<1>1. ApplyFault(r, kind, o, at).kids = r.kids
  BY DEF ApplyFault, Incidents
<1>2. ApplyRecovery(r, o, at).kids = r.kids
  BY DEF ApplyRecovery, Incidents
<1>3. ApplyNodeState(r, s, at).kids = r.kids
  BY DEF ApplyNodeState, Incidents
<1> QED
  BY <1>1, <1>2, <1>3

LEMMA MergeKids ==
  ASSUME NEW existing \in Incidents, NEW projected \in Incidents, NEW kind, NEW o, NEW at
  PROVE  Merge(existing, projected, kind, o, at).kids = existing.kids
<1> DEFINE rca == IF KeepsRoot(existing, projected) THEN existing ELSE projected
           merged == [existing EXCEPT !.sec    = (@ \cup projected.sec) \ {projected.node},
                                      !.obj    = rca.obj,
                                      !.root   = rca.root,
                                      !.node   = rca.node,
                                      !.impact = rca.impact]
<1>1. merged \in Incidents /\ merged.kids = existing.kids
  <2>1. rca \in Incidents
    OBVIOUS
  <2> HIDE DEF rca
  <2> QED
    BY <2>1 DEF Incidents
<1>2. Merge(existing, projected, kind, o, at) = ApplyFault(merged, kind, o, at)
  BY DEF Merge
<1> HIDE DEF merged
<1> QED
  BY <1>1, <1>2, KidsKept

\* A new incident has no children.
LEMMA Childless ==
  ASSUME NEW i, NEW r, r.kids = 0, NEW here
  PROVE  Listed(i, r, here)
BY DEF Listed

LEMMA SameChildren ==
  ASSUME NEW i, NEW r \in Incidents, NEW new, new.kids = r.kids, NEW here, Listed(i, r, here)
  PROVE  Listed(i, new, here)
BY Present DEF Listed

LEMMA NoneListed == ASSUME NEW i, NEW here PROVE Listed(i, Absent, here) /\ ListedTable(NoRows, here)
BY DEF Listed, ListedTable, NoRows

\* A row that is written joins the others.
LEMMA ListedWrite ==
  ASSUME NEW table \in Tables, NEW i, NEW r, NEW here, ListedTable(table, here), Listed(i, r, here)
  PROVE  ListedTable([table EXCEPT ![i] = r], here)
BY DEF Tables, ListedTable

\* As long as no incident leaves the table, what was listed stays listed.
LEMMA ListedLater ==
  ASSUME NEW i, NEW r, NEW here, NEW later, here \subseteq later, Listed(i, r, here)
  PROVE  Listed(i, r, later)
BY DEF Listed

LEMMA TableLater ==
  ASSUME NEW table, NEW here, NEW later, here \subseteq later, ListedTable(table, here)
  PROVE  ListedTable(table, later)
BY ListedLater DEF ListedTable

LEMMA PipeLater ==
  ASSUME NEW m, NEW here, NEW later, here \subseteq later, ListedPipe(m, here)
  PROVE  ListedPipe(m, later)
BY ListedLater, TableLater DEF ListedPipe

LEMMA TaskLater ==
  ASSUME NEW m, NEW here, NEW later, here \subseteq later, ListedTask(m, here)
  PROVE  ListedTask(m, later)
BY ListedLater DEF ListedTask

\* A pipeline before its first write, between two writes, and on another path.
LEMMA EarlyPipe ==
  ASSUME NEW m, NEW here, m.pc \in {"get", "list", "update", "save"},
         Listed(m.id, m.row, here), ListedTable(m.snap, here)
  PROVE  ListedPipe(m, here)
BY DEF ListedPipe, Stored

LEMMA LatePipe ==
  ASSUME NEW m, NEW here, m.pc \in {"kid", "kidParent", "evaluate", "finish"}, m.id \in here,
         Listed(m.id, m.row, here), ListedTable(m.snap, here)
  PROVE  ListedPipe(m, here)
BY DEF ListedPipe, Stored

LEMMA OtherPipe ==
  ASSUME NEW m, NEW here, m.pc \in {"idle", "raw", "recUpdate", "recSchedule"},
         ListedTable(m.snap, here)
  PROVE  ListedPipe(m, here)
BY DEF ListedPipe, Stored, Working

LEMMA IdlePipeListed == ASSUME NEW here PROVE ListedPipe(IdlePipe, here)
BY NoneListed, OtherPipe DEF IdlePipe

-----------------------------------------------------------------------------
(* The steps of a pipeline.                                                 *)

\* What is not written and not taken up stays as it was.
LEMMA TableStep ==
  ASSUME TypeInv, TableInv, NEW p \in Pipes, NEW m, Step(p, m), ListedPipe(m, In(rows')),
         In(rows) \subseteq In(rows'), ListedTable(rows', In(rows')),
         UNCHANGED <<hooks, tasks, active>>
  PROVE  TableInv'
<1>1. \A q \in Pipes : ListedPipe(pipes'[q], In(rows'))
  BY PipeLater DEF TypeInv, TypeOK, Step, TableInv
<1>2. \A h \in Hooks : ListedTable(hooks'[h].snap, In(rows'))
  BY TableLater DEF TableInv
<1>3. \A t \in TaskIds : ListedTask(tasks'[t], In(rows'))
  BY TaskLater DEF TableInv
<1>4. active'.id # NoId => active'.id \in In(rows')
  BY DEF TableInv, ActiveIn
<1> QED
  BY <1>1, <1>2, <1>3, <1>4 DEF TableInv, ActiveIn

LEMMA ReadStep ==
  ASSUME TypeInv, TableInv, NEW p \in Pipes, NEW m, Step(p, m), ListedPipe(m, In(rows)),
         UNCHANGED <<rows, hooks, tasks, active>>
  PROVE  TableInv'
<1>1. ListedPipe(m, In(rows')) /\ In(rows) \subseteq In(rows') /\ ListedTable(rows', In(rows'))
  BY DEF TableInv
<1> QED
  BY <1>1, TableStep

\* A commit adds an incident or replaces one.
LEMMA CommitRow ==
  ASSUME TypeInv, TableInv, NEW i, NEW r, r # Absent, Listed(i, r, In(rows)),
         rows' = rows \/ rows' = [rows EXCEPT ![i] = r]
  PROVE  In(rows) \subseteq In(rows') /\ ListedTable(rows', In(rows'))
<1>1. rows \in Tables /\ ListedTable(rows, In(rows))
  BY DEF TypeInv, TypeOK, TableInv
<1>2. In(rows) \subseteq In(rows')
  BY <1>1 DEF In, Tables
<1>3. ListedTable(rows', In(rows))
  BY <1>1, ListedWrite
<1> QED
  BY <1>2, <1>3, TableLater

LEMMA CommitStep ==
  ASSUME TypeInv, TableInv, NEW p \in Pipes, NEW m, Step(p, m), ListedPipe(m, In(rows')),
         NEW i, NEW r, r # Absent, Listed(i, r, In(rows)),
         rows' = rows \/ rows' = [rows EXCEPT ![i] = r], UNCHANGED <<hooks, tasks, active>>
  PROVE  TableInv'
BY CommitRow, TableStep

\* What a pipeline that works on an incident holds.
LEMMA WorkingListed ==
  ASSUME TypeInv, TableInv, NEW p \in Pipes, pipes[p].pc \in Working
  PROVE  /\ ListedPipe(pipes[p], In(rows)) /\ Listed(pipes[p].id, pipes[p].row, In(rows))
         /\ ListedTable(pipes[p].snap, In(rows)) /\ ListedTable(rows, In(rows))
         /\ pipes[p].row # Absent
         /\ pipes[p].pc \in Stored => pipes[p].id \in In(rows)
<1>1. pipes[p].row \in Incidents
  BY DEF TypeInv, SoundPipe
<1> QED
  BY <1>1, Present DEF TableInv, ListedPipe

LEMMA NextKidListed ==
  ASSUME NEW m \in PipeStates, NEW here, m.id \in here, Listed(m.id, m.row, here),
         ListedTable(m.snap, here)
  PROVE  ListedPipe(NextKid(m), here)
<1> DEFINE new == NextKid(m)
<1>1. /\ new.pc \in {"kid", "evaluate", "finish"} /\ new.id = m.id
      /\ new.row = m.row /\ new.snap = m.snap
  BY DEF NextKid, PipeStates
<1> HIDE DEF new
<1> QED
  BY <1>1, LatePipe DEF new

LEMMA PersistedListed ==
  ASSUME NEW m \in PipeStates, m.row \in Incidents, NEW here, m.id \in here,
         Listed(m.id, m.row, here), ListedTable(m.snap, here)
  PROVE  ListedPipe(Persisted(m), here)
<1> DEFINE kids == {o \in m.row.impact : TypeOf[o] = "session"}
           new == [m EXCEPT !.todo = kids]
<1>1. kids \in SUBSET Objects
  BY DEF Incidents
<1> HIDE DEF kids
<1>2. new \in PipeStates /\ new.id = m.id /\ new.row = m.row /\ new.snap = m.snap
  BY <1>1 DEF PipeStates
<1>3. Persisted(m) = NextKid(new)
  BY DEF Persisted, kids
<1> HIDE DEF new
<1> QED
  BY <1>2, <1>3, NextKidListed

LEMMA ReceiveListed == ASSUME TypeInv, TableInv, NEW p \in Pipes, PipeReceive(p) PROVE TableInv'
<1>1. PICK k \in Kinds, o \in Observable :
        Step(p, [IdlePipe EXCEPT !.pc = "raw", !.kind = k, !.obj = o[1], !.src = o[2],
                                 !.at = clock])
  BY DEF PipeReceive
<1> DEFINE m == [IdlePipe EXCEPT !.pc = "raw", !.kind = k, !.obj = o[1], !.src = o[2],
                                 !.at = clock]
<1>2. m.pc = "raw" /\ m.snap = NoRows
  BY DEF IdlePipe
<1>3. Step(p, m) /\ UNCHANGED <<rows, hooks, tasks, active>>
  BY <1>1 DEF PipeReceive
<1> HIDE DEF m
<1>4. ListedPipe(m, In(rows))
  BY <1>2, NoneListed, OtherPipe
<1> QED
  BY <1>3, <1>4, ReadStep

\* A projection lists no children.
LEMMA AnalyzeListed == ASSUME TypeInv, TableInv, NEW p \in Pipes, PipeAnalyze(p) PROVE TableInv'
<1> DEFINE m == pipes[p]
<1>0. m \in PipeStates /\ ListedTable(m.snap, In(rows))
  BY DEF TypeInv, TypeOK, TableInv, ListedPipe
<1> DEFINE next(cur, goOn, added, status) ==
             [m EXCEPT !.pc  = IF goOn THEN "get" ELSE "list",
                       !.cur = cur,
                       !.id  = <<NewNumber>>,
                       !.kid = IF goOn THEN active.id ELSE NoId,
                       !.row = Projection(cur, added.obs, added.fault, status)]
       chosen(fits, status, cur) ==
         LET last  == Window(fits).root
             prev  == IF last # cur THEN last ELSE NoObj
             goOn  == active.id # NoId /\ active.root \in {cur, prev}
             added == BufferAdd(<<m.obj, m.src>>, m.kind, m.at, fits, cur)
         IN  buffer' = added /\ Step(p, next(cur, goOn, added, status))
<1>1. PICK fits \in (IF buffer.obs = {} THEN {TRUE} ELSE BOOLEAN),
           status \in (IF MaintenanceOn THEN {"OPEN", "CLOSED"} ELSE {"OPEN"}) :
        \E cur \in Roots[ObjectsOf(Window(fits).obs) \cup {m.obj}] \ {NoObj} : chosen(fits, status, cur)
  BY DEF PipeAnalyze
<1>2. PICK cur, goOn, added : Step(p, next(cur, goOn, added, status))
  <2> HIDE DEF next
  <2> QED
    BY <1>1
<1> DEFINE row == Projection(cur, added.obs, added.fault, status)
           new == next(cur, goOn, added, status)
<1>3. row.kids = 0
  BY DEF Projection
<1>4. new.pc \in {"get", "list"} /\ new.row = row /\ new.snap = m.snap
  <2> HIDE DEF row, m
  <2> QED
    BY <1>0 DEF PipeStates, row
<1>5. Step(p, new) /\ UNCHANGED <<rows, hooks, tasks, active>>
  BY <1>2 DEF PipeAnalyze
<1> HIDE DEF new, row, m
<1>6. ListedPipe(new, In(rows))
  BY <1>0, <1>3, <1>4, Childless, EarlyPipe
<1> QED
  BY <1>5, <1>6, ReadStep

\* A merge keeps the children of the stored incident.
LEMMA MergedListed ==
  ASSUME TypeInv, TableInv, NEW m, m.row \in Incidents, NEW i \in Ids, Row(i)
  PROVE  Listed(i, Merged(m, i), In(rows))
<1>1. rows[i] \in Incidents /\ Listed(i, rows[i], In(rows))
  BY RowType DEF TableInv, ListedTable
<1>2. Merged(m, i).kids = rows[i].kids
  BY <1>1, MergeKids DEF Merged
<1> QED
  BY <1>1, <1>2, SameChildren

LEMMA GetActiveListed == ASSUME TypeInv, TableInv, NEW p \in Pipes, PipeGetActive(p) PROVE TableInv'
<1> DEFINE m == pipes[p]
<1>0. m \in PipeStates /\ m.row \in Incidents /\ m.kid \in Ids
  BY WorkingPipe DEF PipeGetActive, At, Working
<1>1. Listed(m.id, m.row, In(rows)) /\ ListedTable(m.snap, In(rows))
  BY WorkingListed DEF PipeGetActive, At, Working
<1> DEFINE merged == Merged(m, m.kid)
           found  == [m EXCEPT !.pc = "update", !.path = "active", !.kid = NoId,
                               !.id = m.kid, !.row = merged]
           gone   == [m EXCEPT !.pc = "list", !.kid = NoId]
<1>2. Row(m.kid) => Listed(m.kid, merged, In(rows))
  BY <1>0, MergedListed
<1>3. /\ found.pc = "update" /\ found.id = m.kid /\ found.row = merged /\ found.snap = m.snap
      /\ gone.pc = "list" /\ gone.id = m.id /\ gone.row = m.row /\ gone.snap = m.snap
  <2> HIDE DEF merged, m
  <2> QED
    BY <1>0 DEF PipeStates
<1>4. Step(p, IF Row(m.kid) THEN found ELSE gone) /\ UNCHANGED <<rows, hooks, tasks, active>>
  BY DEF PipeGetActive
<1> HIDE DEF found, gone, merged, m
<1>5. /\ Row(m.kid) => ListedPipe(found, In(rows))
      /\ ListedPipe(gone, In(rows))
  BY <1>1, <1>2, <1>3, EarlyPipe
<1> QED
  BY <1>4, <1>5, ReadStep

LEMMA MatchListed == ASSUME TypeInv, TableInv, NEW p \in Pipes, PipeMatch(p) PROVE TableInv'
<1> DEFINE m == pipes[p]
<1>0. m \in PipeStates /\ m.row \in Incidents
  BY WorkingPipe DEF PipeMatch, At, Working
<1>1. Listed(m.id, m.row, In(rows)) /\ ListedTable(m.snap, In(rows))
  BY WorkingListed DEF PipeMatch, At, Working
<1>2. UNCHANGED <<rows, hooks, tasks, active>>
  BY DEF PipeMatch
<1>3. CASE Matching(m.cur) = {}
  <2> DEFINE row == ApplyFault(m.row, m.kind, m.obj, m.at)
             new == [m EXCEPT !.pc = "save", !.path = "new", !.row = row]
  <2>1. Listed(m.id, row, In(rows))
    BY <1>0, <1>1, KidsKept, SameChildren
  <2>2. Step(p, new)
    BY <1>3 DEF PipeMatch
  <2>3. new.pc = "save" /\ new.id = m.id /\ new.row = row /\ new.snap = m.snap
    <3> HIDE DEF row, m
    <3> QED
      BY <1>0 DEF PipeStates
  <2> HIDE DEF new, row, m
  <2>4. ListedPipe(new, In(rows))
    BY <1>1, <2>1, <2>3, EarlyPipe
  <2> QED
    BY <1>2, <2>2, <2>4, ReadStep
<1>4. CASE Matching(m.cur) # {}
  <2>1. PICK i \in Matching(m.cur) :
          Step(p, [m EXCEPT !.pc = "update", !.path = "match", !.id = i, !.row = Merged(m, i)])
    BY <1>4 DEF PipeMatch
  <2> DEFINE row == Merged(m, i)
             new == [m EXCEPT !.pc = "update", !.path = "match", !.id = i, !.row = row]
  <2>2. i \in Ids /\ Row(i)
    BY DEF Matching, Open
  <2>3. Listed(i, row, In(rows))
    BY <1>0, <2>2, MergedListed
  <2>4. Step(p, new)
    BY <2>1
  <2>5. new.pc = "update" /\ new.id = i /\ new.row = row /\ new.snap = m.snap
    <3> HIDE DEF row, m
    <3> QED
      BY <1>0 DEF PipeStates
  <2> HIDE DEF new, row, m
  <2>6. ListedPipe(new, In(rows))
    BY <1>1, <2>3, <2>5, EarlyPipe
  <2> QED
    BY <1>2, <2>4, <2>6, ReadStep
<1> QED
  BY <1>3, <1>4

\* What a pipeline has written is in the table.
LEMMA WrittenIsIn ==
  ASSUME TypeInv, NEW i \in Ids, NEW r, r # Absent, rows' = [rows EXCEPT ![i] = r]
  PROVE  i \in In(rows')
BY DEF TypeInv, TypeOK, Tables, In

LEMMA PersistStep ==
  ASSUME TypeInv, TableInv, NEW p \in Pipes, pipes[p].pc \in {"update", "save"},
         rows' = [rows EXCEPT ![pipes[p].id] = pipes[p].row], Step(p, Persisted(pipes[p])),
         UNCHANGED <<hooks, tasks, active>>
  PROVE  TableInv'
<1> DEFINE m == pipes[p]
<1>0. m \in PipeStates /\ m.row \in Incidents /\ m.id \in Ids
  BY WorkingPipe DEF Working
<1>1. Listed(m.id, m.row, In(rows)) /\ ListedTable(m.snap, In(rows)) /\ m.row # Absent
  BY WorkingListed DEF Working
<1>2. rows' = [rows EXCEPT ![m.id] = m.row] /\ Step(p, Persisted(m))
  OBVIOUS
<1> HIDE DEF m
<1>3. In(rows) \subseteq In(rows') /\ m.id \in In(rows')
  BY <1>0, <1>1, <1>2, CommitRow, WrittenIsIn
<1>4. ListedPipe(Persisted(m), In(rows'))
  BY <1>0, <1>1, <1>3, ListedLater, TableLater, PersistedListed
<1> QED
  BY <1>1, <1>2, <1>4, CommitStep

LEMMA UpdateListed == ASSUME TypeInv, TableInv, NEW p \in Pipes, PipeUpdate(p) PROVE TableInv'
<1> DEFINE m == pipes[p]
<1>0. m \in PipeStates /\ m.row \in Incidents
  BY WorkingPipe DEF PipeUpdate, At, Working
<1>1. Listed(m.id, m.row, In(rows)) /\ ListedTable(m.snap, In(rows))
  BY WorkingListed DEF PipeUpdate, At, Working
<1>2. UNCHANGED <<hooks, tasks, active>>
  BY DEF PipeUpdate
<1>3. CASE Row(m.id)
  <2>1. rows' = [rows EXCEPT ![m.id] = m.row] /\ Step(p, Persisted(m)) /\ m.pc = "update"
    BY <1>3 DEF PipeUpdate, At
  <2> QED
    BY <1>2, <2>1, PersistStep
<1>4. CASE ~Row(m.id)
  <2> DEFINE row  == ApplyFault(m.row, m.kind, m.obj, m.at)
             list == [m EXCEPT !.pc = "list"]
             save == [m EXCEPT !.pc = "save", !.path = "new", !.row = row]
  <2>1. Listed(m.id, row, In(rows))
    BY <1>0, <1>1, KidsKept, SameChildren
  <2>2. /\ list.pc = "list" /\ list.id = m.id /\ list.row = m.row /\ list.snap = m.snap
        /\ save.pc = "save" /\ save.id = m.id /\ save.row = row   /\ save.snap = m.snap
    <3> HIDE DEF row, m
    <3> QED
      BY <1>0 DEF PipeStates
  <2>3. rows' = rows /\ (Step(p, list) \/ Step(p, save))
    BY <1>4 DEF PipeUpdate
  <2> HIDE DEF row, list, save, m
  <2>4. ListedPipe(list, In(rows)) /\ ListedPipe(save, In(rows))
    BY <1>1, <2>1, <2>2, EarlyPipe
  <2> QED
    BY <1>2, <2>3, <2>4, ReadStep
<1> QED
  BY <1>3, <1>4

LEMMA SaveListed == ASSUME TypeInv, TableInv, NEW p \in Pipes, PipeSave(p) PROVE TableInv'
BY PersistStep DEF PipeSave, At

\* The number of a new child is the next one of the parent's list.
LEMMA KidListed == ASSUME TypeInv, TableInv, NEW p \in Pipes, PipeKid(p) PROVE TableInv'
<1> DEFINE m == pipes[p]
<1>0. m \in PipeStates /\ m.row \in Incidents /\ m.pc = "kid"
  BY WorkingPipe DEF PipeKid, At, Working
<1>1. /\ Listed(m.id, m.row, In(rows)) /\ ListedTable(m.snap, In(rows)) /\ m.id \in In(rows)
      /\ ListedTable(rows, In(rows))
  BY WorkingListed DEF PipeKid, At, Working, Stored
<1>2. UNCHANGED <<rows, hooks, tasks, active>>
  BY DEF PipeKid
<1>3. PICK o \in m.todo :
        LET rest == [m EXCEPT !.todo = @ \ {o}]
            new  == Append(m.id, m.row.kids + 1)
        IN  IF ChildrenOf(m.id, o) # {}
            THEN \E c \in ChildrenOf(m.id, o) :
                   Step(p, IF FaultMatches(rows[c], m.kind, m.obj)
                           THEN [rest EXCEPT !.pc = "kidUpdate", !.kid = c,
                                             !.kidRow = ApplyFault(rows[c], m.kind, m.obj, m.at)]
                           ELSE NextKid(rest))
            ELSE /\ new \in Ids
                 /\ Step(p, [rest EXCEPT !.pc = "kidSave", !.kid = new, !.kidRow = Child(m.row, o)])
  BY DEF PipeKid
<1> DEFINE rest == [m EXCEPT !.todo = @ \ {o}]
<1>4. rest \in PipeStates /\ rest.id = m.id /\ rest.row = m.row /\ rest.snap = m.snap
  <2> HIDE DEF m
  <2> QED
    BY <1>0 DEF PipeStates
<1>5. ASSUME NEW pc \in {"kidUpdate", "kidSave"}, NEW c, NEW r, r \in Incidents,
             Listed(c, r, In(rows)), pc = "kidSave" => c = Append(m.id, m.row.kids + 1),
             Step(p, [rest EXCEPT !.pc = pc, !.kid = c, !.kidRow = r])
      PROVE  TableInv'
  <2> DEFINE new == [rest EXCEPT !.pc = pc, !.kid = c, !.kidRow = r]
  <2>1. /\ new.pc = pc /\ new.kid = c /\ new.kidRow = r
        /\ new.id = rest.id /\ new.row = rest.row /\ new.snap = rest.snap
    <3> HIDE DEF rest
    <3> QED
      BY <1>4 DEF PipeStates
  <2>2. Step(p, new) /\ r # Absent
    BY <1>5, Present
  <2> HIDE DEF new, rest, m
  <2>3. ListedPipe(new, In(rows))
    BY <1>1, <1>4, <1>5, <2>1, <2>2 DEF ListedPipe
  <2> QED
    BY <1>2, <2>2, <2>3, ReadStep
<1>6. Step(p, NextKid(rest)) => TableInv'
  <2> HIDE DEF rest, m
  <2>1. ListedPipe(NextKid(rest), In(rows))
    BY <1>1, <1>4, NextKidListed
  <2> QED
    BY <1>2, <2>1, ReadStep
<1>7. CASE ChildrenOf(m.id, o) # {}
  <2>1. PICK c \in ChildrenOf(m.id, o) :
          Step(p, IF FaultMatches(rows[c], m.kind, m.obj)
                  THEN [rest EXCEPT !.pc = "kidUpdate", !.kid = c,
                                    !.kidRow = ApplyFault(rows[c], m.kind, m.obj, m.at)]
                  ELSE NextKid(rest))
    BY <1>3, <1>7
  <2> DEFINE row == ApplyFault(rows[c], m.kind, m.obj, m.at)
  <2>2. row \in Incidents /\ Listed(c, row, In(rows))
    <3>1. c \in Ids /\ Row(c)
      BY DEF ChildrenOf
    <3>2. rows[c] \in Incidents /\ Listed(c, rows[c], In(rows))
      BY <1>1, <3>1, RowType DEF ListedTable
    <3>3. m.at \in Nat
      BY <1>0 DEF PipeStates
    <3>4. row \in Incidents
      BY <3>2, <3>3, ApplyFaultType
    <3>5. row.kids = rows[c].kids
      BY <3>2, KidsKept
    <3> HIDE DEF row
    <3> QED
      BY <3>2, <3>4, <3>5, SameChildren
  <2>3. \/ Step(p, [rest EXCEPT !.pc = "kidUpdate", !.kid = c, !.kidRow = row])
        \/ Step(p, NextKid(rest))
    BY <2>1
  <2> HIDE DEF row, rest, m
  <2> QED
    BY <1>5, <1>6, <2>2, <2>3
<1>8. CASE ChildrenOf(m.id, o) = {}
  <2> DEFINE kid == Append(m.id, m.row.kids + 1)
             row == Child(m.row, o)
  <2>1. Step(p, [rest EXCEPT !.pc = "kidSave", !.kid = kid, !.kidRow = row])
    BY <1>3, <1>8
  <2>2. row \in Incidents /\ row.kids = 0
    <3>1. o \in Objects
      BY <1>0, <1>3 DEF PipeStates
    <3>2. row.kids = 0
      BY <1>0 DEF Child, Incidents
    <3> QED
      BY <1>0, <3>1, <3>2, ChildType
  <2> HIDE DEF row, rest
  <2>3. Listed(kid, row, In(rows))
    BY <2>2, Childless
  <2>4. kid = Append(m.id, m.row.kids + 1)
    OBVIOUS
  <2> HIDE DEF kid, m
  <2> QED
    BY <1>5, <2>1, <2>2, <2>3, <2>4
<1> QED
  BY <1>7, <1>8

LEMMA KidUpdateListed == ASSUME TypeInv, TableInv, NEW p \in Pipes, PipeKidUpdate(p) PROVE TableInv'
<1> DEFINE m == pipes[p]
<1>0. m \in PipeStates
  BY WorkingPipe DEF PipeKidUpdate, At, Working
<1>1. /\ Listed(m.id, m.row, In(rows)) /\ ListedTable(m.snap, In(rows)) /\ m.id \in In(rows)
      /\ ListedPipe(m, In(rows)) /\ m.pc = "kidUpdate"
  BY WorkingListed DEF PipeKidUpdate, At, Working, Stored
<1>2. m.kidRow # Absent /\ Listed(m.kid, m.kidRow, In(rows))
  BY <1>1 DEF ListedPipe
<1>3. /\ rows' = rows \/ rows' = [rows EXCEPT ![m.kid] = m.kidRow]
      /\ Step(p, NextKid(m))
      /\ UNCHANGED <<hooks, tasks, active>>
  BY DEF PipeKidUpdate
<1> HIDE DEF m
<1>4. In(rows) \subseteq In(rows')
  BY <1>2, <1>3, CommitRow
<1>5. ListedPipe(NextKid(m), In(rows))
  BY <1>0, <1>1, NextKidListed
<1>6. ListedPipe(NextKid(m), In(rows'))
  BY <1>4, <1>5, PipeLater
<1> QED
  BY <1>2, <1>3, <1>6, CommitStep

\* The child is in the table before the parent lists it.
LEMMA KidSaveListed == ASSUME TypeInv, TableInv, NEW p \in Pipes, PipeKidSave(p) PROVE TableInv'
<1> DEFINE m   == pipes[p]
           row == [m.row EXCEPT !.kids = @ + 1]
           new == [m EXCEPT !.pc = "kidParent", !.row = row]
<1>0. m \in PipeStates /\ m.row \in Incidents
  BY WorkingPipe DEF PipeKidSave, At, Working
<1>1. /\ Listed(m.id, m.row, In(rows)) /\ ListedTable(m.snap, In(rows)) /\ m.id \in In(rows)
      /\ ListedPipe(m, In(rows)) /\ m.pc = "kidSave"
  BY WorkingListed DEF PipeKidSave, At, Working, Stored
<1>2. /\ m.kidRow # Absent /\ Listed(m.kid, m.kidRow, In(rows))
      /\ m.kid = Append(m.id, m.row.kids + 1)
  BY <1>1 DEF ListedPipe
<1>3. /\ rows' = [rows EXCEPT ![m.kid] = m.kidRow]
      /\ Step(p, new)
      /\ UNCHANGED <<hooks, tasks, active>>
  BY DEF PipeKidSave
<1>4. In(rows) \subseteq In(rows')
  <2> HIDE DEF m
  <2> QED
    BY <1>2, <1>3, CommitRow
<1>5. Listed(m.id, row, In(rows'))
  <2>1. row.kids = m.row.kids + 1 /\ m.row.kids \in Nat /\ m.row # Absent
    BY <1>0, Present DEF Incidents
  <2>2. Listed(m.id, m.row, In(rows'))
    BY <1>1, <1>4, ListedLater
  <2>3. m.kid \in Ids => m.kid \in In(rows')
    BY <1>2, <1>3, WrittenIsIn
  <2> SUFFICES ASSUME NEW k \in 1..row.kids, Append(m.id, k) \in Ids
               PROVE  Append(m.id, k) \in In(rows')
    BY DEF Listed
  <2> HIDE DEF row, m
  <2>4. CASE k = m.row.kids + 1
    BY <1>2, <2>3, <2>4
  <2>5. CASE k # m.row.kids + 1
    <3>1. k \in 1..m.row.kids
      BY <2>1, <2>5
    <3> QED
      BY <2>1, <2>2, <3>1 DEF Listed
  <2> QED
    BY <2>4, <2>5
<1>6. new.pc = "kidParent" /\ new.id = m.id /\ new.row = row /\ new.snap = m.snap
  <2> HIDE DEF row, m
  <2> QED
    BY <1>0 DEF PipeStates
<1> HIDE DEF new, row, m
<1>7. ListedPipe(new, In(rows'))
  BY <1>1, <1>4, <1>5, <1>6, TableLater, LatePipe
<1> QED
  BY <1>2, <1>3, <1>7, CommitStep

LEMMA KidParentListed == ASSUME TypeInv, TableInv, NEW p \in Pipes, PipeKidParent(p) PROVE TableInv'
<1> DEFINE m == pipes[p]
<1>0. m \in PipeStates
  BY WorkingPipe DEF PipeKidParent, At, Working
<1>1. /\ Listed(m.id, m.row, In(rows)) /\ ListedTable(m.snap, In(rows)) /\ m.id \in In(rows)
      /\ m.row # Absent
  BY WorkingListed DEF PipeKidParent, At, Working, Stored
<1>2. /\ rows' = rows \/ rows' = [rows EXCEPT ![m.id] = m.row]
      /\ Step(p, NextKid(m))
      /\ UNCHANGED <<hooks, tasks, active>>
  BY DEF PipeKidParent
<1> HIDE DEF m
<1>3. In(rows) \subseteq In(rows')
  BY <1>1, <1>2, CommitRow
<1>4. ListedPipe(NextKid(m), In(rows))
  BY <1>0, <1>1, NextKidListed
<1>5. ListedPipe(NextKid(m), In(rows'))
  BY <1>3, <1>4, PipeLater
<1> QED
  BY <1>1, <1>2, <1>5, CommitStep

LEMMA EvaluateListed == ASSUME TypeInv, TableInv, NEW p \in Pipes, PipeEvaluate(p) PROVE TableInv'
<1> DEFINE m   == pipes[p]
           new == [m EXCEPT !.pc = "finish"]
           old == rows[m.id]
           row == [old EXCEPT !.root = m.row.root, !.impact = m.row.impact]
<1>0. m \in PipeStates /\ m.id \in Ids
  BY WorkingPipe DEF PipeEvaluate, At, Working
<1>1. /\ Listed(m.id, m.row, In(rows)) /\ ListedTable(m.snap, In(rows)) /\ m.id \in In(rows)
      /\ ListedTable(rows, In(rows)) /\ Row(m.id) /\ rows \in Tables
  BY WorkingListed DEF PipeEvaluate, At, Working, Stored, In, Row, TypeInv, TypeOK
<1>2. row # Absent /\ Listed(m.id, row, In(rows))
  <2>1. old \in Incidents /\ Listed(m.id, old, In(rows))
    BY <1>0, <1>1, RowType DEF ListedTable
  <2>2. row.kids = old.kids /\ row.status = old.status /\ old.status # "absent"
    <3> HIDE DEF old, m
    <3> QED
      BY <2>1 DEF Incidents, Statuses
  <2> HIDE DEF row, old
  <2> QED
    BY <2>1, <2>2, SameChildren DEF Absent
<1>3. new.pc = "finish" /\ new.id = m.id /\ new.row = m.row /\ new.snap = m.snap
  <2> HIDE DEF m
  <2> QED
    BY <1>0 DEF PipeStates
<1>4. /\ rows' = [rows EXCEPT ![m.id] = row]
      /\ Step(p, new) /\ UNCHANGED <<hooks, tasks, active>>
  BY <1>0, <1>1 DEF PipeEvaluate, Tables
<1> HIDE DEF new, row, old, m
<1>5. In(rows) \subseteq In(rows')
  BY <1>2, <1>4, CommitRow
<1>6. ListedPipe(new, In(rows))
  BY <1>1, <1>3, LatePipe
<1>7. ListedPipe(new, In(rows'))
  BY <1>5, <1>6, PipeLater
<1> QED
  BY <1>2, <1>4, <1>7, CommitStep

LEMMA UnexplainedListed == ASSUME TypeInv, TableInv, NEW p \in Pipes, PipeUnexplained(p) PROVE TableInv'
BY IdlePipeListed, ReadStep DEF PipeUnexplained

\* The pipeline continues the incident it has just written.
LEMMA FinishListed == ASSUME TypeInv, TableInv, NEW p \in Pipes, PipeFinish(p) PROVE TableInv'
<1> DEFINE m == pipes[p]
<1>1. m.id \in In(rows) /\ m.id \in Ids
  BY WorkingListed, WorkingPipe DEF PipeFinish, At, Working, Stored
<1>2. active'.id \in {active.id, m.id}
  BY DEF PipeFinish, TypeInv, TypeOK
<1>3. Step(p, IdlePipe) /\ UNCHANGED <<rows, hooks, tasks>>
  BY DEF PipeFinish
<1>4. \A q \in Pipes : ListedPipe(pipes'[q], In(rows))
  BY <1>3, IdlePipeListed DEF Step, TypeInv, TypeOK, TableInv
<1> HIDE DEF m
<1> QED
  BY <1>1, <1>2, <1>3, <1>4 DEF TableInv, ActiveIn

LEMMA ListRecoveryListed ==
  ASSUME TypeInv, TableInv, NEW p \in Pipes, PipeListRecovery(p)
  PROVE  TableInv'
<1> DEFINE m    == pipes[p]
           hits == {i \in Ids : Row(i) /\ RecoveryMatches(rows[i], m.obj)}
           snap == [i \in Ids |-> IF i \in hits THEN ApplyRecovery(rows[i], m.obj, m.at)
                                                ELSE Absent]
           new  == [m EXCEPT !.pc = "recUpdate", !.snap = snap]
<1>0. m \in PipeStates /\ ListedTable(rows, In(rows))
  BY DEF TypeInv, TypeOK, TableInv
<1>1. ListedTable(snap, In(rows))
  <2>1. ASSUME NEW i \in Ids PROVE Listed(i, snap[i], In(rows))
    <3>1. CASE i \in hits
      <4> DEFINE row == ApplyRecovery(rows[i], m.obj, m.at)
      <4>1. rows[i] \in Incidents /\ Listed(i, rows[i], In(rows))
        BY <1>0, <3>1, RowType DEF ListedTable
      <4>2. row.kids = rows[i].kids
        BY <4>1, KidsKept
      <4>3. snap[i] = row
        BY <3>1
      <4> HIDE DEF row, snap
      <4> QED
        BY <4>1, <4>2, <4>3, SameChildren
    <3>2. CASE i \notin hits
      BY <3>2, NoneListed
    <3> QED
      BY <3>1, <3>2
  <2> HIDE DEF snap
  <2> QED
    BY <2>1 DEF ListedTable
<1>2. new.pc = "recUpdate" /\ new.snap = snap
  <2> HIDE DEF snap, m
  <2> QED
    BY <1>0 DEF PipeStates
<1>3. /\ Step(p, IdlePipe) \/ Step(p, new)
      /\ UNCHANGED <<rows, hooks, tasks, active>>
  BY DEF PipeListRecovery
<1> HIDE DEF new, snap, m
<1>4. ListedPipe(new, In(rows))
  BY <1>1, <1>2, OtherPipe
<1> QED
  BY <1>3, <1>4, IdlePipeListed, ReadStep

LEMMA RecoveryUpdateListed ==
  ASSUME TypeInv, TableInv, NEW p \in Pipes, PipeRecoveryUpdate(p)
  PROVE  TableInv'
<1> DEFINE m == pipes[p]
<1>0. m \in PipeStates /\ m.snap \in Tables /\ ListedTable(m.snap, In(rows))
  BY DEF TypeInv, TypeOK, TableInv, ListedPipe, PipeStates
<1>1. UNCHANGED <<hooks, tasks, active>>
  BY DEF PipeRecoveryUpdate
<1>2. PICK i \in In(m.snap) :
         LET rest == [m EXCEPT !.snap[i] = Absent]
         IN  IF Row(i)
             THEN /\ rows' = [rows EXCEPT ![i] = m.snap[i]]
                  /\ Step(p, [rest EXCEPT !.pc = "recSchedule", !.id = i, !.hit = TRUE])
             ELSE /\ Step(p, [rest EXCEPT !.pc = "recSchedule", !.id = NoId])
                  /\ UNCHANGED rows
  BY DEF PipeRecoveryUpdate
<1> DEFINE snap == [m.snap EXCEPT ![i] = Absent]
           rest == [m EXCEPT !.snap = snap]
           hit  == [rest EXCEPT !.pc = "recSchedule", !.id = i, !.hit = TRUE]
           miss == [rest EXCEPT !.pc = "recSchedule", !.id = NoId]
           row  == m.snap[i]
<1>3. row # Absent /\ Listed(i, row, In(rows)) /\ ListedTable(snap, In(rows))
  BY <1>0, NoneListed, ListedWrite DEF ListedTable, In
<1>4. hit.pc = "recSchedule" /\ hit.snap = snap /\ miss.pc = "recSchedule" /\ miss.snap = snap
  <2> HIDE DEF snap, m
  <2> QED
    BY <1>0 DEF PipeStates
<1>5. /\ rows' = rows \/ rows' = [rows EXCEPT ![i] = row]
      /\ Step(p, hit) \/ Step(p, miss)
  BY <1>2
<1> HIDE DEF hit, miss, rest, snap, row, m
<1>6. In(rows) \subseteq In(rows')
  BY <1>3, <1>5, CommitRow
<1>7. ListedPipe(hit, In(rows)) /\ ListedPipe(miss, In(rows))
  BY <1>3, <1>4, OtherPipe
<1>8. ListedPipe(hit, In(rows')) /\ ListedPipe(miss, In(rows'))
  BY <1>6, <1>7, PipeLater
<1> QED
  BY <1>1, <1>3, <1>5, <1>8, CommitStep

\* A task that starts has nothing to write yet.
LEMMA ScheduleListed ==
  ASSUME TypeInv, TableInv, NEW i \in Ids, NEW at, NEW by, Schedule(i, at, by)
  PROVE  \A t \in TaskIds : ListedTask(tasks'[t], In(rows))
<1> DEFINE old  == registry[i]
           rest == Cancelled(tasks, old)
           new  == [id |-> i, at |-> at, by |-> by, due |-> clock + Quiet,
                    pc |-> "sleep", row |-> Absent, cancelled |-> FALSE]
<1>0. /\ tasks \in [TaskIds -> TaskStates \cup {NoTask}]
      /\ \A t \in TaskIds : ListedTask(tasks[t], In(rows))
      /\ old \in TaskIds \cup {NoTask}
  BY DEF TypeInv, TypeOK, TableInv
<1>1. PICK t \in TaskIds : tasks' = [rest EXCEPT ![t] = new]
  BY DEF Schedule
<1>2. ListedTask(new, In(rows))
  <2>1. new.row = Absent /\ new.pc = "sleep"
    OBVIOUS
  <2> HIDE DEF new
  <2> QED
    BY <2>1, NoneListed DEF ListedTask
<1>3. DOMAIN rest = TaskIds /\ \A u \in TaskIds : ListedTask(rest[u], In(rows))
  <2>1. CASE old = NoTask \/ tasks[old] = NoTask
    <3>1. rest = tasks
      BY <2>1 DEF Cancelled
    <3> QED
      BY <1>0, <3>1
  <2>2. CASE old # NoTask /\ tasks[old] # NoTask
    <3> DEFINE gone == Halted(tasks[old])
    <3>1. tasks[old] \in TaskStates /\ ListedTask(tasks[old], In(rows))
      BY <1>0, <2>2
    <3>2. rest = [tasks EXCEPT ![old] = gone]
      BY <1>0, <2>2, CancelledHalts
    <3>3. /\ gone.id = tasks[old].id /\ gone.row = tasks[old].row
          /\ gone.pc \in {"write", "lost"} => gone.pc = tasks[old].pc
      <4> HIDE DEF old
      <4> QED
        BY <3>1 DEF Halted, TaskStates
    <3> HIDE DEF gone, rest, old
    <3>4. ListedTask(gone, In(rows))
      BY <2>2, <3>1, <3>3 DEF ListedTask
    <3> QED
      BY <1>0, <3>2, <3>4
  <2> QED
    BY <2>1, <2>2
<1> HIDE DEF rest, new
<1> QED
  BY <1>1, <1>2, <1>3

\* A recovery that ends an outage forgets the active incident.
LEMMA RecoveryScheduleListed ==
  ASSUME TypeInv, TableInv, NEW p \in Pipes, PipeRecoverySchedule(p)
  PROVE  TableInv'
<1> DEFINE m   == pipes[p]
           new == [m EXCEPT !.pc = "recUpdate"]
<1>0. m \in PipeStates /\ ListedTable(m.snap, In(rows))
  BY DEF TypeInv, TypeOK, TableInv, ListedPipe
<1>1. UNCHANGED <<rows, hooks>> /\ (Step(p, IdlePipe) \/ Step(p, new))
  BY DEF PipeRecoverySchedule
<1>2. \A t \in TaskIds : ListedTask(tasks'[t], In(rows))
  <2>1. CASE m.id # NoId
    <3>1. m.id \in Ids
      BY <1>0, <2>1 DEF PipeStates
    <3> QED
      BY <2>1, <3>1, ScheduleListed DEF PipeRecoverySchedule
  <2>2. CASE m.id = NoId
    BY <2>2 DEF PipeRecoverySchedule, TableInv
  <2> QED
    BY <2>1, <2>2
<1>3. new.pc = "recUpdate" /\ new.snap = m.snap
  <2> HIDE DEF m
  <2> QED
    BY <1>0 DEF PipeStates
<1>4. active' \in {active, NoActive}
  BY DEF PipeRecoverySchedule
<1> HIDE DEF new, m
<1>5. ListedPipe(new, In(rows))
  BY <1>0, <1>3, OtherPipe
<1>6. \A q \in Pipes : ListedPipe(pipes'[q], In(rows))
  BY <1>1, <1>5, IdlePipeListed DEF TypeInv, TypeOK, Step, TableInv
<1> QED
  BY <1>1, <1>2, <1>4, <1>6 DEF TableInv, ActiveIn, NoActive

LEMMA PipeListed == ASSUME TypeInv, TableInv, NEW p \in Pipes, PipeNext(p) PROVE TableInv'
BY AnalyzeListed, UnexplainedListed, GetActiveListed, MatchListed, UpdateListed, SaveListed,
   KidListed, KidUpdateListed, KidSaveListed, KidParentListed, EvaluateListed, FinishListed,
   ListRecoveryListed, RecoveryUpdateListed, RecoveryScheduleListed
   DEF PipeNext

-----------------------------------------------------------------------------
(* Handlers, tasks, operators and time.                                     *)

\* What stays as it was when the table grows.
LEMMA OthersListed ==
  ASSUME TableInv, In(rows) \subseteq In(rows'), UNCHANGED <<pipes, active>>
  PROVE  /\ \A p \in Pipes : ListedPipe(pipes'[p], In(rows'))
         /\ active'.id # NoId => active'.id \in In(rows')
BY PipeLater DEF TableInv, ActiveIn

LEMMA HookReceiveListed == ASSUME TypeInv, TableInv, NEW h \in Hooks, HookReceive(h) PROVE TableInv'
<1>1. PICK n \in Nodes, s \in Events, at \in 1..(clock + Skew) :
        LET e    == [node |-> n, state |-> s, at |-> at, got |-> clock]
            rel  == RelatedTo(n, s)
            mine == [IdleHook EXCEPT !.node = n, !.state = s, !.at = at]
        IN
        /\ seen' = IF Received(e) THEN seen ELSE seen \cup {e}
        /\ IF Received(e) \/ Stale(n, at) THEN UNCHANGED hooks
           ELSE IF rel # {}
           THEN hooks' = [hooks EXCEPT ![h] =
                  [mine EXCEPT !.pc = "apply", !.held = TRUE,
                               !.snap = [i \in Ids |-> IF i \in rel THEN rows[i] ELSE Absent]]]
           ELSE IF s = "DOWN"
           THEN /\ NextTop \in Ids
                /\ hooks' = [hooks EXCEPT ![h] =
                     [mine EXCEPT !.pc = "save", !.snap = [NoRows EXCEPT ![NextTop] = NodeIncident(n, at)]]]
           ELSE UNCHANGED hooks
  BY ZenonT(60) DEF HookReceive
<1> DEFINE copy == [i \in Ids |-> IF i \in RelatedTo(n, s) THEN rows[i] ELSE Absent]
           only == [NoRows EXCEPT ![NextTop] = NodeIncident(n, at)]
           mine == [IdleHook EXCEPT !.node = n, !.state = s, !.at = at]
           apply == [mine EXCEPT !.pc = "apply", !.held = TRUE, !.snap = copy]
           save  == [mine EXCEPT !.pc = "save", !.snap = only]
<1>2. ListedTable(copy, In(rows))
  BY NoneListed DEF ListedTable, TableInv
<1>3. ListedTable(only, In(rows))
  <2>1. Listed(NextTop, NodeIncident(n, at), In(rows))
    BY Childless DEF NodeIncident
  <2>2. NoRows \in Tables
    BY DEF NoRows, Tables
  <2> QED
    BY <2>1, <2>2, NoneListed, ListedWrite
<1>4. apply.snap = copy /\ save.snap = only
  <2> HIDE DEF copy, only
  <2> QED
    BY DEF IdleHook
<1>5. hooks' = hooks \/ hooks' = [hooks EXCEPT ![h] = apply] \/ hooks' = [hooks EXCEPT ![h] = save]
  BY <1>1
<1> HIDE DEF apply, save, copy, only
<1>6. \A g \in Hooks : ListedTable(hooks'[g].snap, In(rows))
  BY <1>2, <1>3, <1>4, <1>5 DEF TypeInv, TypeOK, TableInv
<1> QED
  BY <1>6 DEF HookReceive, TableInv, ActiveIn

LEMMA HookSaveListed == ASSUME TypeInv, TableInv, NEW h \in Hooks, HookSave(h) PROVE TableInv'
<1>1. PICK i \in In(hooks[h].snap) : rows' = [rows EXCEPT ![i] = hooks[h].snap[i]]
  BY DEF HookSave
<1> DEFINE row == hooks[h].snap[i]
<1>2. row # Absent /\ Listed(i, row, In(rows)) /\ rows' = [rows EXCEPT ![i] = row]
  BY <1>1 DEF In, TableInv, ListedTable
<1> HIDE DEF row
<1>3. In(rows) \subseteq In(rows') /\ ListedTable(rows', In(rows'))
  BY <1>2, CommitRow
<1>4. \A g \in Hooks : ListedTable(hooks'[g].snap, In(rows))
  BY NoneListed DEF HookSave, IdleHook, TypeInv, TypeOK, TableInv
<1>5. \A t \in TaskIds : ListedTask(tasks'[t], In(rows'))
  BY <1>3, TaskLater DEF HookSave, TableInv
<1>6. UNCHANGED <<pipes, active>>
  BY DEF HookSave
<1> QED
  BY <1>3, <1>4, <1>5, <1>6, TableLater, OthersListed DEF TableInv, ActiveIn

LEMMA HookApplyListed == ASSUME TypeInv, TableInv, NEW h \in Hooks, HookApply(h) PROVE TableInv'
<1> DEFINE me == hooks[h]
<1>0. hooks \in [Hooks -> HookStates] /\ me \in HookStates /\ ListedTable(me.snap, In(rows))
  BY DEF TypeInv, TypeOK, TableInv
<1>1. me.snap \in Tables /\ me.at \in Nat
  BY <1>0 DEF HookStates
<1>2. PICK i \in In(me.snap) :
        /\ rows' = IF Row(i) THEN [rows EXCEPT ![i] = ApplyNodeState(me.snap[i], me.state, me.at)]
                             ELSE rows
        /\ IF StartsRecovery(me.snap[i], me.state)
           THEN Schedule(i, me.at, "node") ELSE UNCHANGED <<tasks, registry>>
        /\ hooks' = [hooks EXCEPT ![h] = [me EXCEPT !.pc = "evaluate", !.held = TRUE, !.cur = i]]
  BY DEF HookApply
<1> DEFINE new == [me EXCEPT !.pc = "evaluate", !.held = TRUE, !.cur = i]
           row == ApplyNodeState(me.snap[i], me.state, me.at)
<1>3. row # Absent /\ Listed(i, row, In(rows)) /\ i \in Ids
  <2>1. me.snap[i] \in Incidents /\ Listed(i, me.snap[i], In(rows)) /\ i \in Ids
    BY <1>0, <1>1 DEF In, Tables, ListedTable
  <2>2. row \in Incidents /\ row.kids = me.snap[i].kids
    BY <1>1, <2>1, ApplyNodeStateType, KidsKept
  <2> HIDE DEF row
  <2> QED
    BY <2>1, <2>2, Present, SameChildren
<1>4. rows' = rows \/ rows' = [rows EXCEPT ![i] = row]
  BY <1>2
<1>5. In(rows) \subseteq In(rows') /\ ListedTable(rows', In(rows'))
  <2> HIDE DEF row
  <2> QED
    BY <1>3, <1>4, CommitRow
<1>6. \A t \in TaskIds : ListedTask(tasks'[t], In(rows))
  <2>1. CASE StartsRecovery(me.snap[i], me.state)
    BY <1>2, <1>3, <2>1, ScheduleListed
  <2>2. CASE ~StartsRecovery(me.snap[i], me.state)
    BY <1>2, <2>2 DEF TableInv
  <2> QED
    BY <2>1, <2>2
<1>7. \A g \in Hooks : ListedTable(hooks'[g].snap, In(rows))
  <2>1. new.snap = me.snap
    <3> HIDE DEF me
    <3> QED
      BY <1>0 DEF HookStates
  <2>2. hooks' = [hooks EXCEPT ![h] = new]
    BY <1>2
  <2> HIDE DEF new, me
  <2> QED
    BY <1>0, <2>1, <2>2 DEF TableInv
<1>8. UNCHANGED <<pipes, active>>
  BY DEF HookApply
<1> HIDE DEF me, row, new
<1> QED
  BY <1>5, <1>6, <1>7, <1>8, TableLater, TaskLater, OthersListed DEF TableInv, ActiveIn

\* The explanation is written once more, the list of children is not.
LEMMA HookEvaluateListed == ASSUME TypeInv, TableInv, NEW h \in Hooks, HookEvaluate(h) PROVE TableInv'
<1> DEFINE me   == hooks[h]
           i    == me.cur
           old  == rows[i]
           row  == [old EXCEPT !.root = me.snap[i].root, !.impact = me.snap[i].impact]
           rest == [me.snap EXCEPT ![i] = Absent]
           new  == [me EXCEPT !.pc = "apply", !.held = FALSE, !.cur = NoId, !.snap = rest]
<1>0. /\ rows \in Tables /\ hooks \in [Hooks -> HookStates] /\ me \in HookStates
      /\ me.snap \in Tables /\ i \in Ids
      /\ ListedTable(rows, In(rows)) /\ ListedTable(me.snap, In(rows))
  BY DEF TypeInv, TypeOK, TableInv, HookEvaluate, SoundHook, HookStates
<1>1. In(rows) \subseteq In(rows') /\ ListedTable(rows', In(rows'))
  <2>1. CASE Row(i)
    <3>1. old \in Incidents /\ Listed(i, old, In(rows))
      BY <1>0, <2>1, RowType DEF ListedTable
    <3>2. row.kids = old.kids /\ row.status = old.status /\ old.status # "absent"
      <4> HIDE DEF old, me
      <4> QED
        BY <3>1 DEF Incidents, Statuses
    <3>3. rows' = [rows EXCEPT ![i] = row]
      BY <1>0, <2>1 DEF HookEvaluate, Tables
    <3> HIDE DEF row, old
    <3>4. row # Absent /\ Listed(i, row, In(rows))
      BY <3>1, <3>2, SameChildren DEF Absent
    <3> QED
      BY <1>0, <3>3, <3>4, CommitRow
  <2>2. CASE ~Row(i)
    BY <1>0, <2>2 DEF HookEvaluate
  <2> QED
    BY <2>1, <2>2
<1>2. \A g \in Hooks : ListedTable(hooks'[g].snap, In(rows))
  <2>1. ListedTable(rest, In(rows))
    BY <1>0, NoneListed, ListedWrite
  <2>2. new.snap = rest
    <3> HIDE DEF rest, me
    <3> QED
      BY <1>0 DEF HookStates
  <2>3. hooks' = [hooks EXCEPT ![h] = IdleHook] \/ hooks' = [hooks EXCEPT ![h] = new]
    BY DEF HookEvaluate
  <2>4. IdleHook.snap = NoRows
    BY DEF IdleHook
  <2> HIDE DEF new, rest, me
  <2> QED
    BY <1>0, <2>1, <2>2, <2>3, <2>4, NoneListed DEF TableInv
<1>3. UNCHANGED <<tasks, pipes, active>>
  BY DEF HookEvaluate
<1> HIDE DEF me, row, old, new, rest, i
<1> QED
  BY <1>1, <1>2, <1>3, TableLater, TaskLater, OthersListed DEF TableInv, ActiveIn

\* A task writes back the incident it read, with its children.
LEMMA TaskListed == ASSUME TypeInv, TableInv, NEW t \in TaskIds, TaskNext(t) PROVE TableInv'
<1> DEFINE task == tasks[t]
<1>0. /\ task \in TaskStates /\ ListedTask(task, In(rows)) /\ task # NoTask
      /\ tasks \in [TaskIds -> TaskStates \cup {NoTask}]
      /\ rows \in Tables /\ ListedTable(rows, In(rows)) /\ task.id \in Ids
  <2>1. task \in TaskStates
    BY DEF TypeInv, TypeOK, TaskNext, TaskRead, TaskWrite, TaskDropWrite, TaskEnd, Ends
  <2> QED
    BY <2>1 DEF TypeInv, TypeOK, TableInv, TaskNext, TaskRead, TaskWrite, TaskDropWrite, TaskEnd,
                Ends, TaskStates
<1>1. UNCHANGED <<pipes, hooks, active>>
  BY DEF TaskNext, TaskRead, TaskWrite, TaskDropWrite, TaskEnd
<1>2. ASSUME NEW v, ListedTask(v, In(rows)), tasks' = [tasks EXCEPT ![t] = v],
             In(rows) \subseteq In(rows'), ListedTable(rows', In(rows'))
      PROVE  TableInv'
  <2>1. \A u \in TaskIds : ListedTask(tasks'[u], In(rows'))
    BY <1>0, <1>2, TaskLater DEF TableInv
  <2>2. \A h \in Hooks : ListedTable(hooks'[h].snap, In(rows'))
    BY <1>1, <1>2, TableLater DEF TableInv
  <2> QED
    BY <1>1, <1>2, <2>1, <2>2, OthersListed DEF TableInv, ActiveIn
<1>3. ListedTask(NoTask, In(rows))
  BY DEF ListedTask
<1> DEFINE ended == [task EXCEPT !.pc = "end"]
           lost  == [task EXCEPT !.pc = "lost"]
<1>4. ListedTask(ended, In(rows)) /\ (task.pc = "write" => ListedTask(lost, In(rows)))
  <2>1. /\ ended.row = task.row /\ ended.id = task.id /\ ended.pc = "end"
        /\ lost.row = task.row /\ lost.id = task.id
    <3> HIDE DEF task
    <3> QED
      BY <1>0 DEF TaskStates
  <2> HIDE DEF ended, lost
  <2> QED
    BY <1>0, <2>1 DEF ListedTask
<1>5. CASE TaskRead(t) /\ Confirms(task, rows[task.id])
  <2> DEFINE old == rows[task.id]
             row == [old EXCEPT !.cond = "RECOVERED"]
             new == [task EXCEPT !.pc = "write", !.row = row]
  <2>1. row \in Incidents /\ Listed(task.id, row, In(rows))
    <3>1. old \in Incidents /\ Listed(task.id, old, In(rows))
      BY <1>0, <1>5, RowType DEF Confirms, Row, ListedTable
    <3>2. row \in Incidents /\ row.kids = old.kids
      <4> HIDE DEF old
      <4> QED
        BY <3>1 DEF Incidents, Conditions
    <3> HIDE DEF row, old, task
    <3> QED
      BY <3>1, <3>2, SameChildren
  <2>2. new.row = row /\ new.id = task.id
    <3> HIDE DEF row, task
    <3> QED
      BY <1>0 DEF TaskStates
  <2>3. tasks' = [tasks EXCEPT ![t] = new] /\ rows' = rows
    BY <1>5 DEF TaskRead
  <2> HIDE DEF new, row, old, task
  <2>4. ListedTask(new, In(rows))
    BY <2>1, <2>2, Present DEF ListedTask
  <2> QED
    BY <1>0, <1>2, <2>3, <2>4
<1>6. CASE TaskRead(t) /\ ~Confirms(task, rows[task.id])
  <2>1. tasks' = [tasks EXCEPT ![t] = ended] /\ rows' = rows
    BY <1>6 DEF TaskRead
  <2> HIDE DEF ended
  <2> QED
    BY <1>0, <1>2, <1>4, <2>1
<1>7. CASE TaskWrite(t)
  <2>1. tasks' = [tasks EXCEPT ![t] = NoTask] \/ tasks' = [tasks EXCEPT ![t] = ended]
    BY <1>7 DEF TaskWrite, Written
  <2>2. rows' = rows \/ rows' = [rows EXCEPT ![task.id] = task.row]
    BY <1>7 DEF TaskWrite
  <2>3. task.row # Absent /\ Listed(task.id, task.row, In(rows))
    BY <1>0, <1>7 DEF TaskWrite, ListedTask
  <2> HIDE DEF ended, task
  <2>4. In(rows) \subseteq In(rows') /\ ListedTable(rows', In(rows'))
    BY <2>2, <2>3, CommitRow
  <2> QED
    BY <1>2, <1>3, <1>4, <2>1, <2>4
<1>8. CASE TaskDropWrite(t) \/ TaskEnd(t)
  <2>1. /\ rows' = rows
        /\ \/ tasks' = [tasks EXCEPT ![t] = NoTask]
           \/ tasks' = [tasks EXCEPT ![t] = ended]
           \/ task.pc = "write" /\ tasks' = [tasks EXCEPT ![t] = lost]
    BY <1>8 DEF TaskDropWrite, TaskEnd, Written, Ends
  <2> HIDE DEF ended, lost
  <2> QED
    BY <1>0, <1>2, <1>3, <1>4, <2>1
<1> QED
  BY <1>5, <1>6, <1>7, <1>8 DEF TaskNext

\* An operator who closes or reopens an incident keeps its children.
LEMMA StatusListed ==
  ASSUME TypeInv, TableInv, NEW i \in Ids, NEW status, SetStatus(i, status)
  PROVE  TableInv'
<1> DEFINE row == [rows[i] EXCEPT !.status = status]
<1>1. rows[i] \in Incidents /\ Listed(i, rows[i], In(rows))
  BY RowType DEF SetStatus, TableInv, ListedTable
<1>2. row # Absent /\ row.kids = rows[i].kids
  <2>1. row.kids = rows[i].kids /\ "kids" \in DOMAIN row
    BY <1>1 DEF Incidents
  <2>2. "kids" \notin DOMAIN Absent
    BY DEF Absent
  <2> QED
    BY <2>1, <2>2
<1>3. rows' = [rows EXCEPT ![i] = row]
  BY DEF SetStatus, TypeInv, TypeOK, Tables
<1> HIDE DEF row
<1>4. In(rows) \subseteq In(rows') /\ ListedTable(rows', In(rows'))
  BY <1>1, <1>2, <1>3, CommitRow, SameChildren
<1>5. UNCHANGED <<pipes, hooks, tasks, active>>
  BY DEF SetStatus
<1>6. /\ \A h \in Hooks : ListedTable(hooks'[h].snap, In(rows'))
      /\ \A t \in TaskIds : ListedTask(tasks'[t], In(rows'))
  BY <1>4, <1>5, TableLater, TaskLater DEF TableInv
<1> QED
  BY <1>4, <1>5, <1>6, OthersListed DEF TableInv, ActiveIn

LEMMA RestartListed == ASSUME TypeInv, TableInv, Restart PROVE TableInv'
BY NoneListed, IdlePipeListed DEF Restart, TableInv, ActiveIn, ListedTask, IdleHook, NoActive

LEMMA TableInit == Init => TableInv
<1> SUFFICES ASSUME Init PROVE TableInv
  OBVIOUS
<1>1. ListedTable(rows, In(rows))
  BY NoneListed DEF Init
<1>2. \A p \in Pipes : ListedPipe(pipes[p], In(rows))
  BY IdlePipeListed DEF Init
<1>3. \A h \in Hooks : ListedTable(hooks[h].snap, In(rows))
  BY NoneListed DEF Init, IdleHook
<1> QED
  BY <1>1, <1>2, <1>3 DEF Init, TableInv, ActiveIn, ListedTask, NoActive

\* A purge that finds nothing to delete changes nothing.
NothingPurged == Purge => UNCHANGED rows

LEMMA TableNext == TypeInv /\ TableInv /\ [Next]_vars /\ [NothingPurged]_vars => TableInv'
<1> SUFFICES ASSUME TypeInv, TableInv, [Next]_vars, [NothingPurged]_vars PROVE TableInv'
  OBVIOUS
<1>1. CASE UNCHANGED <<rows, pipes, hooks, tasks, active>>
  BY <1>1 DEF TableInv, ActiveIn
<1>2. CASE UNCHANGED vars
  BY <1>1, <1>2 DEF vars
<1>3. CASE Purge
  <2>1. UNCHANGED rows
    BY <1>2, <1>3 DEF NothingPurged, vars
  <2> QED
    BY <1>1, <1>3, <2>1 DEF Purge
<1>4. CASE Tick \/ Done
  BY <1>1, <1>4 DEF Tick, Done, vars
<1> QED
  BY <1>2, <1>3, <1>4, ReceiveListed, PipeListed, HookReceiveListed, HookSaveListed, HookApplyListed,
     HookEvaluateListed, TaskListed, StatusListed, RestartListed
     DEF Next, HookNext, Operator, Resolve, Reopen

LEMMA TableInvariant == Spec /\ [][NothingPurged]_vars => []TableInv
BY TableInit, TableNext, BackendInvariant, PTL DEF Spec

\* As long as no purge deletes an incident, every child an incident lists is in the
\* table, whoever wrote the parent and from whatever copy, and across restarts.
THEOREM ChildrenAreThere == Spec /\ [][NothingPurged]_vars => []ListedChildrenExist
<1>1. TableInv => ListedChildrenExist
  BY DEF TableInv, ListedTable, Listed, ListedChildrenExist, Row, In
<1> QED
  BY <1>1, TableInvariant, PTL

\* As long as no purge deletes an incident, the incident the pipeline continues exists.
THEOREM ActiveIsThere == Spec /\ [][NothingPurged]_vars => []ActiveExists
<1>1. TableInv => ActiveExists
  BY DEF TableInv, ActiveIn, ActiveExists, Row, In
<1> QED
  BY <1>1, TableInvariant, PTL

-----------------------------------------------------------------------------
(* The projector's numbers.  A pipeline that may still create an incident   *)
(* holds a number of its own, not yet in the table; nothing else adds a     *)
(* root incident, as long as no row disappears, the counter is not lost in  *)
(* a restart and no node-state event creates an incident by counting rows.  *)

Creating == {"get", "list", "save"}

Counted(i) == \A n \in Nat : i = <<n>> => n <= counter

NumberInv ==
    /\ \A i \in In(rows) : Counted(i)
    /\ \A p \in Pipes :
         /\ pipes[p].pc \in Creating => /\ \E n \in Nat : pipes[p].id = <<n>>
                                        /\ Counted(pipes[p].id)
                                        /\ pipes[p].id \notin In(rows)
         /\ pipes[p].pc = "update" => pipes[p].id \in In(rows)
    /\ \A p, q \in Pipes :
         p # q /\ {pipes[p].pc, pipes[q].pc} \subseteq Creating => pipes[p].id # pipes[q].id

\* What a step may add to the table, and which pipeline may then still create.
Adds(p, m) ==
    \A i \in In(rows') \ In(rows) :
        \/ \A n : i # <<n>>
        \/ i = pipes[p].id /\ pipes[p].pc \in Creating /\ m.pc \notin Creating

LEMMA NumberStep ==
  ASSUME TypeInv, NumberInv, NEW p \in Pipes, NEW m, Step(p, m), UNCHANGED counter,
         In(rows) \subseteq In(rows'), Adds(p, m),
         m.pc \in Creating => pipes[p].pc \in Creating /\ m.id = pipes[p].id,
         m.pc = "update" => m.id \in In(rows')
  PROVE  NumberInv'
<1>0. \A q \in Pipes : pipes'[q] = IF q = p THEN m ELSE pipes[q]
  BY DEF TypeInv, TypeOK, Step
<1>1. \A i \in In(rows') : (\A n \in Nat : i = <<n>> => n <= counter')
  BY DEF NumberInv, Adds, Counted
<1>2. ASSUME NEW q \in Pipes, pipes'[q].pc \in Creating
      PROVE  /\ pipes[q].pc \in Creating /\ pipes'[q].id = pipes[q].id
             /\ pipes'[q].id \notin In(rows')
  <2>1. pipes[q].pc \in Creating /\ pipes'[q].id = pipes[q].id
    BY <1>0, <1>2
  <2>2. pipes[q].id \notin In(rows) /\ \E n \in Nat : pipes[q].id = <<n>>
    BY <2>1 DEF NumberInv
  <2>3. q # p => ~(pipes[q].id = pipes[p].id /\ pipes[p].pc \in Creating)
    BY <2>1 DEF NumberInv
  <2> QED
    BY <1>0, <1>2, <2>1, <2>2, <2>3 DEF Adds
<1>3. \A q \in Pipes : pipes'[q].pc = "update" => pipes'[q].id \in In(rows')
  BY <1>0 DEF NumberInv
<1> QED
  BY <1>1, <1>2, <1>3 DEF NumberInv, Counted

\* A step after which the pipeline creates no incident any more.
LEMMA BeyondStep ==
  ASSUME TypeInv, NumberInv, NEW p \in Pipes, NEW m, Step(p, m), UNCHANGED counter,
         m.pc \notin Creating \cup {"update"}, In(rows) \subseteq In(rows'),
         \A i \in In(rows') \ In(rows) :
            (\A n : i # <<n>>) \/ (i = pipes[p].id /\ pipes[p].pc \in Creating)
  PROVE  NumberInv'
BY NumberStep DEF Adds

\* A row is replaced, or none is.
LEMMA Replaced ==
  ASSUME TypeInv, NEW i, NEW r, r # Absent, rows' = [rows EXCEPT ![i] = r]
  PROVE  In(rows) \subseteq In(rows') /\ In(rows') \subseteq In(rows) \cup {i}
BY DEF TypeInv, TypeOK, Tables, In

LEMMA AnalyzeNumbers == ASSUME TypeInv, NumberInv, NEW p \in Pipes, PipeAnalyze(p) PROVE NumberInv'
<1> DEFINE m == pipes[p]
<1>0. m \in PipeStates /\ counter \in Nat /\ counter' = counter + 1 /\ rows' = rows
  BY DEF TypeInv, TypeOK, PipeAnalyze, NewNumber
<1> DEFINE next(cur, goOn, added, status) ==
             [m EXCEPT !.pc  = IF goOn THEN "get" ELSE "list",
                       !.cur = cur,
                       !.id  = <<NewNumber>>,
                       !.kid = IF goOn THEN active.id ELSE NoId,
                       !.row = Projection(cur, added.obs, added.fault, status)]
       chosen(fits, status, cur) ==
         LET last  == Window(fits).root
             prev  == IF last # cur THEN last ELSE NoObj
             goOn  == active.id # NoId /\ active.root \in {cur, prev}
             added == BufferAdd(<<m.obj, m.src>>, m.kind, m.at, fits, cur)
         IN  buffer' = added /\ Step(p, next(cur, goOn, added, status))
<1>1. PICK fits \in (IF buffer.obs = {} THEN {TRUE} ELSE BOOLEAN),
           status \in (IF MaintenanceOn THEN {"OPEN", "CLOSED"} ELSE {"OPEN"}) :
        \E cur \in Roots[ObjectsOf(Window(fits).obs) \cup {m.obj}] \ {NoObj} : chosen(fits, status, cur)
  BY DEF PipeAnalyze
<1>2. PICK cur, goOn, added : Step(p, next(cur, goOn, added, status))
  <2> HIDE DEF next
  <2> QED
    BY <1>1
<1> DEFINE row == Projection(cur, added.obs, added.fault, status)
           new == next(cur, goOn, added, status)
<1>3. new.pc \in Creating /\ new.pc # "update" /\ new.id = <<counter + 1>>
  <2> HIDE DEF row, m
  <2> QED
    BY <1>0 DEF PipeStates, row, NewNumber, Creating
<1>4. Step(p, new)
  BY <1>2
<1> HIDE DEF new, row, m
<1>5. \A q \in Pipes : pipes'[q] = IF q = p THEN new ELSE pipes[q]
  BY <1>4 DEF TypeInv, TypeOK, Step
<1>6. \A i \in In(rows) : i # <<counter + 1>>
  BY <1>0 DEF NumberInv, Counted
<1>7. \A q \in Pipes : pipes[q].pc \in Creating => pipes[q].id # <<counter + 1>>
  BY <1>0 DEF NumberInv, Counted
<1>8. ASSUME NEW q \in Pipes, pipes'[q].pc \in Creating
       PROVE  /\ \E n \in Nat : pipes'[q].id = <<n>>
              /\ \A n \in Nat : pipes'[q].id = <<n>> => n <= counter'
              /\ pipes'[q].id \notin In(rows')
  <2>1. CASE q = p
    BY <1>0, <1>3, <1>5, <1>6, <2>1
  <2>2. CASE q # p
    BY <1>0, <1>5, <1>8, <2>2 DEF NumberInv, Counted
  <2> QED
    BY <2>1, <2>2
<1>9. \A i \in In(rows') : \A n \in Nat : i = <<n>> => n <= counter'
  BY <1>0 DEF NumberInv, Counted
<1>10. \A q \in Pipes : pipes'[q].pc = "update" => pipes'[q].id \in In(rows')
  BY <1>0, <1>3, <1>5 DEF NumberInv
<1>11. ASSUME NEW q \in Pipes, NEW r \in Pipes, q # r, pipes'[q].pc \in Creating,
              pipes'[r].pc \in Creating
       PROVE  pipes'[q].id # pipes'[r].id
  BY <1>3, <1>5, <1>7, <1>11 DEF NumberInv
<1> QED
  BY <1>8, <1>9, <1>10, <1>11 DEF NumberInv, Counted

LEMMA NextPc ==
  ASSUME NEW m \in PipeStates, m.row \in Incidents
  PROVE  /\ NextKid(m).pc \in {"kid", "evaluate", "finish"}
         /\ Persisted(m).pc \in {"kid", "evaluate", "finish"}
<1> DEFINE kids == {o \in m.row.impact : TypeOf[o] = "session"}
           new == [m EXCEPT !.todo = kids]
<1>1. ASSUME NEW n \in PipeStates PROVE NextKid(n).pc \in {"kid", "evaluate", "finish"}
  BY DEF NextKid, PipeStates
<1>2. kids \in SUBSET Objects
  BY DEF Incidents
<1> HIDE DEF kids
<1>3. new \in PipeStates
  BY <1>2 DEF PipeStates
<1>4. Persisted(m) = NextKid(new)
  BY DEF Persisted, kids
<1> HIDE DEF new
<1> QED
  BY <1>1, <1>3, <1>4

\* Steps that change no row, or one that is there, and after which nothing is created.
LEMMA KeepStep ==
  ASSUME TypeInv, NumberInv, NEW p \in Pipes, NEW m, Step(p, m), UNCHANGED counter,
         m.pc \notin Creating \cup {"update"}, In(rows') = In(rows)
  PROVE  NumberInv'
BY BeyondStep

LEMMA RewrittenRow ==
  ASSUME TypeInv, NEW i \in In(rows), NEW r, r # Absent, rows' = [rows EXCEPT ![i] = r]
  PROVE  In(rows') = In(rows)
<1>1. In(rows) \subseteq In(rows') /\ In(rows') \subseteq In(rows) \cup {i}
  BY Replaced
<1> QED
  BY <1>1

LEMMA ReceiveNumbers == ASSUME TypeInv, NumberInv, NEW p \in Pipes, PipeReceive(p) PROVE NumberInv'
<1>1. PICK k \in Kinds, o \in Observable :
        Step(p, [IdlePipe EXCEPT !.pc = "raw", !.kind = k, !.obj = o[1], !.src = o[2],
                                 !.at = clock])
  BY DEF PipeReceive
<1> DEFINE m == [IdlePipe EXCEPT !.pc = "raw", !.kind = k, !.obj = o[1], !.src = o[2],
                                 !.at = clock]
<1>2. m.pc = "raw" /\ Step(p, m) /\ UNCHANGED <<rows, counter>>
  BY <1>1 DEF IdlePipe, PipeReceive
<1> HIDE DEF m
<1> QED
  BY <1>2, KeepStep DEF Creating

\* Until it finds its incident a pipeline keeps its number; then it drops it.
LEMMA GetActiveNumbers ==
  ASSUME TypeInv, NumberInv, NEW p \in Pipes, PipeGetActive(p)
  PROVE  NumberInv'
<1> DEFINE m == pipes[p]
           found  == [m EXCEPT !.pc = "update", !.path = "active", !.kid = NoId,
                               !.id = m.kid, !.row = Merged(m, m.kid)]
           gone   == [m EXCEPT !.pc = "list", !.kid = NoId]
<1>0. m \in PipeStates /\ m.kid \in Ids /\ m.pc = "get"
  BY WorkingPipe DEF PipeGetActive, At, Working
<1>1. /\ found.pc = "update" /\ found.id = m.kid /\ gone.pc = "list" /\ gone.id = m.id
  <2> HIDE DEF m
  <2> QED
    BY <1>0 DEF PipeStates
<1>2. Step(p, IF Row(m.kid) THEN found ELSE gone) /\ UNCHANGED <<rows, counter>>
  BY DEF PipeGetActive
<1>3. Row(m.kid) => m.kid \in In(rows)
  BY <1>0 DEF Row, In
<1>4. pipes[p] = m
  OBVIOUS
<1> HIDE DEF found, gone, m
<1> QED
  BY <1>0, <1>1, <1>2, <1>3, <1>4, NumberStep DEF Adds, Creating

LEMMA MatchNumbers ==
  ASSUME TypeInv, NumberInv, NEW p \in Pipes, PipeMatch(p)
  PROVE  NumberInv'
<1> DEFINE m == pipes[p]
           save == [m EXCEPT !.pc = "save", !.path = "new",
                             !.row = ApplyFault(m.row, m.kind, m.obj, m.at)]
           update(i) == [m EXCEPT !.pc = "update", !.path = "match",
                                  !.id = i, !.row = Merged(m, i)]
<1>0. m \in PipeStates /\ m.pc = "list" /\ UNCHANGED <<rows, counter>> /\ pipes[p] = m
  BY DEF TypeInv, TypeOK, PipeMatch, At
<1>1. CASE Matching(m.cur) = {}
  <2>1. Step(p, save)
    BY <1>1 DEF PipeMatch
  <2>2. save.pc = "save" /\ save.id = m.id
    <3> HIDE DEF m
    <3> QED
      BY <1>0 DEF PipeStates
  <2> HIDE DEF save, m
  <2> QED
    BY <1>0, <2>1, <2>2, NumberStep DEF Adds, Creating
<1>2. CASE Matching(m.cur) # {}
  <2>1. PICK i \in Matching(m.cur) : Step(p, update(i))
    BY <1>2 DEF PipeMatch
  <2>2. i \in In(rows)
    BY DEF Matching, Open, Row, In
  <2> DEFINE new == update(i)
  <2>3. new.pc = "update" /\ new.id = i
    <3> HIDE DEF m
    <3> QED
      BY <1>0 DEF PipeStates
  <2>4. Step(p, new)
    BY <2>1
  <2> HIDE DEF new, m
  <2> QED
    BY <1>0, <2>2, <2>3, <2>4, NumberStep DEF Adds, Creating
<1> QED
  BY <1>1, <1>2

\* The row an update is for is there: nothing deletes it.
LEMMA UpdateNumbers == ASSUME TypeInv, NumberInv, NEW p \in Pipes, PipeUpdate(p) PROVE NumberInv'
<1> DEFINE m == pipes[p]
<1>0. m \in PipeStates /\ m.row \in Incidents /\ m.row # Absent /\ m.id \in Ids
  BY WorkingPipe, Present DEF PipeUpdate, At, Working
<1>1. m.id \in In(rows) /\ Row(m.id)
  BY DEF NumberInv, PipeUpdate, At, In, Row
<1>2. rows' = [rows EXCEPT ![m.id] = m.row] /\ Step(p, Persisted(m)) /\ UNCHANGED counter
  BY <1>1 DEF PipeUpdate
<1> HIDE DEF m
<1>3. In(rows') = In(rows)
  BY <1>0, <1>1, <1>2, RewrittenRow
<1>4. Persisted(m).pc \notin Creating \cup {"update"}
  BY <1>0, NextPc DEF Creating
<1> QED
  BY <1>2, <1>3, <1>4, KeepStep

LEMMA SaveNumbers == ASSUME TypeInv, NumberInv, NEW p \in Pipes, PipeSave(p) PROVE NumberInv'
<1> DEFINE m == pipes[p]
<1>0. m \in PipeStates /\ m.row \in Incidents /\ m.row # Absent /\ m.pc = "save" /\ pipes[p] = m
  BY WorkingPipe, Present DEF PipeSave, At, Working
<1>1. rows' = [rows EXCEPT ![m.id] = m.row] /\ Step(p, Persisted(m)) /\ UNCHANGED counter
  BY DEF PipeSave
<1> HIDE DEF m
<1>2. In(rows) \subseteq In(rows') /\ In(rows') \subseteq In(rows) \cup {m.id}
  BY <1>0, <1>1, Replaced
<1>3. Persisted(m).pc \notin Creating \cup {"update"}
  BY <1>0, NextPc DEF Creating
<1> QED
  BY <1>0, <1>1, <1>2, <1>3, BeyondStep DEF Creating

LEMMA KidNumbers == ASSUME TypeInv, NumberInv, NEW p \in Pipes, PipeKid(p) PROVE NumberInv'
<1> DEFINE m == pipes[p]
<1>0. m \in PipeStates /\ m.row \in Incidents /\ UNCHANGED <<rows, counter>>
  BY WorkingPipe DEF PipeKid, At, Working
<1>1. PICK o \in m.todo :
        LET rest == [m EXCEPT !.todo = @ \ {o}]
            new  == Append(m.id, m.row.kids + 1)
        IN  IF ChildrenOf(m.id, o) # {}
            THEN \E c \in ChildrenOf(m.id, o) :
                   Step(p, IF FaultMatches(rows[c], m.kind, m.obj)
                           THEN [rest EXCEPT !.pc = "kidUpdate", !.kid = c,
                                             !.kidRow = ApplyFault(rows[c], m.kind, m.obj, m.at)]
                           ELSE NextKid(rest))
            ELSE /\ new \in Ids
                 /\ Step(p, [rest EXCEPT !.pc = "kidSave", !.kid = new, !.kidRow = Child(m.row, o)])
  BY DEF PipeKid
<1> DEFINE rest == [m EXCEPT !.todo = @ \ {o}]
<1>2. rest \in PipeStates /\ rest.row \in Incidents
  <2> HIDE DEF m
  <2> QED
    BY <1>0 DEF PipeStates
<1>3. PICK c, r, s :
         \/ Step(p, [rest EXCEPT !.pc = "kidUpdate", !.kid = c, !.kidRow = r])
         \/ Step(p, NextKid(rest))
         \/ Step(p, [rest EXCEPT !.pc = "kidSave", !.kid = c, !.kidRow = s])
  <2> HIDE DEF rest
  <2> QED
    BY <1>1 DEF rest
<1> HIDE DEF rest, m
<1>4. /\ [rest EXCEPT !.pc = "kidUpdate", !.kid = c, !.kidRow = r].pc = "kidUpdate"
      /\ [rest EXCEPT !.pc = "kidSave", !.kid = c, !.kidRow = s].pc = "kidSave"
      /\ NextKid(rest).pc \in {"kid", "evaluate", "finish"}
  BY <1>2, NextPc DEF PipeStates
<1> QED
  BY <1>0, <1>3, <1>4, KeepStep DEF Creating

\* A step that updates the row of an incident that exists, if it still does.
LEMMA KeptRows ==
  ASSUME TypeInv, NEW i, NEW r, r # Absent,
         rows' = IF Row(i) THEN [rows EXCEPT ![i] = r] ELSE rows, i \in Ids
  PROVE  In(rows') = In(rows)
<1>1. CASE Row(i)
  <2>1. i \in In(rows)
    BY <1>1 DEF Row, In
  <2> QED
    BY <1>1, <2>1, RewrittenRow
<1>2. CASE ~Row(i)
  BY <1>2
<1> QED
  BY <1>1, <1>2

LEMMA KidUpdateNumbers ==
  ASSUME TypeInv, TableInv, NumberInv, NEW p \in Pipes, PipeKidUpdate(p)
  PROVE  NumberInv'
<1> DEFINE m == pipes[p]
<1>0. m \in PipeStates /\ m.row \in Incidents /\ m.pc = "kidUpdate" /\ ListedPipe(m, In(rows))
  BY WorkingPipe DEF PipeKidUpdate, At, Working, TableInv
<1>1. m.kidRow # Absent
  BY <1>0 DEF ListedPipe
<1>2. /\ rows' = IF Row(m.kid) THEN [rows EXCEPT ![m.kid] = m.kidRow] ELSE rows
      /\ Step(p, NextKid(m)) /\ UNCHANGED counter
  BY DEF PipeKidUpdate
<1>3. m.kid \in Ids \/ m.kid = NoId
  BY <1>0 DEF PipeStates
<1> HIDE DEF m
<1>4. In(rows') = In(rows)
  <2>1. CASE m.kid \in Ids
    BY <1>1, <1>2, <2>1, KeptRows
  <2>2. CASE m.kid \notin Ids
    <3>1. rows' = rows \/ rows' = [rows EXCEPT ![m.kid] = m.kidRow]
      BY <1>2
    <3>2. DOMAIN rows = Ids /\ rows = [i \in Ids |-> rows[i]]
      BY DEF TypeInv, TypeOK, Tables
    <3> QED
      BY <2>2, <3>1, <3>2 DEF In
  <2> QED
    BY <2>1, <2>2
<1>5. NextKid(m).pc \notin Creating \cup {"update"}
  BY <1>0, NextPc DEF Creating
<1> QED
  BY <1>2, <1>4, <1>5, KeepStep

LEMMA ChildIsNoRoot ==
  ASSUME NEW i \in Ids, NEW k \in Nat, NEW n
  PROVE  Append(i, k) # <<n>>
<1>1. \/ \E a \in 1..MaxTop : i = <<a>>
      \/ \E a \in 1..MaxTop, b \in 1..MaxKids : i = <<a, b>>
      \/ \E a \in 1..MaxTop, b \in 1..MaxKids, c \in 1..MaxKids : i = <<a, b, c>>
  BY DEF Ids
<1>2. CASE \E a \in 1..MaxTop : i = <<a>>
  <2>1. PICK a \in Nat : i = <<a>>
    BY <1>2, BackendAssumption
  <2>2. <<a>> \in Seq(Nat) /\ Len(<<a>>) = 1
    OBVIOUS
  <2>3. Len(Append(i, k)) = 2
    BY <2>1, <2>2
  <2>4. Len(<<n>>) = 1
    OBVIOUS
  <2> QED
    BY <2>3, <2>4
<1>3. CASE \E a \in 1..MaxTop, b \in 1..MaxKids : i = <<a, b>>
  <2>1. PICK a \in Nat, b \in Nat : i = <<a, b>>
    BY <1>3, BackendAssumption
  <2>2. <<a, b>> \in Seq(Nat) /\ Len(<<a, b>>) = 2
    OBVIOUS
  <2>3. Len(Append(i, k)) = 3
    BY <2>1, <2>2
  <2>4. Len(<<n>>) = 1
    OBVIOUS
  <2> QED
    BY <2>3, <2>4
<1>4. CASE \E a \in 1..MaxTop, b \in 1..MaxKids, c \in 1..MaxKids : i = <<a, b, c>>
  <2>1. PICK a \in Nat, b \in Nat, c \in Nat : i = <<a, b, c>>
    BY <1>4, BackendAssumption
  <2>2. <<a, b, c>> \in Seq(Nat) /\ Len(<<a, b, c>>) = 3
    OBVIOUS
  <2>3. Len(Append(i, k)) = 4
    BY <2>1, <2>2
  <2>4. Len(<<n>>) = 1
    OBVIOUS
  <2> QED
    BY <2>3, <2>4
<1> QED
  BY <1>1, <1>2, <1>3, <1>4

\* A child's id is longer than the id of a root incident.
LEMMA KidSaveNumbers ==
  ASSUME TypeInv, TableInv, NumberInv, NEW p \in Pipes, PipeKidSave(p)
  PROVE  NumberInv'
<1> DEFINE m   == pipes[p]
           new == [m EXCEPT !.pc = "kidParent", !.row.kids = @ + 1]
<1>0. /\ m \in PipeStates /\ m.row \in Incidents /\ m.id \in Ids /\ m.pc = "kidSave"
      /\ ListedPipe(m, In(rows))
  BY WorkingPipe DEF PipeKidSave, At, Working, TableInv
<1>1. m.kidRow # Absent /\ m.kid = Append(m.id, m.row.kids + 1)
  BY <1>0 DEF ListedPipe
<1>2. \A n : m.kid # <<n>>
  <2>1. m.row.kids + 1 \in Nat
    BY <1>0 DEF Incidents
  <2> QED
    BY <1>0, <1>1, <2>1, ChildIsNoRoot
<1>3. new.pc = "kidParent"
  <2> HIDE DEF m
  <2> QED
    BY <1>0 DEF PipeStates
<1>4. /\ rows' = [rows EXCEPT ![m.kid] = m.kidRow]
      /\ Step(p, new) /\ UNCHANGED counter
  BY DEF PipeKidSave
<1> HIDE DEF new, m
<1>5. In(rows) \subseteq In(rows') /\ In(rows') \subseteq In(rows) \cup {m.kid}
  BY <1>1, <1>4, Replaced
<1>6. \A i \in In(rows') \ In(rows) :
         (\A n : i # <<n>>) \/ (i = pipes[p].id /\ pipes[p].pc \in Creating)
  <2> TAKE i \in In(rows') \ In(rows)
  <2>1. i = m.kid
    BY <1>5
  <2>2. \A n : i # <<n>>
    BY <1>2, <2>1
  <2> QED
    BY <2>2
<1>7. new.pc \notin Creating \cup {"update"}
  BY <1>3 DEF Creating
<1> QED
  BY <1>4, <1>5, <1>6, <1>7, BeyondStep

LEMMA KidParentNumbers ==
  ASSUME TypeInv, NumberInv, NEW p \in Pipes, PipeKidParent(p)
  PROVE  NumberInv'
<1> DEFINE m == pipes[p]
<1>0. m \in PipeStates /\ m.row \in Incidents /\ m.row # Absent /\ m.id \in Ids
  BY WorkingPipe, Present DEF PipeKidParent, At, Working
<1>1. /\ rows' = IF Row(m.id) THEN [rows EXCEPT ![m.id] = m.row] ELSE rows
      /\ Step(p, NextKid(m)) /\ UNCHANGED counter
  BY DEF PipeKidParent
<1> HIDE DEF m
<1>2. In(rows') = In(rows)
  BY <1>0, <1>1, KeptRows
<1>3. NextKid(m).pc \notin Creating \cup {"update"}
  BY <1>0, NextPc DEF Creating
<1> QED
  BY <1>1, <1>2, <1>3, KeepStep

LEMMA EvaluateNumbers ==
  ASSUME TypeInv, NumberInv, NEW p \in Pipes, PipeEvaluate(p)
  PROVE  NumberInv'
<1> DEFINE m   == pipes[p]
           new == [m EXCEPT !.pc = "finish"]
           old == rows[m.id]
           row == [old EXCEPT !.root = m.row.root, !.impact = m.row.impact]
<1>0. m \in PipeStates /\ m.id \in Ids
  BY WorkingPipe DEF PipeEvaluate, At, Working
<1>1. Row(m.id) => row # Absent
  <2> SUFFICES ASSUME Row(m.id) PROVE row # Absent
    OBVIOUS
  <2>1. old \in Incidents
    BY <1>0, RowType
  <2>2. "kids" \in DOMAIN row
    <3> HIDE DEF old, m
    <3> QED
      BY <2>1 DEF Incidents
  <2> HIDE DEF row
  <2> QED
    BY <2>2 DEF Absent
<1>2. Row(m.id) => rows' = [rows EXCEPT ![m.id] = row]
  BY <1>0 DEF PipeEvaluate, TypeInv, TypeOK, Tables
<1>3. ~Row(m.id) => rows' = rows
  BY DEF PipeEvaluate
<1>4. new.pc = "finish" /\ Step(p, new) /\ UNCHANGED counter
  BY <1>0 DEF PipeEvaluate, PipeStates
<1> HIDE DEF new, row, old, m
<1>5. In(rows') = In(rows)
  BY <1>0, <1>1, <1>2, <1>3, KeptRows
<1> QED
  BY <1>4, <1>5, KeepStep DEF Creating

LEMMA EndNumbers ==
  ASSUME TypeInv, NumberInv, NEW p \in Pipes, PipeUnexplained(p) \/ PipeFinish(p)
  PROVE  NumberInv'
<1>1. Step(p, IdlePipe) /\ UNCHANGED <<rows, counter>>
  BY DEF PipeUnexplained, PipeFinish
<1>2. IdlePipe.pc = "idle"
  BY DEF IdlePipe
<1> QED
  BY <1>1, <1>2, KeepStep DEF Creating

LEMMA RecoveryNumbers ==
  ASSUME TypeInv, NumberInv, NEW p \in Pipes, PipeListRecovery(p) \/ PipeRecoverySchedule(p)
  PROVE  NumberInv'
<1> DEFINE m == pipes[p]
           list(snap) == [m EXCEPT !.pc = "recUpdate", !.snap = snap]
           next == [m EXCEPT !.pc = "recUpdate"]
<1>0. m \in PipeStates
  BY DEF TypeInv, TypeOK
<1>1. PICK snap : Step(p, IdlePipe) \/ Step(p, list(snap)) \/ Step(p, next)
  <2> HIDE DEF m
  <2> QED
    BY DEF PipeListRecovery, PipeRecoverySchedule, m
<1> DEFINE new == list(snap)
<1>2. new.pc = "recUpdate" /\ next.pc = "recUpdate" /\ IdlePipe.pc = "idle"
  <2> HIDE DEF m
  <2> QED
    BY <1>0 DEF PipeStates, IdlePipe
<1>3. Step(p, IdlePipe) \/ Step(p, new) \/ Step(p, next)
  BY <1>1
<1>4. UNCHANGED <<rows, counter>>
  BY DEF PipeListRecovery, PipeRecoverySchedule
<1> HIDE DEF new, next, m
<1> QED
  BY <1>2, <1>3, <1>4, KeepStep DEF Creating

LEMMA RecoveryUpdateNumbers ==
  ASSUME TypeInv, NumberInv, NEW p \in Pipes, PipeRecoveryUpdate(p)
  PROVE  NumberInv'
<1> DEFINE m == pipes[p]
<1>0. m \in PipeStates /\ m.snap \in Tables
  BY DEF TypeInv, TypeOK, PipeStates
<1>1. PICK i \in In(m.snap) :
         LET rest == [m EXCEPT !.snap[i] = Absent]
         IN  IF Row(i)
             THEN /\ rows' = [rows EXCEPT ![i] = m.snap[i]]
                  /\ Step(p, [rest EXCEPT !.pc = "recSchedule", !.id = i, !.hit = TRUE])
             ELSE /\ Step(p, [rest EXCEPT !.pc = "recSchedule", !.id = NoId])
                  /\ UNCHANGED rows
  BY DEF PipeRecoveryUpdate
<1> DEFINE rest == [m EXCEPT !.snap[i] = Absent]
           hit  == [rest EXCEPT !.pc = "recSchedule", !.id = i, !.hit = TRUE]
           miss == [rest EXCEPT !.pc = "recSchedule", !.id = NoId]
           row  == m.snap[i]
<1>2. hit.pc = "recSchedule" /\ miss.pc = "recSchedule"
  <2> HIDE DEF m
  <2> QED
    BY <1>0 DEF PipeStates
<1>3. row # Absent /\ i \in Ids
  BY DEF In
<1>4. /\ rows' = IF Row(i) THEN [rows EXCEPT ![i] = row] ELSE rows
      /\ Step(p, hit) \/ Step(p, miss)
      /\ UNCHANGED counter
  BY <1>1 DEF PipeRecoveryUpdate
<1> HIDE DEF hit, miss, rest, row, m
<1>5. In(rows') = In(rows)
  BY <1>3, <1>4, KeptRows
<1> QED
  BY <1>2, <1>4, <1>5, KeepStep DEF Creating

LEMMA PipeNumbers ==
  ASSUME TypeInv, TableInv, NumberInv, NEW p \in Pipes, PipeNext(p)
  PROVE  NumberInv'
BY AnalyzeNumbers, GetActiveNumbers, MatchNumbers, UpdateNumbers, SaveNumbers, KidNumbers,
   KidUpdateNumbers, KidSaveNumbers, KidParentNumbers, EvaluateNumbers, EndNumbers,
   RecoveryNumbers, RecoveryUpdateNumbers
   DEF PipeNext

\* Whoever else writes, writes rows that exist.
LEMMA OthersNumbers ==
  ASSUME NumberInv, UNCHANGED <<pipes, counter>>, In(rows') = In(rows)
  PROVE  NumberInv'
BY DEF NumberInv, Counted

LEMMA HookNumbers ==
  ASSUME TypeInv, TableInv, NumberInv, NEW h \in Hooks,
         HookReceive(h) \/ HookApply(h) \/ HookEvaluate(h)
  PROVE  NumberInv'
<1> DEFINE me == hooks[h]
<1>0. me.snap \in Tables /\ me.at \in Nat
  BY DEF TypeInv, TypeOK, HookStates
<1>1. CASE HookReceive(h)
  BY <1>1, OthersNumbers DEF HookReceive
<1>2. CASE HookApply(h)
  <2>1. PICK i \in In(me.snap) :
          rows' = IF Row(i) THEN [rows EXCEPT ![i] = ApplyNodeState(me.snap[i], me.state, me.at)]
                            ELSE rows
    BY <1>2 DEF HookApply
  <2> DEFINE row == ApplyNodeState(me.snap[i], me.state, me.at)
  <2>2. row # Absent /\ i \in Ids
    <3>1. me.snap[i] \in Incidents /\ i \in Ids
      BY <1>0 DEF In, Tables
    <3> QED
      BY <1>0, <3>1, ApplyNodeStateType, Present
  <2>3. rows' = IF Row(i) THEN [rows EXCEPT ![i] = row] ELSE rows
    BY <2>1
  <2>4. UNCHANGED <<pipes, counter>>
    BY <1>2 DEF HookApply
  <2> HIDE DEF row, me
  <2>5. In(rows') = In(rows)
    BY <2>2, <2>3, KeptRows
  <2> QED
    BY <2>4, <2>5, OthersNumbers
<1>3. CASE HookEvaluate(h)
  <2> DEFINE i   == me.cur
             old == rows[i]
             row == [old EXCEPT !.root = me.snap[i].root, !.impact = me.snap[i].impact]
  <2>1. i \in Ids /\ rows \in Tables
    BY <1>3 DEF HookEvaluate, TypeInv, TypeOK, SoundHook
  <2>2. rows' = IF Row(i) THEN [rows EXCEPT ![i] = row] ELSE rows
    BY <1>3, <2>1 DEF HookEvaluate, Tables
  <2>3. Row(i) => row # Absent
    <3>1. Row(i) => old \in Incidents
      BY <2>1, RowType
    <3>2. old \in Incidents => row.status = old.status /\ old.status # "absent"
      <4> HIDE DEF old, me
      <4> QED
        BY DEF Incidents, Statuses
    <3> HIDE DEF row
    <3> QED
      BY <3>1, <3>2 DEF Absent
  <2>4. UNCHANGED <<pipes, counter>>
    BY <1>3 DEF HookEvaluate
  <2> HIDE DEF row, old, i, me
  <2>5. In(rows') = In(rows)
    BY <2>1, <2>2, <2>3, KeptRows
  <2> QED
    BY <2>4, <2>5, OthersNumbers
<1> QED
  BY <1>1, <1>2, <1>3

LEMMA TaskNumbers ==
  ASSUME TypeInv, TableInv, NumberInv, NEW t \in TaskIds, TaskNext(t)
  PROVE  NumberInv'
<1>0. UNCHANGED <<pipes, counter>>
  BY DEF TaskNext, TaskRead, TaskWrite, TaskDropWrite, TaskEnd
<1>1. CASE TaskWrite(t)
  <2> DEFINE task == tasks[t]
  <2>1. task.row # Absent /\ task.id \in Ids
    BY <1>1 DEF TaskWrite, TypeInv, TypeOK, TaskStates, TableInv, ListedTask
  <2>2. rows' = IF Row(task.id) THEN [rows EXCEPT ![task.id] = task.row] ELSE rows
    BY <1>1 DEF TaskWrite
  <2> HIDE DEF task
  <2> QED
    BY <1>0, <2>1, <2>2, KeptRows, OthersNumbers
<1>2. CASE ~TaskWrite(t)
  <2>1. rows' = rows
    BY <1>2 DEF TaskNext, TaskRead, TaskDropWrite, TaskEnd
  <2> QED
    BY <1>0, <2>1, OthersNumbers
<1> QED
  BY <1>1, <1>2

LEMMA StatusNumbers ==
  ASSUME TypeInv, NumberInv, NEW i \in Ids, NEW status, SetStatus(i, status)
  PROVE  NumberInv'
<1> DEFINE row == [rows[i] EXCEPT !.status = status]
<1>1. row # Absent
  <2>1. rows[i] \in Incidents
    BY RowType DEF SetStatus
  <2>2. "kids" \in DOMAIN row
    BY <2>1 DEF Incidents
  <2>3. "kids" \notin DOMAIN Absent
    BY DEF Absent
  <2> QED
    BY <2>2, <2>3
<1>2. rows' = [rows EXCEPT ![i] = row] /\ i \in In(rows)
  BY DEF SetStatus, TypeInv, TypeOK, Tables, Row, In
<1>3. UNCHANGED <<pipes, counter>>
  BY DEF SetStatus
<1> HIDE DEF row
<1> QED
  BY <1>1, <1>2, <1>3, RewrittenRow, OthersNumbers

LEMMA NumberInit == Init => NumberInv
<1> SUFFICES ASSUME Init PROVE NumberInv
  OBVIOUS
<1>1. In(rows) = {}
  BY DEF Init, NoRows, In
<1>2. \A p \in Pipes : pipes[p].pc = "idle"
  BY DEF Init, IdlePipe
<1> QED
  BY <1>1, <1>2 DEF NumberInv, Creating

\* No purge deletes an incident, the process does not restart, and no node-state event
\* creates an incident (it would number it by counting rows).
Undisturbed == NothingPurged /\ ~Restart /\ \A h \in Hooks : ~HookSave(h)

LEMMA NumberNext ==
  TypeInv /\ TableInv /\ NumberInv /\ [Next]_vars /\ [Undisturbed]_vars => NumberInv'
<1> SUFFICES ASSUME TypeInv, TableInv, NumberInv, [Next]_vars, [Undisturbed]_vars PROVE NumberInv'
  OBVIOUS
<1>1. CASE UNCHANGED <<rows, counter, pipes>>
  BY <1>1, OthersNumbers
<1>2. CASE UNCHANGED vars
  BY <1>1, <1>2 DEF vars
<1>3. CASE Purge /\ Undisturbed
  BY <1>1, <1>3 DEF Purge, Undisturbed, NothingPurged
<1>4. CASE Tick \/ Done
  BY <1>1, <1>4 DEF Tick, Done, vars
<1> QED
  BY <1>2, <1>3, <1>4, ReceiveNumbers, PipeNumbers, HookNumbers, TaskNumbers, StatusNumbers
     DEF Next, HookNext, Operator, Resolve, Reopen, Undisturbed

\* Apart from those three causes a new incident never takes the place of another: however
\* many pipelines run, each creates its incident under a number that is not in the table.
THEOREM NumbersAreFresh == Spec /\ [][Undisturbed]_vars => NewIdsAreFresh
<1>1. NumberInv /\ [Next]_vars /\ [Undisturbed]_vars
        => [\A i \in Ids : Creates(i) => ~Row(i)]_vars
  <2> SUFFICES ASSUME NumberInv, Undisturbed, NEW i \in Ids, Creates(i) PROVE ~Row(i)
    OBVIOUS
  <2>1. PICK p \in Pipes : PipeSave(p) /\ i = pipes[p].id
    BY DEF Creates, Undisturbed
  <2> QED
    BY <2>1 DEF PipeSave, At, NumberInv, Creating, Row, In
<1>2. [Undisturbed]_vars => [NothingPurged]_vars
  BY DEF Undisturbed
<1> QED
  BY <1>1, <1>2, NumberInit, NumberNext, TableInit, TableNext, BackendInvariant, PTL
     DEF Spec, NewIdsAreFresh

\* The hypotheses are those of a run with no operator, no restart and no handler.
THEOREM UndisturbedRuns ==
  ASSUME OperatorCalls = 0, Restarts = 0, Hooks = {}
  PROVE  Spec => [][Undisturbed]_vars
<1> DEFINE NoneLeft == left.calls = 0 /\ left.restarts = 0
<1>1. Init => NoneLeft
  BY DEF Init
<1>2. TypeInv /\ NoneLeft => ~Purge /\ ~Restart
  BY DEF Purge, Restart, Spend
<1>3. TypeInv /\ NoneLeft /\ [Next]_vars => NoneLeft'
  <2> SUFFICES ASSUME TypeInv, NoneLeft, [Next]_vars PROVE NoneLeft'
    OBVIOUS
  <2>1. left' = left \/ \E f \in {"messages", "events"} : left' = [left EXCEPT ![f] = @ - 1]
    <3>1. \A i \in Ids : ~Resolve(i) /\ ~Reopen(i)
      BY DEF Resolve, Reopen, SetStatus, Spend
    <3>2. \A p \in Pipes : PipeNext(p) => left' = left
      BY DEF PipeNext, PipeAnalyze, PipeUnexplained, PipeGetActive, PipeMatch, PipeUpdate, PipeSave,
             PipeKid, PipeKidUpdate, PipeKidSave, PipeKidParent, PipeEvaluate, PipeFinish,
             PipeListRecovery, PipeRecoveryUpdate, PipeRecoverySchedule
    <3>3. \A t \in TaskIds : TaskNext(t) => left' = left
      BY DEF TaskNext, TaskRead, TaskWrite, TaskDropWrite, TaskEnd
    <3>4. \A p \in Pipes : PipeReceive(p) => left' = [left EXCEPT !["messages"] = @ - 1]
      BY DEF PipeReceive, Spend
    <3>5. Tick \/ Done \/ UNCHANGED vars => left' = left
      BY DEF Tick, Done, vars
    <3> QED
      BY <1>2, <3>1, <3>2, <3>3, <3>4, <3>5 DEF Next, Operator
  <2> QED
    BY <2>1 DEF TypeInv, TypeOK
<1>4. TypeInv /\ NoneLeft => Undisturbed
  BY <1>2 DEF Undisturbed, NothingPurged
<1> QED
  BY <1>1, <1>3, <1>4, BackendInvariant, PTL DEF Spec
=============================================================================
