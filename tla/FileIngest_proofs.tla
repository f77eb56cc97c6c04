-------------------------- MODULE FileIngest_proofs --------------------------
(***************************************************************************)
(* What the file ingestion keeps true of the table, however the graph, the *)
(* work plans and the lines are: one open incident for a fault within the  *)
(* merge window, lines lost only to a device the topology does not have,   *)
(* nothing in a closed incident that no work plan covered, and every line  *)
(* in an incident that names its device, until a later incident gets the   *)
(* number that an earlier run gave.                                        *)
(***************************************************************************)
EXTENDS FileIngest, Ordering_proofs, TLAPS

-----------------------------------------------------------------------------
(* The graph.                                                               *)

\* Two paths, one after the other, are a path.
LEMMA PathsJoin ==
  ASSUME NEW x, NEW y, NEW z, <<x, y>> \in AllPaths, <<y, z>> \in AllPaths
  PROVE  <<x, z>> \in AllPaths
<1> DEFINE after(s) == {e[2] : e \in {f \in AllEdges : f[1] \in s}}
<1>1. AllPaths = {p \in Nodes \X Nodes :
                    \A s \in SUBSET Nodes : after({p[1]} \cup s) \subseteq s => p[2] \in s}
  BY DEF AllPaths, Paths
<1> HIDE DEF after
<1>2. x \in Nodes /\ y \in Nodes /\ z \in Nodes
  BY <1>1
<1>3. ASSUME NEW s \in SUBSET Nodes, after({x} \cup s) \subseteq s PROVE z \in s
  <2>1. y \in s
    BY <1>1, <1>3
  <2>2. after({y} \cup s) \subseteq after({x} \cup s)
    BY <2>1 DEF after
  <2> QED
    BY <1>1, <1>3, <2>2
<1> QED
  BY <1>1, <1>2, <1>3

\* What is above a device has a path to it, and both are devices of the graph.
LEMMA AboveIsBelow ==
  ASSUME NEW a, NEW d
  PROVE  /\ a \in Ancestors(d) <=> a # d /\ <<a, d>> \in AllPaths
         /\ d \in Descendants(a) <=> a # d /\ <<a, d>> \in AllPaths
         /\ a \in Ancestors(d) => a \in Nodes /\ d \in Nodes
<1>1. <<a, d>> \in AllPaths => a \in Nodes /\ d \in Nodes
  BY DEF AllPaths, Paths
<1> QED
  BY <1>1 DEF Ancestors, Descendants

\* Above a device that is above another there is nothing that is not above the other.
LEMMA HigherStill ==
  ASSUME NEW top, NEW middle, NEW low,
         top \in {middle} \cup Ancestors(middle), middle \in {low} \cup Ancestors(low)
  PROVE  top \in {low} \cup Ancestors(low)
<1>1. CASE top = middle \/ middle = low
  BY <1>1
<1>2. CASE top # middle /\ middle # low
  <2>1. <<top, middle>> \in AllPaths /\ <<middle, low>> \in AllPaths
    BY <1>2, AboveIsBelow
  <2>2. <<top, low>> \in AllPaths
    BY <2>1, PathsJoin
  <2> QED
    BY <2>2, AboveIsBelow
<1> QED
  BY <1>1, <1>2


-----------------------------------------------------------------------------
(* Where a new incident goes.                                               *)

\* Incidents were created before this run, or by one of its lines.
CreatedInTime ==
  \A i \in DOMAIN rows : rows[i].created \in -Backlog..Len(input)

\* The newest of some incidents of the table is one of them, and none is newer.
LEMMA NewestOf ==
  ASSUME Len(input) \in Nat, CreatedInTime, NEW ids \in SUBSET DOMAIN rows, ids # {}
  PROVE  Newest(ids) \in ids /\ \A j \in ids : ~Newer(j, Newest(ids))
<1> DEFINE ages == {rows[i].created + Backlog : i \in ids}
<1>0. Backlog \in Nat
  BY IngestAssumption
<1>1. \A i \in ids : rows[i].created \in Int /\ -Backlog <= rows[i].created
                       /\ rows[i].created <= Len(input)
  BY <1>0 DEF CreatedInTime
<1>2. ages \in SUBSET (0..(Len(input) + Backlog)) /\ ages # {}
  <2>1. \A i \in ids : rows[i].created + Backlog \in 0..(Len(input) + Backlog)
    BY <1>0, <1>1
  <2> QED
    BY <2>1
<1>3. PICK m \in ages : \A k \in ages : k <= m
  <2>1. Len(input) + Backlog \in Nat
    BY <1>0
  <2> QED
    BY <1>2, <2>1, GreatestOf
<1>4. PICK i \in ids : m = rows[i].created + Backlog
  OBVIOUS
<1>5. \A j \in ids : ~Newer(j, i)
  <2>1. ASSUME NEW j \in ids PROVE ~(rows[j].created > rows[i].created)
    <3>1. rows[j].created + Backlog <= rows[i].created + Backlog
      BY <1>3, <1>4
    <3> QED
      BY <1>0, <1>1, <3>1
  <2> QED
    BY <2>1 DEF Newer
<1> QED
  BY <1>5 DEF Newest

\* Eligible incidents that are not above the root, not below it, and what is asked
\* of the one that the new incident is merged into.
MayTake(i, root, at) ==
  /\ i \in Eligible(at)
  /\ \/ rows[i].root = root
     \/ /\ rows[i].root \in Ancestors(root)
        /\ \A j \in Eligible(at) : ~rows[j].object => rows[j].root # root
     \/ /\ root \in Ancestors(rows[i].root)
        /\ \A j \in Eligible(at) : ~rows[j].object => rows[j].root # root
        /\ \A j \in Eligible(at) : root \in Ancestors(rows[j].root) => ~Newer(j, i)

\* The three answers of the merger, and what each says of the table.
LEMMA TargetFacts ==
  ASSUME Len(input) \in Nat, CreatedInTime, NEW root, NEW at,
         NEW target, target = MergeTarget(root, at)
  PROVE  /\ target.kind = "merge" => MayTake(target.id, root, at)
         /\ target.kind = "new" =>
              \A j \in Eligible(at) :
                  ~rows[j].object => rows[j].root \notin {root} \cup Ancestors(root)
         /\ target.kind = "error" => \E j \in Eligible(at) : rows[j].root \notin Nodes
<1> DEFINE eligible == Eligible(at)
           same     == {i \in eligible : ~rows[i].object /\ rows[i].root = root}
           foreign  == {i \in eligible : rows[i].root \notin Nodes}
           above    == {i \in eligible \ foreign : root \in Descendants(rows[i].root)}
           below    == {i \in eligible \ foreign : root \in Ancestors(rows[i].root)}
           merged(s) == [kind |-> "merge", id |-> Newest(s)]
           lost     == foreign # {} /\ (above = {} \/ Newer(Newest(foreign), Newest(above)))
<1>1. target = IF same # {} THEN merged(same)
               ELSE IF lost THEN [kind |-> "error"]
               ELSE IF above # {} THEN merged(above)
               ELSE IF below # {} THEN merged(below)
               ELSE [kind |-> "new"]
  BY DEF MergeTarget
<1>2. /\ same \in SUBSET DOMAIN rows /\ above \in SUBSET DOMAIN rows
      /\ below \in SUBSET DOMAIN rows /\ same \subseteq eligible
      /\ above \subseteq eligible /\ below \subseteq eligible
  BY DEF Eligible, OpenActive
<1>3. \A i \in eligible : rows[i].root \in Ancestors(root) => i \in above
  BY AboveIsBelow
<1>4. \A i \in eligible : root \in Ancestors(rows[i].root) => i \in below
  BY AboveIsBelow
<1>5. \A i \in above : rows[i].root \in Ancestors(root)
  BY AboveIsBelow
<1>6. CASE same # {}
  <2>1. Newest(same) \in same
    BY <1>2, <1>6, NewestOf
  <2>2. target = merged(same)
    BY <1>1, <1>6
  <2> QED
    BY <1>2, <2>1, <2>2 DEF MayTake
<1>7. CASE same = {} /\ lost
  BY <1>1, <1>7
<1>8. CASE same = {} /\ ~lost /\ above # {}
  <2>1. Newest(above) \in above
    BY <1>2, <1>8, NewestOf
  <2>2. target = merged(above)
    BY <1>1, <1>8
  <2> QED
    BY <1>2, <1>5, <1>8, <2>1, <2>2 DEF MayTake
<1>9. CASE same = {} /\ ~lost /\ above = {} /\ below # {}
  <2>1. Newest(below) \in below /\ \A j \in below : ~Newer(j, Newest(below))
    BY <1>2, <1>9, NewestOf
  <2>2. target = merged(below)
    BY <1>1, <1>9
  <2> QED
    BY <1>2, <1>4, <1>9, <2>1, <2>2 DEF MayTake
<1>10. CASE same = {} /\ ~lost /\ above = {} /\ below = {}
  <2>1. target = [kind |-> "new"]
    BY <1>1, <1>10
  <2> QED
    BY <1>3, <1>10, <2>1
<1> QED
  BY <1>6, <1>7, <1>8, <1>9, <1>10

-----------------------------------------------------------------------------
(* What an incident is, new and after a merge.                              *)

\* A merge leaves status, condition and time as they are; the root stays or moves
\* up, and every device and every line is still there.
LEMMA MergeFacts ==
  ASSUME NEW target, DOMAIN target = Fields, NEW found, NEW merged,
         merged = Merge(target, found)
  PROVE  /\ DOMAIN merged = Fields
         /\ merged.status = target.status
         /\ merged.condition = target.condition
         /\ merged.faultAt = target.faultAt
         /\ merged.created = target.created /\ merged.object = target.object
         /\ merged.logs = LogsOf(target, found)
         /\ merged.count = target.count + found.count
         /\ \/ merged.root = target.root
            \/ merged.root = found.root /\ found.root \in Ancestors(target.root)
         /\ merged.root \notin merged.secondary
         /\ {merged.root} \cup merged.secondary =
              {target.root, found.root} \cup target.secondary \cup found.secondary
<1> DEFINE promoted == found.root \in Ancestors(target.root) /\ found.root \notin target.secondary
           root     == IF promoted THEN found.root ELSE target.root
<1>1. /\ DOMAIN merged = Fields
      /\ merged.status = target.status
      /\ merged.condition = target.condition
      /\ merged.faultAt = target.faultAt
      /\ merged.created = target.created /\ merged.object = target.object
      /\ merged.logs = LogsOf(target, found)
      /\ merged.count = target.count + found.count
      /\ merged.root = root
      /\ merged.secondary =
           (target.secondary \cup {target.root, found.root} \cup found.secondary) \ {root}
  BY DEF Merge, Fields
<1> QED
  BY <1>1

-----------------------------------------------------------------------------
(* What a step can do to the table: nothing but recover incidents, add one, *)
(* or merge into one.                                                       *)

Outcomes == {"ignored", "recovery", "unheeded", "failed", "printed", "lost", "kept"}
Entries  == [line : Lines, at : Nat, outcome : Outcomes, into : Int]

\* The columns of an incident have their types.
RowTyped(row) ==
  /\ DOMAIN row = Fields
  /\ row.status \in {"OPEN", "CLOSED"}
  /\ row.condition \in {"ACTIVE", "RECOVERED"}
  /\ row.faultAt \in Int /\ row.faultAt <= clock
  /\ row.created \in -Backlog..Len(input)
  /\ row.created > 0 => ~row.object
  /\ row.logs \in SUBSET (1..Len(input))

\* The variables have their types, and a number is used for one line.
Typed ==
  /\ clock \in 0..MaxTime
  /\ stored \in BOOLEAN /\ running \in BOOLEAN
  /\ input \in Seq(Entries) /\ Len(input) <= MaxLines
  /\ counter \in 0..Len(input)
  /\ DOMAIN rows \subseteq (1..counter) \cup UsedBefore
  /\ \A i \in DOMAIN rows : RowTyped(rows[i])

\* The fault of an incident of this run is not earlier than those of older incidents.
FaultsInOrder ==
  \A i, j \in DOMAIN rows :
    rows[j].created > 0 /\ Newer(j, i) => rows[i].faultAt <= rows[j].faultAt

\* The incident stays, though it may recover.
Stays(old, new) ==
  /\ DOMAIN new = DOMAIN old
  /\ new.root = old.root /\ new.secondary = old.secondary
  /\ new.logs = old.logs /\ new.count = old.count
  /\ new.status = old.status /\ new.plan = old.plan /\ new.faultAt = old.faultAt
  /\ new.created = old.created /\ new.object = old.object
  /\ new.condition \in {old.condition, "RECOVERED"}

AllStay ==
  /\ DOMAIN rows' = DOMAIN rows
  /\ \A i \in DOMAIN rows : Stays(rows[i], rows'[i])

\* No line is read.
NoLine ==
  /\ AllStay
  /\ UNCHANGED <<counter, input, stored, running>>
  /\ clock' = clock \/ (clock < MaxTime /\ clock' = clock + 1)

Reads(line, outcome, into) ==
  /\ line \in Lines
  /\ Len(input) < MaxLines
  /\ input' = Append(input, [line |-> line, at |-> clock, outcome |-> outcome, into |-> into])
  /\ UNCHANGED <<clock, stored>>

\* A line is read and no incident has it.
NotKept(line, outcome) ==
  /\ Reads(line, outcome, Nowhere)
  /\ outcome \in Outcomes \ {"kept"}
  /\ AllStay
  /\ counter' \in {counter, counter + 1}
  /\ running' \in {running, FALSE}
  /\ outcome = "lost" => \E i \in Eligible(clock) : rows[i].root \notin Nodes

\* An incident is found in the line.
FoundIn(line, found) ==
  /\ ~line.minor /\ line.host \in Nodes
  /\ \E s \in SilentOrders(<<Message(line)>>), r \in RootOrders(<<Message(line)>>) :
       found = Infer(<<Message(line)>>, {}, s, r)[1]

PlanFor(found, line) ==
  FindActivePlan(Plans, found.root, IF found.event = 0 THEN "silent" ELSE line.event, clock)

NewIncident(found, line) == Incident(found, line, PlanFor(found, line))

Keeps(line, found, id) ==
  /\ Reads(line, "kept", id)
  /\ FoundIn(line, found)
  /\ PlanFor(found, line) # PlanError
  /\ counter' = counter + 1
  /\ running' = running

\* A line is read and its incident is stored.
Stores(line, found) ==
  /\ Keeps(line, found, counter + 1)
  /\ \A i \in Eligible(clock) :
       ~rows[i].object => rows[i].root \notin {found.root} \cup Ancestors(found.root)
  /\ Put(counter + 1, NewIncident(found, line))

\* A line is read and its incident is merged into incident i.
Merges(line, found, i) ==
  /\ Keeps(line, found, i)
  /\ MayTake(i, found.root, clock)
  /\ Put(i, Merge(rows[i], NewIncident(found, line)))

\* What is judged is one of these.
LEMMA JudgeCases ==
  ASSUME Typed, NEW line \in Lines, NEW found, FoundIn(line, found), Judge(line, found),
         Len(input) < MaxLines, UNCHANGED <<clock, stored>>
  PROVE  \/ \E outcome : NotKept(line, outcome)
         \/ Stores(line, found)
         \/ \E i : Merges(line, found, i)
<1> PICK plan : plan = PlanFor(found, line)
  OBVIOUS
<1> PICK target : target = MergeTarget(found.root, clock)
  OBVIOUS
<1>0. Len(input) \in Nat /\ CreatedInTime
  BY DEF Typed, RowTyped, CreatedInTime
<1>1. /\ target.kind = "merge" => MayTake(target.id, found.root, clock)
      /\ target.kind = "new" =>
           \A j \in Eligible(clock) :
              ~rows[j].object => rows[j].root \notin {found.root} \cup Ancestors(found.root)
      /\ target.kind = "error" => \E j \in Eligible(clock) : rows[j].root \notin Nodes
  BY <1>0, TargetFacts
<1>2. counter' = counter + 1
  BY DEF Judge
<1>3. rows' = rows => AllStay
  BY DEF AllStay, Stays
<1>4. CASE plan = PlanError /\ running' = FALSE /\ Done(line, "failed") /\ UNCHANGED rows
  <2>1. NotKept(line, "failed")
    BY <1>2, <1>3, <1>4 DEF NotKept, Reads, Done, Outcomes
  <2> QED
    BY <2>1
<1>5. CASE Done(line, "printed") /\ UNCHANGED <<rows, running>>
  <2>1. NotKept(line, "printed")
    BY <1>2, <1>3, <1>5 DEF NotKept, Reads, Done, Outcomes
  <2> QED
    BY <2>1
<1>6. CASE target.kind = "error" /\ Done(line, "lost") /\ UNCHANGED <<rows, running>>
  <2>1. NotKept(line, "lost")
    BY <1>1, <1>2, <1>3, <1>6 DEF NotKept, Reads, Done, Outcomes
  <2> QED
    BY <2>1
<1>7. CASE /\ plan # PlanError /\ target.kind = "new"
           /\ Put(counter', NewIncident(found, line)) /\ KeptIn(line, counter')
           /\ UNCHANGED running
  <2>1. Keeps(line, found, counter + 1)
    BY <1>2, <1>7 DEF Keeps, Reads, KeptIn
  <2>2. Put(counter + 1, NewIncident(found, line))
    BY <1>2, <1>7 DEF Put
  <2> QED
    BY <1>1, <1>7, <2>1, <2>2 DEF Stores
<1>8. CASE /\ plan # PlanError /\ target.kind = "merge"
           /\ Put(target.id, Merge(rows[target.id], NewIncident(found, line)))
           /\ KeptIn(line, target.id) /\ UNCHANGED running
  <2>1. Keeps(line, found, target.id)
    BY <1>2, <1>8 DEF Keeps, Reads, KeptIn
  <2> QED
    BY <1>1, <1>8, <2>1 DEF Merges
<1> QED
  BY <1>4, <1>5, <1>6, <1>7, <1>8 DEF Judge, PlanFor, NewIncident

\* Every step is one of these.
LEMMA StepCases ==
  ASSUME Typed, [Next]_vars
  PROVE  \/ NoLine
         \/ \E line, outcome : NotKept(line, outcome)
         \/ \E line, found : Stores(line, found)
         \/ \E line, found, i : Merges(line, found, i)
<1>1. rows' = rows => AllStay
  BY DEF AllStay, Stays
<1>2. CASE UNCHANGED vars
  <2>1. UNCHANGED <<clock, stored, counter, rows, input, running>>
    BY <1>2 DEF vars
  <2>2. NoLine
    BY <1>1, <2>1 DEF NoLine
  <2> QED
    BY <2>2
<1>3. CASE Tick
  BY <1>1, <1>3 DEF NoLine, Tick
<1>4. ASSUME NEW line \in Lines, Read(line)
      PROVE  \/ \E outcome : NotKept(line, outcome)
             \/ \E found : Stores(line, found) \/ \E i : Merges(line, found, i)
  <2>1. Len(input) < MaxLines /\ UNCHANGED <<clock, stored>>
    BY <1>4 DEF Read
  <2>2. ASSUME Ignore(line) PROVE NotKept(line, "ignored")
    BY <1>1, <2>1, <2>2 DEF Ignore, NotKept, Reads, Done, Outcomes
  <2>3. ASSUME Unheeded(line) PROVE NotKept(line, "unheeded")
    BY <1>1, <2>1, <2>3 DEF Unheeded, NotKept, Reads, Done, Outcomes
  <2>4. ASSUME Recover(line) PROVE NotKept(line, "recovery")
    <3>1. ASSUME NEW i \in DOMAIN rows PROVE Stays(rows[i], rows'[i])
      <4>1. rows'[i] \in {rows[i], [rows[i] EXCEPT !.condition = "RECOVERED"]}
        BY <2>4, <3>1 DEF Recover
      <4>2. DOMAIN rows[i] = Fields
        BY <3>1 DEF Typed, RowTyped
      <4> QED
        BY <4>1, <4>2 DEF Stays, Fields
    <3>2. AllStay
      BY <2>4, <3>1 DEF Recover, AllStay
    <3> QED
      BY <2>1, <2>4, <3>2 DEF Recover, NotKept, Reads, Done, Outcomes
  <2>5. ASSUME Fault(line)
        PROVE  \/ \E outcome : NotKept(line, outcome)
               \/ \E found : Stores(line, found) \/ \E i : Merges(line, found, i)
    <3>1. PICK found : FoundIn(line, found) /\ Judge(line, found)
      BY <2>5 DEF Fault, FoundIn
    <3> QED
      BY <2>1, <3>1, JudgeCases
  <2> QED
    BY <1>4, <2>2, <2>3, <2>4, <2>5 DEF Read
<1> QED
  BY <1>2, <1>3, <1>4 DEF Next


-----------------------------------------------------------------------------
(* The lines read and the table after a step.                               *)

LEMMA ReadsFacts ==
  ASSUME Typed, NEW line, NEW outcome \in Outcomes, NEW into \in Int, Reads(line, outcome, into)
  PROVE  /\ input' \in Seq(Entries) /\ Len(input') = Len(input) + 1
         /\ \A k \in 1..Len(input) : input'[k] = input[k]
         /\ input'[Number] = [line |-> line, at |-> clock, outcome |-> outcome, into |-> into]
         /\ DOMAIN input' = 1..(Len(input) + 1) /\ DOMAIN input = 1..Len(input)
<1> DEFINE entry == [line |-> line, at |-> clock, outcome |-> outcome, into |-> into]
<1>1. input \in Seq(Entries) /\ clock \in Nat
  BY IngestAssumption DEF Typed
<1>2. entry \in Entries
  BY <1>1 DEF Entries, Reads
<1>3. input' = Append(input, entry)
  BY DEF Reads
<1> HIDE DEF entry
<1>4. QED
  BY <1>1, <1>2, <1>3 DEF entry, Number

\* The table after an incident is stored.
LEMMA StoresFacts ==
  ASSUME Typed, NEW line, NEW found, Stores(line, found)
  PROVE  /\ counter + 1 \in DOMAIN rows => counter + 1 \in UsedBefore
         /\ DOMAIN rows' = DOMAIN rows \cup {counter + 1}
         /\ \A j \in DOMAIN rows \ {counter + 1} : rows'[j] = rows[j]
         /\ DOMAIN rows'[counter + 1] = Fields
         /\ rows'[counter + 1].root = found.root
         /\ rows'[counter + 1].secondary = found.secondary
         /\ rows'[counter + 1].logs = {Number}
         /\ rows'[counter + 1].count = 1
         /\ rows'[counter + 1].status \in {"OPEN", "CLOSED"}
         /\ rows'[counter + 1].status = "CLOSED" => PlanFor(found, line) # NoPlan
         /\ rows'[counter + 1].condition = "ACTIVE"
         /\ rows'[counter + 1].plan = PlanFor(found, line).id
         /\ rows'[counter + 1].faultAt = clock
         /\ rows'[counter + 1].created = Number /\ rows'[counter + 1].object = FALSE
<1>1. counter \in Nat /\ DOMAIN rows \subseteq (1..counter) \cup UsedBefore
  BY DEF Typed
<1>2. PICK new : new = NewIncident(found, line)
  OBVIOUS
<1>3. rows' = [j \in DOMAIN rows \cup {counter + 1} |-> IF j = counter + 1 THEN new ELSE rows[j]]
  BY <1>2 DEF Stores, Put
<1>4. /\ counter + 1 \in DOMAIN rows => counter + 1 \in UsedBefore
      /\ DOMAIN rows' = DOMAIN rows \cup {counter + 1}
      /\ \A j \in DOMAIN rows \ {counter + 1} : rows'[j] = rows[j]
      /\ rows'[counter + 1] = new
  BY <1>1, <1>3
<1> PICK plan : plan = PlanFor(found, line)
  OBVIOUS
<1>5. new = Incident(found, line, plan)
  BY <1>2 DEF NewIncident
<1>6. /\ DOMAIN new = Fields
      /\ new.root = found.root /\ new.secondary = found.secondary
      /\ new.logs = {Number} /\ new.count = 1
      /\ new.status = (IF plan = NoPlan THEN "OPEN" ELSE "CLOSED")
      /\ new.condition = "ACTIVE"
      /\ new.plan = plan.id /\ new.faultAt = clock
      /\ new.created = Number /\ new.object = FALSE
  BY <1>5 DEF Incident, Fields
<1> QED
  BY <1>4, <1>6

\* The table after a merge: the incident is open, stays as it is but for the line,
\* its devices and perhaps its root.
LEMMA MergesFacts ==
  ASSUME Typed, NEW line, NEW found, NEW i, Merges(line, found, i)
  PROVE  /\ i \in OpenActive
         /\ DOMAIN rows' = DOMAIN rows
         /\ \A j \in DOMAIN rows \ {i} : rows'[j] = rows[j]
         /\ DOMAIN rows'[i] = Fields
         /\ rows'[i].status = rows[i].status
         /\ rows'[i].condition = rows[i].condition
         /\ rows'[i].faultAt = rows[i].faultAt
         /\ rows'[i].created = rows[i].created /\ rows'[i].object = rows[i].object
         /\ rows[i].count < LogsCap => rows'[i].logs = rows[i].logs \cup {Number}
         /\ ~(rows[i].count < LogsCap) => rows'[i].logs = rows[i].logs
         /\ rows'[i].count = rows[i].count + 1
         /\ \/ rows'[i].root = rows[i].root
            \/ rows'[i].root = found.root /\ found.root \in Ancestors(rows[i].root)
         /\ rows'[i].root \notin rows'[i].secondary
         /\ {rows'[i].root} \cup rows'[i].secondary =
              {rows[i].root, found.root} \cup rows[i].secondary \cup found.secondary
<1>1. i \in OpenActive /\ i \in DOMAIN rows
  BY DEF Merges, MayTake, Eligible, OpenActive
<1>2. PICK new : new = NewIncident(found, line)
  OBVIOUS
<1>3. PICK merged : merged = Merge(rows[i], new)
  OBVIOUS
<1>4. rows' = [j \in DOMAIN rows \cup {i} |-> IF j = i THEN merged ELSE rows[j]]
  BY <1>2, <1>3 DEF Merges, Put
<1>5. /\ DOMAIN rows' = DOMAIN rows
      /\ \A j \in DOMAIN rows \ {i} : rows'[j] = rows[j]
      /\ rows'[i] = merged
  BY <1>1, <1>4
<1> PICK plan : plan = PlanFor(found, line)
  OBVIOUS
<1>6. new = Incident(found, line, plan)
  BY <1>2 DEF NewIncident
<1>7. /\ new.root = found.root /\ new.secondary = found.secondary
      /\ new.logs = {Number} /\ new.count = 1
  BY <1>6 DEF Incident
<1>8. DOMAIN rows[i] = Fields
  BY <1>1 DEF Typed, RowTyped
<1>9. PICK old : old = rows[i]
  OBVIOUS
<1>10. /\ DOMAIN merged = Fields
       /\ merged.status = old.status
       /\ merged.condition = old.condition
       /\ merged.faultAt = old.faultAt
       /\ merged.created = old.created /\ merged.object = old.object
       /\ merged.logs = LogsOf(old, new)
       /\ merged.count = old.count + new.count
       /\ \/ merged.root = old.root
          \/ merged.root = new.root /\ new.root \in Ancestors(old.root)
       /\ merged.root \notin merged.secondary
       /\ {merged.root} \cup merged.secondary =
            {old.root, new.root} \cup old.secondary \cup new.secondary
  BY <1>3, <1>8, <1>9, MergeFacts
<1>11. /\ old.count < LogsCap => merged.logs = old.logs \cup {Number}
       /\ ~(old.count < LogsCap) => merged.logs = old.logs
  BY <1>7, <1>10 DEF LogsOf
<1> QED
  BY <1>1, <1>5, <1>7, <1>9, <1>10, <1>11

-----------------------------------------------------------------------------
(* Types, and the order of the faults.                                      *)

LEMMA TypedInit == Init => Typed /\ FaultsInOrder
<1> SUFFICES ASSUME Init PROVE Typed /\ FaultsInOrder
  OBVIOUS
<1>1. /\ DOMAIN rows \subseteq UsedBefore
      /\ \A i \in DOMAIN rows : /\ DOMAIN rows[i] = Fields
                                /\ rows[i].status \in {"OPEN", "CLOSED"}
                                /\ rows[i].condition \in {"ACTIVE", "RECOVERED"}
                                /\ rows[i].logs = {}
                                /\ rows[i].faultAt \in Int /\ rows[i].faultAt <= 0
                                /\ rows[i].created \in -Backlog..0
  BY IngestAssumption DEF Init, UsedBefore
<1>2. input = <<>> /\ input \in Seq(Entries) /\ Len(input) = 0 /\ clock = 0
  BY DEF Init
<1>3. \A i \in DOMAIN rows : RowTyped(rows[i]) /\ ~(rows[i].created > 0)
  BY <1>1, <1>2, IngestAssumption DEF RowTyped
<1> QED
  BY <1>1, <1>2, <1>3, IngestAssumption DEF Init, Typed, FaultsInOrder

\* An incident that is as it was has its type after a step as well.
LEMMA StaysTyped ==
  ASSUME Typed, NEW old, NEW new, RowTyped(old), Stays(old, new), clock' \in Nat, clock <= clock',
         Len(input') \in Nat, Len(input) <= Len(input')
  PROVE  RowTyped(new)'
<1>1. /\ clock \in Nat /\ Len(input) \in Nat /\ Backlog \in Nat
  BY IngestAssumption DEF Typed
<1> QED
  BY <1>1 DEF RowTyped, Stays


LEMMA TypedStep ==
  ASSUME Typed, FaultsInOrder, [Next]_vars
  PROVE  Typed' /\ FaultsInOrder'
<1>1. /\ clock \in Nat /\ clock <= MaxTime /\ MaxTime \in Nat /\ MaxLines \in Nat
      /\ Len(input) \in Nat /\ counter \in Nat /\ counter <= Len(input)
      /\ DOMAIN rows \subseteq (1..counter) \cup UsedBefore
      /\ input \in Seq(Entries) /\ Backlog \in Nat
  BY IngestAssumption DEF Typed
<1>2. \A i \in DOMAIN rows : /\ i \in Int /\ RowTyped(rows[i])
                             /\ rows[i].faultAt \in Int /\ rows[i].faultAt <= clock
                             /\ rows[i].created \in -Backlog..Len(input)
  BY <1>1, IngestAssumption DEF Typed, RowTyped, UsedBefore
<1>3. ASSUME AllStay, clock' \in Nat, clock <= clock', Len(input') \in Nat,
             Len(input) <= Len(input'), counter' \in Nat, counter <= counter'
      PROVE  /\ DOMAIN rows' \subseteq (1..counter') \cup UsedBefore
             /\ \A i \in DOMAIN rows' : RowTyped(rows[i])'
             /\ FaultsInOrder'
  <2>1. ASSUME NEW i \in DOMAIN rows' PROVE RowTyped(rows[i])'
    <3>1. PICK new : new = rows'[i]
      OBVIOUS
    <3>2. Stays(rows[i], new) /\ RowTyped(rows[i])
      BY <1>2, <1>3, <2>1, <3>1 DEF AllStay
    <3>3. RowTyped(new)'
      BY <1>3, <3>2, StaysTyped
    <3> QED
      BY <3>1, <3>3 DEF RowTyped
  <2>2. FaultsInOrder'
    BY <1>3 DEF AllStay, Stays, FaultsInOrder, Newer
  <2>3. DOMAIN rows' \subseteq (1..counter') \cup UsedBefore
    BY <1>1, <1>3 DEF AllStay
  <2> QED
    BY <2>1, <2>2, <2>3
<1>4. CASE NoLine
  <2>1. /\ clock' \in 0..MaxTime /\ clock <= clock'
        /\ counter' = counter /\ input' = input /\ stored' = stored /\ running' = running
    BY <1>1, <1>4 DEF NoLine
  <2>2. Typed' <=> /\ \A i \in DOMAIN rows' : RowTyped(rows[i])'
                   /\ DOMAIN rows' \subseteq (1..counter') \cup UsedBefore
    BY <1>1, <2>1 DEF Typed
  <2> QED
    BY <1>1, <1>3, <1>4, <2>1, <2>2 DEF NoLine
<1>5. ASSUME NEW line, NEW outcome, NotKept(line, outcome) PROVE Typed' /\ FaultsInOrder'
  <2>1. outcome \in Outcomes /\ Nowhere \in Int /\ Reads(line, outcome, Nowhere) /\ AllStay
    BY <1>5 DEF NotKept, Nowhere
  <2>2. input' \in Seq(Entries) /\ Len(input') = Len(input) + 1
    BY <2>1, ReadsFacts
  <2>3. /\ counter' \in {counter, counter + 1} /\ clock' = clock /\ stored' = stored
        /\ running' \in {running, FALSE} /\ Len(input) < MaxLines
    BY <1>5 DEF NotKept, Reads
  <2>5. counter' \in 0..Len(input') /\ counter <= counter' /\ Len(input') <= MaxLines
    BY <1>1, <2>2, <2>3
  <2>6. stored' \in BOOLEAN /\ running' \in BOOLEAN
    BY <2>3 DEF Typed
  <2>4. /\ DOMAIN rows' \subseteq (1..counter') \cup UsedBefore /\ \A i \in DOMAIN rows' : RowTyped(rows[i])'
        /\ FaultsInOrder'
    BY <1>1, <1>3, <2>1, <2>2, <2>3, <2>5
  <2> QED
    BY <1>1, <2>2, <2>3, <2>4, <2>5, <2>6 DEF Typed
<1>6. ASSUME NEW line, NEW found, NEW id \in Int, Keeps(line, found, id),
             DOMAIN rows' \subseteq (1..(counter + 1)) \cup UsedBefore, \A i \in DOMAIN rows' : RowTyped(rows[i])'
      PROVE  Typed'
  <2>1. "kept" \in Outcomes /\ Reads(line, "kept", id)
    BY <1>6 DEF Keeps, Outcomes
  <2>2. input' \in Seq(Entries) /\ Len(input') = Len(input) + 1
    BY <2>1, ReadsFacts
  <2>3. counter' \in 0..Len(input') /\ counter' = counter + 1 /\ clock' = clock
        /\ stored' = stored /\ running' = running /\ Len(input') <= MaxLines
    BY <1>1, <1>6, <2>2 DEF Keeps, Reads
  <2> QED
    BY <1>1, <1>6, <2>2, <2>3 DEF Typed, UsedBefore
<1>7. ASSUME NEW line, NEW found, NEW id \in Int, Keeps(line, found, id)
      PROVE  clock' = clock /\ Len(input') = Len(input) + 1
  <2>1. "kept" \in Outcomes /\ Reads(line, "kept", id)
    BY <1>7 DEF Keeps, Outcomes
  <2> QED
    BY <2>1, ReadsFacts DEF Reads
<1>8. ASSUME NEW line, NEW found, NEW id \in Int, Keeps(line, found, id),
             NEW i \in DOMAIN rows, rows'[i] = rows[i]
      PROVE  RowTyped(rows[i])'
  <2>1. RowTyped(rows[i])
    BY <1>2
  <2> QED
    BY <1>1, <1>7, <1>8, <2>1 DEF RowTyped
<1>9. ASSUME NEW line, NEW found, Stores(line, found) PROVE Typed' /\ FaultsInOrder'
  <2> PICK n : n = counter + 1
    OBVIOUS
  <2>1. /\ DOMAIN rows' = DOMAIN rows \cup {n}
        /\ \A j \in DOMAIN rows \ {n} : rows'[j] = rows[j]
        /\ DOMAIN rows'[n] = Fields
        /\ rows'[n].logs = {Number}
        /\ rows'[n].status \in {"OPEN", "CLOSED"}
        /\ rows'[n].condition = "ACTIVE"
        /\ rows'[n].faultAt = clock
        /\ rows'[n].created = Number /\ rows'[n].object = FALSE
    BY <1>9, StoresFacts
  <2>2. n \in Int /\ Keeps(line, found, n)
    BY <1>1, <1>9 DEF Stores
  <2>3. RowTyped(rows[n])'
    BY <1>1, <1>7, <2>1, <2>2 DEF RowTyped, Number
  <2>4. ASSUME NEW i \in DOMAIN rows' PROVE RowTyped(rows[i])'
    BY <1>8, <2>1, <2>2, <2>3
  <2>5. DOMAIN rows' \subseteq (1..n) \cup UsedBefore
    BY <1>1, <2>1
  <2>6. FaultsInOrder'
    <3>1. ASSUME NEW i \in DOMAIN rows', NEW j \in DOMAIN rows',
                 rows'[j].created > 0, rows'[j].created > rows'[i].created
          PROVE  rows'[i].faultAt <= rows'[j].faultAt
      <4>1. CASE i = n
        BY <1>1, <1>2, <2>1, <3>1, <4>1 DEF Number
      <4>2. CASE i # n /\ j = n
        BY <1>1, <1>2, <2>1, <4>2
      <4>3. CASE i # n /\ j # n
        BY <2>1, <3>1, <4>3 DEF FaultsInOrder, Newer
      <4> QED
        BY <4>1, <4>2, <4>3
    <3> QED
      BY <3>1 DEF FaultsInOrder, Newer
  <2> QED
    BY <1>6, <2>2, <2>4, <2>5, <2>6
<1>10. ASSUME NEW line, NEW found, NEW n, Merges(line, found, n) PROVE Typed' /\ FaultsInOrder'
  <2>1. /\ n \in OpenActive /\ DOMAIN rows' = DOMAIN rows
        /\ \A j \in DOMAIN rows \ {n} : rows'[j] = rows[j]
        /\ DOMAIN rows'[n] = Fields
        /\ rows'[n].status = rows[n].status
        /\ rows'[n].condition = rows[n].condition
        /\ rows'[n].faultAt = rows[n].faultAt
        /\ rows'[n].created = rows[n].created /\ rows'[n].object = rows[n].object
        /\ rows'[n].logs \subseteq rows[n].logs \cup {Number}
    BY <1>10, MergesFacts
  <2>2. n \in Int /\ Keeps(line, found, n)
    BY <1>2, <1>10, <2>1 DEF Merges, OpenActive
  <2>3. n \in DOMAIN rows /\ RowTyped(rows[n])
    BY <1>2, <2>1 DEF OpenActive
  <2>4. RowTyped(rows[n])'
    BY <1>1, <1>7, <2>1, <2>2, <2>3 DEF RowTyped, Number
  <2>5. ASSUME NEW i \in DOMAIN rows' PROVE RowTyped(rows[i])'
    BY <1>8, <2>1, <2>2, <2>4
  <2>6. DOMAIN rows' \subseteq (1..(counter + 1)) \cup UsedBefore
    BY <1>1, <2>1
  <2>7. \A j \in DOMAIN rows : /\ rows'[j].faultAt = rows[j].faultAt
                               /\ rows'[j].created = rows[j].created
    BY <2>1
  <2>8. FaultsInOrder'
    BY <2>1, <2>7 DEF FaultsInOrder, Newer
  <2> QED
    BY <1>6, <2>2, <2>5, <2>6, <2>8
<1> QED
  BY <1>4, <1>5, <1>9, <1>10, StepCases


LEMMA TypedAlways == Spec => [](Typed /\ FaultsInOrder)
<1>1. Typed /\ FaultsInOrder /\ [Next]_vars => (Typed /\ FaultsInOrder)'
  BY TypedStep
<1> QED
  BY <1>1, TypedInit, PTL DEF Spec

-----------------------------------------------------------------------------
(* One open incident for a fault within the merge window.                   *)

LEMMA OneIncidentInit == Init => OneIncidentPerWindow
<1> SUFFICES ASSUME Init PROVE OneIncidentPerWindow
  OBVIOUS
<1>1. \A i \in DOMAIN rows : rows[i].created \in -Backlog..0 /\ Backlog \in Nat
  BY IngestAssumption DEF Init
<1>2. \A i \in DOMAIN rows : ~(rows[i].created > 0)
  BY <1>1
<1> QED
  BY <1>2 DEF OneIncidentPerWindow, OpenActive

LEMMA OneIncidentStep ==
  ASSUME Typed, FaultsInOrder, OneIncidentPerWindow, [Next]_vars
  PROVE  OneIncidentPerWindow'
<1>1. /\ clock \in Nat /\ counter \in Nat /\ MergeWindow \in Nat
      /\ Len(input) \in Nat
      /\ \A i \in DOMAIN rows : /\ rows[i].faultAt \in Int /\ rows[i].faultAt <= clock
                                /\ rows[i].created \in Int /\ rows[i].created <= Len(input)
                                /\ rows[i].created > 0 => ~rows[i].object
  BY IngestAssumption DEF Typed, RowTyped
<1> SUFFICES ASSUME NEW i \in OpenActive', NEW j \in OpenActive',
                    rows'[j].created > 0, rows'[j].created > rows'[i].created,
                    ~rows'[i].object,
                    rows'[j].faultAt - rows'[i].faultAt <= MergeWindow,
                    rows'[i].root \in {rows'[j].root} \cup Ancestors(rows'[j].root)
             PROVE  FALSE
  BY DEF OneIncidentPerWindow, Ancestors, Newer
<1>2. /\ i \in DOMAIN rows' /\ rows'[i].status = "OPEN" /\ rows'[i].condition = "ACTIVE"
      /\ j \in DOMAIN rows' /\ rows'[j].status = "OPEN" /\ rows'[j].condition = "ACTIVE"
  BY DEF OpenActive
\* No two incidents were like this before the step.
<1>3. \A a, b \in OpenActive :
        /\ rows[b].created > 0 /\ rows[b].created > rows[a].created
        /\ rows[b].faultAt - rows[a].faultAt <= MergeWindow /\ ~rows[a].object
        => rows[a].root \notin {rows[b].root} \cup Ancestors(rows[b].root)
  BY DEF OneIncidentPerWindow, Newer
\* An open incident that began as late as another within the window is eligible.
<1>4. ASSUME NEW a \in OpenActive, clock - rows[a].faultAt <= MergeWindow
      PROVE  a \in Eligible(clock)
  <2>1. a \in DOMAIN rows
    BY DEF OpenActive
  <2> QED
    BY <1>1, <1>4, <2>1 DEF Eligible
<1>5. CASE AllStay
  <2>1. i \in OpenActive /\ j \in OpenActive
    BY <1>2, <1>5 DEF AllStay, Stays, OpenActive
  <2>2. /\ rows'[i].root = rows[i].root /\ rows'[j].root = rows[j].root
        /\ rows'[i].faultAt = rows[i].faultAt /\ rows'[j].faultAt = rows[j].faultAt
        /\ rows'[i].created = rows[i].created /\ rows'[j].created = rows[j].created
        /\ rows'[i].object = rows[i].object
    BY <1>2, <1>5 DEF AllStay, Stays
  <2> QED
    BY <1>3, <2>1, <2>2
<1>6. ASSUME NEW line, NEW found, Stores(line, found) PROVE FALSE
  <2> PICK n : n = counter + 1
    OBVIOUS
  <2>1. /\ DOMAIN rows' = DOMAIN rows \cup {n}
        /\ \A a \in DOMAIN rows \ {n} : rows'[a] = rows[a]
        /\ rows'[n].root = found.root /\ rows'[n].faultAt = clock
        /\ rows'[n].created = Number
    BY <1>6, StoresFacts
  <2>2. i \in DOMAIN rows /\ i # n
    <3>1. CASE i = n /\ j = n
      BY <1>1, <2>1, <3>1 DEF Number
    <3>2. CASE i = n /\ j # n
      <4>1. j \in DOMAIN rows /\ rows'[j] = rows[j]
        BY <1>2, <2>1, <3>2
      <4>2. rows[j].created <= Len(input) /\ rows[j].created \in Int
        BY <1>1, <4>1
      <4> QED
        BY <1>1, <2>1, <3>2, <4>1, <4>2 DEF Number
    <3>3. CASE i # n
      BY <1>2, <2>1, <3>3
    <3> QED
      BY <3>1, <3>2, <3>3
  <2>3. i \in OpenActive /\ rows'[i] = rows[i]
    BY <1>2, <2>1, <2>2 DEF OpenActive
  <2>4. CASE j = n
    <3>1. i \in Eligible(clock)
      BY <1>4, <2>1, <2>3, <2>4
    <3>2. rows[i].root \notin {found.root} \cup Ancestors(found.root)
      BY <1>6, <2>3, <3>1 DEF Stores
    <3> QED
      BY <2>1, <2>3, <2>4, <3>2
  <2>5. CASE j # n
    <3>1. j \in OpenActive /\ rows'[j] = rows[j]
      BY <1>2, <2>1, <2>5 DEF OpenActive
    <3> QED
      BY <1>3, <2>3, <3>1
  <2> QED
    BY <2>4, <2>5
<1>7. ASSUME NEW line, NEW found, NEW n, Merges(line, found, n) PROVE FALSE
  <2>1. /\ n \in OpenActive /\ DOMAIN rows' = DOMAIN rows
        /\ \A a \in DOMAIN rows \ {n} : rows'[a] = rows[a]
        /\ rows'[n].status = rows[n].status /\ rows'[n].condition = rows[n].condition
        /\ rows'[n].faultAt = rows[n].faultAt
        /\ rows'[n].created = rows[n].created /\ rows'[n].object = rows[n].object
        /\ \/ rows'[n].root = rows[n].root
           \/ rows'[n].root = found.root /\ found.root \in Ancestors(rows[n].root)
    BY <1>7, MergesFacts
  <2>2. i \in OpenActive /\ j \in OpenActive
    BY <1>2, <2>1 DEF OpenActive
  <2>3. /\ rows'[i].faultAt = rows[i].faultAt /\ rows'[j].faultAt = rows[j].faultAt
        /\ rows'[i].created = rows[i].created /\ rows'[j].created = rows[j].created
        /\ rows'[i].object = rows[i].object
    BY <1>2, <2>1
  <2>4. rows[i].root \notin {rows[j].root} \cup Ancestors(rows[j].root)
    BY <1>3, <2>2, <2>3
  <2>5. CASE i # n /\ j # n
    BY <1>2, <2>1, <2>4, <2>5
  <2>6. CASE j = n
    <3>1. rows'[i] = rows[i]
      BY <1>1, <1>2, <2>1, <2>6
    <3>2. rows'[j].root \in {rows[j].root} \cup Ancestors(rows[j].root)
      BY <2>1, <2>6
    <3>3. rows[i].root \in {rows'[j].root} \cup Ancestors(rows'[j].root)
      BY <3>1
    <3> QED
      BY <2>4, <3>2, <3>3, HigherStill
  <2>7. CASE i = n
    <3>1. rows'[j] = rows[j] /\ i \in DOMAIN rows /\ j \in DOMAIN rows
      BY <1>1, <1>2, <2>1, <2>7
    <3>2. rows'[i].root = found.root /\ found.root \in Ancestors(rows[i].root)
      BY <2>1, <2>4, <2>7, <3>1
    <3>3. /\ rows[i].faultAt \in Int /\ rows[j].faultAt \in Int
          /\ ~rows[j].object
      BY <1>1, <2>3, <3>1
    <3>4. i \in Eligible(clock) /\ MayTake(i, found.root, clock)
      BY <1>7, <2>7 DEF Merges, MayTake
    <3>5. clock - rows[i].faultAt <= MergeWindow /\ rows[i].faultAt <= rows[j].faultAt
      BY <2>3, <3>1, <3>4 DEF Eligible, FaultsInOrder, Newer
    <3>6. j \in Eligible(clock)
      BY <1>1, <1>4, <2>2, <3>3, <3>5
    <3>7. found.root \in {rows[j].root} \cup Ancestors(rows[j].root)
      BY <3>1, <3>2
    <3>8. CASE rows[i].root = found.root
      BY <3>2, <3>8, AboveIsBelow
    <3>9. CASE rows[i].root \in Ancestors(found.root)
      BY <2>4, <3>7, <3>9, HigherStill
    <3>10. CASE /\ \A a \in Eligible(clock) : ~rows[a].object => rows[a].root # found.root
                /\ \A a \in Eligible(clock) : found.root \in Ancestors(rows[a].root) => ~Newer(a, i)
      BY <2>3, <3>3, <3>6, <3>7, <3>10 DEF Newer
    <3> QED
      BY <3>4, <3>8, <3>9, <3>10 DEF MayTake
  <2> QED
    BY <2>5, <2>6, <2>7
<1> QED
  BY <1>5, <1>6, <1>7, StepCases DEF NoLine, NotKept


\* Of two open active incidents that began within the merge window of each other,
\* the later one in this run, the root of the earlier is neither the root of the later nor
\* above it, unless the earlier has an object as root cause (incident_merger.py:27-59):
\* for every graph, also one with a cycle, every table of earlier runs and every input.
THEOREM OneIncidentForAFault == Spec => []OneIncidentPerWindow
<1>1. /\ Typed /\ FaultsInOrder /\ OneIncidentPerWindow /\ [Next]_vars
        => OneIncidentPerWindow'
  BY OneIncidentStep
<1> QED
  BY <1>1, OneIncidentInit, TypedAlways, PTL DEF Spec

-----------------------------------------------------------------------------
(* The lines that an incident has.                                          *)

\* The lines kept after a line is read.
LEMMA KeptAfter ==
  ASSUME Typed, NEW line, NEW outcome \in Outcomes, NEW into \in Int, Reads(line, outcome, into),
         NEW n, n = Number
  PROVE  /\ Kept' = IF outcome = "kept" THEN Kept \cup {n} ELSE Kept
         /\ Kept \subseteq 1..Len(input) /\ n \notin 1..Len(input)
         /\ \A k \in 1..Len(input) : input'[k] = input[k]
         /\ input'[n].line = line /\ input'[n].at = clock /\ input'[n].into = into
<1>1. DOMAIN input = 1..Len(input) /\ Len(input) \in Nat
  BY DEF Typed
<1>2. /\ \A k \in 1..Len(input) : input'[k] = input[k]
      /\ DOMAIN input' = 1..(Len(input) + 1)
      /\ input'[n] = [line |-> line, at |-> clock, outcome |-> outcome, into |-> into]
  BY ReadsFacts
<1>3. DOMAIN input' = DOMAIN input \cup {n}
  BY <1>1, <1>2 DEF Number
<1>4. /\ input'[n].outcome = outcome /\ input'[n].line = line
      /\ input'[n].at = clock /\ input'[n].into = into
  BY <1>2
<1>5. n \notin 1..Len(input)
  BY <1>1 DEF Number
<1> QED
  BY <1>1, <1>2, <1>3, <1>4, <1>5 DEF Kept

\* No incident gets a line.
NothingKept ==
  /\ AllStay
  /\ Kept' = Kept
  /\ Kept \subseteq 1..Len(input)
  /\ \A k \in 1..Len(input) : input'[k] = input[k]
  /\ \A i : Into(i)' = Into(i)
  /\ \A i \in DOMAIN rows : Since(i)' = Since(i)

LEMMA KeptCases ==
  ASSUME Typed, [Next]_vars
  PROVE  \/ NothingKept
         \/ \E line, found : Stores(line, found)
         \/ \E line, found, i : Merges(line, found, i)
<1>1. CASE NoLine
  <2>1. input' = input /\ AllStay
    BY <1>1 DEF NoLine
  <2>2. Kept \subseteq 1..Len(input)
    BY DEF Typed, Kept
  <2> QED
    BY <2>1, <2>2 DEF NothingKept, Kept, Into, Since, AllStay, Stays
<1>2. ASSUME NEW line, NEW outcome, NotKept(line, outcome) PROVE NothingKept
  <2>1. /\ outcome \in Outcomes /\ outcome # "kept" /\ AllStay
        /\ Nowhere \in Int /\ Reads(line, outcome, Nowhere)
    BY <1>2 DEF NotKept, Nowhere
  <2>2. /\ Kept' = Kept /\ Kept \subseteq 1..Len(input)
        /\ \A k \in 1..Len(input) : input'[k] = input[k]
    BY <2>1, KeptAfter
  <2>3. \A i : Into(i)' = Into(i)
    BY <2>2 DEF Into
  <2>4. \A i \in DOMAIN rows : Since(i)' = Since(i)
    BY <2>1, <2>3 DEF Since, AllStay, Stays
  <2> QED
    BY <2>1, <2>2, <2>3, <2>4 DEF NothingKept
<1> QED
  BY <1>1, <1>2, StepCases

\* What an incident gets when a line is kept.
LEMMA KeepsFacts ==
  ASSUME Typed, NEW line, NEW found, NEW id \in Int, Keeps(line, found, id), NEW n, n = Number
  PROVE  /\ Kept' = Kept \cup {n}
         /\ Kept \subseteq 1..Len(input) /\ n \notin 1..Len(input)
         /\ \A k \in 1..Len(input) : input'[k] = input[k]
         /\ input'[n].line = line /\ input'[n].at = clock /\ input'[n].into = id
         /\ Into(id)' = Into(id) \cup {n}
         /\ \A i : i # id => Into(i)' = Into(i)
<1>1. "kept" \in Outcomes /\ Reads(line, "kept", id)
  BY DEF Keeps, Outcomes
<1>2. /\ Kept' = Kept \cup {n}
      /\ Kept \subseteq 1..Len(input) /\ n \notin 1..Len(input)
      /\ \A k \in 1..Len(input) : input'[k] = input[k]
      /\ input'[n].line = line /\ input'[n].at = clock /\ input'[n].into = id
  BY <1>1, KeptAfter
<1>3. \A i : Into(i)' = {k \in Kept \cup {n} : IF k = n THEN id = i ELSE input[k].into = i}
  BY <1>2 DEF Into
<1>4. \A i : Into(i) = {k \in Kept : input[k].into = i} /\ n \notin Kept
  BY <1>2 DEF Into
<1>5. Into(id)' = Into(id) \cup {n}
  BY <1>3, <1>4
<1>6. \A i : i # id => Into(i)' = Into(i)
  BY <1>3, <1>4
<1> QED
  BY <1>2, <1>5, <1>6

\* An incident that is stored has its line alone, also when its number was in use; the
\* others have the lines they had.
LEMMA StoredSince ==
  ASSUME Typed, NEW line, NEW found, Stores(line, found), NEW new, new = counter + 1,
         NEW n, n = Number
  PROVE  /\ Since(new)' = {n}
         /\ \A i \in DOMAIN rows \ {new} : Since(i)' = Since(i)
<1>1. new \in Int /\ Keeps(line, found, new) /\ Len(input) \in Nat
  BY DEF Stores, Typed
<1>2. /\ rows'[new].created = n
      /\ \A i \in DOMAIN rows \ {new} : rows'[i] = rows[i]
  BY StoresFacts
<1>3. /\ Kept \subseteq 1..Len(input)
      /\ Into(new)' = Into(new) \cup {n}
      /\ \A i : i # new => Into(i)' = Into(i)
  BY <1>1, KeepsFacts
<1>4. Since(new)' = {n}
  <2>1. \A k \in Into(new) : ~(k >= n)
    BY <1>1, <1>3 DEF Into, Number
  <2>2. n >= n
    BY <1>1 DEF Number
  <2>3. Since(new)' = {k \in Into(new) \cup {n} : k >= n}
    BY <1>2, <1>3 DEF Since
  <2> QED
    BY <2>1, <2>2, <2>3
<1>5. ASSUME NEW i \in DOMAIN rows \ {new} PROVE Since(i)' = Since(i)
  BY <1>2, <1>3, <1>5 DEF Since
<1> QED
  BY <1>4, <1>5

\* An incident that a line is merged into has one line more.
LEMMA MergedSince ==
  ASSUME Typed, NEW line, NEW found, NEW t, Merges(line, found, t), NEW n, n = Number
  PROVE  /\ Since(t)' = Since(t) \cup {n}
         /\ Since(t) \subseteq 1..Len(input) /\ n \notin 1..Len(input)
         /\ \A i \in DOMAIN rows \ {t} : Since(i)' = Since(i)
<1>1. t \in DOMAIN rows /\ t \in Int /\ Keeps(line, found, t) /\ Len(input) \in Nat
  BY MergesFacts, IngestAssumption DEF Merges, Typed, OpenActive, UsedBefore
<1>2. /\ rows'[t].created = rows[t].created
      /\ \A i \in DOMAIN rows \ {t} : rows'[i] = rows[i]
  BY MergesFacts
<1>3. /\ Kept \subseteq 1..Len(input) /\ n \notin 1..Len(input)
      /\ Into(t)' = Into(t) \cup {n}
      /\ \A i : i # t => Into(i)' = Into(i)
  BY <1>1, KeepsFacts
<1>4. n >= rows[t].created
  BY <1>1, IngestAssumption DEF Typed, RowTyped, Number
<1>5. Since(t)' = Since(t) \cup {n}
  BY <1>2, <1>3, <1>4 DEF Since
<1>6. Since(t) \subseteq 1..Len(input)
  BY <1>3 DEF Since, Into
<1>7. ASSUME NEW i \in DOMAIN rows \ {t} PROVE Since(i)' = Since(i)
  BY <1>2, <1>3, <1>7 DEF Since
<1> QED
  BY <1>3, <1>5, <1>6, <1>7

\* A line is kept in an incident of the table.
Placed == \A k \in Kept : input[k].into \in DOMAIN rows

LEMMA PlacedStep ==
  ASSUME Typed, Placed, [Next]_vars
  PROVE  Placed'
<1>1. CASE NothingKept
  BY <1>1 DEF NothingKept, AllStay, Placed
<1>2. ASSUME NEW line, NEW found, Stores(line, found) PROVE Placed'
  <2> PICK new, n : new = counter + 1 /\ n = Number
    OBVIOUS
  <2>1. new \in Int /\ Keeps(line, found, new)
    BY <1>2 DEF Stores, Typed
  <2>2. DOMAIN rows' = DOMAIN rows \cup {new}
    BY <1>2, StoresFacts
  <2>3. /\ Kept' = Kept \cup {n} /\ Kept \subseteq 1..Len(input)
        /\ \A k \in 1..Len(input) : input'[k] = input[k]
        /\ input'[n].into = new
    BY <2>1, KeepsFacts
  <2> QED
    BY <2>2, <2>3 DEF Placed
<1>3. ASSUME NEW line, NEW found, NEW i, Merges(line, found, i) PROVE Placed'
  <2> PICK n : n = Number
    OBVIOUS
  <2>1. i \in DOMAIN rows /\ DOMAIN rows' = DOMAIN rows
    BY <1>3, MergesFacts DEF OpenActive
  <2>2. i \in Int /\ Keeps(line, found, i)
    BY <1>3, <2>1, IngestAssumption DEF Merges, Typed, UsedBefore
  <2>3. /\ Kept' = Kept \cup {n} /\ Kept \subseteq 1..Len(input)
        /\ \A k \in 1..Len(input) : input'[k] = input[k]
        /\ input'[n].into = i
    BY <2>2, KeepsFacts
  <2> QED
    BY <2>1, <2>3 DEF Placed
<1> QED
  BY <1>1, <1>2, <1>3, KeptCases

LEMMA PlacedAlways == Spec => [](Typed /\ Placed)
<1>1. Init => Placed
  BY DEF Init, Placed, Kept
<1>2. Typed /\ Placed /\ [Next]_vars => Placed'
  BY PlacedStep
<1> QED
  BY <1>1, <1>2, TypedAlways, PTL DEF Spec

-----------------------------------------------------------------------------
(* Incidents closed by a work plan.                                         *)

\* The plan that is found, if one is, is a plan that was active at the time.
LEMMA PlanFacts ==
  ASSUME NEW found, NEW line, NEW plan, plan = PlanFor(found, line),
         plan # NoPlan, plan # PlanError
  PROVE  \E p \in DOMAIN Plans : Plans[p] = plan /\ ActiveAt(plan, clock)
<1> DEFINE root       == found.root
           event      == IF found.event = 0 THEN "silent" ELSE line.event
           decides(q) == /\ ActiveAt(q, clock)
                         /\ \/ CoversDevice(q, root) = "error"
                            \/ CoversDevice(q, root) = "yes" /\ MatchesEvent(q, event)
           first      == {k \in DOMAIN Plans : decides(Plans[k])
                                               /\ \A j \in 1..(k - 1) : ~decides(Plans[j])}
           chosen     == Plans[CHOOSE k \in first : TRUE]
<1>1. plan = IF first = {} THEN NoPlan
             ELSE IF CoversDevice(chosen, root) = "error" THEN PlanError ELSE chosen
  BY DEF PlanFor, FindActivePlan, FirstIndex
<1>2. first # {} /\ plan = chosen
  BY <1>1
<1>3. (CHOOSE k \in first : TRUE) \in first
  BY <1>2
<1> QED
  BY <1>2, <1>3

\* The line came while the plan of the incident was active.
Planned(row, k) ==
  \E p \in DOMAIN Plans : Plans[p].id = row.plan /\ ActiveAt(Plans[p], input[k].at)

LEMMA ClosedStep ==
  ASSUME Typed, Placed, ClosedOnlyByPlan, [Next]_vars
  PROVE  ClosedOnlyByPlan'
\* An incident that has its lines, its status and its plan is as good as before.
<1>1. ASSUME NEW i \in DOMAIN rows, rows'[i].status = rows[i].status,
             rows'[i].plan = rows[i].plan, rows'[i].status = "CLOSED",
             \A k \in 1..Len(input) : input'[k] = input[k], Kept \subseteq 1..Len(input),
             NEW k \in Since(i)
      PROVE  Planned(rows[i], k)'
  <2>1. k \in Kept /\ input'[k] = input[k]
    BY <1>1 DEF Since, Into
  <2>2. Planned(rows[i], k)
    BY <1>1 DEF ClosedOnlyByPlan, Planned
  <2> QED
    BY <1>1, <2>1, <2>2 DEF Planned, ActiveAt
<1>2. CASE NothingKept
  <2>1. ASSUME NEW i \in DOMAIN rows', rows'[i].status = "CLOSED", NEW k \in Since(i)'
        PROVE  Planned(rows[i], k)'
    <3>1. /\ i \in DOMAIN rows /\ rows'[i].status = rows[i].status
          /\ rows'[i].plan = rows[i].plan
      BY <1>2, <2>1 DEF NothingKept, AllStay, Stays
    <3>2. Since(i)' = Since(i)
      BY <1>2, <3>1 DEF NothingKept
    <3>3. k \in Since(i)
      BY <2>1, <3>2
    <3> QED
      BY <1>1, <1>2, <2>1, <3>1, <3>3 DEF NothingKept
  <2> QED
    BY <2>1 DEF ClosedOnlyByPlan, Planned
<1>3. ASSUME NEW line, NEW found, Stores(line, found) PROVE ClosedOnlyByPlan'
  <2> PICK new, n : new = counter + 1 /\ n = Number
    OBVIOUS
  <2>1. new \in Int /\ Keeps(line, found, new)
    BY <1>3 DEF Stores, Typed
  <2>2. /\ DOMAIN rows' = DOMAIN rows \cup {new}
        /\ \A j \in DOMAIN rows \ {new} : rows'[j] = rows[j]
        /\ rows'[new].status = "CLOSED" => PlanFor(found, line) # NoPlan
        /\ rows'[new].plan = PlanFor(found, line).id
    BY <1>3, StoresFacts
  <2>3. /\ Kept \subseteq 1..Len(input)
        /\ \A k \in 1..Len(input) : input'[k] = input[k]
        /\ input'[n].at = clock
    BY <2>1, KeepsFacts
  <2>4. /\ Since(new)' = {n}
        /\ \A i \in DOMAIN rows \ {new} : Since(i)' = Since(i)
    BY <1>3, StoredSince
  <2>5. ASSUME rows'[new].status = "CLOSED" PROVE Planned(rows[new], n)'
    <3>1. PICK plan : plan = PlanFor(found, line)
      OBVIOUS
    <3>2. plan # NoPlan /\ plan # PlanError
      BY <2>1, <2>2, <2>5, <3>1 DEF Keeps
    <3>3. PICK p \in DOMAIN Plans : Plans[p] = plan /\ ActiveAt(plan, clock)
      BY <3>1, <3>2, PlanFacts
    <3> QED
      BY <2>2, <2>3, <3>1, <3>3 DEF Planned, ActiveAt
  <2>6. ASSUME NEW i \in DOMAIN rows', rows'[i].status = "CLOSED", NEW k \in Since(i)'
        PROVE  Planned(rows[i], k)'
    <3>1. CASE i = new
      <4>1. k = n
        BY <2>4, <2>6, <3>1
      <4> QED
        BY <2>5, <2>6, <3>1, <4>1
    <3>2. CASE i # new
      <4>1. i \in DOMAIN rows /\ rows'[i] = rows[i] /\ k \in Since(i)
        BY <2>2, <2>4, <2>6, <3>2
      <4> QED
        BY <1>1, <2>3, <2>6, <4>1
    <3> QED
      BY <3>1, <3>2
  <2> QED
    BY <2>6 DEF ClosedOnlyByPlan, Planned
<1>4. ASSUME NEW line, NEW found, NEW t, Merges(line, found, t) PROVE ClosedOnlyByPlan'
  <2> PICK n : n = Number
    OBVIOUS
  <2>1. /\ t \in OpenActive /\ DOMAIN rows' = DOMAIN rows
        /\ \A j \in DOMAIN rows \ {t} : rows'[j] = rows[j]
        /\ rows'[t].status = rows[t].status
    BY <1>4, MergesFacts
  <2>2. rows'[t].status # "CLOSED"
    BY <2>1 DEF OpenActive
  <2>3. t \in Int /\ Keeps(line, found, t)
    BY <1>4, <2>1, IngestAssumption DEF Merges, Typed, OpenActive, UsedBefore
  <2>4. /\ Kept \subseteq 1..Len(input)
        /\ \A k \in 1..Len(input) : input'[k] = input[k]
    BY <2>3, KeepsFacts
  <2>6. \A i \in DOMAIN rows \ {t} : Since(i)' = Since(i)
    BY <1>4, MergedSince
  <2>5. ASSUME NEW i \in DOMAIN rows', rows'[i].status = "CLOSED", NEW k \in Since(i)'
        PROVE  Planned(rows[i], k)'
    <3>1. i \in DOMAIN rows /\ i # t /\ rows'[i] = rows[i]
      BY <2>1, <2>2, <2>5
    <3>2. k \in Since(i)
      BY <2>5, <2>6, <3>1
    <3> QED
      BY <1>1, <2>4, <2>5, <3>1, <3>2
  <2> QED
    BY <2>5 DEF ClosedOnlyByPlan, Planned
<1> QED
  BY <1>2, <1>3, <1>4, KeptCases

\* What a closed incident holds came while its work plan was active
\* (file_ingest.py:138-146): whatever the plans and the graph are, no other fault
\* disappears in it.
THEOREM OnlyPlansClose == Spec => []ClosedOnlyByPlan
<1>1. Init => ClosedOnlyByPlan
  BY DEF Init, ClosedOnlyByPlan, Since, Into, Kept
<1>2. Typed /\ Placed /\ ClosedOnlyByPlan /\ [Next]_vars => ClosedOnlyByPlan'
  BY ClosedStep
<1> QED
  BY <1>1, <1>2, PlacedAlways, PTL DEF Spec

-----------------------------------------------------------------------------
(* The passes of the inference, step by step.                               *)

\* The passes of the inference, as functions of what they go through.
MonitoredPass(msgs, seen, start, seq) ==
  FoldLeft(LAMBDA acc, n : AddMonitored(msgs, n, seen[n] \ acc.assigned, acc), start, seq)
NamedPass(msgs, named, start, seq) ==
  FoldLeft(LAMBDA acc, n : AddSilent(msgs, n, named[n] \ acc.assigned, 1, acc), start, seq)
CommonPass(msgs, bgp, start, seq) ==
  LET below(n) == DescendantsFiltered(n, bgp) \cap Senders(msgs)
  IN  FoldLeft(LAMBDA acc, n : AddSilent(msgs, n, below(n) \ acc.assigned, 2, acc), start, seq)
RootPass(msgs, bgp, start, seq) ==
  LET below(n) == DescendantsFiltered(n, bgp) \cap Senders(msgs)
  IN  FoldLeft(LAMBDA acc, n : AddRoot(msgs, n, below(n) \ acc.assigned, acc), start, seq)
LastPass(msgs, start, seq) ==
  FoldLeft(LAMBDA acc, n : AddAlone(msgs, n, acc), start, seq)

\* What a pass does with one device; by is what the pass looks it up in.
StepOf(pass, msgs, by, n, acc) ==
  CASE pass = "monitored" -> AddMonitored(msgs, n, by[n] \ acc.assigned, acc)
    [] pass = "named"     -> AddSilent(msgs, n, by[n] \ acc.assigned, 1, acc)
    [] pass = "common"    -> AddSilent(msgs, n, (DescendantsFiltered(n, by) \cap Senders(msgs))
                                                  \ acc.assigned, 2, acc)
    [] pass = "root"      -> AddRoot(msgs, n, (DescendantsFiltered(n, by) \cap Senders(msgs))
                                                \ acc.assigned, acc)
    [] pass = "last"      -> AddAlone(msgs, n, acc)

\* A fold over a sequence, as a function of the places it has been through.
IsFold(h, pass, msgs, by, start, seq) ==
  h = [s \in SUBSET (DOMAIN seq) |->
         IF s = {} THEN start ELSE StepOf(pass, msgs, by, seq[Max(s)], h[s \ {Max(s)}])]

LEMMA MaxOfPlaces ==
  ASSUME NEW n \in Nat, NEW s \in SUBSET (1..n), s # {}
  PROVE  Max(s) \in s /\ \A k \in s : k <= Max(s)
<1>1. s \in SUBSET (0..n)
  OBVIOUS
<1>2. \E m \in s : \A k \in s : k <= m
  BY <1>1, GreatestOf
<1>3. \E m \in s : \A k \in s : m >= k
  BY <1>2
<1>4. \A m, k \in s : m >= k <=> k <= m
  OBVIOUS
<1> QED
  BY <1>3, <1>4 DEF Max

LEMMA FoldExists ==
  ASSUME NEW seq, NEW n \in Nat, DOMAIN seq = 1..n, NEW pass, NEW msgs, NEW by, NEW start
  PROVE  \E h : IsFold(h, pass, msgs, by, start, seq)
<1> DEFINE S          == DOMAIN seq
           Sets(k)    == {s \in SUBSET S : Cardinality(s) <= k}
           Then(h, s) == IF s = {} THEN start
                         ELSE StepOf(pass, msgs, by, seq[Max(s)], h[s \ {Max(s)}])
           Upto(h, k) == h = [s \in Sets(k) |-> Then(h, s)]
           Missing    == {k \in Nat : ~ \E h : Upto(h, k)}
<1>0. IsFiniteSet(S)
  BY FS_Interval
<1>1. \A s \in SUBSET S : IsFiniteSet(s) /\ Cardinality(s) \in Nat
  BY <1>0, FS_Subset, FS_CardinalityType
<1>2. \A s \in SUBSET S : s # {} =>
        Max(s) \in s /\ Cardinality(s \ {Max(s)}) = Cardinality(s) - 1
  <2>1. \A s \in SUBSET S : s # {} => Max(s) \in s
    BY MaxOfPlaces
  <2> QED
    BY <1>1, <2>1, FS_RemoveElement
<1>3. \A s \in SUBSET S : Cardinality(s) = 0 <=> s = {}
  BY <1>1, FS_EmptySet
<1>4. Missing = {}
  <2> SUFFICES ASSUME Missing # {} PROVE FALSE
    OBVIOUS
  <2>1. PICK k \in Missing : \A m \in Missing : k <= m
    <3>1. Missing \in SUBSET Nat
      OBVIOUS
    <3> HIDE DEF Missing
    <3> QED
      BY <3>1, LeastOf
  <2>2. k # 0
    <3> SUFFICES ASSUME k = 0 PROVE FALSE
      OBVIOUS
    <3>1. Sets(0) = {{}}
      BY <1>1, <1>3
    <3>2. Upto([s \in {{}} |-> start], 0)
      BY <3>1
    <3>3. \E h : Upto(h, k)
      <4> HIDE DEF Upto
      <4> QED
        BY <3>2
    <3> QED
      BY <2>1, <3>3
  <2>3. PICK h : Upto(h, k - 1)
    <3>1. k - 1 \in Nat /\ ~(k <= k - 1)
      BY <2>2
    <3>2. k - 1 \notin Missing
      BY <2>1, <3>1
    <3> QED
      BY <3>1, <3>2
  <2> DEFINE g == [s \in Sets(k) |-> Then(h, s)]
  <2>4. \A s \in Sets(k - 1) : s \in Sets(k) /\ g[s] = h[s]
    <3>1. \A s \in Sets(k - 1) : s \in Sets(k)
      BY <1>1
    <3>2. \A s \in Sets(k - 1) : h[s] = Then(h, s)
      BY <2>3
    <3> HIDE DEF Then
    <3> QED
      BY <3>1, <3>2
  <2>5. \A s \in Sets(k) : Then(g, s) = Then(h, s)
    <3> SUFFICES ASSUME NEW s \in Sets(k), s # {} PROVE Then(g, s) = Then(h, s)
      OBVIOUS
    <3>1. s \ {Max(s)} \in Sets(k - 1)
      <4>1. s \in SUBSET S /\ s # {} /\ Cardinality(s) <= k /\ k \in Nat
        BY <2>1
      <4>2. Cardinality(s \ {Max(s)}) = Cardinality(s) - 1 /\ Cardinality(s) \in Nat
        BY <1>1, <1>2, <4>1
      <4>3. s \ {Max(s)} \in SUBSET S
        BY <4>1
      <4> QED
        BY <4>1, <4>2, <4>3
    <3>2. g[s \ {Max(s)}] = h[s \ {Max(s)}]
      BY <2>4, <3>1
    <3> HIDE DEF g
    <3> QED
      BY <3>2
  <2>6. Upto(g, k)
    <3> HIDE DEF Then
    <3>1. \A s \in Sets(k) : g[s] = Then(g, s)
      BY <2>5
    <3> QED
      BY <3>1
  <2> QED
    BY <2>1, <2>6
<1>5. Cardinality(S) \in Nat
  BY <1>0, FS_CardinalityType
<1>6. PICK h : Upto(h, Cardinality(S))
  BY <1>4, <1>5
<1>7. Sets(Cardinality(S)) = SUBSET S
  BY <1>0, FS_Subset
<1> QED
  BY <1>6, <1>7 DEF IsFold

\* A pass goes through the places of the sequence from the first on.
LEMMA FoldSteps ==
  ASSUME NEW seq, NEW n \in Nat, DOMAIN seq = 1..n, NEW pass, NEW msgs, NEW by, NEW start,
         NEW h, IsFold(h, pass, msgs, by, start, seq)
  PROVE  /\ h[1..0] = start
         /\ \A k \in 1..n : h[1..k] = StepOf(pass, msgs, by, seq[k], h[1..(k - 1)])
<1>1. h[1..0] = start
  BY DEF IsFold
<1>2. ASSUME NEW k \in 1..n
      PROVE  h[1..k] = StepOf(pass, msgs, by, seq[k], h[1..(k - 1)])
  <2>1. 1..k \in SUBSET (1..n) /\ 1..k # {}
    <3>1. k \in 1..k /\ \A j \in 1..k : j \in 1..n
      OBVIOUS
    <3> QED
      BY <3>1
  <2>2. Max(1..k) \in 1..k /\ \A j \in 1..k : j <= Max(1..k)
    BY <2>1, MaxOfPlaces
  <2>3. Max(1..k) = k
    BY <2>2
  <2>4. (1..k) \ {k} = 1..(k - 1)
    OBVIOUS
  <2>5. h[1..k] = StepOf(pass, msgs, by, seq[Max(1..k)], h[(1..k) \ {Max(1..k)}])
    BY <2>1 DEF IsFold
  <2> QED
    BY <2>3, <2>4, <2>5
<1> QED
  BY <1>1, <1>2

\* The passes are such folds.
LEMMA PassesAreFolds ==
  ASSUME NEW seq, NEW n \in Nat, DOMAIN seq = 1..n, NEW msgs, NEW by, NEW start
  PROVE  /\ \E h : /\ IsFold(h, "monitored", msgs, by, start, seq)
                   /\ MonitoredPass(msgs, by, start, seq) = h[DOMAIN seq]
         /\ \E h : /\ IsFold(h, "named", msgs, by, start, seq)
                   /\ NamedPass(msgs, by, start, seq) = h[DOMAIN seq]
         /\ \E h : /\ IsFold(h, "common", msgs, by, start, seq)
                   /\ CommonPass(msgs, by, start, seq) = h[DOMAIN seq]
         /\ \E h : /\ IsFold(h, "root", msgs, by, start, seq)
                   /\ RootPass(msgs, by, start, seq) = h[DOMAIN seq]
         /\ \E h : /\ IsFold(h, "last", msgs, by, start, seq)
                   /\ LastPass(msgs, start, seq) = h[DOMAIN seq]
<1>1. \E h : /\ IsFold(h, "monitored", msgs, by, start, seq)
             /\ MonitoredPass(msgs, by, start, seq) = h[DOMAIN seq]
  <2> DEFINE step(acc, d) == AddMonitored(msgs, d, by[d] \ acc.assigned, acc)
             Is(h) == h = [s \in SUBSET (DOMAIN seq) |->
                             IF s = {} THEN start ELSE step(h[s \ {Max(s)}], seq[Max(s)])]
  <2>1. MonitoredPass(msgs, by, start, seq) = (CHOOSE h : Is(h))[DOMAIN seq]
    BY DEF MonitoredPass, FoldLeft, MapThenFoldSet
  <2>2. \A acc, d : step(acc, d) = StepOf("monitored", msgs, by, d, acc)
    BY DEF StepOf
  <2> HIDE DEF step
  <2>3. \A h : Is(h) <=> IsFold(h, "monitored", msgs, by, start, seq)
    BY <2>2 DEF IsFold
  <2>4. Is(CHOOSE h : Is(h))
    <3>1. \E h : Is(h)
      BY <2>3, FoldExists
    <3> QED
      BY <3>1
  <2> HIDE DEF Is
  <2> QED
    BY <2>1, <2>3, <2>4
<1>2. \E h : /\ IsFold(h, "named", msgs, by, start, seq)
             /\ NamedPass(msgs, by, start, seq) = h[DOMAIN seq]
  <2> DEFINE step(acc, d) == AddSilent(msgs, d, by[d] \ acc.assigned, 1, acc)
             Is(h) == h = [s \in SUBSET (DOMAIN seq) |->
                             IF s = {} THEN start ELSE step(h[s \ {Max(s)}], seq[Max(s)])]
  <2>1. NamedPass(msgs, by, start, seq) = (CHOOSE h : Is(h))[DOMAIN seq]
    BY DEF NamedPass, FoldLeft, MapThenFoldSet
  <2>2. \A acc, d : step(acc, d) = StepOf("named", msgs, by, d, acc)
    BY DEF StepOf
  <2> HIDE DEF step
  <2>3. \A h : Is(h) <=> IsFold(h, "named", msgs, by, start, seq)
    BY <2>2 DEF IsFold
  <2>4. Is(CHOOSE h : Is(h))
    <3>1. \E h : Is(h)
      BY <2>3, FoldExists
    <3> QED
      BY <3>1
  <2> HIDE DEF Is
  <2> QED
    BY <2>1, <2>3, <2>4
<1>3. \E h : /\ IsFold(h, "common", msgs, by, start, seq)
             /\ CommonPass(msgs, by, start, seq) = h[DOMAIN seq]
  <2> DEFINE below(d)     == DescendantsFiltered(d, by) \cap Senders(msgs)
             step(acc, d) == AddSilent(msgs, d, below(d) \ acc.assigned, 2, acc)
             Is(h) == h = [s \in SUBSET (DOMAIN seq) |->
                             IF s = {} THEN start ELSE step(h[s \ {Max(s)}], seq[Max(s)])]
  <2>1. CommonPass(msgs, by, start, seq) = (CHOOSE h : Is(h))[DOMAIN seq]
    BY DEF CommonPass, FoldLeft, MapThenFoldSet
  <2>2. \A acc, d : step(acc, d) = StepOf("common", msgs, by, d, acc)
    BY DEF StepOf
  <2> HIDE DEF step
  <2>3. \A h : Is(h) <=> IsFold(h, "common", msgs, by, start, seq)
    BY <2>2 DEF IsFold
  <2>4. Is(CHOOSE h : Is(h))
    <3>1. \E h : Is(h)
      BY <2>3, FoldExists
    <3> QED
      BY <3>1
  <2> HIDE DEF Is
  <2> QED
    BY <2>1, <2>3, <2>4
<1>4. \E h : /\ IsFold(h, "root", msgs, by, start, seq)
             /\ RootPass(msgs, by, start, seq) = h[DOMAIN seq]
  <2> DEFINE below(d)     == DescendantsFiltered(d, by) \cap Senders(msgs)
             step(acc, d) == AddRoot(msgs, d, below(d) \ acc.assigned, acc)
             Is(h) == h = [s \in SUBSET (DOMAIN seq) |->
                             IF s = {} THEN start ELSE step(h[s \ {Max(s)}], seq[Max(s)])]
  <2>1. RootPass(msgs, by, start, seq) = (CHOOSE h : Is(h))[DOMAIN seq]
    BY DEF RootPass, FoldLeft, MapThenFoldSet
  <2>2. \A acc, d : step(acc, d) = StepOf("root", msgs, by, d, acc)
    BY DEF StepOf
  <2> HIDE DEF step
  <2>3. \A h : Is(h) <=> IsFold(h, "root", msgs, by, start, seq)
    BY <2>2 DEF IsFold
  <2>4. Is(CHOOSE h : Is(h))
    <3>1. \E h : Is(h)
      BY <2>3, FoldExists
    <3> QED
      BY <3>1
  <2> HIDE DEF Is
  <2> QED
    BY <2>1, <2>3, <2>4
<1>5. \E h : /\ IsFold(h, "last", msgs, by, start, seq)
             /\ LastPass(msgs, start, seq) = h[DOMAIN seq]
  <2> DEFINE step(acc, d) == AddAlone(msgs, d, acc)
             Is(h) == h = [s \in SUBSET (DOMAIN seq) |->
                             IF s = {} THEN start ELSE step(h[s \ {Max(s)}], seq[Max(s)])]
  <2>1. LastPass(msgs, start, seq) = (CHOOSE h : Is(h))[DOMAIN seq]
    BY DEF LastPass, FoldLeft, MapThenFoldSet
  <2>2. \A acc, d : step(acc, d) = StepOf("last", msgs, by, d, acc)
    BY DEF StepOf
  <2> HIDE DEF step
  <2>3. \A h : Is(h) <=> IsFold(h, "last", msgs, by, start, seq)
    BY <2>2 DEF IsFold
  <2>4. Is(CHOOSE h : Is(h))
    <3>1. \E h : Is(h)
      BY <2>3, FoldExists
    <3> QED
      BY <3>1
  <2> HIDE DEF Is
  <2> QED
    BY <2>1, <2>3, <2>4
<1> QED
  BY <1>1, <1>2, <1>3, <1>4, <1>5


-----------------------------------------------------------------------------
(* What the passes keep: each sender is in one incident, or in none yet.    *)

Involves(inc) == {inc.root} \cup inc.secondary

\* The incidents that can be made of the messages: of some sender at least.
Finds(msgs) ==
  {inc \in {Found(msgs, r, s, l, e) : r \in Nodes, s \in SUBSET Nodes,
                                      l \in SUBSET (DOMAIN msgs), e \in SUBSET (DOMAIN msgs)} :
     inc.root \notin inc.secondary /\ \E n \in Senders(msgs) : n \in Involves(inc)}

\* The messages of one device.
Own(msgs, n) == From(msgs, {n})

\* The incidents found so far divide the senders that are done.
Parts(msgs, done, found) ==
  /\ found \in Seq(Finds(msgs))
  /\ \A n \in Senders(msgs) :
       /\ n \in done <=> \E k \in DOMAIN found : n \in Involves(found[k])
       /\ \A j, k \in DOMAIN found :
            n \in Involves(found[j]) /\ n \in Involves(found[k]) => j = k
       /\ \A k \in DOMAIN found : n \in Involves(found[k]) => Own(msgs, n) \subseteq found[k].logs

\* What a pass hands on.
IsPair(acc) == acc = [found |-> acc.found, assigned |-> acc.assigned]

Handed(msgs, acc) ==
  /\ IsPair(acc)
  /\ Parts(msgs, acc.assigned, acc.found)

LEMMA FoundIsThere ==
  ASSUME NEW msgs, NEW r \in Nodes, NEW s \in SUBSET Nodes,
         NEW l \in SUBSET (DOMAIN msgs), NEW e \in SUBSET (DOMAIN msgs),
         r \notin s, \E n \in Senders(msgs) : n = r \/ n \in s
  PROVE  Found(msgs, r, s, l, e) \in Finds(msgs)
<1> DEFINE inc == Found(msgs, r, s, l, e)
<1>1. inc.root \notin inc.secondary /\ \E n \in Senders(msgs) : n \in Involves(inc)
  BY DEF Involves, Found
<1>2. inc \in {Found(msgs, q, t, m, f) : q \in Nodes, t \in SUBSET Nodes,
                                         m \in SUBSET (DOMAIN msgs), f \in SUBSET (DOMAIN msgs)}
  OBVIOUS
<1> HIDE DEF inc
<1>3. inc \in Finds(msgs)
  BY <1>1, <1>2 DEF Finds
<1> QED
  BY <1>3 DEF inc

\* One more incident, of senders that were not done.
LEMMA PartsAppend ==
  ASSUME NEW msgs, NEW done, NEW found, Parts(msgs, done, found),
         NEW inc \in Finds(msgs), NEW more,
         \A n \in Senders(msgs) : n \in more <=> n \in Involves(inc),
         \A n \in Senders(msgs) : n \in more => n \notin done /\ Own(msgs, n) \subseteq inc.logs
  PROVE  Parts(msgs, done \cup more, Append(found, inc))
<1> PICK S : S = Finds(msgs)
  OBVIOUS
<1>1. found \in Seq(S) /\ inc \in S
  BY DEF Parts
<1> PICK next : next = Append(found, inc)
  OBVIOUS
<1>2. /\ next \in Seq(S)
      /\ Len(found) \in Nat
      /\ DOMAIN found = 1..Len(found)
      /\ DOMAIN next = DOMAIN found \cup {Len(found) + 1}
      /\ next[Len(found) + 1] = inc
      /\ \A k \in DOMAIN found : next[k] = found[k]
      /\ Len(found) + 1 \notin DOMAIN found
  BY <1>1
<1>3. ASSUME NEW n \in Senders(msgs)
      PROVE  /\ n \in done \cup more <=> \E k \in DOMAIN next : n \in Involves(next[k])
             /\ \A j, k \in DOMAIN next :
                  n \in Involves(next[j]) /\ n \in Involves(next[k]) => j = k
             /\ \A k \in DOMAIN next : n \in Involves(next[k]) => Own(msgs, n) \subseteq next[k].logs
  <2>1. /\ n \in done <=> \E k \in DOMAIN found : n \in Involves(found[k])
        /\ \A j, k \in DOMAIN found :
             n \in Involves(found[j]) /\ n \in Involves(found[k]) => j = k
        /\ \A k \in DOMAIN found : n \in Involves(found[k]) => Own(msgs, n) \subseteq found[k].logs
    BY DEF Parts
  <2>2. /\ n \in more <=> n \in Involves(inc)
        /\ n \in more => n \notin done /\ Own(msgs, n) \subseteq inc.logs
    OBVIOUS
  <2>3. n \in done \cup more <=> \E k \in DOMAIN next : n \in Involves(next[k])
    <3>1. (\E k \in DOMAIN next : n \in Involves(next[k]))
            <=> (\E k \in DOMAIN found : n \in Involves(found[k])) \/ n \in Involves(inc)
      BY <1>2
    <3> QED
      BY <2>1, <2>2, <3>1
  <2>4. ASSUME NEW j \in DOMAIN next, NEW k \in DOMAIN next,
               n \in Involves(next[j]), n \in Involves(next[k])
        PROVE  j = k
    BY <1>2, <2>1, <2>2, <2>4
  <2>5. ASSUME NEW k \in DOMAIN next, n \in Involves(next[k])
        PROVE  Own(msgs, n) \subseteq next[k].logs
    BY <1>2, <2>1, <2>2, <2>5
  <2> QED
    BY <2>3, <2>4, <2>5
<1> QED
  BY <1>2, <1>3 DEF Parts


\* The messages of some devices are those of each of them.
LEMMA FromParts ==
  ASSUME NEW msgs, NEW nodes
  PROVE  /\ From(msgs, nodes) \in SUBSET (DOMAIN msgs)
         /\ \A n \in nodes : Own(msgs, n) \subseteq From(msgs, nodes)
  BY DEF From, Own

\* An incident of a silent device.
LEMMA SilentStep ==
  ASSUME NEW msgs, NEW acc, Handed(msgs, acc), NEW src \in Nodes \ Senders(msgs),
         NEW covered \in SUBSET Senders(msgs), \A n \in covered : n \notin acc.assigned,
         NEW least \in {1, 2}
  PROVE  Handed(msgs, AddSilent(msgs, src, covered, least, acc))
<1>1. CASE Cardinality(covered) < least
  <2>1. (Cardinality(covered) < least) = TRUE
    BY <1>1
  <2>2. AddSilent(msgs, src, covered, least, acc) = acc
    BY <2>1, Zenon DEF AddSilent
  <2> QED
    BY <2>2
<1>2. CASE ~(Cardinality(covered) < least)
  <2> DEFINE inc  == Found(msgs, src, covered, From(msgs, covered), {})
             next == AddSilent(msgs, src, covered, least, acc)
  <2>0. Involves(inc) = {src} \cup covered /\ inc.logs = From(msgs, covered)
    BY DEF Involves, Found
  <2>1. inc \in Finds(msgs)
    <3>1. src \in Nodes /\ {} \in SUBSET (DOMAIN msgs) /\ src \notin covered
      OBVIOUS
    <3>2. From(msgs, covered) \in SUBSET (DOMAIN msgs)
      BY FromParts
    <3>3. covered \in SUBSET Nodes
      BY DEF Senders
    <3>4. \E n \in Senders(msgs) : n = src \/ n \in covered
      <4>1. covered # {}
        BY <1>2, FS_EmptySet
      <4> QED
        BY <4>1
    <3> QED
      BY <3>1, <3>2, <3>3, <3>4, FoundIsThere
  <2>2. next = [found |-> Append(acc.found, inc), assigned |-> acc.assigned \cup covered]
    <3>1. (Cardinality(covered) < least) = FALSE
      BY <1>2
    <3> QED
      BY <3>1, Zenon DEF AddSilent
  <2> HIDE DEF inc, next
  <2>3. \A n \in Senders(msgs) : n \in covered => Own(msgs, n) \subseteq inc.logs
    BY <2>0, FromParts
  <2>4. Parts(msgs, acc.assigned \cup covered, Append(acc.found, inc))
    <3>1. Parts(msgs, acc.assigned, acc.found)
      BY DEF Handed
    <3>2. \A n \in Senders(msgs) : n \in covered <=> n \in Involves(inc)
      BY <2>0
    <3>3. \A n \in Senders(msgs) :
            n \in covered => n \notin acc.assigned /\ Own(msgs, n) \subseteq inc.logs
      BY <2>3
    <3> QED
      BY <2>1, <3>1, <3>2, <3>3, PartsAppend
  <2>5. /\ next.found = Append(acc.found, inc) /\ next.assigned = acc.assigned \cup covered
        /\ next = [found |-> next.found, assigned |-> next.assigned]
    BY <2>2
  <2>6. Handed(msgs, next)
    BY <2>4, <2>5 DEF Handed, IsPair
  <2> QED
    BY <2>6 DEF next
<1> QED
  BY <1>1, <1>2

\* An incident of a device and what it explains.
LEMMA RootStep ==
  ASSUME NEW msgs, NEW acc, Handed(msgs, acc), NEW root \in Senders(msgs),
         NEW others \in SUBSET Senders(msgs), root \notin others, \A n \in others : n \notin acc.assigned
  PROVE  Handed(msgs, AddRoot(msgs, root, others, acc))
<1>1. CASE root \in acc.assigned
  <2>1. AddRoot(msgs, root, others, acc) = acc
    BY <1>1, Zenon DEF AddRoot
  <2> QED
    BY <2>1
<1>2. CASE root \notin acc.assigned
  <2> DEFINE related == {root} \cup others
             first   == From(msgs, {root}) \cap Active(msgs)
             inc     == Found(msgs, root, others, From(msgs, related), first)
             next    == AddRoot(msgs, root, others, acc)
  <2>1. first \in SUBSET (DOMAIN msgs)
    BY FromParts
  <2>2. next = [found |-> Append(acc.found, inc), assigned |-> acc.assigned \cup related]
    BY <1>2, Zenon DEF AddRoot
  <2>3. \A n : n \in related <=> n = root \/ n \in others
    OBVIOUS
  <2>4. Involves(inc) = related /\ inc.logs = From(msgs, related)
    BY DEF Involves, Found
  <2> HIDE DEF first, related
  <2>5. inc \in Finds(msgs)
    <3>1. From(msgs, related) \in SUBSET (DOMAIN msgs)
      BY FromParts
    <3>2. root \in Nodes /\ others \in SUBSET Nodes
      BY DEF Senders
    <3> QED
      BY <2>1, <3>1, <3>2, FoundIsThere
  <2> HIDE DEF inc, next
  <2>6. \A n \in Senders(msgs) : n \in related => Own(msgs, n) \subseteq inc.logs
    BY <2>4, FromParts
  <2>7. Parts(msgs, acc.assigned \cup related, Append(acc.found, inc))
    <3>1. Parts(msgs, acc.assigned, acc.found)
      BY DEF Handed
    <3>2. \A n \in Senders(msgs) : n \in related <=> n \in Involves(inc)
      BY <2>4
    <3>3. \A n \in Senders(msgs) :
            n \in related => n \notin acc.assigned /\ Own(msgs, n) \subseteq inc.logs
      BY <1>2, <2>3, <2>6
    <3> QED
      BY <2>5, <3>1, <3>2, <3>3, PartsAppend
  <2>8. /\ next.found = Append(acc.found, inc) /\ next.assigned = acc.assigned \cup related
        /\ next = [found |-> next.found, assigned |-> next.assigned]
    BY <2>2
  <2>9. Handed(msgs, next)
    BY <2>7, <2>8 DEF Handed, IsPair
  <2> QED
    BY <2>9 DEF next
<1> QED
  BY <1>1, <1>2

\* A sender that nothing explains.
LEMMA AloneStep ==
  ASSUME NEW msgs, NEW acc, IsPair(acc),
         NEW done, Parts(msgs, done, acc.found), NEW node \in Senders(msgs) \ done
  PROVE  /\ IsPair(AddAlone(msgs, node, acc))
         /\ Parts(msgs, done \cup {node}, AddAlone(msgs, node, acc).found)
<1> DEFINE inc  == Found(msgs, node, {}, From(msgs, {node}), From(msgs, {node}))
           next == AddAlone(msgs, node, acc)
<1>0. Involves(inc) = {node} /\ inc.logs = From(msgs, {node})
  BY DEF Involves, Found
<1>1. inc \in Finds(msgs)
  <2>1. From(msgs, {node}) \in SUBSET (DOMAIN msgs) /\ {} \in SUBSET Nodes
    BY FromParts
  <2>2. node \in Nodes
    BY DEF Senders
  <2> QED
    BY <2>1, <2>2, FoundIsThere
<1>2. next = [acc EXCEPT !.found = Append(@, inc)]
  BY DEF AddAlone
<1> HIDE DEF inc, next
<1>3. /\ next.found = Append(acc.found, inc)
      /\ IsPair(next)
  BY <1>2 DEF IsPair
<1>4. Parts(msgs, done \cup {node}, Append(acc.found, inc))
  <2>1. \A n \in Senders(msgs) : n \in {node} <=> n \in Involves(inc)
    BY <1>0
  <2>2. \A n \in Senders(msgs) : n \in {node} => n \notin done /\ Own(msgs, n) \subseteq inc.logs
    BY <1>0 DEF Own
  <2> QED
    BY <1>1, <2>1, <2>2, PartsAppend
<1> QED
  BY <1>3, <1>4 DEF next


\* What a pass may be given: the second, third and fourth passes.
Ready(pass, msgs, by, n) ==
  \/ pass = "named" /\ by = NamedSilent(msgs) /\ n \in DOMAIN by
  \/ pass = "common" /\ n \in Nodes \ Senders(msgs)
  \/ pass = "root" /\ n \in Senders(msgs)

LEMMA StepHands ==
  ASSUME NEW msgs, NEW pass, NEW by, NEW n, Ready(pass, msgs, by, n), NEW acc, Handed(msgs, acc)
  PROVE  Handed(msgs, StepOf(pass, msgs, by, n, acc))
<1>1. CASE pass = "named" /\ by = NamedSilent(msgs) /\ n \in DOMAIN by
  <2>1. n \in Nodes \ Senders(msgs) /\ by[n] \in SUBSET Senders(msgs)
    BY <1>1 DEF NamedSilent, Neighbours, Senders
  <2> DEFINE covered == by[n] \ acc.assigned
  <2>2. covered \in SUBSET Senders(msgs) /\ \A m \in covered : m \notin acc.assigned
    BY <2>1
  <2>3. StepOf(pass, msgs, by, n, acc) = AddSilent(msgs, n, covered, 1, acc)
    BY <1>1, Zenon DEF StepOf
  <2> HIDE DEF covered
  <2> QED
    BY <2>1, <2>2, <2>3, SilentStep
<1>2. CASE pass = "common" /\ n \in Nodes \ Senders(msgs)
  <2> DEFINE covered == (DescendantsFiltered(n, by) \cap Senders(msgs)) \ acc.assigned
  <2>1. covered \in SUBSET Senders(msgs) /\ \A m \in covered : m \notin acc.assigned
    BY DEF Senders
  <2>2. StepOf(pass, msgs, by, n, acc) = AddSilent(msgs, n, covered, 2, acc)
    BY <1>2 DEF StepOf
  <2> HIDE DEF covered
  <2> QED
    BY <1>2, <2>1, <2>2, SilentStep
<1>3. CASE pass = "root" /\ n \in Senders(msgs)
  <2> DEFINE others == (DescendantsFiltered(n, by) \cap Senders(msgs)) \ acc.assigned
  <2>1. /\ others \in SUBSET Senders(msgs) /\ n \notin others
        /\ \A m \in others : m \notin acc.assigned
    BY DEF DescendantsFiltered
  <2>2. StepOf(pass, msgs, by, n, acc) = AddRoot(msgs, n, others, acc)
    BY <1>3 DEF StepOf
  <2> HIDE DEF others
  <2> QED
    BY <1>3, <2>1, <2>2, RootStep
<1> QED
  BY <1>1, <1>2, <1>3 DEF Ready

\* From one place of the sequence to the next, the whole pass.
LEMMA PassHands ==
  ASSUME NEW seq, NEW n \in Nat, DOMAIN seq = 1..n, NEW pass, NEW msgs, NEW by,
         \A k \in 1..n : Ready(pass, msgs, by, seq[k]),
         NEW start, Handed(msgs, start), NEW h, IsFold(h, pass, msgs, by, start, seq)
  PROVE  Handed(msgs, h[DOMAIN seq])
<1> DEFINE Wrong == {k \in 0..n : ~Handed(msgs, h[1..k])}
<1>1. /\ h[1..0] = start
      /\ \A k \in 1..n : h[1..k] = StepOf(pass, msgs, by, seq[k], h[1..(k - 1)])
  BY FoldSteps
<1>2. Wrong = {}
  <2> SUFFICES ASSUME Wrong # {} PROVE FALSE
    OBVIOUS
  <2>1. PICK k \in Wrong : \A m \in Wrong : k <= m
    <3>1. Wrong \in SUBSET Nat
      OBVIOUS
    <3> HIDE DEF Wrong
    <3> QED
      BY <3>1, LeastOf
  <2>2. k # 0
    BY <1>1, <2>1
  <2>3. k \in 1..n /\ k - 1 \in 0..n /\ ~(k <= k - 1)
    BY <2>1, <2>2
  <2>4. Handed(msgs, h[1..(k - 1)])
    BY <2>1, <2>3
  <2>5. Handed(msgs, h[1..k])
    BY <1>1, <2>3, <2>4, StepHands
  <2> QED
    BY <2>1, <2>5
<1> QED
  BY <1>2

\* The last pass: the senders that are left, each once.
LEMMA LastPassParts ==
  ASSUME NEW seq, NEW n \in Nat, DOMAIN seq = 1..n, NEW msgs,
         NEW start, Handed(msgs, start),
         \A k \in 1..n : seq[k] \in Senders(msgs) \ start.assigned,
         \A j, k \in 1..n : seq[j] = seq[k] => j = k,
         NEW by, NEW h, IsFold(h, "last", msgs, by, start, seq)
  PROVE  Parts(msgs, start.assigned \cup {seq[k] : k \in 1..n}, h[DOMAIN seq].found)
<1> DEFINE done(k)  == start.assigned \cup {seq[j] : j \in 1..k}
           Right(k) == /\ IsPair(h[1..k])
                       /\ Parts(msgs, done(k), h[1..k].found)
           Wrong    == {k \in 0..n : ~Right(k)}
<1>1. /\ h[1..0] = start
      /\ \A k \in 1..n : h[1..k] = StepOf("last", msgs, by, seq[k], h[1..(k - 1)])
  BY FoldSteps
<1>2. Right(0)
  <2>1. done(0) = start.assigned
    OBVIOUS
  <2> HIDE DEF done
  <2> QED
    BY <1>1, <2>1 DEF Handed
<1>3. ASSUME NEW k \in 1..n, Right(k - 1)
      PROVE  Right(k)
  <2>1. h[1..k] = AddAlone(msgs, seq[k], h[1..(k - 1)])
    BY <1>1 DEF StepOf
  <2>2. seq[k] \in Senders(msgs) /\ seq[k] \notin done(k - 1)
    <3>1. seq[k] \in Senders(msgs) /\ seq[k] \notin start.assigned
      OBVIOUS
    <3>2. \A j \in 1..(k - 1) : j \in 1..n /\ j # k
      OBVIOUS
    <3> QED
      BY <3>1, <3>2
  <2>3. done(k) = done(k - 1) \cup {seq[k]}
    <3>1. 1..k = (1..(k - 1)) \cup {k}
      OBVIOUS
    <3> QED
      BY <3>1
  <2> HIDE DEF done
  <2> PICK last, next, before, node :
        last = h[1..(k - 1)] /\ next = h[1..k] /\ before = done(k - 1) /\ node = seq[k]
    OBVIOUS
  <2>4. IsPair(last) /\ Parts(msgs, before, last.found)
    BY <1>3
  <2>5. next = AddAlone(msgs, node, last)
    BY <2>1
  <2>6. node \in Senders(msgs) \ before
    BY <2>2
  <2>7. IsPair(AddAlone(msgs, node, last))
    BY <2>4, <2>6, AloneStep
  <2>8. Parts(msgs, before \cup {node}, AddAlone(msgs, node, last).found)
    BY <2>4, <2>6, AloneStep
  <2> QED
    BY <2>3, <2>5, <2>7, <2>8
<1>4. Wrong = {}
  <2> SUFFICES ASSUME Wrong # {} PROVE FALSE
    OBVIOUS
  <2> HIDE DEF Right
  <2>1. PICK k \in Wrong : \A m \in Wrong : k <= m
    <3>1. Wrong \in SUBSET Nat
      OBVIOUS
    <3> HIDE DEF Wrong
    <3> QED
      BY <3>1, LeastOf
  <2>2. k # 0
    BY <1>2, <2>1
  <2>3. k \in 1..n /\ k - 1 \in 0..n /\ ~(k <= k - 1)
    BY <2>1, <2>2
  <2>4. Right(k - 1)
    BY <2>1, <2>3
  <2> QED
    BY <1>3, <2>1, <2>3, <2>4
<1>5. Right(n)
  <2> HIDE DEF Right
  <2>1. n \in 0..n
    OBVIOUS
  <2> QED
    BY <1>4, <2>1
<1> QED
  BY <1>5


\* The sequences that the passes go through: devices of a finite set, each once.
LEMMA Sequences ==
  ASSUME NEW S \in SUBSET Nodes
  PROVE  /\ IsFiniteSet(S) /\ Cardinality(S) \in Nat
         /\ \A s \in SetToSeqs(S) : s \in [1..Cardinality(S) -> S]
         /\ InOrder(S) \in [1..Cardinality(S) -> S]
         /\ \A i, j \in 1..Cardinality(S) : InOrder(S)[i] = InOrder(S)[j] => i = j
         /\ \A n \in S : \E k \in 1..Cardinality(S) : InOrder(S)[k] = n
<1>1. IsFiniteSet(S) /\ S \in SUBSET Int
  <2>1. IsFiniteSet(S)
    BY GraphAssumption, FS_Subset
  <2>2. Nodes \in SUBSET Int
    BY GraphAssumption
  <2> QED
    BY <2>1, <2>2
<1>2. Cardinality(S) \in Nat
  BY <1>1, FS_CardinalityType
<1>3. \A s \in SetToSeqs(S) : s \in [1..Cardinality(S) -> S]
  BY DEF SetToSeqs
<1> QED
  BY <1>1, <1>2, <1>3, InOrderPermutes

\* Whatever the messages are: each device that sent one that counts is the root or a
\* secondary device of one incident, which has all its messages.
LEMMA InferPartitions ==
  ASSUME NEW msgs, NEW so \in SilentOrders(msgs), NEW ro \in RootOrders(msgs)
  PROVE  Parts(msgs, Senders(msgs), Infer(msgs, {}, so, ro))
<1> DEFINE bgp       == RoutingNodes(msgs)
           named     == NamedSilent(msgs)
           seen      == MonitoredDown(msgs, {})
           start     == [found |-> <<>>, assigned |-> {}]
           monitored == MonitoredPass(msgs, seen, start, InOrder(DOMAIN seen))
           explicit  == NamedPass(msgs, named, monitored, InOrder(DOMAIN named))
           common    == CommonPass(msgs, bgp, explicit, so)
           roots     == RootPass(msgs, bgp, common, ro)
           left      == Senders(msgs) \ roots.assigned
           last      == LastPass(msgs, roots, InOrder(left))
<1>1. Infer(msgs, {}, so, ro) = last.found
  BY DEF Infer, MonitoredPass, NamedPass, CommonPass, RootPass, LastPass
<1>2. /\ SilentCandidates(msgs) \in SUBSET (Nodes \ Senders(msgs))
      /\ TopSenders(msgs) \in SUBSET Senders(msgs)
      /\ Senders(msgs) \in SUBSET Nodes
      /\ so \in SetToSeqs(SilentCandidates(msgs))
      /\ ro \in SetToSeqs(TopSenders(msgs))
  <2>1. SilentCandidates(msgs) \in SUBSET (Nodes \ Senders(msgs))
    <3>1. \A n \in DOMAIN SilentCoverage(msgs) : n \in Nodes \ Senders(msgs)
      BY DEF SilentCoverage, AncestorsFiltered
    <3>2. SilentCandidates(msgs) \in SUBSET (DOMAIN SilentCoverage(msgs))
      <4>1. CASE Cardinality(Senders(msgs)) < 2
        <5>1. (Cardinality(Senders(msgs)) < 2) = TRUE
          BY <1>1, <4>1
        <5>2. SilentCandidates(msgs) = {}
          BY <5>1, Zenon DEF SilentCandidates
        <5> QED
          BY <5>2
      <4>2. CASE ~(Cardinality(Senders(msgs)) < 2)
        <5>1. (Cardinality(Senders(msgs)) < 2) = FALSE
          BY <4>2
        <5> QED
          BY <5>1, Zenon DEF SilentCandidates
      <4> QED
        BY <4>1, <4>2
    <3> QED
      BY <3>1, <3>2
  <2>2. TopSenders(msgs) \in SUBSET Senders(msgs) /\ Senders(msgs) \in SUBSET Nodes
    BY DEF TopSenders, Senders
  <2>3. so \in SetToSeqs(SilentCandidates(msgs)) /\ ro \in SetToSeqs(TopSenders(msgs))
    BY DEF SilentOrders, RootOrders
  <2> QED
    BY <2>1, <2>2, <2>3
<1>3. Handed(msgs, start)
  <2>1. start.found = <<>> /\ start.assigned = {} /\ IsPair(start)
    BY DEF IsPair
  <2>2. <<>> \in Seq(Finds(msgs)) /\ DOMAIN <<>> = {}
    OBVIOUS
  <2> HIDE DEF start
  <2> QED
    BY <2>1, <2>2 DEF Handed, Parts
<1> HIDE DEF start
<1>4. monitored = start
  <2>1. DOMAIN seen = {}
    BY DEF MonitoredDown
  <2>2. InOrder({}) \in [1..0 -> {}]
    <3>1. Cardinality({}) = 0
      BY FS_EmptySet
    <3> QED
      BY <3>1, Sequences
  <2>3. DOMAIN InOrder(DOMAIN seen) = 1..0
    BY <2>1, <2>2
  <2> HIDE DEF seen
  <2>4. PICK h : /\ IsFold(h, "monitored", msgs, seen, start, InOrder(DOMAIN seen))
                 /\ monitored = h[DOMAIN InOrder(DOMAIN seen)]
    BY <2>3, PassesAreFolds
  <2> QED
    BY <2>3, <2>4, FoldSteps
<1>5. Handed(msgs, explicit)
  <2> DEFINE seq == InOrder(DOMAIN named)
  <2>1. DOMAIN named \in SUBSET Nodes
    BY DEF NamedSilent
  <2> PICK n : n = Cardinality(DOMAIN named)
    OBVIOUS
  <2>2. n \in Nat /\ seq \in [1..n -> DOMAIN named]
    BY <2>1, Sequences
  <2> HIDE DEF seq, monitored
  <2>3. DOMAIN seq = 1..n /\ \A k \in 1..n : seq[k] \in DOMAIN named
    BY <2>2
  <2>4. \A k \in 1..n : Ready("named", msgs, named, seq[k])
    BY <2>3 DEF Ready
  <2> HIDE DEF named
  <2>5. PICK h : /\ IsFold(h, "named", msgs, named, monitored, seq)
                 /\ explicit = h[DOMAIN seq]
    BY <2>2, <2>3, PassesAreFolds DEF seq
  <2> HIDE DEF explicit
  <2> QED
    BY <1>3, <1>4, <2>2, <2>3, <2>4, <2>5, PassHands
<1> HIDE DEF explicit, bgp
<1>6. Handed(msgs, common)
  <2> PICK n : n = Cardinality(SilentCandidates(msgs))
    OBVIOUS
  <2>1. n \in Nat /\ so \in [1..n -> SilentCandidates(msgs)]
    <3>1. SilentCandidates(msgs) \in SUBSET Nodes
      BY <1>2
    <3> QED
      BY <1>2, <3>1, Sequences
  <2>2. DOMAIN so = 1..n /\ \A k \in 1..n : Ready("common", msgs, bgp, so[k])
    BY <1>2, <2>1 DEF Ready
  <2>3. PICK h : /\ IsFold(h, "common", msgs, bgp, explicit, so)
                 /\ common = h[DOMAIN so]
    BY <2>1, <2>2, PassesAreFolds
  <2> HIDE DEF common
  <2> QED
    BY <1>5, <2>1, <2>2, <2>3, PassHands
<1> HIDE DEF common
<1>7. Handed(msgs, roots)
  <2> PICK n : n = Cardinality(TopSenders(msgs))
    OBVIOUS
  <2>1. n \in Nat /\ ro \in [1..n -> TopSenders(msgs)]
    <3>1. TopSenders(msgs) \in SUBSET Nodes
      BY <1>2
    <3> QED
      BY <1>2, <3>1, Sequences
  <2>2. DOMAIN ro = 1..n /\ \A k \in 1..n : Ready("root", msgs, bgp, ro[k])
    BY <1>2, <2>1 DEF Ready
  <2>3. PICK h : /\ IsFold(h, "root", msgs, bgp, common, ro)
                 /\ roots = h[DOMAIN ro]
    BY <2>1, <2>2, PassesAreFolds
  <2> HIDE DEF roots
  <2> QED
    BY <1>6, <2>1, <2>2, <2>3, PassHands
<1> HIDE DEF roots
<1>8. Parts(msgs, Senders(msgs), last.found)
  <2> DEFINE seq == InOrder(left)
  <2>1. left \in SUBSET Nodes
    BY <1>2
  <2> PICK n : n = Cardinality(left)
    OBVIOUS
  <2>2. /\ n \in Nat /\ seq \in [1..n -> left]
        /\ \A i, j \in 1..n : seq[i] = seq[j] => i = j
        /\ \A m \in left : \E k \in 1..n : seq[k] = m
    <3> HIDE DEF left
    <3> QED
      BY <2>1, Sequences
  <2>3. PICK h : /\ IsFold(h, "last", msgs, bgp, roots, seq)
                 /\ last = h[DOMAIN seq]
    <3> HIDE DEF left
    <3> QED
      BY <2>2, PassesAreFolds
  <2> HIDE DEF seq, last
  <2>4. DOMAIN seq = 1..n /\ \A k \in 1..n : seq[k] \in Senders(msgs) \ roots.assigned
    BY <2>2
  <2>5. Parts(msgs, roots.assigned \cup {seq[k] : k \in 1..n}, h[DOMAIN seq].found)
    BY <1>7, <2>2, <2>3, <2>4, LastPassParts
  <2>6. \A m \in Senders(msgs) : m \in roots.assigned \cup {seq[k] : k \in 1..n}
    <3>1. \A m \in Senders(msgs) : m \in roots.assigned \/ \E k \in 1..n : seq[k] = m
      BY <2>2
    <3> QED
      BY <3>1
  <2> QED
    BY <2>3, <2>5, <2>6 DEF Parts
<1> QED
  BY <1>1, <1>8

-----------------------------------------------------------------------------
(* The inference of a line on its own.                                      *)

\* The incident of a lone fault line is of the sender, or of a silent neighbour that
\* it names, with the sender as its secondary device: each incident is of a sender,
\* and of the one sender there is only one.
LEMMA LoneIncident ==
  ASSUME NEW m, ~m.minor, m.host \in Nodes, NEW msgs, msgs = <<m>>,
         NEW so \in SilentOrders(msgs), NEW ro \in RootOrders(msgs),
         NEW found, found = Infer(msgs, {}, so, ro)[1]
  PROVE  /\ found.root \in Nodes /\ found.root \notin found.secondary
         /\ m.host \in {found.root} \cup found.secondary
<1> DEFINE all == Infer(msgs, {}, so, ro)
<1>1. Senders(msgs) = {m.host}
  <2>1. DOMAIN msgs = {1} /\ msgs[1] = m
    OBVIOUS
  <2> QED
    BY <2>1 DEF Active, Senders
<1>2. Parts(msgs, Senders(msgs), all)
  BY InferPartitions
<1> HIDE DEF all
<1>3. /\ all \in Seq(Finds(msgs))
      /\ \E k \in DOMAIN all : m.host \in Involves(all[k])
      /\ \A j, k \in DOMAIN all :
           m.host \in Involves(all[j]) /\ m.host \in Involves(all[k]) => j = k
  BY <1>1, <1>2 DEF Parts
<1>4. /\ Len(all) \in Nat /\ DOMAIN all = 1..Len(all)
      /\ \A k \in DOMAIN all : all[k] \in Finds(msgs)
  <2> PICK S : S = Finds(msgs)
    OBVIOUS
  <2>1. all \in Seq(S)
    BY <1>3
  <2> QED
    BY <2>1
<1>5. \A k \in DOMAIN all : /\ all[k].root \notin all[k].secondary /\ m.host \in Involves(all[k])
                            /\ all[k].root \in Nodes
  BY <1>1, <1>4 DEF Finds, Found
<1>6. 1 \in DOMAIN all
  BY <1>3, <1>4
<1>7. all[1].root \in Nodes /\ all[1].root \notin all[1].secondary /\ m.host \in Involves(all[1])
  BY <1>5, <1>6
<1> QED
  BY <1>7 DEF Involves, all

LEMMA FoundFacts ==
  ASSUME NEW line \in Lines, NEW found, FoundIn(line, found)
  PROVE  /\ found.root \in Nodes /\ found.root \notin found.secondary
         /\ line.host \in {found.root} \cup found.secondary
<1> PICK m, msgs : m = Message(line) /\ msgs = <<m>>
  OBVIOUS
<1>1. line \in [host : Nat, at : {0}, minor : BOOLEAN, routing : BOOLEAN, lost : Nat,
                recovery : BOOLEAN, ignored : BOOLEAN, event : STRING]
  BY IngestAssumption
<1>2. m.host = line.host /\ m.minor = line.minor
  BY <1>1 DEF Message
<1>3. PICK s \in SilentOrders(msgs), r \in RootOrders(msgs) : found = Infer(msgs, {}, s, r)[1]
  BY DEF FoundIn
<1>4. ~m.minor /\ m.host \in Nodes
  BY <1>2 DEF FoundIn
<1> QED
  BY <1>2, <1>3, <1>4, LoneIncident

-----------------------------------------------------------------------------
(* Lines that get lost.                                                     *)

\* An incident whose root is no device of the graph is an earlier run's.
ForeignIsEarlier ==
  \A i \in DOMAIN rows : rows[i].root \notin Nodes =>
    \E table \in Earlier : i \in DOMAIN table /\ table[i].root \notin Nodes

LEMMA ForeignInit == Init => ForeignIsEarlier
  BY DEF Init, ForeignIsEarlier

LEMMA ForeignStep ==
  ASSUME Typed, ForeignIsEarlier, [Next]_vars
  PROVE  ForeignIsEarlier'
<1>1. CASE AllStay
  BY <1>1 DEF AllStay, Stays, ForeignIsEarlier
<1>2. ASSUME NEW line, NEW found, Stores(line, found) PROVE ForeignIsEarlier'
  <2> PICK n : n = counter + 1
    OBVIOUS
  <2>1. /\ DOMAIN rows' = DOMAIN rows \cup {n}
        /\ \A j \in DOMAIN rows \ {n} : rows'[j] = rows[j]
        /\ rows'[n].root = found.root
    BY <1>2, StoresFacts
  <2>2. found.root \in Nodes
    BY <1>2, FoundFacts DEF Stores, Keeps, Reads
  <2> QED
    BY <2>1, <2>2 DEF ForeignIsEarlier
<1>3. ASSUME NEW line, NEW found, NEW n, Merges(line, found, n) PROVE ForeignIsEarlier'
  <2>1. /\ DOMAIN rows' = DOMAIN rows
        /\ \A a \in DOMAIN rows \ {n} : rows'[a] = rows[a]
        /\ \/ rows'[n].root = rows[n].root
           \/ rows'[n].root = found.root
    BY <1>3, MergesFacts
  <2>2. found.root \in Nodes
    BY <1>3, FoundFacts DEF Merges, Keeps, Reads
  <2> QED
    BY <2>1, <2>2 DEF ForeignIsEarlier
<1> QED
  BY <1>1, <1>2, <1>3, StepCases DEF NoLine, NotKept

\* It stays in the table as it is, unless its number is given again.
LEMMA ForeignStays ==
  ASSUME Typed, ForeignIsEarlier, [Next]_vars, NEW i \in DOMAIN rows,
         NEW k \in 1..Len(input), input'[k] = input[k], ForeignIncident(i, k)
  PROVE  i \in DOMAIN rows' /\ ForeignIncident(i, k)'
<1>0. Len(input) \in Nat
  BY DEF Typed
<1>1. CASE AllStay
  BY <1>1 DEF AllStay, Stays, ForeignIncident
<1>2. ASSUME NEW line, NEW found, Stores(line, found)
      PROVE  i \in DOMAIN rows' /\ ForeignIncident(i, k)'
  <2> PICK n : n = counter + 1
    OBVIOUS
  <2>1. /\ DOMAIN rows' = DOMAIN rows \cup {n}
        /\ \A j \in DOMAIN rows \ {n} : rows'[j] = rows[j]
        /\ rows'[n].created = Number
    BY <1>2, StoresFacts
  <2>2. CASE i # n
    BY <2>1, <2>2 DEF ForeignIncident
  <2>3. CASE i = n
    <3>1. rows'[i].created > k
      BY <1>0, <2>1, <2>3 DEF Number
    <3>2. \E table \in Earlier : i \in DOMAIN table /\ table[i].root \notin Nodes
      BY DEF ForeignIncident, ForeignIsEarlier
    <3> QED
      BY <2>1, <3>1, <3>2 DEF ForeignIncident
  <2> QED
    BY <2>2, <2>3
<1>3. ASSUME NEW line, NEW found, NEW n, Merges(line, found, n)
      PROVE  i \in DOMAIN rows' /\ ForeignIncident(i, k)'
  <2>1. /\ DOMAIN rows' = DOMAIN rows
        /\ \A a \in DOMAIN rows \ {n} : rows'[a] = rows[a]
        /\ rows'[n].status = rows[n].status /\ rows'[n].faultAt = rows[n].faultAt
        /\ rows'[n].created = rows[n].created
        /\ \/ rows'[n].root = rows[n].root
           \/ rows'[n].root = found.root /\ found.root \in Ancestors(rows[n].root)
    BY <1>3, MergesFacts
  <2>2. CASE i # n
    BY <2>1, <2>2 DEF ForeignIncident
  <2>3. CASE i = n
    <3>1. rows[i].root \notin Nodes => rows'[i].root = rows[i].root
      BY <2>1, <2>3, AboveIsBelow
    <3> QED
      BY <2>1, <2>3, <3>1 DEF ForeignIncident
  <2> QED
    BY <2>2, <2>3
<1> QED
  BY <1>1, <1>2, <1>3, StepCases DEF NoLine, NotKept

LEMMA LostStep ==
  ASSUME Typed, ForeignIsEarlier, LostOnlyToForeignRoot, [Next]_vars
  PROVE  LostOnlyToForeignRoot'
<1>1. input \in Seq(Entries) /\ DOMAIN input = 1..Len(input)
  BY DEF Typed
\* A line that was read before is as it was, and so is the reason for its loss.
<1>2. ASSUME NEW k \in DOMAIN input, input'[k] = input[k], input[k].outcome = "lost"
      PROVE  \E i \in DOMAIN rows' : ForeignIncident(i, k)'
  <2>1. PICK i \in DOMAIN rows : ForeignIncident(i, k)
    BY <1>2 DEF LostOnlyToForeignRoot
  <2>2. i \in DOMAIN rows' /\ ForeignIncident(i, k)'
    BY <1>1, <1>2, <2>1, ForeignStays
  <2> QED
    BY <2>2
<1>3. CASE NoLine
  BY <1>2, <1>3 DEF NoLine, LostOnlyToForeignRoot
<1>4. ASSUME NEW line, NEW outcome \in Outcomes, NEW into \in Int, Reads(line, outcome, into),
             NEW n, n = Number, outcome = "lost" => \E i \in DOMAIN rows' : ForeignIncident(i, n)'
      PROVE  LostOnlyToForeignRoot'
  <2>3. /\ \A k \in 1..Len(input) : input'[k] = input[k]
        /\ DOMAIN input' = 1..(Len(input) + 1)
        /\ input'[n] = [line |-> line, at |-> clock, outcome |-> outcome, into |-> into]
    BY <1>4, ReadsFacts
  <2>1. /\ \A k \in DOMAIN input : input'[k] = input[k]
        /\ DOMAIN input' = DOMAIN input \cup {n}
        /\ input'[n].outcome = outcome
    BY <1>1, <1>4, <2>3 DEF Number
  <2>2. ASSUME NEW k \in DOMAIN input', input'[k].outcome = "lost"
        PROVE  \E i \in DOMAIN rows' : ForeignIncident(i, k)'
    BY <1>2, <1>4, <2>1, <2>2
  <2> QED
    BY <2>2 DEF LostOnlyToForeignRoot
<1>5. ASSUME NEW line, NEW outcome, NotKept(line, outcome) PROVE LostOnlyToForeignRoot'
  <2>1. outcome \in Outcomes /\ Nowhere \in Int /\ Reads(line, outcome, Nowhere)
    BY <1>5 DEF NotKept, Nowhere
  <2>2. PICK n : n = Number
    OBVIOUS
  <2>5. input'[n] = [line |-> line, at |-> clock, outcome |-> outcome, into |-> Nowhere]
    BY <2>1, <2>2, ReadsFacts
  <2>3. input'[n].at = clock
    BY <2>5
  <2>4. ASSUME outcome = "lost" PROVE \E i \in DOMAIN rows' : ForeignIncident(i, n)'
    <3>1. PICK i \in Eligible(clock) : rows[i].root \notin Nodes
      BY <1>5, <2>4 DEF NotKept
    <3>2. i \in DOMAIN rows /\ rows[i].status = "OPEN" /\ clock - rows[i].faultAt <= MergeWindow
      BY DEF Eligible, OpenActive
    <3>3. i \in DOMAIN rows' /\ ForeignIncident(i, n)'
      BY <1>5, <2>3, <3>1, <3>2 DEF NotKept, AllStay, Stays, ForeignIncident
    <3> QED
      BY <3>3
  <2> QED
    BY <1>4, <2>1, <2>2, <2>4
<1>6. ASSUME NEW line, NEW found, NEW id \in Int, Keeps(line, found, id)
      PROVE  LostOnlyToForeignRoot'
  <2>1. PICK n : n = Number
    OBVIOUS
  <2> QED
    BY <1>4, <1>6, <2>1 DEF Keeps, Outcomes
<1>7. ASSUME NEW line, NEW found, Stores(line, found) PROVE LostOnlyToForeignRoot'
  <2>1. counter + 1 \in Int
    BY DEF Typed
  <2> QED
    BY <1>6, <1>7, <2>1 DEF Stores
<1>8. ASSUME NEW line, NEW found, NEW i, Merges(line, found, i) PROVE LostOnlyToForeignRoot'
  <2>1. i \in Int
    BY <1>8, MergesFacts, IngestAssumption DEF Typed, OpenActive, UsedBefore
  <2> QED
    BY <1>6, <1>8, <2>1 DEF Merges
<1> QED
  BY <1>3, <1>5, <1>7, <1>8, StepCases

\* A line gets lost only while the table has an open incident, of the merge window,
\* whose root the topology does not know (file_ingest.py:188-189); nothing takes that
\* incident away but a new one that gets its number.
THEOREM LinesAreLostToForeignRoots == Spec => []LostOnlyToForeignRoot
<1>1. Init => LostOnlyToForeignRoot
  BY DEF Init, LostOnlyToForeignRoot
<1>2. Typed /\ ForeignIsEarlier /\ LostOnlyToForeignRoot /\ [Next]_vars
        => LostOnlyToForeignRoot'
  BY LostStep
<1>3. Typed /\ ForeignIsEarlier /\ [Next]_vars => ForeignIsEarlier'
  BY ForeignStep
<1> QED
  BY <1>1, <1>2, <1>3, ForeignInit, TypedAlways, PTL DEF Spec

-----------------------------------------------------------------------------
(* No line that was kept is lost afterwards.                                *)

\* The root of an incident is not one of its secondary devices.
RootsApart == \A i \in DOMAIN rows : rows[i].root \notin rows[i].secondary

\* Incident i has line k and names its device.
HasLine(i, k) ==
  /\ k \in Since(i)
  /\ input[k].line.host \in {rows[i].root} \cup rows[i].secondary

LinesHeld == \A k \in Kept : Replaced(k) \/ \E i \in DOMAIN rows : HasLine(i, k)

\* An incident counts its lines, and has all of them in its logs, or as many as it may.
Counts(i) ==
  /\ rows[i].count = Cardinality(Since(i))
  /\ \/ rows[i].count <= LogsCap /\ rows[i].logs = Since(i)
     \/ rows[i].count > LogsCap /\ Cardinality(rows[i].logs) = LogsCap

LinesAdd ==
  \A i \in DOMAIN rows :
    rows[i].logs \subseteq Since(i) /\ (rows[i].created > 0 => Counts(i))

LEMMA AccountsInit == Init => RootsApart /\ LinesHeld /\ LinesAdd
<1> SUFFICES ASSUME Init PROVE RootsApart /\ LinesHeld /\ LinesAdd
  OBVIOUS
<1>1. \A i \in DOMAIN rows : rows[i].logs = {} /\ rows[i].created \in -Backlog..0
  BY IngestAssumption DEF Init
<1>2. RootsApart
  BY IngestAssumption DEF Init, RootsApart
<1>3. Kept = {}
  BY DEF Init, Kept
<1>4. \A i \in DOMAIN rows : ~(rows[i].created > 0)
  BY <1>1, IngestAssumption
<1> QED
  BY <1>1, <1>2, <1>3, <1>4 DEF LinesHeld, LinesAdd

LEMMA RootsStep ==
  ASSUME Typed, RootsApart, [Next]_vars
  PROVE  RootsApart'
<1>1. CASE AllStay
  BY <1>1 DEF AllStay, Stays, RootsApart
<1>2. ASSUME NEW line, NEW found, Stores(line, found) PROVE RootsApart'
  <2> PICK n : n = counter + 1
    OBVIOUS
  <2>1. /\ DOMAIN rows' = DOMAIN rows \cup {n}
        /\ \A j \in DOMAIN rows \ {n} : rows'[j] = rows[j]
        /\ rows'[n].root = found.root /\ rows'[n].secondary = found.secondary
    BY <1>2, StoresFacts
  <2>2. found.root \notin found.secondary
    BY <1>2, FoundFacts DEF Stores, Keeps, Reads
  <2> QED
    BY <2>1, <2>2 DEF RootsApart
<1>3. ASSUME NEW line, NEW found, NEW n, Merges(line, found, n) PROVE RootsApart'
  <2>1. /\ DOMAIN rows' = DOMAIN rows
        /\ \A j \in DOMAIN rows \ {n} : rows'[j] = rows[j]
        /\ rows'[n].root \notin rows'[n].secondary
    BY <1>3, MergesFacts
  <2> QED
    BY <2>1 DEF RootsApart
<1> QED
  BY <1>1, <1>2, <1>3, StepCases DEF NoLine, NotKept

\* What an incident has is as before, or one line more.
LEMMA LinesAddStep ==
  ASSUME Typed, Placed, LinesAdd, [Next]_vars
  PROVE  LinesAdd'
<1>1. Len(input) \in Nat /\ counter \in Nat
  BY DEF Typed
<1>2. CASE NothingKept
  <2>1. ASSUME NEW i \in DOMAIN rows'
        PROVE  (rows[i].logs \subseteq Since(i) /\ (rows[i].created > 0 => Counts(i)))'
    <3>1. /\ i \in DOMAIN rows /\ rows'[i].logs = rows[i].logs
          /\ rows'[i].count = rows[i].count /\ Since(i)' = Since(i)
          /\ rows'[i].created = rows[i].created
      BY <1>2, <2>1 DEF NothingKept, AllStay, Stays
    <3> QED
      BY <3>1 DEF LinesAdd, Counts
  <2> QED
    BY <2>1 DEF LinesAdd
<1>3. ASSUME NEW i \in DOMAIN rows, rows'[i] = rows[i], Since(i)' = Since(i)
      PROVE  (rows[i].logs \subseteq Since(i) /\ (rows[i].created > 0 => Counts(i)))'
  BY <1>3 DEF LinesAdd, Counts
<1>4. ASSUME NEW line, NEW found, Stores(line, found) PROVE LinesAdd'
  <2> PICK new, n : new = counter + 1 /\ n = Number
    OBVIOUS
  <2>1. new \in Int /\ Keeps(line, found, new)
    BY <1>1, <1>4 DEF Stores
  <2>2. /\ DOMAIN rows' = DOMAIN rows \cup {new}
        /\ \A j \in DOMAIN rows \ {new} : rows'[j] = rows[j]
        /\ rows'[new].logs = {n} /\ rows'[new].count = 1
    BY <1>4, StoresFacts
  <2>4. /\ Since(new)' = {n}
        /\ \A i \in DOMAIN rows \ {new} : Since(i)' = Since(i)
    BY <1>4, StoredSince
  <2>5. Cardinality({n}) = 1
    BY FS_Singleton
  <2>6. 1 <= LogsCap
    BY IngestAssumption
  <2>7. (rows[new].logs \subseteq Since(new) /\ Counts(new))'
    BY <2>2, <2>4, <2>5, <2>6 DEF Counts
  <2>8. ASSUME NEW i \in DOMAIN rows'
        PROVE  (rows[i].logs \subseteq Since(i) /\ (rows[i].created > 0 => Counts(i)))'
    <3>1. CASE i = new
      BY <2>7, <3>1
    <3>2. CASE i # new
      BY <1>3, <2>2, <2>4, <2>8, <3>2
    <3> QED
      BY <3>1, <3>2
  <2> QED
    BY <2>8 DEF LinesAdd
<1>5. ASSUME NEW line, NEW found, NEW t, Merges(line, found, t) PROVE LinesAdd'
  <2> PICK n : n = Number
    OBVIOUS
  <2>1. /\ t \in OpenActive /\ DOMAIN rows' = DOMAIN rows
        /\ \A j \in DOMAIN rows \ {t} : rows'[j] = rows[j]
        /\ rows[t].count < LogsCap => rows'[t].logs = rows[t].logs \cup {n}
        /\ ~(rows[t].count < LogsCap) => rows'[t].logs = rows[t].logs
        /\ rows'[t].count = rows[t].count + 1 /\ rows'[t].created = rows[t].created
    BY <1>5, MergesFacts
  <2>2. t \in DOMAIN rows
    BY <2>1 DEF OpenActive
  <2>3. /\ Since(t)' = Since(t) \cup {n}
        /\ \A i \in DOMAIN rows \ {t} : Since(i)' = Since(i)
        /\ Since(t) \subseteq 1..Len(input) /\ n \notin 1..Len(input)
    BY <1>5, MergedSince
  <2>4. IsFiniteSet(Since(t)) /\ n \notin Since(t)
    <3>1. IsFiniteSet(1..Len(input))
      BY <1>1, FS_Interval
    <3> QED
      BY <2>3, <3>1, FS_Subset
  <2>5. /\ Cardinality(Since(t) \cup {n}) = Cardinality(Since(t)) + 1
        /\ Cardinality(Since(t)) \in Nat
    BY <2>4, FS_AddElement, FS_CardinalityType
  <2>6. (rows[t].logs \subseteq Since(t))'
    BY <2>1, <2>2, <2>3 DEF LinesAdd
  <2>7. ASSUME rows'[t].created > 0 PROVE Counts(t)'
    <3>1. PICK old, new : old = rows[t] /\ new = rows'[t]
      OBVIOUS
    <3>2. /\ old.count = Cardinality(Since(t))
          /\ \/ old.count <= LogsCap /\ old.logs = Since(t)
             \/ old.count > LogsCap /\ Cardinality(old.logs) = LogsCap
      BY <2>1, <2>2, <2>7, <3>1 DEF LinesAdd, Counts
    <3>3. LogsCap \in Nat /\ old.count \in Nat
      BY <2>5, <3>2, IngestAssumption
    <3>4. /\ new.count = Cardinality(Since(t) \cup {n}) /\ new.count = old.count + 1
          /\ old.count < LogsCap => new.logs = old.logs \cup {n}
          /\ ~(old.count < LogsCap) => new.logs = old.logs
      BY <2>1, <2>5, <3>1, <3>2
    <3>5. CASE old.count < LogsCap
      <4>1. new.count <= LogsCap /\ new.logs = Since(t) \cup {n}
        BY <3>2, <3>3, <3>4, <3>5
      <4> QED
        BY <2>3, <3>1, <3>4, <4>1 DEF Counts
    <3>6. CASE old.count >= LogsCap
      <4>1. new.count > LogsCap /\ Cardinality(new.logs) = LogsCap
        BY <3>2, <3>3, <3>4, <3>6
      <4> QED
        BY <2>3, <3>1, <3>4, <4>1 DEF Counts
    <3> QED
      BY <3>3, <3>5, <3>6
  <2>8. ASSUME NEW i \in DOMAIN rows'
        PROVE  (rows[i].logs \subseteq Since(i) /\ (rows[i].created > 0 => Counts(i)))'
    <3>1. CASE i = t
      BY <2>6, <2>7, <3>1
    <3>2. CASE i # t
      BY <1>3, <2>1, <2>3, <2>8, <3>2
    <3> QED
      BY <3>1, <3>2
  <2> QED
    BY <2>8 DEF LinesAdd
<1> QED
  BY <1>2, <1>4, <1>5, KeptCases

LEMMA HeldStep ==
  ASSUME Typed, Placed, LinesHeld, [Next]_vars
  PROVE  LinesHeld'
\* What is around an old line stays, unless the row is replaced, which it may have been before.
<1>1. ASSUME \A k \in 1..Len(input) : input'[k] = input[k], Kept \subseteq 1..Len(input),
             DOMAIN rows \subseteq DOMAIN rows',
             NEW k \in Kept,
             LET i == input[k].into
             IN  \/ /\ Since(i)' = Since(i) /\ rows'[i].created = rows[i].created
                    /\ {rows[i].root} \cup rows[i].secondary
                         \subseteq {rows'[i].root} \cup rows'[i].secondary
                 \/ /\ Since(i) \subseteq Since(i)' /\ rows'[i].created = rows[i].created
                    /\ {rows[i].root} \cup rows[i].secondary
                         \subseteq {rows'[i].root} \cup rows'[i].secondary
                 \/ rows'[i].created > k /\ i \in UsedBefore
      PROVE  Replaced(k)' \/ \E i \in DOMAIN rows' : HasLine(i, k)'
  <2>1. PICK i : i = input[k].into /\ i \in DOMAIN rows /\ i \in DOMAIN rows' /\ input'[k] = input[k]
    BY <1>1 DEF Placed
  <2>2. CASE rows'[i].created > k /\ i \in UsedBefore
    BY <2>1, <2>2 DEF Replaced
  <2>3. CASE /\ Since(i) \subseteq Since(i)' /\ rows'[i].created = rows[i].created
             /\ {rows[i].root} \cup rows[i].secondary
                  \subseteq {rows'[i].root} \cup rows'[i].secondary
    <3>1. CASE Replaced(k)
      BY <2>1, <2>3, <3>1 DEF Replaced
    <3>2. CASE ~Replaced(k)
      <4>1. PICK j \in DOMAIN rows : HasLine(j, k)
        BY <3>2 DEF LinesHeld
      <4>2. j = i
        BY <2>1, <4>1 DEF HasLine, Since, Into
      <4>3. HasLine(i, k)'
        BY <2>1, <2>3, <4>1, <4>2 DEF HasLine
      <4> QED
        BY <2>1, <4>3
    <3> QED
      BY <3>1, <3>2
  <2> QED
    BY <1>1, <2>1, <2>2, <2>3
<1>2. CASE NothingKept
  <2>1. /\ DOMAIN rows' = DOMAIN rows
        /\ \A i \in DOMAIN rows :
             /\ Since(i)' = Since(i) /\ rows'[i].created = rows[i].created
             /\ {rows[i].root} \cup rows[i].secondary
                  \subseteq {rows'[i].root} \cup rows'[i].secondary
    BY <1>2 DEF NothingKept, AllStay, Stays
  <2>2. ASSUME NEW k \in Kept
        PROVE  Replaced(k)' \/ \E i \in DOMAIN rows' : HasLine(i, k)'
    <3>1. input[k].into \in DOMAIN rows
      BY DEF Placed
    <3> QED
      BY <1>1, <1>2, <2>1, <3>1 DEF NothingKept
  <2> QED
    BY <1>2, <2>2 DEF NothingKept, LinesHeld
<1>3. ASSUME NEW line, NEW found, NEW id \in Int, Keeps(line, found, id)
      PROVE  line.host \in {found.root} \cup found.secondary
  BY <1>3, FoundFacts DEF Keeps, Reads
<1>4. ASSUME NEW line, NEW found, Stores(line, found) PROVE LinesHeld'
  <2> PICK new, n : new = counter + 1 /\ n = Number
    OBVIOUS
  <2>1. new \in Int /\ Keeps(line, found, new) /\ Len(input) \in Nat
    BY <1>4 DEF Stores, Typed
  <2>2. /\ DOMAIN rows' = DOMAIN rows \cup {new}
        /\ new \in DOMAIN rows => new \in UsedBefore
        /\ \A j \in DOMAIN rows \ {new} : rows'[j] = rows[j]
        /\ rows'[new].root = found.root /\ rows'[new].secondary = found.secondary
        /\ rows'[new].created = n
    BY <1>4, StoresFacts
  <2>3. /\ Kept' = Kept \cup {n} /\ Kept \subseteq 1..Len(input)
        /\ \A k \in 1..Len(input) : input'[k] = input[k]
        /\ input'[n].line = line
    BY <2>1, KeepsFacts
  <2>4. /\ Since(new)' = {n}
        /\ \A i \in DOMAIN rows \ {new} : Since(i)' = Since(i)
    BY <1>4, StoredSince
  <2>5. HasLine(new, n)'
    BY <1>3, <2>1, <2>2, <2>3, <2>4 DEF HasLine
  <2>6. ASSUME NEW k \in Kept
        PROVE  Replaced(k)' \/ \E i \in DOMAIN rows' : HasLine(i, k)'
    <3>1. input[k].into \in DOMAIN rows
      BY DEF Placed
    <3>2. CASE input[k].into = new
      <4>1. n > k
        BY <2>1, <2>3 DEF Number
      <4> QED
        BY <1>1, <2>2, <2>3, <3>1, <3>2, <4>1
    <3>3. CASE input[k].into # new
      BY <1>1, <2>2, <2>3, <2>4, <3>1, <3>3
    <3> QED
      BY <3>2, <3>3
  <2> QED
    BY <2>2, <2>3, <2>5, <2>6 DEF LinesHeld
<1>5. ASSUME NEW line, NEW found, NEW t, Merges(line, found, t) PROVE LinesHeld'
  <2> PICK n : n = Number
    OBVIOUS
  <2>1. /\ t \in OpenActive /\ DOMAIN rows' = DOMAIN rows
        /\ \A j \in DOMAIN rows \ {t} : rows'[j] = rows[j]
        /\ rows'[t].created = rows[t].created
        /\ {rows'[t].root} \cup rows'[t].secondary =
             {rows[t].root, found.root} \cup rows[t].secondary \cup found.secondary
    BY <1>5, MergesFacts
  <2>2. t \in DOMAIN rows /\ t \in Int /\ Keeps(line, found, t)
    BY <1>5, <2>1, IngestAssumption DEF Merges, Typed, OpenActive, UsedBefore
  <2>3. /\ Kept' = Kept \cup {n} /\ Kept \subseteq 1..Len(input)
        /\ \A k \in 1..Len(input) : input'[k] = input[k]
        /\ input'[n].line = line
    BY <2>2, KeepsFacts
  <2>4. /\ Since(t)' = Since(t) \cup {n}
        /\ \A i \in DOMAIN rows \ {t} : Since(i)' = Since(i)
    BY <1>5, MergedSince
  <2>5. HasLine(t, n)'
    BY <1>3, <2>1, <2>2, <2>3, <2>4 DEF HasLine
  <2>6. ASSUME NEW k \in Kept
        PROVE  Replaced(k)' \/ \E i \in DOMAIN rows' : HasLine(i, k)'
    <3>1. input[k].into \in DOMAIN rows
      BY DEF Placed
    <3>2. CASE input[k].into = t
      <4>1. /\ Since(t) \subseteq Since(t)'
            /\ {rows[t].root} \cup rows[t].secondary
                 \subseteq {rows'[t].root} \cup rows'[t].secondary
        BY <2>1, <2>4
      <4> QED
        BY <1>1, <2>1, <2>3, <3>2, <4>1
    <3>3. CASE input[k].into # t
      BY <1>1, <2>1, <2>3, <2>4, <3>1, <3>3
    <3> QED
      BY <3>2, <3>3
  <2> QED
    BY <2>1, <2>2, <2>3, <2>5, <2>6 DEF LinesHeld
<1> QED
  BY <1>2, <1>4, <1>5, KeptCases

\* Each line that was kept is counted in one incident, which names its device, and
\* an incident of this run has all of its lines in its logs until they are as many as it
\* may have, from then on its first ones: neither a merge nor a promoted root drops what
\* was merged before (incident_merger.py:61-89, incident_store.py:155-160). The one way to
\* lose a line afterwards is that it went into an incident of an earlier run whose number
\* this run gives again (root_cause_inferencer.py:381-384), whatever the table held.
THEOREM NoLineIsDropped == Spec => []LinesAccounted
<1>1. LinesHeld /\ LinesAdd => LinesAccounted
  BY DEF LinesHeld, LinesAdd, Counts, HasLine, LinesAccounted
<1>2. Typed /\ Placed /\ LinesHeld /\ [Next]_vars => LinesHeld'
  BY HeldStep
<1>3. Typed /\ Placed /\ LinesAdd /\ [Next]_vars => LinesAdd'
  BY LinesAddStep
<1> QED
  BY <1>1, <1>2, <1>3, AccountsInit, PlacedAlways, PTL DEF Spec

\* Every variable has its type, and the root of an incident is never one of its
\* secondary devices, also after a merge has promoted another (file_ingest.py:98-196).
THEOREM IngestTypes == Spec => []TypeOK
<1>1. Typed /\ RootsApart => TypeOK
  BY IngestAssumption DEF Typed, RowTyped, RootsApart, TypeOK
<1>2. Typed /\ RootsApart /\ [Next]_vars => RootsApart'
  BY RootsStep
<1> QED
  BY <1>1, <1>2, AccountsInit, TypedAlways, PTL DEF Spec
=============================================================================
