----------------------------- MODULE FileIngest -----------------------------
(***************************************************************************)
(* The command that turns a file or a stream of lines into incidents       *)
(* (ingestion/file_ingest.py, correlation/incident_merger.py).  Each line  *)
(* is judged alone; the incident found is merged into an open one of the   *)
(* table or stored as a new one.  The table may hold incidents of earlier  *)
(* runs: with a device that this topology does not have, with an object of *)
(* the backend as root cause, and of the same day, whose numbers this run  *)
(* gives again.  Without a database every incident is printed and nothing  *)
(* is kept.                                                                *)
(***************************************************************************)
EXTENDS RootCauseInferencer, MaintenancePlans

CONSTANTS
    Lines,          \* the lines of the input
    Earlier,        \* what earlier runs may have left in the table: rows by number;
                    \* numbers above 0 are of the same day
    Backlog,        \* bound on how many incidents there were before
    Plans,          \* the work plans, in the order they were loaded
    MergeWindow,    \* merge_window_sec
    LogsCap,        \* the lines that the table keeps of an incident
    MaxTime,        \* bound on the clock
    MaxLines        \* bound on the lines read

\* The columns of an incident: object tells whether root_cause_object is set, and created
\* orders incidents by created_at (the line that opened one in this run, 0 or less before).
Fields == {"root", "object", "secondary", "logs", "count", "event", "confidence", "status",
           "condition", "plan", "created", "faultAt", "recurrence"}

\* An incident of an earlier run has none of this run's lines; the times of creation differ.
ASSUME IngestAssumption ==
    /\ Lines \subseteq [host : Nat, at : {0}, minor : BOOLEAN, routing : BOOLEAN, lost : Nat,
                        recovery : BOOLEAN, ignored : BOOLEAN, event : STRING]
    /\ Backlog \in Nat
    /\ \A table \in Earlier : DOMAIN table \subseteq Int /\ \A i \in DOMAIN table :
         /\ DOMAIN table[i] = Fields
         /\ table[i].object \in BOOLEAN
         /\ table[i].status \in {"OPEN", "CLOSED"}
         /\ table[i].condition \in {"ACTIVE", "RECOVERED"}
         /\ table[i].root \notin table[i].secondary
         /\ table[i].logs = {}
         /\ table[i].faultAt \in Int /\ table[i].faultAt <= 0
         /\ table[i].created \in -Backlog..0
         /\ \A j \in DOMAIN table : table[j].created = table[i].created => j = i
    /\ MergeWindow \in Nat
    /\ LogsCap \in Nat \ {0}
    /\ MaxTime \in Nat
    /\ MaxLines \in Nat

VARIABLES
    clock,
    stored,     \* is there a database
    counter,    \* the inferencer's counter of incident numbers
    rows,       \* the table: rows by id
    input,      \* the lines read, with their times and what became of them
    running     \* FALSE after an exception that nothing caught

vars == <<clock, stored, counter, rows, input, running>>

Init ==
    /\ clock = 0
    /\ stored \in BOOLEAN
    /\ counter = 0
    /\ rows \in {[i \in {} |-> 0]} \cup Earlier
    /\ input = <<>>
    /\ running = TRUE

\* Time passes between two lines of a stream.
Tick ==
    /\ clock < MaxTime
    /\ clock' = clock + 1
    /\ UNCHANGED <<stored, counter, rows, input, running>>

Nowhere == -1

\* A line is read and is over, with this outcome.
Done(line, outcome) ==
    input' = Append(input, [line |-> line, at |-> clock, outcome |-> outcome, into |-> Nowhere])

\* A line is read and is kept in this incident.
KeptIn(line, id) ==
    input' = Append(input, [line |-> line, at |-> clock, outcome |-> "kept", into |-> id])

Number == Len(input) + 1

\* Mutant: a closed incident takes more faults.
OpenOrClosedActive == {i \in DOMAIN rows : rows[i].condition = "ACTIVE"}

\* list_open_active; what is asked for is always the newest, by created_at.
OpenActive == {i \in DOMAIN rows : rows[i].status = "OPEN" /\ rows[i].condition = "ACTIVE"}

WithRoot(n)  == {i \in DOMAIN rows : rows[i].status = "OPEN" /\ rows[i].root = n}
Newer(i, j)  == rows[i].created > rows[j].created
Newest(ids)  == CHOOSE i \in ids : \A j \in ids : ~Newer(j, i)

\* Mutant: the merge window is not asked.
EligibleAtAnyTime(at) == OpenActive

\* The open incidents whose last fault was within the merge window.
Eligible(at) ==
    {i \in OpenActive : /\ at - rows[i].faultAt <= MergeWindow
                        /\ rows[i].faultAt - at <= MergeWindow}

\* Mutant: only roots above or below are looked for.
MergeTargetElsewhere(root, at) ==
    LET above == {i \in Eligible(at) : rows[i].root \in Ancestors(root)}
        below == {i \in Eligible(at) : rows[i].root \in Descendants(root)}
    IN  IF above # {} THEN [kind |-> "merge", id |-> Newest(above)]
        ELSE IF below # {} THEN [kind |-> "merge", id |-> Newest(below)]
        ELSE [kind |-> "new"]

\* find_merge_target: an incident of the same root (_root_key: an object, if the row has
\* one, is not a device), else one whose root is above, else one whose root is below; always
\* the newest of a kind.  To ask for what is below a root that the graph does not have is
\* an error.
MergeTarget(root, at) ==
    LET eligible == Eligible(at)
        same     == {i \in eligible : ~rows[i].object /\ rows[i].root = root}
        foreign  == {i \in eligible : rows[i].root \notin Nodes}
        above    == {i \in eligible \ foreign : root \in Descendants(rows[i].root)}
        below    == {i \in eligible \ foreign : root \in Ancestors(rows[i].root)}
    IN  IF same # {} THEN [kind |-> "merge", id |-> Newest(same)]
        ELSE IF foreign # {} /\ (above = {} \/ Newer(Newest(foreign), Newest(above)))
        THEN [kind |-> "error"]
        ELSE IF above # {} THEN [kind |-> "merge", id |-> Newest(above)]
        ELSE IF below # {} THEN [kind |-> "merge", id |-> Newest(below)]
        ELSE [kind |-> "new"]

\* update stores the first lines of an incident only.
LogsOf(target, found) == IF target.count < LogsCap THEN target.logs \cup found.logs ELSE target.logs

\* Mutant: the root that was replaced is not kept as a secondary device.
MergeForgetsRoot(target, found) ==
    LET root == IF found.root \in Ancestors(target.root) THEN found.root ELSE target.root
    IN  [target EXCEPT !.root = root,
                       !.secondary = (@ \cup found.secondary \cup {found.root}) \ {root},
                       !.logs = LogsOf(target, found),
                       !.count = @ + found.count]

\* Mutant: the promoted root stays among the secondary devices.
MergeKeepsRoot(target, found) ==
    LET root == IF found.root \in Ancestors(target.root) THEN found.root ELSE target.root
    IN  [target EXCEPT !.root = root,
                       !.secondary = @ \cup {target.root, found.root} \cup found.secondary,
                       !.logs = LogsOf(target, found),
                       !.count = @ + found.count]

\* merge: a root above the target's takes its place, unless the target already
\* has it among its secondary devices.
Merge(target, found) ==
    LET promoted == found.root \in Ancestors(target.root) /\ found.root \notin target.secondary
        root     == IF promoted THEN found.root ELSE target.root
    IN  [target EXCEPT
          !.root       = root,
          !.secondary  = (@ \cup {target.root, found.root} \cup found.secondary) \ {root},
          !.event      = IF promoted THEN found.event ELSE @,
          !.logs       = LogsOf(target, found),
          !.count      = @ + found.count,
          !.recurrence = found.recurrence,
          !.plan       = IF @ # NoPlan.id THEN @ ELSE found.plan]

\* The incident of a fault line, as it is before it is merged or saved: closed
\* at once when a work plan covers it.
Incident(found, msg, plan) ==
    [root |-> found.root, object |-> FALSE, secondary |-> found.secondary, logs |-> {Number}, count |-> 1,
     event |-> IF found.event = 0 THEN "silent" ELSE msg.event,
     confidence |-> Confidence(<<msg>>, found, FALSE),
     status |-> IF plan = NoPlan THEN "OPEN" ELSE "CLOSED",
     condition |-> "ACTIVE", plan |-> plan.id, created |-> Number, faultAt |-> clock,
     recurrence |-> Cardinality(WithRoot(found.root))]

Put(i, row) == rows' = [j \in DOMAIN rows \cup {i} |-> IF j = i THEN row ELSE rows[j]]

Message(line) == [line EXCEPT !.at = clock]

\* The filter drops lines by their text and by the severity set for the device.
Ignore(line) ==
    /\ line.ignored
    /\ Done(line, "ignored")
    /\ UNCHANGED <<counter, rows, running>>

\* A recovery line recovers the open incidents of the device that sent it.
Recover(line) ==
    /\ ~line.ignored /\ line.recovery
    /\ rows' = [i \in DOMAIN rows |->
                  IF stored /\ line.host \in Nodes /\ i \in OpenActive /\ rows[i].root = line.host
                  THEN [rows[i] EXCEPT !.condition = "RECOVERED"] ELSE rows[i]]
    /\ Done(line, "recovery")
    /\ UNCHANGED <<counter, running>>

\* Lines that take no part in the inference.
Unheeded(line) ==
    /\ ~line.ignored /\ ~line.recovery
    /\ line.minor \/ line.host \notin Nodes
    /\ Done(line, "unheeded")
    /\ UNCHANGED <<counter, rows, running>>

\* What becomes of a fault line in which this incident is found: the incident
\* gets a number; then the work plans, the table.  An error of the graph loses the
\* line when the merger asks, and ends the command when the work plans ask.
Judge(line, found) ==
    LET event    == IF found.event = 0 THEN "silent" ELSE line.event
        plan     == FindActivePlan(Plans, found.root, event, clock)
        incident == Incident(found, line, plan)
        target   == MergeTarget(found.root, clock)
    IN  /\ counter' = counter + 1
        /\ \/ /\ plan = PlanError
              /\ running' = FALSE
              /\ Done(line, "failed")
              /\ UNCHANGED rows
           \/ /\ plan # PlanError /\ ~stored
              /\ Done(line, "printed")
              /\ UNCHANGED <<rows, running>>
           \/ /\ plan # PlanError /\ stored /\ target.kind = "error"
              /\ Done(line, "lost")
              /\ UNCHANGED <<rows, running>>
           \/ /\ plan # PlanError /\ stored /\ target.kind = "new"
              /\ Put(counter', incident)
              /\ KeptIn(line, counter')
              /\ UNCHANGED running
           \/ /\ plan # PlanError /\ stored /\ target.kind = "merge"
              /\ Put(target.id, Merge(rows[target.id], incident))
              /\ KeptIn(line, target.id)
              /\ UNCHANGED running

\* A fault line of a device is a window of its own: the first incident that the
\* inference finds in it is the only one.
Fault(line) ==
    /\ ~line.ignored /\ ~line.recovery /\ ~line.minor /\ line.host \in Nodes
    /\ \E s \in SilentOrders(<<Message(line)>>), r \in RootOrders(<<Message(line)>>) :
         Judge(line, Infer(<<Message(line)>>, {}, s, r)[1])

Read(line) ==
    /\ running
    /\ Len(input) < MaxLines
    /\ Ignore(line) \/ Recover(line) \/ Unheeded(line) \/ Fault(line)
    /\ UNCHANGED <<clock, stored>>

Next == Tick \/ \E line \in Lines : Read(line)

Spec == Init /\ [][Next]_vars

-----------------------------------------------------------------------------
(* Properties *)

Kept    == {k \in DOMAIN input : input[k].outcome = "kept"}
Into(i) == {k \in Kept : input[k].into = i}

\* The lines that were kept in the row since its incident was created.
Since(i) == {k \in Into(i) : k >= rows[i].created}

\* The numbers that an earlier run may have used.
UsedBefore == UNION {DOMAIN table : table \in Earlier}

\* A line that was kept in an incident of an earlier run, before an incident of this run
\* got the same number: session.merge replaced the row.
Replaced(k) == /\ input[k].into \in DOMAIN rows \cap UsedBefore
               /\ rows[input[k].into].created > k

\* Every variable has its type; the table has the incidents of this run under
\* the numbers of its counter, and those of earlier runs under theirs.
TypeOK ==
    /\ clock \in 0..MaxTime
    /\ counter \in 0..MaxLines
    /\ DOMAIN rows \subseteq (1..counter) \cup UsedBefore
    /\ \A i \in DOMAIN rows :
         /\ rows[i].status \in {"OPEN", "CLOSED"}
         /\ rows[i].condition \in {"ACTIVE", "RECOVERED"}
         /\ rows[i].root \notin rows[i].secondary
    /\ running \in BOOLEAN

\* Each line that was kept is counted in one incident, which names its device, unless the
\* incident was an earlier run's and its row has been replaced; the logs of an incident
\* are its lines, or its first ones: neither a merge nor a promoted root drops what was
\* merged before (incident_merger.py:61-89).
LinesAccounted ==
    /\ \A k \in Kept :
         \/ Replaced(k)
         \/ \E i \in DOMAIN rows : /\ k \in Since(i)
                                  /\ input[k].line.host \in {rows[i].root} \cup rows[i].secondary
    /\ \A i \in DOMAIN rows : rows[i].logs \subseteq Since(i)
    /\ \A i \in DOMAIN rows : rows[i].created > 0 =>
         /\ rows[i].count = Cardinality(Since(i))
         /\ \/ rows[i].logs = Since(i)
            \/ rows[i].count > LogsCap /\ Cardinality(rows[i].logs) = LogsCap

\* An incident of an earlier run whose root the topology does not know: open still, within
\* the merge window of the line, or replaced since by one with its number.
ForeignIncident(i, k) ==
    \/ /\ rows[i].root \notin Nodes /\ rows[i].status = "OPEN"
       /\ input[k].at - rows[i].faultAt <= MergeWindow
    \/ /\ rows[i].created > k
       /\ \E table \in Earlier : i \in DOMAIN table /\ table[i].root \notin Nodes

\* Only a root that the topology does not know, left in the table as an open
\* incident, makes a line get lost (file_ingest.py:188-189).
LostOnlyToForeignRoot ==
    \A k \in DOMAIN input : input[k].outcome = "lost" =>
        \E i \in DOMAIN rows : ForeignIncident(i, k)

\* Of two open active incidents that began within the merge window of each other, the
\* later one in this run, the root of the earlier is neither the root of the later nor
\* above it, unless the earlier has an object as root cause, which no device is: the later
\* would have been merged, also when a root was promoted into one of them
\* (incident_merger.py:27-59).
OneIncidentPerWindow ==
    \A i, j \in OpenActive :
        /\ rows[j].created > 0 /\ Newer(j, i) /\ ~rows[i].object
        /\ rows[j].faultAt - rows[i].faultAt <= MergeWindow
        => rows[i].root \notin {rows[j].root} \cup Ancestors(rows[j].root)

\* An incident closed for maintenance holds nothing but lines that a work plan
\* covered: no other fault disappears in it (file_ingest.py:138-146).
ClosedOnlyByPlan ==
    \A i \in DOMAIN rows : rows[i].status = "CLOSED" =>
        \A k \in Since(i) : \E p \in DOMAIN Plans :
            /\ Plans[p].id = rows[i].plan
            /\ ActiveAt(Plans[p], input[k].at)
=============================================================================
