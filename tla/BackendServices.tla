--------------------------- MODULE BackendServices ---------------------------
(***************************************************************************)
(* The backend around the incidents (api/main.py): received lines wait in  *)
(* a queue for the consumer, ingest requests bring their own; each line is *)
(* matched with the rules, counted if no rule knows it, logged, judged and *)
(* told to the clients.  The rules and the work plans may change           *)
(* meanwhile, investigations run, calls to the database and to files fail, *)
(* the process may end and start again.                                    *)
(* What becomes of the incidents themselves is in IncidentBackend.         *)
(***************************************************************************)
EXTENDS KnowledgeBase, LiveServices

CONSTANTS
    Lines,          \* records of signature, severity and recovery
    Unanswerable,   \* edits of the work plans that name a device the graph does not have
    Operations,     \* what is asked of rules: "created", "updated", "approved",
                    \* "disabled", "rolled_back"
    Inputs,         \* bound on what happens from outside
    Changes         \* bound on the requests among it that change a rule

Consumer == "consumer"
Request  == "request"
Pipes    == {Consumer, Request}

Signatures == {l.sig : l \in Lines}
Severities == {l.severity : l \in Lines}

ASSUME ServicesAssumption ==
    /\ Pipes \subseteq Speakers
    /\ Severities \subseteq 0..7
    /\ \A body \in Bodies : body.covers \subseteq Signatures /\ body.weight \in Nat
    /\ Operations \subseteq {"created", "updated", "approved", "disabled", "rolled_back"}
    /\ Inputs \in Nat
    /\ Changes \in 0..Inputs

VARIABLES
    queue,      \* received lines
    alive,      \* FALSE when an exception has ended the consumer
    pipes,      \* what each pipeline is at
    unknown,    \* the unknown events: how often, and how often in each severity
    planFile,   \* the file of the work plans: which edit it has
    plans,      \* their copy in memory, and the edit whose time it is taken for
    up,         \* the process is "down", "starting" or "up"
    approved,   \* rules ever approved, by a request or by hand in the file
    left        \* what may still happen from outside

backendVars == <<queue, alive, pipes, unknown, planFile, plans, up, approved>>
vars == <<knowledgeVars, liveVars, backendVars, left>>

NoLine   == CHOOSE l \in Lines : TRUE
Unseen   == [count |-> 0, by |-> [v \in Severities |-> 0]]
IdlePipe == [pc |-> "idle", line |-> NoLine, read |-> <<>>, known |-> FALSE,
             rule |-> CHOOSE r \in RuleIds : TRUE, body |-> NoBody, seen |-> Unseen, time |-> 0]

Init ==
    /\ InitKnowledge
    /\ InitLive
    /\ queue = <<>>
    /\ alive = TRUE
    /\ pipes = [p \in Pipes |-> IdlePipe]
    /\ unknown = [s \in Signatures |-> Unseen]
    /\ planFile = 0
    /\ plans = [edit |-> 0, time |-> 0]
    /\ up = "up"
    /\ approved = ApprovedIn(FirstMain \o FirstVendor)
    /\ left = [all |-> Inputs, changes |-> Changes]

\* A pipeline that reads files lets nothing else run in the event loop.
Holding  == {"vendor", "loaded", "matching", "plans"}
LoopFree == up = "up" /\ \A p \in Pipes : pipes[p].pc \notin Holding

Go(p, changes) == pipes' = [pipes EXCEPT ![p] = changes]

\* Mutant: the consumer returns where it should go on.
Stopped(p) == [IdlePipe EXCEPT !.pc = "stopped"]

\* A pipeline that is done with its line.
Over(p) == IdlePipe

\* An exception ends the request, or the consumer for good.
Raise(p) ==
    /\ Go(p, IdlePipe)
    /\ alive' = (alive /\ p # Consumer)

-----------------------------------------------------------------------------
(* The way of a line.                                                       *)

\* A line begins: classify looks whether the rules have changed.
Begin(p, line) ==
    LET at == [IdlePipe EXCEPT !.line = line]
    IN  IF ~Stale THEN Go(p, [at EXCEPT !.pc = "matching"]) /\ UNCHANGED alive
        ELSE \E rules \in Readings :
               IF rules = Garbled THEN Raise(p)
               ELSE Go(p, [at EXCEPT !.pc = "vendor", !.read = rules]) /\ UNCHANGED alive

\* The consumer takes a line from the queue.
Take ==
    /\ LoopFree /\ alive /\ pipes[Consumer].pc = "idle" /\ queue # <<>>
    /\ queue' = Tail(queue)
    /\ Begin(Consumer, Head(queue))
    /\ UNCHANGED <<knowledgeVars, liveVars, unknown, planFile, plans, up, approved>>

\* The rest of reload, in steps that requests come between.
ReadVendor(p) ==
    /\ pipes[p].pc = "vendor"
    /\ Go(p, [pipes[p] EXCEPT !.pc = "loaded", !.read = @ \o files.vendor])
    /\ UNCHANGED <<knowledgeVars, liveVars, queue, alive, unknown, planFile, plans, up, approved>>

ReloadRules(p) ==
    /\ pipes[p].pc = "loaded"
    /\ Publish(pipes[p].read)
    /\ Go(p, [pipes[p] EXCEPT !.pc = "matching", !.read = <<>>])
    /\ UNCHANGED <<files, admins, audit, liveVars, queue, alive, unknown, planFile, plans, up,
                   approved>>

\* Whether a rule applies to a line.
Applies(rule, line) == rule.status = "approved" /\ line.sig \in rule.body.covers

Candidates(line) == {k \in DOMAIN cache.rules : Applies(cache.rules[k], line)}

\* Priorities that are numbers are compared with ones that are not.
Incomparable(places) ==
    \E j, k \in places : /\ cache.rules[j].body.mistyped = "priority"
                         /\ cache.rules[k].body.mistyped # "priority"

\* Of the highest weight the first.
Chosen(places) ==
    FirstOf({k \in places : \A j \in places : cache.rules[j].body.weight <= cache.rules[k].body.weight})

\* classify, of the matcher and of the classifier: the rule that decides about the line,
\* if any applies; values of a wrong type in the rules are an exception.
Match(p) ==
    /\ pipes[p].pc = "matching"
    /\ LET line   == pipes[p].line
           places == Candidates(line)
           rule   == cache.rules[Chosen(places)]
       IN  IF places = {}
           THEN Go(p, [pipes[p] EXCEPT !.pc = "unknown"]) /\ UNCHANGED alive
           ELSE IF Incomparable(places) \/ Misread(rule.body, line)
           THEN Raise(p)
           ELSE /\ Go(p, [pipes[p] EXCEPT !.pc = "log", !.known = TRUE, !.rule = rule.id,
                                          !.body = rule.body])
                /\ UNCHANGED alive
    /\ UNCHANGED <<knowledgeVars, liveVars, queue, unknown, planFile, plans, up, approved>>

\* UnknownEventStore.record, in a thread: the row is read, ...
FindUnknown(p) ==
    /\ pipes[p].pc = "unknown"
    /\ Go(p, [pipes[p] EXCEPT !.pc = "count", !.seen = unknown[pipes[p].line.sig]])
    /\ UNCHANGED <<knowledgeVars, liveVars, queue, alive, unknown, planFile, plans, up, approved>>

\* Mutant: the total is counted by the database.
CountedThere(seen, stored, severity) ==
    [count |-> stored.count + 1, by |-> [seen.by EXCEPT ![severity] = @ + 1]]

\* The row after one more line, from the row that was read.
CountedHere(seen, stored, severity) ==
    [count |-> seen.count + 1, by |-> [seen.by EXCEPT ![severity] = @ + 1]]

\* ... and written; a row that somebody else has inserted meanwhile cannot be
\* inserted again.
CountUnknown(p) ==
    /\ pipes[p].pc = "count"
    /\ LET line   == pipes[p].line
           stored == unknown[line.sig]
       IN  IF pipes[p].seen = Unseen /\ stored # Unseen
           THEN Raise(p) /\ UNCHANGED unknown
           ELSE /\ unknown' = [unknown EXCEPT ![line.sig] =
                                 CountedHere(pipes[p].seen, stored, line.severity)]
                /\ Go(p, [pipes[p] EXCEPT !.pc = "log", !.seen = Unseen])
                /\ UNCHANGED alive
    /\ UNCHANGED <<knowledgeVars, liveVars, queue, planFile, plans, up, approved>>

\* The line is in the raw log; it ends there, or without an incident, or its
\* incident is held against the work plans, which may have changed: the time of
\* their file is taken before they are read.
Judge(p) ==
    /\ LoopFree /\ pipes[p].pc = "log"
    /\ \/ Go(p, Over(p))
       \/ /\ Infers(pipes[p].known, pipes[p].body, pipes[p].line)
          /\ Go(p, [pipes[p] EXCEPT !.pc = IF plans.time = planFile THEN "plan" ELSE "plans",
                                         !.time = planFile])
    /\ UNCHANGED <<knowledgeVars, liveVars, queue, alive, unknown, planFile, plans, up, approved>>

\* Mutant: the time of the file is taken after it was read.
LateTime(p) == planFile

\* The time that the copy of the plans gets.
PlanTime(p) == pipes[p].time

\* The plans were read at some time since, and take the place of the copy.
ReadPlans(p) ==
    /\ pipes[p].pc = "plans"
    /\ \E edit \in pipes[p].time..planFile : plans' = [edit |-> edit, time |-> PlanTime(p)]
    /\ Go(p, [pipes[p] EXCEPT !.pc = "plan"])
    /\ UNCHANGED <<knowledgeVars, liveVars, queue, alive, unknown, planFile, up, approved>>

\* A plan about an unknown device may be asked about it.
AskPlans(p) ==
    /\ pipes[p].pc = "plan"
    /\ \/ plans.edit \in Unanswerable /\ Raise(p)
       \/ Go(p, [pipes[p] EXCEPT !.pc = "store"]) /\ UNCHANGED alive
    /\ UNCHANGED <<knowledgeVars, liveVars, queue, unknown, planFile, plans, up, approved>>

\* The incident is stored, the notifier called; the clients are told.
Store(p) ==
    /\ LoopFree /\ pipes[p].pc = "store"
    /\ casts' = [casts EXCEPT ![p] = NewCast]
    /\ Go(p, [pipes[p] EXCEPT !.pc = "tell"])
    /\ UNCHANGED <<knowledgeVars, connections, client, report, starters, queue, alive, unknown,
                   planFile, plans, up, approved>>

Tell(p) ==
    /\ LoopFree /\ pipes[p].pc = "tell"
    /\ \/ Send(p) /\ UNCHANGED <<pipes, alive>>
       \/ /\ FinishCast(p)
          /\ IF CastFails(p) THEN Raise(p) ELSE Go(p, Over(p)) /\ UNCHANGED alive
          /\ UNCHANGED <<client, report, starters>>
    /\ UNCHANGED <<knowledgeVars, queue, unknown, planFile, plans, up, approved>>

PipeStep(p) ==
    \/ ReadVendor(p) \/ ReloadRules(p) \/ Match(p) \/ FindUnknown(p) \/ CountUnknown(p)
    \/ Judge(p) \/ ReadPlans(p) \/ AskPlans(p) \/ Store(p) \/ Tell(p)
    \/ p = Consumer /\ Take

-----------------------------------------------------------------------------
(* What happens from outside.                                               *)

\* A datagram, an ingest request.
Receive(line) ==
    /\ LoopFree
    /\ queue' = Append(queue, line)
    /\ UNCHANGED <<knowledgeVars, liveVars, alive, pipes, unknown, planFile, plans, up, approved>>

Ingest(line) ==
    /\ LoopFree /\ pipes[Request].pc = "idle"
    /\ Begin(Request, line)
    /\ UNCHANGED <<knowledgeVars, liveVars, queue, unknown, planFile, plans, up, approved>>

ChangeRule(a, op, r, body) ==
    /\ up = "up"
    /\ Ask(a, op, r, body)
    /\ approved' = IF op = "approved" THEN approved \cup {r} ELSE approved
    /\ UNCHANGED <<liveVars, queue, alive, pipes, unknown, planFile, plans, up>>

Edit ==
    /\ EditRules
    /\ approved' = approved \cup ApprovedIn(files'.main \o files'.vendor)
    /\ UNCHANGED <<liveVars, queue, alive, pipes, unknown, planFile, plans, up>>

EditPlans ==
    /\ planFile' = planFile + 1
    /\ UNCHANGED <<knowledgeVars, liveVars, queue, alive, pipes, unknown, plans, up, approved>>

Watch(c) ==
    /\ LoopFree /\ Connect(c)
    /\ UNCHANGED <<knowledgeVars, backendVars>>

Investigate(r) ==
    /\ LoopFree /\ StartInvestigation(r)
    /\ UNCHANGED <<knowledgeVars, backendVars>>

\* A call to the database or to a file fails, which no pipeline expects.
CallFails(p) ==
    /\ pipes[p].pc \in {"vendor", "loaded", "matching", "unknown", "count", "log", "plans", "store"}
    /\ Raise(p)
    /\ UNCHANGED <<knowledgeVars, liveVars, queue, unknown, planFile, plans, up, approved>>

Crash ==
    /\ up # "down" /\ up' = "down"
    /\ CrashKnowledge
    /\ CrashLive
    /\ queue' = <<>>
    /\ pipes' = [p \in Pipes |-> IdlePipe]
    /\ UNCHANGED <<alive, unknown, planFile, plans, approved>>

\* Requests and clients have no names: any that is free will do.
One(free) == {x \in free : x = CHOOSE y \in free : TRUE}

Outside ==
    /\ left.all > 0
    /\ \/ /\ left' = [left EXCEPT !.all = @ - 1]
          /\ \/ \E line \in Lines : Receive(line) \/ Ingest(line)
             \/ Edit \/ EditPlans
             \/ \E c \in One({d \in Clients : client[d] = "away"}) : Watch(c)
             \/ \E r \in One({q \in Starters : starters[q].pc = "idle"}) : Investigate(r)
             \/ \E p \in Pipes : CallFails(p)
             \/ Crash
       \/ /\ left.changes > 0
          /\ left' = [left EXCEPT !.all = @ - 1, !.changes = @ - 1]
          /\ \E a \in One({b \in Admins : admins[b].pc = "idle"}),
                r \in RuleIds, body \in Bodies, op \in Operations : ChangeRule(a, op, r, body)

-----------------------------------------------------------------------------
(* What the process and its clients do by themselves.                       *)

ClientLeaves(c) ==
    /\ Leave(c)
    /\ UNCHANGED <<knowledgeVars, backendVars, left>>

ClientBreaks(c) ==
    /\ LoopFree /\ Break(c)
    /\ UNCHANGED <<knowledgeVars, backendVars, left>>

NoticeLeft(c) ==
    /\ LoopFree /\ Notice(c)
    /\ UNCHANGED <<knowledgeVars, backendVars, left>>

RequestStep(a) ==
    /\ AdminStep(a)
    /\ UNCHANGED <<liveVars, backendVars, left>>

TaskStep(r) ==
    /\ LoopFree /\ InvestigationStep(r)
    /\ UNCHANGED <<knowledgeVars, backendVars, left>>

\* The server starts: first the investigations that ran are marked, ...
Start ==
    /\ up = "down" /\ up' = "starting"
    /\ StartLive
    /\ UNCHANGED <<knowledgeVars, queue, alive, pipes, unknown, planFile, plans, approved, left>>

\* ... then the rules and the plans are read.
Ready ==
    /\ up = "starting" /\ up' = "up"
    /\ StartKnowledge
    /\ alive' = TRUE
    /\ plans' = [edit |-> planFile, time |-> planFile]
    /\ UNCHANGED <<liveVars, queue, pipes, unknown, planFile, approved, left>>

\* A file of rules that cannot be read keeps it from starting.
Refuse ==
    /\ up = "starting" /\ files.state = "bad"
    /\ up' = "down"
    /\ UNCHANGED <<knowledgeVars, liveVars, queue, alive, pipes, unknown, planFile, plans, approved,
                   left>>

\* What the process does by itself.
Progress ==
    \/ \E p \in Pipes : PipeStep(p) /\ UNCHANGED left
    \/ \E a \in Admins : RequestStep(a)
    \/ \E r \in Starters : TaskStep(r)
    \/ Start \/ Ready \/ Refuse

Next ==
    \/ Outside
    \/ Progress
    \/ \E c \in Clients : ClientLeaves(c) \/ ClientBreaks(c) \/ NoticeLeft(c)

Spec == Init /\ [][Next]_vars

\* The process does not stop while anything in it can go on: calls in threads
\* return, and a server that can start is started.
Fairness == WF_vars(Progress)

FairSpec == Spec /\ Fairness

-----------------------------------------------------------------------------
(* Properties.                                                              *)

\* Type invariant; the manager lists clients that have connected, each once (ws.py:13-19).
TypeOK ==
    /\ files.main \in Seq(Rules) /\ files.vendor \in Seq(Rules) /\ cache.rules \in Seq(Rules)
    /\ cache.time <= files.time
    /\ \A a \in Admins : admins[a].new \in Rules \cup {NoRule}
    /\ \A k \in DOMAIN audit : audit[k].new \in Rules /\ audit[k].version > 0
    /\ IsInjective(connections)
    /\ \A c \in ToSet(connections) : client[c] # "away"
    /\ report \in {"none", "running", "completed", "failed", "interrupted"}
    /\ left \in [all : 0..Inputs, changes : 0..Changes]

\* A rule decides about a line only when somebody has approved it at some time, by a
\* request or by hand in a file: a new rule stays out of use through updates, rollbacks
\* and saves of old rules, whatever runs at the same time and whichever part of a file is
\* read (matcher.py:25-45, routes/knowledge.py:61-140).  It does not say that a rule which was
\* approved once and disabled since is out of use, which is not so.
UnapprovedIsUnused ==
    \A p \in Pipes : pipes[p].known => pipes[p].rule \in approved

\* Of an unknown event the total is the sum over the severities, also when
\* two pipelines count it at once and one count is lost (unknown_event_store.py:48-82).
CountsAgree ==
    \A s \in Signatures : unknown[s].count = SumFunction(unknown[s].by)

\* Work plans in memory that carry the time of the file are those of the file:
\* an edit is never missed for good (maintenance/checker.py:150-189).
PlansMatchTheirTime == plans.time = planFile => plans.edit = planFile

\* A broadcast that is through with its copy of the connections has reached
\* every client that was there all the time, whoever else left (ws.py:21-30).
BroadcastReachesAll ==
    \A s \in Speakers : AllSent(s) => casts[s].since \subseteq casts[s].reached

\* A consumer that tells its clients does not end because one cannot be reached: only
\* when one that left had been removed already, by its endpoint or by another
\* broadcast (main.py:514-518, ws.py:17-31).
BroadcastSparesConsumer ==
    [][alive /\ ~alive' /\ pipes[Consumer].pc = "tell" =>
          \E c \in Clients : client[c] \in {"gone", "past"} /\ c \notin ToSet(connections)]_vars

\* Received lines are all taken, unless the consumer or the process ends
\* (main.py:514-518).
QueueDrains == queue # <<>> ~> (queue = <<>> \/ ~alive)

\* An investigation does not stay running, over restarts too, also when the rules keep
\* the server from starting (routes/investigation.py:61-91, main.py:407-421).
InvestigationsEnd == report = "running" ~> report # "running"
=============================================================================
