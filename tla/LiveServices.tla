---------------------------- MODULE LiveServices ----------------------------
(***************************************************************************)
(* The clients that watch the incidents (api/routes/ws.py) and the         *)
(* investigations of an incident (api/routes/investigation.py,             *)
(* investigation/agent.py, persistence/investigation_store.py).  A         *)
(* broadcast waits at every client; clients come and go meanwhile, and     *)
(* other broadcasts begin.                                                 *)
(***************************************************************************)
EXTENDS Ordering, Sequences, SequencesExt

CONSTANTS
    Clients,
    Speakers,       \* the coroutines that may broadcast
    Starters,       \* requests to investigate the incident, with their tasks
    MaxTurns        \* _MAX_TURNS

ASSUME LiveAssumption ==
    /\ Starters \subseteq Speakers
    /\ MaxTurns \in Nat \ {0}

VARIABLES
    connections,    \* ConnectionManager._connections
    client,         \* of each: "away", "open", "gone" (not noticed yet), "past"
    casts,          \* the broadcast that each speaker is in
    report,         \* the status of the incident's report, "none" if there is none
    starters        \* where each request to investigate, or its task, is

liveVars == <<connections, client, casts, report, starters>>

NoCast == [active |-> FALSE, list |-> <<>>, next |-> 1, reached |-> {}, dead |-> <<>>,
           since |-> {}]
IdleStarter == [pc |-> "idle", turn |-> 0, status |-> "none"]

InitLive ==
    /\ connections = <<>>
    /\ client = [c \in Clients |-> "away"]
    /\ casts = [s \in Speakers |-> NoCast]
    /\ report = "none"
    /\ starters = [r \in Starters |-> IdleStarter]

-----------------------------------------------------------------------------
(* Clients.                                                                 *)

Open == {c \in Clients : client[c] = "open"}

Connect(c) ==
    /\ client[c] = "away"
    /\ client' = [client EXCEPT ![c] = "open"]
    /\ connections' = Append(connections, c)
    /\ UNCHANGED <<casts, report, starters>>

\* The other end has closed; what is sent may still seem to go out.
Leave(c) ==
    /\ client[c] = "open"
    /\ client' = [client EXCEPT ![c] = "gone"]
    /\ casts' = [s \in Speakers |-> [casts[s] EXCEPT !.since = @ \ {c}]]
    /\ UNCHANGED <<connections, report, starters>>

\* The endpoint ends with an exception that is no WebSocketDisconnect, as a binary frame
\* raises: the connection stays listed.
Break(c) ==
    /\ client[c] = "open"
    /\ client' = [client EXCEPT ![c] = "past"]
    /\ casts' = [s \in Speakers |-> [casts[s] EXCEPT !.since = @ \ {c}]]
    /\ UNCHANGED <<connections, report, starters>>

\* A list without the clients that are gone, the others in their order.
Without(s, gone) ==
    LET kept == InOrder({i \in DOMAIN s : s[i] \notin gone})
    IN  [k \in DOMAIN kept |-> s[kept[k]]]

\* The endpoint gets a WebSocketDisconnect: disconnect.
Notice(c) ==
    /\ client[c] = "gone"
    /\ client' = [client EXCEPT ![c] = "past"]
    /\ connections' = Without(connections, {c})
    /\ UNCHANGED <<casts, report, starters>>

-----------------------------------------------------------------------------
(* A broadcast.                                                             *)

\* Mutant: the broadcast goes through the connections themselves.
LiveTargets(s) == connections

\* The broadcast goes through a copy of the connections.
Targets(s) == casts[s].list

NewCast == [NoCast EXCEPT !.active = TRUE, !.list = connections, !.since = Open]

\* One client is sent the news.  To an open client that works; a client that
\* has gone may fail, and fails when its end was noticed.
Send(s) ==
    /\ casts[s].active /\ casts[s].next <= Len(Targets(s))
    /\ LET c == Targets(s)[casts[s].next]
           after == [casts[s] EXCEPT !.next = @ + 1]
       IN  \/ /\ client[c] = "open"
              /\ casts' = [casts EXCEPT ![s] = [after EXCEPT !.reached = @ \cup {c}]]
           \/ /\ client[c] = "gone"
              /\ casts' = [casts EXCEPT ![s] = after]
           \/ /\ client[c] # "open"
              /\ casts' = [casts EXCEPT ![s] = [after EXCEPT !.dead = Append(@, c)]]
    /\ UNCHANGED <<connections, client, report, starters>>

AllSent(s) == casts[s].active /\ casts[s].next > Len(Targets(s))

\* The failed connections are removed one after the other; to remove one that
\* is not there any more is an error, and leaves the others.
Missing(s) == {k \in DOMAIN casts[s].dead : casts[s].dead[k] \notin ToSet(connections)}

Removed(s) == {casts[s].dead[k] : k \in {j \in DOMAIN casts[s].dead : \A m \in Missing(s) : j < m}}

\* Mutant: a connection that fails is an error of the broadcast.
FailsWithAny(s) == casts[s].dead # <<>>

CastFails(s) == Missing(s) # {}

FinishCast(s) ==
    /\ AllSent(s)
    /\ connections' = Without(connections, Removed(s))
    /\ casts' = [casts EXCEPT ![s] = NoCast]

-----------------------------------------------------------------------------
(* Investigations.                                                          *)

Step(r, changes) == starters' = [starters EXCEPT ![r] = changes]

\* The incident has been read.
StartInvestigation(r) ==
    /\ starters[r].pc = "idle"
    /\ Step(r, [starters[r] EXCEPT !.pc = "check"])
    /\ UNCHANGED <<connections, client, casts, report>>

\* One that runs is not started again.
CheckRunning(r) ==
    /\ starters[r].pc = "check"
    /\ Step(r, IF report = "running" THEN IdleStarter ELSE [starters[r] EXCEPT !.pc = "begin"])
    /\ UNCHANGED <<connections, client, casts, report>>

\* The placeholder is saved and the task started.
BeginInvestigation(r) ==
    /\ starters[r].pc = "begin"
    /\ report' = "running"
    /\ Step(r, [starters[r] EXCEPT !.pc = "turn", !.turn = 1])
    /\ UNCHANGED <<connections, client, casts>>

\* A turn of the agent: the model asks for tools, which always answer, or is
\* done, or its call fails.  After the last turn the report is complete as it is.
Turn(r) ==
    /\ starters[r].pc = "turn"
    /\ \/ /\ starters[r].turn < MaxTurns
          /\ Step(r, [starters[r] EXCEPT !.turn = @ + 1])
       \/ \E status \in {"completed", "failed"} :
            Step(r, [starters[r] EXCEPT !.pc = "save", !.turn = 0, !.status = status])
    /\ UNCHANGED <<connections, client, casts, report>>

\* The report is saved and the clients are told.
SaveReport(r) ==
    /\ starters[r].pc = "save"
    /\ report' = starters[r].status
    /\ Step(r, [IdleStarter EXCEPT !.pc = "tell"])
    /\ casts' = [casts EXCEPT ![r] = NewCast]
    /\ UNCHANGED <<connections, client>>

\* An error of the broadcast ends the task, which was at its end anyway.
Told(r) ==
    /\ starters[r].pc = "tell"
    /\ FinishCast(r)
    /\ Step(r, IdleStarter)
    /\ UNCHANGED <<client, report>>

InvestigationStep(r) ==
    \/ CheckRunning(r) \/ BeginInvestigation(r) \/ Turn(r) \/ SaveReport(r) \/ Send(r) \/ Told(r)

-----------------------------------------------------------------------------
(* The process ends and starts.                                             *)

CrashLive ==
    /\ connections' = <<>>
    /\ client' = [c \in Clients |-> IF client[c] = "away" THEN "away" ELSE "past"]
    /\ casts' = [s \in Speakers |-> NoCast]
    /\ starters' = [r \in Starters |-> IdleStarter]
    /\ UNCHANGED report

\* Mutant: what ran before the restart is left as it is.
LeaveRunning == UNCHANGED liveVars

\* mark_running_as_interrupted
StartLive ==
    /\ report' = IF report = "running" THEN "interrupted" ELSE report
    /\ UNCHANGED <<connections, client, casts, starters>>
=============================================================================
