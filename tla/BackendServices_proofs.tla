------------------------ MODULE BackendServices_proofs ------------------------
(***************************************************************************)
(* For any number of rules, requests, lines, clients, failing calls and    *)
(* crashes: the work plans in memory are never older than the time they    *)
(* are taken for, a broadcast reaches everyone who was there all the time  *)
(* and does not end the consumer for a client that left, rules that nobody *)
(* has approved decide about no line, the counts of unknown events agree.  *)
(***************************************************************************)
EXTENDS BackendServices, Ordering_proofs

-----------------------------------------------------------------------------
(* The work plans.                                                          *)

PipeFields == {"pc", "line", "read", "known", "rule", "body", "seen", "time"}

\* A pipeline has its fields, and in time a time of the file.
PipeShape(pipe) ==
    /\ pipe = [f \in PipeFields |-> pipe[f]]
    /\ pipe.time \in Nat

\* The copy of the plans is from no earlier than the time it is taken for.
PlansInv ==
    /\ planFile \in Nat
    /\ plans.time \in Nat /\ plans.edit \in Nat
    /\ plans.time <= plans.edit /\ plans.edit <= planFile
    /\ pipes = [p \in Pipes |-> pipes[p]]
    /\ \A p \in Pipes : PipeShape(pipes[p])

LEMMA PlansAreInTime == PlansInv => PlansMatchTheirTime
BY DEF PlansInv, PlansMatchTheirTime

LEMMA IdleShape == PipeShape(IdlePipe)
BY DEF PipeShape, IdlePipe, PipeFields

\* Changes that leave the time alone, or set it to a time, keep the shape.
LEMMA ShapeKept ==
    ASSUME NEW pipe, PipeShape(pipe), NEW f \in PipeFields \ {"time"}, NEW v
    PROVE  PipeShape([pipe EXCEPT ![f] = v])
BY DEF PipeShape, PipeFields

LEMMA GoKeeps ==
    ASSUME PlansInv, NEW p \in Pipes, NEW pipe, PipeShape(pipe), Go(p, pipe),
           UNCHANGED <<planFile, plans>>
    PROVE  PlansInv'
<1>1. pipes' = [q \in Pipes |-> IF q = p THEN pipe ELSE pipes[q]]
    BY DEF Go, PlansInv
<1>2. QED
    BY <1>1 DEF PlansInv

LEMMA InitPlans == Init => PlansInv
BY IdleShape DEF Init, PlansInv

\* An exception leaves an idle pipeline.
LEMMA RaiseKeeps ==
    ASSUME PlansInv, NEW p \in Pipes, Raise(p), UNCHANGED <<planFile, plans>>
    PROVE  PlansInv'
BY GoKeeps, IdleShape DEF Raise

LEMMA BeginPlans ==
    ASSUME PlansInv, NEW p \in Pipes, NEW line, Begin(p, line), UNCHANGED <<planFile, plans>>
    PROVE  PlansInv'
<1> DEFINE at == [IdlePipe EXCEPT !.line = line]
<1>1. PipeShape(at)
    BY IdleShape, ShapeKept DEF PipeFields
<1>2. CASE Go(p, [at EXCEPT !.pc = "matching"])
    <2>1. PipeShape([at EXCEPT !.pc = "matching"])
        BY <1>1, ShapeKept DEF PipeFields
    <2>2. QED
        BY <1>2, <2>1, GoKeeps
<1>3. ASSUME NEW rules, Go(p, [at EXCEPT !.pc = "vendor", !.read = rules])
      PROVE  PlansInv'
    <2> DEFINE one == [at EXCEPT !.pc = "vendor"]
    <2>1. PipeShape(one)
        BY <1>1, ShapeKept DEF PipeFields
    <2>2. PipeShape([one EXCEPT !.read = rules])
        <3> HIDE DEF one
        <3> QED
            BY <2>1, ShapeKept DEF PipeFields
    <2>3. QED
        BY <1>3, <2>2, GoKeeps
<1>4. QED
    BY <1>2, <1>3, RaiseKeeps DEF Begin

LEMMA PipePlans ==
    ASSUME PlansInv, NEW p \in Pipes, PipeStep(p)
    PROVE  PlansInv'
<1> DEFINE is == pipes[p]
<1>s. PipeShape(is)
    BY DEF PlansInv
<1>o. PipeShape(Over(p))
    BY IdleShape DEF Over
<1>1. ASSUME NEW pc, Go(p, [is EXCEPT !.pc = pc]), UNCHANGED <<planFile, plans>>
      PROVE  PlansInv'
    <2>1. PipeShape([is EXCEPT !.pc = pc])
        BY <1>s, ShapeKept DEF PipeFields
    <2>2. QED
        BY <1>1, <2>1, GoKeeps
<1>1a. CASE ReadVendor(p)
    <2> DEFINE one == [is EXCEPT !.pc = "loaded"]
    <2>1. PipeShape(one)
        BY <1>s, ShapeKept DEF PipeFields
    <2>2. PipeShape([one EXCEPT !.read = is.read \o files.vendor])
        <3> HIDE DEF one
        <3> QED
            BY <2>1, ShapeKept DEF PipeFields
    <2>3. /\ Go(p, [is EXCEPT !.pc = "loaded", !.read = is.read \o files.vendor])
          /\ UNCHANGED <<planFile, plans>>
        BY <1>1a DEF ReadVendor
    <2>4. QED
        BY <2>2, <2>3, GoKeeps
<1>2. CASE ReloadRules(p)
    <2> DEFINE one == [is EXCEPT !.pc = "matching"]
    <2>1. PipeShape(one)
        BY <1>s, ShapeKept DEF PipeFields
    <2>2. PipeShape([one EXCEPT !.read = <<>>])
        <3> HIDE DEF one
        <3> QED
            BY <2>1, ShapeKept DEF PipeFields
    <2>3. Go(p, [is EXCEPT !.pc = "matching", !.read = <<>>]) /\ UNCHANGED <<planFile, plans>>
        BY <1>2 DEF ReloadRules
    <2>4. QED
        BY <2>2, <2>3, GoKeeps
<1>3. CASE Match(p)
    <2>1. UNCHANGED <<planFile, plans>>
        BY <1>3 DEF Match
    <2>2. \/ Go(p, [is EXCEPT !.pc = "unknown"])
          \/ Raise(p)
          \/ \E rule : Go(p, [is EXCEPT !.pc = "log", !.known = TRUE, !.rule = rule.id,
                                        !.body = rule.body])
        BY <1>3 DEF Match
    <2>3. ASSUME NEW rule, Go(p, [is EXCEPT !.pc = "log", !.known = TRUE, !.rule = rule.id,
                                            !.body = rule.body])
          PROVE  PlansInv'
        <3> DEFINE one   == [is EXCEPT !.pc = "log"]
                   two   == [one EXCEPT !.known = TRUE]
                   three == [two EXCEPT !.rule = rule.id]
        <3>1. PipeShape(one)
            BY <1>s, ShapeKept DEF PipeFields
        <3>2. PipeShape(two)
            <4> HIDE DEF one
            <4> QED
                BY <3>1, ShapeKept DEF PipeFields
        <3>3. PipeShape(three)
            <4> HIDE DEF two
            <4> QED
                BY <3>2, ShapeKept DEF PipeFields
        <3>4. PipeShape([three EXCEPT !.body = rule.body])
            <4> HIDE DEF three
            <4> QED
                BY <3>3, ShapeKept DEF PipeFields
        <3>5. QED
            BY <2>1, <2>3, <3>4, GoKeeps
    <2>4. QED
        BY <2>1, <2>2, <2>3, <1>1, RaiseKeeps
<1>4. CASE FindUnknown(p)
    <2> DEFINE one == [is EXCEPT !.pc = "count"]
    <2>1. PipeShape(one)
        BY <1>s, ShapeKept DEF PipeFields
    <2>2. PipeShape([one EXCEPT !.seen = unknown[is.line.sig]])
        <3> HIDE DEF one
        <3> QED
            BY <2>1, ShapeKept DEF PipeFields
    <2>3. /\ Go(p, [is EXCEPT !.pc = "count", !.seen = unknown[is.line.sig]])
          /\ UNCHANGED <<planFile, plans>>
        BY <1>4 DEF FindUnknown
    <2>4. QED
        BY <2>2, <2>3, GoKeeps
<1>5. CASE CountUnknown(p)
    <2> DEFINE one == [is EXCEPT !.pc = "log"]
    <2>1. PipeShape(one)
        BY <1>s, ShapeKept DEF PipeFields
    <2>2. PipeShape([one EXCEPT !.seen = Unseen])
        <3> HIDE DEF one
        <3> QED
            BY <2>1, ShapeKept DEF PipeFields
    <2>3. /\ Raise(p) \/ Go(p, [is EXCEPT !.pc = "log", !.seen = Unseen])
          /\ UNCHANGED <<planFile, plans>>
        BY <1>5 DEF CountUnknown
    <2>4. QED
        BY <2>2, <2>3, GoKeeps, RaiseKeeps
<1>6. CASE Judge(p)
    <2>1. UNCHANGED <<planFile, plans>>
        BY <1>6 DEF Judge
    <2>2. \/ Go(p, Over(p))
          \/ \E pc : Go(p, [is EXCEPT !.pc = pc, !.time = planFile])
        BY <1>6 DEF Judge
    <2>3. ASSUME NEW pc, Go(p, [is EXCEPT !.pc = pc, !.time = planFile])
          PROVE  PlansInv'
        <3> DEFINE one == [is EXCEPT !.pc = pc]
        <3>1. PipeShape(one)
            BY <1>s, ShapeKept DEF PipeFields
        <3>2. PipeShape([one EXCEPT !.time = planFile])
            <4> HIDE DEF one
            <4> QED
                BY <3>1 DEF PlansInv, PipeShape, PipeFields
        <3>3. QED
            BY <2>1, <2>3, <3>2, GoKeeps
    <2>4. QED
        BY <2>1, <2>2, <2>3, <1>o, GoKeeps
<1>7. CASE ReadPlans(p)
    <2>1. PipeShape([is EXCEPT !.pc = "plan"])
        BY <1>s, ShapeKept DEF PipeFields
    <2>2. pipes' = [q \in Pipes |-> IF q = p THEN [is EXCEPT !.pc = "plan"] ELSE pipes[q]]
        BY <1>7 DEF ReadPlans, Go, PlansInv
    <2>3. /\ planFile' = planFile /\ is.time \in Nat /\ planFile \in Nat
          /\ \E edit \in is.time..planFile : plans' = [edit |-> edit, time |-> is.time]
        BY <1>7, <1>s DEF ReadPlans, PlanTime, PipeShape, PlansInv
    <2>4. QED
        BY <2>1, <2>2, <2>3 DEF PlansInv
<1>8. CASE AskPlans(p)
    BY <1>8, <1>1, RaiseKeeps DEF AskPlans
<1>9. CASE Store(p)
    BY <1>9, <1>1 DEF Store
<1>10. CASE Tell(p)
    <2>1. UNCHANGED <<planFile, plans>>
        BY <1>10 DEF Tell
    <2>2. UNCHANGED pipes \/ Raise(p) \/ Go(p, Over(p))
        BY <1>10 DEF Tell
    <2>3. CASE UNCHANGED pipes
        BY <2>1, <2>3 DEF PlansInv
    <2>4. QED
        BY <2>1, <2>2, <2>3, <1>o, GoKeeps, RaiseKeeps
<1>11. CASE p = Consumer /\ Take
    BY <1>11, BeginPlans DEF Take
<1>12. QED
    BY <1>1a, <1>2, <1>3, <1>4, <1>5, <1>6, <1>7, <1>8, <1>9, <1>10, <1>11 DEF PipeStep

\* The time of the file is taken before it is read: an edit in between is newer
\* than the time, never older.
LEMMA StepPlans == PlansInv /\ [Next]_vars => PlansInv'
<1> SUFFICES ASSUME PlansInv, [Next]_vars
             PROVE  PlansInv'
    OBVIOUS
<1>1. ASSUME NEW p \in Pipes, PipeStep(p)
      PROVE  PlansInv'
    BY <1>1, PipePlans
<1>2. CASE UNCHANGED <<pipes, plans, planFile>>
    BY <1>2 DEF PlansInv
<1>3. ASSUME Outside
      PROVE  PlansInv'
    <2>1. ASSUME NEW line, Receive(line)
          PROVE  UNCHANGED <<pipes, plans, planFile>>
        BY <2>1 DEF Receive
    <2>2. ASSUME NEW line, Ingest(line)
          PROVE  PlansInv'
        BY <2>2, BeginPlans DEF Ingest, Pipes
    <2>3. CASE Edit
        BY <1>2, <2>3 DEF Edit
    <2>4. CASE EditPlans
        BY <2>4 DEF EditPlans, PlansInv
    <2>5. ASSUME NEW c, Watch(c)
          PROVE  UNCHANGED <<pipes, plans, planFile>>
        BY <2>5 DEF Watch, backendVars
    <2>6. ASSUME NEW r, Investigate(r)
          PROVE  UNCHANGED <<pipes, plans, planFile>>
        BY <2>6 DEF Investigate, backendVars
    <2>7. CASE Crash
        BY <2>7, IdleShape DEF Crash, PlansInv
    <2>7a. ASSUME NEW p \in Pipes, CallFails(p)
           PROVE  PlansInv'
        BY <2>7a, RaiseKeeps DEF CallFails
    <2>8. ASSUME NEW a, NEW op, NEW r, NEW body, ChangeRule(a, op, r, body)
          PROVE  UNCHANGED <<pipes, plans, planFile>>
        BY <2>8 DEF ChangeRule
    <2>9. QED
        BY <1>2, <1>3, <2>1, <2>2, <2>3, <2>4, <2>5, <2>6, <2>7, <2>7a, <2>8 DEF Outside
<1>4. ASSUME NEW a, RequestStep(a)
      PROVE  UNCHANGED <<pipes, plans, planFile>>
    BY <1>4 DEF RequestStep, backendVars
<1>5. ASSUME NEW r, TaskStep(r)
      PROVE  UNCHANGED <<pipes, plans, planFile>>
    BY <1>5 DEF TaskStep, backendVars
<1>6. CASE Start \/ Ready \/ Refuse
    BY <1>6 DEF Start, Ready, Refuse, PlansInv
<1>7. ASSUME NEW c, ClientLeaves(c) \/ ClientBreaks(c) \/ NoticeLeft(c)
      PROVE  UNCHANGED <<pipes, plans, planFile>>
    BY <1>7 DEF ClientLeaves, ClientBreaks, NoticeLeft, backendVars
<1>8. CASE UNCHANGED vars
    BY <1>2, <1>8 DEF vars, backendVars
<1>9. QED
    BY <1>1, <1>2, <1>3, <1>4, <1>5, <1>6, <1>7, <1>8 DEF Next, Progress

\* Work plans that carry the time of the file are those of the file, whatever
\* pipelines read them while they are edited (maintenance/checker.py:150-189).
THEOREM PlansAreFresh == Spec => []PlansMatchTheirTime
BY InitPlans, StepPlans, PlansAreInTime, PTL DEF Spec

-----------------------------------------------------------------------------
(* The clients.                                                             *)

\* Of a list without the clients that are gone the others are left, and none
\* comes twice.
LEMMA WithoutKeeps ==
    ASSUME NEW s \in Seq(Clients), IsInjective(s), NEW gone
    PROVE  /\ Without(s, gone) \in Seq(Clients)
           /\ IsInjective(Without(s, gone))
           /\ \A k \in DOMAIN Without(s, gone) :
                 Without(s, gone)[k] \in ToSet(s) /\ Without(s, gone)[k] \notin gone
           /\ \A c \in ToSet(s) \ gone :
                 \E k \in DOMAIN Without(s, gone) : Without(s, gone)[k] = c
<1> DEFINE places == {i \in DOMAIN s : s[i] \notin gone}
           kept   == InOrder(places)
           size   == Cardinality(places)
<1>1. DOMAIN s = 1..Len(s) /\ Len(s) \in Nat
    OBVIOUS
<1>2. places \in SUBSET Int /\ IsFiniteSet(places)
    <2>1. IsFiniteSet(1..Len(s))
        BY <1>1, FS_Interval
    <2>2. places \subseteq 1..Len(s)
        BY <1>1
    <2>3. QED
        BY <2>1, <2>2, FS_Subset
<1>3. /\ size \in Nat
      /\ kept \in [1..size -> places]
      /\ \A i, j \in 1..size : kept[i] = kept[j] => i = j
      /\ \A n \in places : \E k \in 1..size : kept[k] = n
    <2> HIDE DEF places
    <2> QED
        BY <1>2, InOrderPermutes
<1>4. Without(s, gone) = [k \in 1..size |-> s[kept[k]]]
    BY <1>3 DEF Without
<1>5. \A n \in places : n \in DOMAIN s /\ s[n] \notin gone /\ s[n] \in Clients
    OBVIOUS
<1> HIDE DEF kept, size
<1>6. \A k \in 1..size : kept[k] \in places
    BY <1>3
<1>7. Without(s, gone) \in Seq(Clients)
    BY <1>3, <1>4, <1>5, <1>6
<1>8. IsInjective(Without(s, gone))
    <2>1. \A a, b \in 1..size : s[kept[a]] = s[kept[b]] => a = b
        BY <1>3, <1>5, <1>6 DEF IsInjective
    <2>2. QED
        BY <1>4, <2>1 DEF IsInjective
<1>9. \A k \in DOMAIN Without(s, gone) :
          Without(s, gone)[k] \in ToSet(s) /\ Without(s, gone)[k] \notin gone
    BY <1>4, <1>5, <1>6 DEF ToSet
<1>10. ASSUME NEW c \in ToSet(s) \ gone
       PROVE  \E k \in DOMAIN Without(s, gone) : Without(s, gone)[k] = c
    <2>1. PICK i \in DOMAIN s : s[i] = c
        BY DEF ToSet
    <2>2. i \in places
        BY <2>1
    <2>3. QED
        BY <1>3, <1>4, <2>1, <2>2
<1>11. QED
    BY <1>7, <1>8, <1>9, <1>10

CastFields == {"active", "list", "next", "reached", "dead", "since"}

\* A broadcast goes to clients that have come, finds dead only those that have
\* left, and every client that was there all the time was reached or is yet to be
\* sent the news.
GoodCast(cast) ==
    /\ cast = [f \in CastFields |-> cast[f]]
    /\ cast.list \in Seq(Clients) /\ cast.dead \in Seq(Clients)
    /\ cast.next \in Nat \ {0}
    /\ cast.since \subseteq Open
    /\ \A k \in DOMAIN cast.list : client[cast.list[k]] # "away"
    /\ \A k \in DOMAIN cast.dead : client[cast.dead[k]] \in {"gone", "past"}
    /\ \A c \in cast.since :
          c \in cast.reached \/ \E k \in cast.next..Len(cast.list) : cast.list[k] = c

\* The connections are those of clients that have come, each once; an open client is
\* among them.
ConnectionsInv ==
    /\ client \in [Clients -> {"away", "open", "gone", "past"}]
    /\ connections \in Seq(Clients) /\ IsInjective(connections)
    /\ \A k \in DOMAIN connections : client[connections[k]] # "away"
    /\ \A c \in Open : \E k \in DOMAIN connections : connections[k] = c

CastsInv ==
    /\ casts = [s \in Speakers |-> casts[s]]
    /\ \A s \in Speakers : GoodCast(casts[s])

ClientsInv == ConnectionsInv /\ CastsInv

LEMMA NoCastIsGood == GoodCast(NoCast)
BY DEF GoodCast, NoCast, CastFields

LEMMA NewCastIsGood == ConnectionsInv => GoodCast(NewCast)
<1> SUFFICES ASSUME ConnectionsInv
             PROVE  GoodCast(NewCast)
    OBVIOUS
<1> DEFINE one == [NoCast EXCEPT !.active = TRUE]
           two == [one EXCEPT !.list = connections]
<1>1. one = [f \in CastFields |-> one[f]] /\ one.dead = <<>> /\ one.next = 1
    BY DEF NoCast, CastFields
<1>2. /\ two = [f \in CastFields |-> two[f]] /\ two.dead = <<>> /\ two.next = 1
      /\ two.list = connections
    <2> HIDE DEF one
    <2> QED
        BY <1>1 DEF CastFields
<1>3. /\ NewCast = [f \in CastFields |-> NewCast[f]]
      /\ NewCast.dead = <<>> /\ NewCast.next = 1 /\ NewCast.list = connections
      /\ NewCast.since = Open
    <2>1. NewCast = [two EXCEPT !.since = Open]
        BY DEF NewCast
    <2> HIDE DEF two
    <2> QED
        BY <1>2, <2>1 DEF CastFields
<1>4. \A c \in Open : \E k \in 1..Len(connections) : connections[k] = c
    BY DEF ConnectionsInv
<1>5. \A k \in DOMAIN connections : client[connections[k]] # "away"
    BY DEF ConnectionsInv
<1>6. connections \in Seq(Clients)
    BY DEF ConnectionsInv
<1> HIDE DEF one, two
<1>7. QED
    <2>1. NewCast.since \subseteq Open
        BY <1>3
    <2>2. \A k \in DOMAIN NewCast.dead : client[NewCast.dead[k]] \in {"gone", "past"}
        BY <1>3
    <2>3. NewCast.dead \in Seq(Clients) /\ NewCast.next \in Nat \ {0}
        <3>1. <<>> \in Seq(Clients) /\ 1 \in Nat \ {0}
            OBVIOUS
        <3>2. QED
            BY <1>3, <3>1
    <2>4. QED
        BY <1>3, <1>4, <1>5, <1>6, <2>1, <2>2, <2>3 DEF GoodCast

LEMMA SentToAll == ClientsInv => BroadcastReachesAll
<1> SUFFICES ASSUME ClientsInv, NEW s \in Speakers, AllSent(s), NEW c \in casts[s].since
             PROVE  c \in casts[s].reached
    BY DEF BroadcastReachesAll
<1>1. GoodCast(casts[s]) /\ casts[s].next > Len(casts[s].list)
    BY DEF ClientsInv, CastsInv, AllSent, Targets
<1>2. Len(casts[s].list) \in Nat /\ casts[s].next \in Nat
    BY <1>1 DEF GoodCast
<1>3. casts[s].next..Len(casts[s].list) = {}
    BY <1>1, <1>2
<1>4. QED
    BY <1>1, <1>3 DEF GoodCast

LEMMA InitClients == Init => ClientsInv
<1> SUFFICES ASSUME Init
             PROVE  ClientsInv
    OBVIOUS
<1>1. /\ connections = <<>> /\ client = [c \in Clients |-> "away"]
      /\ casts = [s \in Speakers |-> NoCast]
    BY DEF Init, InitLive
<1>2. ConnectionsInv
    BY <1>1 DEF ConnectionsInv, IsInjective, Open
<1>3. CastsInv
    BY <1>1, NoCastIsGood DEF CastsInv
<1>4. QED
    BY <1>2, <1>3 DEF ClientsInv

\* Clients only come and go: a broadcast stays good when they have moved on and
\* those that left are not counted among those that were there all the time.
LEMMA GoodCastStays ==
    ASSUME NEW cast, GoodCast(cast), cast.since \subseteq Open',
           \A c \in Clients : client[c] # "away" => client'[c] # "away",
           \A c \in Clients : client[c] \in {"gone", "past"} => client'[c] \in {"gone", "past"}
    PROVE  GoodCast(cast)'
<1>1. \A k \in DOMAIN cast.list : cast.list[k] \in Clients
    BY DEF GoodCast
<1>2. \A k \in DOMAIN cast.dead : cast.dead[k] \in Clients
    BY DEF GoodCast
<1>3. QED
    BY <1>1, <1>2 DEF GoodCast

\* One broadcast changes and no client does.
LEMMA CastKeeps ==
    ASSUME CastsInv, NEW s \in Speakers, NEW cast, GoodCast(cast),
           casts' = [casts EXCEPT ![s] = cast], UNCHANGED client
    PROVE  CastsInv'
<1>1. casts' = [t \in Speakers |-> IF t = s THEN cast ELSE casts[t]]
    BY DEF CastsInv
<1>2. Open' = Open
    BY DEF Open
<1>3. \A t \in Speakers : GoodCast(casts[t])
    BY DEF CastsInv
<1>4. ASSUME NEW t \in Speakers
      PROVE  GoodCast(casts[t])'
    <2>1. PICK now : now = casts'[t] /\ GoodCast(now)
        BY <1>1, <1>3
    <2>2. now.since \subseteq Open'
        BY <1>2, <2>1 DEF GoodCast
    <2>3. GoodCast(now)'
        BY <2>1, <2>2, GoodCastStays
    <2>4. QED
        BY <2>1, <2>3
<1>5. QED
    BY <1>1, <1>4 DEF CastsInv

LEMMA SameClients ==
    ASSUME ClientsInv, UNCHANGED <<connections, client, casts>>
    PROVE  ClientsInv'
BY DEF ClientsInv, ConnectionsInv, CastsInv, GoodCast, Open, IsInjective

LEMMA SameConnections ==
    ASSUME ConnectionsInv, UNCHANGED <<connections, client>>
    PROVE  ConnectionsInv'
BY DEF ConnectionsInv, Open, IsInjective

LEMMA SendKeeps ==
    ASSUME ClientsInv, NEW s \in Speakers, Send(s)
    PROVE  ClientsInv'
<1> DEFINE is    == casts[s]
           c     == is.list[is.next]
           after == [is EXCEPT !.next = @ + 1]
<1>1. GoodCast(is)
    BY DEF ClientsInv, CastsInv
<1>2. is.next \in DOMAIN is.list /\ c \in Clients /\ client[c] # "away"
    <2>1. is.next <= Len(is.list)
        BY DEF Send, Targets
    <2>2. is.next \in DOMAIN is.list
        BY <1>1, <2>1 DEF GoodCast
    <2>3. is.list \in Seq(Clients) /\ \A k \in DOMAIN is.list : client[is.list[k]] # "away"
        BY <1>1 DEF GoodCast
    <2>4. c \in Clients
        BY <2>2, <2>3
    <2>5. QED
        BY <2>2, <2>3, <2>4
<1>3. /\ after = [f \in CastFields |-> after[f]]
      /\ after.list = is.list /\ after.dead = is.dead /\ after.next = is.next + 1
      /\ after.since = is.since /\ after.reached = is.reached
    BY <1>1 DEF GoodCast, CastFields
<1>4. \A d \in is.since : d = c \/ d \in is.reached
                            \/ \E k \in (is.next + 1)..Len(is.list) : is.list[k] = d
    BY <1>1, <1>2 DEF GoodCast
<1>5. UNCHANGED <<connections, client>>
    BY DEF Send
<1>5a. is.next \in Nat \ {0} /\ is.dead \in Seq(Clients) /\ is.since \subseteq Open
    BY <1>1 DEF GoodCast
<1>5b. \A k \in DOMAIN is.dead : client[is.dead[k]] \in {"gone", "past"}
    BY <1>1 DEF GoodCast
<1> HIDE DEF after
<1>6. ASSUME NEW cast, cast = [f \in CastFields |-> cast[f]],
             cast.list = is.list, cast.next = is.next + 1, cast.since = is.since,
             \/ cast.reached = is.reached \cup {c}
             \/ cast.reached = is.reached /\ client[c] # "open",
             \/ cast.dead = is.dead
             \/ cast.dead = Append(is.dead, c) /\ client[c] # "open"
      PROVE  GoodCast(cast)
    <2>1. cast.next \in Nat \ {0} /\ cast.list \in Seq(Clients)
        <3>1. is.next + 1 \in Nat \ {0} /\ is.list \in Seq(Clients)
            BY <1>1, <1>5a DEF GoodCast
        <3>2. cast.next = is.next + 1 /\ cast.list = is.list
            BY <1>6
        <3>3. QED
            BY <3>1, <3>2
    <2>2. cast.dead \in Seq(Clients)
        <3>1. Append(is.dead, c) \in Seq(Clients)
            BY <1>2, <1>5a
        <3>2. cast.dead = is.dead \/ cast.dead = Append(is.dead, c)
            BY <1>6
        <3>3. QED
            BY <1>5a, <3>1, <3>2
    <2>3. \A k \in DOMAIN cast.dead : client[cast.dead[k]] \in {"gone", "past"}
        <3>1. CASE cast.dead = is.dead
            BY <1>5b, <3>1
        <3>2. CASE cast.dead = Append(is.dead, c) /\ client[c] # "open"
            <4>1. client[c] \in {"gone", "past"}
                BY <1>2, <3>2 DEF ClientsInv, ConnectionsInv
            <4>2. QED
                BY <1>5a, <1>5b, <1>2, <3>2, <4>1
        <3>3. QED
            BY <1>6, <3>1, <3>2
    <2>4. \A d \in cast.since :
             d \in cast.reached \/ \E k \in cast.next..Len(cast.list) : cast.list[k] = d
        <3>1. client[c] # "open" => c \notin is.since
            BY <1>5a DEF Open
        <3>2. QED
            BY <1>4, <1>6, <3>1
    <2>5. \A k \in DOMAIN cast.list : client[cast.list[k]] # "away"
        BY <1>1, <1>6 DEF GoodCast
    <2>6. cast.since \subseteq Open
        BY <1>5a, <1>6
    <2>7. QED
        BY <1>6, <2>1, <2>2, <2>3, <2>4, <2>5, <2>6 DEF GoodCast
<1>7. PICK cast : casts' = [casts EXCEPT ![s] = cast] /\ GoodCast(cast)
    <2>1. CASE casts' = [casts EXCEPT ![s] = [after EXCEPT !.reached = @ \cup {c}]]
        <3> DEFINE cast == [after EXCEPT !.reached = @ \cup {c}]
        <3>1. /\ cast = [f \in CastFields |-> cast[f]]
              /\ cast.list = is.list /\ cast.next = is.next + 1 /\ cast.since = is.since
              /\ cast.dead = is.dead /\ cast.reached = is.reached \cup {c}
            BY <1>3 DEF CastFields
        <3> HIDE DEF cast
        <3>2. GoodCast(cast)
            BY <1>6, <3>1
        <3>3. QED
            BY <2>1, <3>2 DEF cast
    <2>2. CASE casts' = [casts EXCEPT ![s] = after] /\ client[c] = "gone"
        <3>1. GoodCast(after)
            BY <1>3, <1>6, <2>2
        <3>2. QED
            BY <2>2, <3>1
    <2>3. CASE casts' = [casts EXCEPT ![s] = [after EXCEPT !.dead = Append(@, c)]]
               /\ client[c] # "open"
        <3> DEFINE cast == [after EXCEPT !.dead = Append(@, c)]
        <3>1. /\ cast = [f \in CastFields |-> cast[f]]
              /\ cast.list = is.list /\ cast.next = is.next + 1 /\ cast.since = is.since
              /\ cast.dead = Append(is.dead, c) /\ cast.reached = is.reached
            BY <1>3 DEF CastFields
        <3> HIDE DEF cast
        <3>2. GoodCast(cast)
            BY <1>6, <2>3, <3>1
        <3>3. QED
            BY <2>3, <3>2 DEF cast
    <2>4. QED
        BY <2>1, <2>2, <2>3 DEF Send, Targets, after
<1>8. QED
    BY <1>5, <1>7, CastKeeps, SameConnections DEF ClientsInv

LEMMA ConnectKeeps ==
    ASSUME ClientsInv, NEW c \in Clients, Connect(c)
    PROVE  ClientsInv'
<1>1. /\ client[c] = "away" /\ connections' = Append(connections, c) /\ UNCHANGED casts
      /\ client' = [client EXCEPT ![c] = "open"]
    BY DEF Connect
<1>2. /\ client \in [Clients -> {"away", "open", "gone", "past"}]
      /\ connections \in Seq(Clients) /\ IsInjective(connections)
      /\ \A k \in DOMAIN connections : client[connections[k]] # "away"
      /\ \A d \in Open : \E k \in DOMAIN connections : connections[k] = d
    BY DEF ClientsInv, ConnectionsInv
<1>3. /\ connections' \in Seq(Clients) /\ Len(connections') = Len(connections) + 1
      /\ \A k \in 1..Len(connections) : connections'[k] = connections[k]
      /\ connections'[Len(connections) + 1] = c
    BY <1>1, <1>2
<1>4. Open' = Open \cup {c}
    BY <1>1, <1>2 DEF Open
<1>5. \A k \in DOMAIN connections' : client'[connections'[k]] # "away"
    BY <1>1, <1>2, <1>3
<1>6. IsInjective(connections')
    <2>1. \A k \in 1..Len(connections) : connections[k] # c
        BY <1>1, <1>2
    <2>2. \A j, k \in 1..Len(connections) : connections[j] = connections[k] => j = k
        BY <1>2 DEF IsInjective
    <2>3. DOMAIN connections' = 1..(Len(connections) + 1) /\ Len(connections) \in Nat
        BY <1>2, <1>3
    <2>4. QED
        BY <1>3, <2>1, <2>2, <2>3 DEF IsInjective
<1>7. \A d \in Open' : \E k \in DOMAIN connections' : connections'[k] = d
    <2>1. \A d \in Open : \E k \in 1..Len(connections) : connections[k] = d
        BY <1>2
    <2>2. DOMAIN connections' = 1..(Len(connections) + 1) /\ Len(connections) \in Nat
        BY <1>2, <1>3
    <2>3. QED
        BY <1>3, <1>4, <2>1, <2>2
<1>8. ConnectionsInv'
    BY <1>1, <1>2, <1>3, <1>5, <1>6, <1>7 DEF ConnectionsInv
<1>9. \A s \in Speakers : GoodCast(casts[s])
    BY DEF ClientsInv, CastsInv
<1>10. ASSUME NEW s \in Speakers
       PROVE  GoodCast(casts[s])'
    <2>1. PICK cast : cast = casts[s] /\ GoodCast(cast)
        BY <1>9
    <2>2. cast.since \subseteq Open'
        BY <1>4, <2>1 DEF GoodCast
    <2>3. GoodCast(cast)'
        BY <1>1, <1>2, <2>1, <2>2, GoodCastStays
    <2>4. QED
        BY <1>1, <2>1, <2>3
<1>11. QED
    BY <1>1, <1>8, <1>10 DEF ClientsInv, CastsInv

LEMMA LeaveKeeps ==
    ASSUME ClientsInv, NEW c \in Clients, Leave(c) \/ Break(c)
    PROVE  ClientsInv'
<1>0. PICK now \in {"gone", "past"} : client' = [client EXCEPT ![c] = now]
    BY DEF Leave, Break
<1>1. /\ client[c] = "open" /\ client' = [client EXCEPT ![c] = now] /\ now \in {"gone", "past"}
      /\ casts' = [s \in Speakers |-> [casts[s] EXCEPT !.since = @ \ {c}]]
      /\ UNCHANGED connections
    BY <1>0 DEF Leave, Break
<1>2. client \in [Clients -> {"away", "open", "gone", "past"}]
    BY DEF ClientsInv, ConnectionsInv
<1>3. Open' = Open \ {c}
    BY <1>1, <1>2 DEF Open
<1>4. ConnectionsInv'
    <2>1. connections' \in Seq(Clients) /\ IsInjective(connections')
        BY <1>1 DEF ClientsInv, ConnectionsInv
    <2>2. \A k \in DOMAIN connections : client'[connections[k]] # "away"
        BY <1>1, <1>2 DEF ClientsInv, ConnectionsInv
    <2>3. \A d \in Open' : \E k \in DOMAIN connections : connections[k] = d
        BY <1>3 DEF ClientsInv, ConnectionsInv
    <2>4. client' \in [Clients -> {"away", "open", "gone", "past"}]
        BY <1>1, <1>2
    <2>5. QED
        BY <1>1, <2>1, <2>2, <2>3, <2>4 DEF ConnectionsInv
<1>5. ASSUME NEW s \in Speakers
      PROVE  GoodCast(casts[s])'
    <2>1. GoodCast(casts[s])
        BY DEF ClientsInv, CastsInv
    <2>2. PICK cast : cast = [casts[s] EXCEPT !.since = @ \ {c}]
        OBVIOUS
    <2>3. /\ cast = [f \in CastFields |-> cast[f]]
          /\ cast.list = casts[s].list /\ cast.dead = casts[s].dead
          /\ cast.next = casts[s].next /\ cast.reached = casts[s].reached
          /\ cast.since = casts[s].since \ {c}
        BY <2>1, <2>2 DEF GoodCast, CastFields
    <2>4. GoodCast(cast)
        <3>1. cast.list \in Seq(Clients) /\ cast.dead \in Seq(Clients) /\ cast.next \in Nat \ {0}
            <4>1. /\ casts[s].list \in Seq(Clients) /\ casts[s].dead \in Seq(Clients)
                  /\ casts[s].next \in Nat \ {0}
                BY <2>1 DEF GoodCast
            <4>2. cast.list = casts[s].list /\ cast.dead = casts[s].dead /\ cast.next = casts[s].next
                BY <2>3
            <4>3. QED
                BY <4>1, <4>2
        <3>2. QED
            BY <2>1, <2>3, <3>1 DEF GoodCast
    <2>5. cast.since \subseteq Open'
        BY <1>3, <2>1, <2>3 DEF GoodCast
    <2>6. GoodCast(cast)'
        BY <1>1, <1>2, <2>4, <2>5, GoodCastStays
    <2>7. QED
        BY <1>1, <2>2, <2>6
<1>6. CastsInv'
    BY <1>1, <1>5 DEF CastsInv
<1>7. QED
    BY <1>4, <1>6 DEF ClientsInv

\* Only clients that have left are taken out of the connections.
LEMMA WithoutKeepsConnections ==
    ASSUME ConnectionsInv, NEW gone, \A c \in gone : c \notin Open',
           connections' = Without(connections, gone),
           client' \in [Clients -> {"away", "open", "gone", "past"}],
           \A c \in Clients \ gone : client'[c] = client[c]
    PROVE  ConnectionsInv'
<1>1. connections \in Seq(Clients) /\ IsInjective(connections)
    BY DEF ConnectionsInv
<1>2. /\ connections' \in Seq(Clients) /\ IsInjective(connections')
      /\ \A k \in DOMAIN connections' :
            connections'[k] \in ToSet(connections) /\ connections'[k] \notin gone
      /\ \A c \in ToSet(connections) \ gone :
            \E k \in DOMAIN connections' : connections'[k] = c
    BY <1>1, WithoutKeeps
<1>3. \A c \in ToSet(connections) : c \in Clients /\ client[c] # "away"
    BY <1>1 DEF ConnectionsInv, ToSet
<1>4. \A k \in DOMAIN connections' : client'[connections'[k]] # "away"
    BY <1>2, <1>3
<1>5. \A c \in Open' : c \in Open
    BY DEF Open
<1>6. \A c \in Open' : c \in ToSet(connections) \ gone
    BY <1>5 DEF ConnectionsInv, ToSet
<1>7. QED
    BY <1>2, <1>4, <1>6 DEF ConnectionsInv

LEMMA NoticeKeeps ==
    ASSUME ClientsInv, NEW c \in Clients, Notice(c)
    PROVE  ClientsInv'
<1>1. /\ client[c] = "gone" /\ client' = [client EXCEPT ![c] = "past"]
      /\ connections' = Without(connections, {c}) /\ UNCHANGED casts
    BY DEF Notice
<1>2. client \in [Clients -> {"away", "open", "gone", "past"}]
    BY DEF ClientsInv, ConnectionsInv
<1>3. Open' = Open
    BY <1>1, <1>2 DEF Open
<1>4. ConnectionsInv'
    <2>1. /\ client' \in [Clients -> {"away", "open", "gone", "past"}]
          /\ \A d \in Clients \ {c} : client'[d] = client[d]
          /\ \A d \in {c} : d \notin Open'
        BY <1>1, <1>2 DEF Open
    <2>2. QED
        BY <1>1, <2>1, WithoutKeepsConnections DEF ClientsInv
<1>5. ASSUME NEW s \in Speakers
      PROVE  GoodCast(casts[s])'
    <2>1. PICK cast : cast = casts[s] /\ GoodCast(cast)
        BY DEF ClientsInv, CastsInv
    <2>2. cast.since \subseteq Open'
        BY <1>3, <2>1 DEF GoodCast
    <2>3. GoodCast(cast)'
        BY <1>1, <1>2, <2>1, <2>2, GoodCastStays
    <2>4. QED
        BY <1>1, <2>1, <2>3
<1>6. CastsInv'
    BY <1>1, <1>5 DEF ClientsInv, CastsInv
<1>7. QED
    BY <1>4, <1>6 DEF ClientsInv

\* The clients that a broadcast removes have left.
LEMMA FinishKeeps ==
    ASSUME ClientsInv, NEW s \in Speakers, FinishCast(s), UNCHANGED client
    PROVE  ClientsInv'
<1>1. /\ connections' = Without(connections, Removed(s))
      /\ casts' = [casts EXCEPT ![s] = NoCast]
    BY DEF FinishCast
<1>2. GoodCast(casts[s])
    BY DEF ClientsInv, CastsInv
<1>3. \A c \in Removed(s) : c \notin Open'
    BY <1>2 DEF Removed, GoodCast, Open
<1>4. ConnectionsInv'
    <2>1. client' \in [Clients -> {"away", "open", "gone", "past"}]
        BY DEF ClientsInv, ConnectionsInv
    <2>2. QED
        BY <1>1, <1>3, <2>1, WithoutKeepsConnections DEF ClientsInv
<1>5. CastsInv'
    BY <1>1, NoCastIsGood, CastKeeps DEF ClientsInv
<1>6. QED
    BY <1>4, <1>5 DEF ClientsInv

LEMMA NewCastKeeps ==
    ASSUME ClientsInv, NEW s \in Speakers, casts' = [casts EXCEPT ![s] = NewCast],
           UNCHANGED <<connections, client>>
    PROVE  ClientsInv'
BY NewCastIsGood, CastKeeps, SameConnections DEF ClientsInv

LEMMA CrashClients ==
    ASSUME ClientsInv, CrashLive
    PROVE  ClientsInv'
<1>1. /\ connections' = <<>> /\ casts' = [s \in Speakers |-> NoCast]
      /\ client' = [c \in Clients |-> IF client[c] = "away" THEN "away" ELSE "past"]
    BY DEF CrashLive
<1>2. ConnectionsInv'
    BY <1>1 DEF ConnectionsInv, Open, IsInjective
<1>3. GoodCast(NoCast)'
    BY DEF GoodCast, NoCast, CastFields
<1>4. CastsInv'
    BY <1>1, <1>3 DEF CastsInv, NoCast
<1>5. QED
    BY <1>2, <1>4 DEF ClientsInv

LEMMA TellClients ==
    ASSUME ClientsInv, NEW p \in Pipes, Store(p) \/ Tell(p)
    PROVE  ClientsInv'
<1>1. p \in Speakers
    BY ServicesAssumption
<1>2. CASE Store(p)
    BY <1>1, <1>2, NewCastKeeps DEF Store
<1>3. CASE Tell(p)
    BY <1>1, <1>3, SendKeeps, FinishKeeps DEF Tell
<1>4. QED
    BY <1>2, <1>3

LEMMA TaskClients ==
    ASSUME ClientsInv, NEW r \in Starters, InvestigationStep(r)
    PROVE  ClientsInv'
<1>1. r \in Speakers
    BY LiveAssumption
<1>2. CASE CheckRunning(r) \/ BeginInvestigation(r) \/ Turn(r)
    BY <1>2, SameClients DEF CheckRunning, BeginInvestigation, Turn
<1>3. CASE SaveReport(r)
    BY <1>1, <1>3, NewCastKeeps DEF SaveReport
<1>4. CASE Send(r)
    BY <1>1, <1>4, SendKeeps
<1>5. CASE Told(r)
    BY <1>1, <1>5, FinishKeeps DEF Told
<1>6. QED
    BY <1>2, <1>3, <1>4, <1>5 DEF InvestigationStep

\* Clients come, leave and are noticed, broadcasts go through their copies.
LEMMA StepClients == ClientsInv /\ [Next]_vars => ClientsInv'
<1> SUFFICES ASSUME ClientsInv, [Next]_vars
             PROVE  ClientsInv'
    OBVIOUS
<1>1. CASE UNCHANGED liveVars
    BY <1>1, SameClients DEF liveVars
<1>2. ASSUME NEW p \in Pipes, PipeStep(p)
      PROVE  ClientsInv'
    <2>1. CASE Store(p) \/ Tell(p)
        BY <2>1, TellClients
    <2>2. CASE ~(Store(p) \/ Tell(p))
        BY <1>1, <1>2, <2>2 DEF PipeStep, ReadVendor, ReloadRules, Match, FindUnknown, CountUnknown, Judge,
                                ReadPlans, AskPlans, Take
    <2>3. QED
        BY <2>1, <2>2
<1>3. CASE Outside
    <2>1. ASSUME NEW c \in Clients, Watch(c)
          PROVE  ClientsInv'
        BY <2>1, ConnectKeeps DEF Watch
    <2>2. ASSUME NEW r, Investigate(r)
          PROVE  ClientsInv'
        BY <2>2, SameClients DEF Investigate, StartInvestigation
    <2>3. CASE Crash
        BY <2>3, CrashClients DEF Crash
    <2>4. ASSUME NEW line, Receive(line) \/ Ingest(line)
          PROVE  UNCHANGED liveVars
        BY <2>4 DEF Receive, Ingest
    <2>4a. ASSUME NEW p, CallFails(p)
           PROVE  UNCHANGED liveVars
        BY <2>4a DEF CallFails
    <2>5. ASSUME NEW a, NEW r, NEW op, NEW body, ChangeRule(a, op, r, body)
          PROVE  UNCHANGED liveVars
        BY <2>5 DEF ChangeRule
    <2>6. CASE Edit \/ EditPlans
        BY <1>1, <2>6 DEF Edit, EditPlans
    <2>7. QED
        BY <1>1, <1>3, <2>1, <2>2, <2>3, <2>4, <2>4a, <2>5, <2>6 DEF Outside, One
<1>4. ASSUME NEW a, RequestStep(a)
      PROVE  UNCHANGED liveVars
    BY <1>4 DEF RequestStep
<1>5. ASSUME NEW r \in Starters, TaskStep(r)
      PROVE  ClientsInv'
    BY <1>5, TaskClients DEF TaskStep
<1>6. CASE Start \/ Ready \/ Refuse
    BY <1>1, <1>6, SameClients DEF Start, StartLive, Ready, Refuse
<1>7. ASSUME NEW c \in Clients, ClientLeaves(c) \/ ClientBreaks(c) \/ NoticeLeft(c)
      PROVE  ClientsInv'
    BY <1>7, LeaveKeeps, NoticeKeeps DEF ClientLeaves, ClientBreaks, NoticeLeft
<1>8. CASE UNCHANGED vars
    BY <1>1, <1>8 DEF vars
<1>9. QED
    BY <1>1, <1>2, <1>3, <1>4, <1>5, <1>6, <1>7, <1>8 DEF Next, Progress

\* A broadcast that is through with its copy of the connections has reached
\* every client that was there all the time (ws.py:21-30).
THEOREM BroadcastsReachAll == Spec => []BroadcastReachesAll
BY InitClients, StepClients, SentToAll, PTL DEF Spec

-----------------------------------------------------------------------------
(* The investigations.                                                      *)

\* A report is saved as completed or failed.
ReportsInv ==
    /\ report \in {"none", "running", "completed", "failed", "interrupted"}
    /\ DOMAIN starters = Starters
    /\ \A r \in Starters :
          /\ starters[r] = [f \in {"pc", "turn", "status"} |-> starters[r][f]]
          /\ starters[r].pc = "save" => starters[r].status \in {"completed", "failed"}

LEMMA InitReports == Init => ReportsInv
BY DEF Init, InitLive, ReportsInv, IdleStarter

LEMMA SameReports == ReportsInv /\ UNCHANGED <<report, starters>> => ReportsInv'
BY DEF ReportsInv

LEMMA TaskReports ==
    ASSUME ReportsInv, NEW r \in Starters, InvestigationStep(r) \/ StartInvestigation(r)
    PROVE  ReportsInv'
<1> DEFINE is == starters[r]
           Good(s) == /\ s = [f \in {"pc", "turn", "status"} |-> s[f]]
                      /\ s.pc = "save" => s.status \in {"completed", "failed"}
           Reports == {"none", "running", "completed", "failed", "interrupted"}
<1>1. Good(is) /\ report \in Reports
    BY DEF ReportsInv
<1>2. ASSUME NEW s, Good(s), Step(r, s), report' \in Reports
      PROVE  ReportsInv'
    BY <1>2 DEF ReportsInv, Step
<1>3. Good(IdleStarter) /\ Good([IdleStarter EXCEPT !.pc = "tell"])
    BY DEF IdleStarter
<1>4. ASSUME NEW pc, pc # "save"
      PROVE  Good([is EXCEPT !.pc = pc])
    BY <1>1, <1>4
<1>5. CASE StartInvestigation(r)
    BY <1>1, <1>2, <1>4, <1>5 DEF StartInvestigation
<1>6. CASE CheckRunning(r)
    BY <1>1, <1>2, <1>3, <1>4, <1>6 DEF CheckRunning
<1>7. CASE BeginInvestigation(r)
    <2> DEFINE one == [is EXCEPT !.pc = "turn"]
    <2>1. Good(one) /\ one.pc = "turn"
        BY <1>1
    <2>2. Good([one EXCEPT !.turn = 1])
        <3> HIDE DEF one
        <3> QED
            BY <2>1
    <2>3. QED
        BY <1>2, <1>7, <2>2 DEF BeginInvestigation
<1>8. CASE Turn(r)
    <2>1. report' \in Reports
        BY <1>1, <1>8 DEF Turn
    <2>2. CASE Step(r, [is EXCEPT !.turn = @ + 1])
        <3>1. Good([is EXCEPT !.turn = @ + 1])
            BY <1>1, <1>8 DEF Turn
        <3>2. QED
            BY <1>2, <2>1, <2>2, <3>1
    <2>3. ASSUME NEW status \in {"completed", "failed"},
                 Step(r, [is EXCEPT !.pc = "save", !.turn = 0, !.status = status])
          PROVE  ReportsInv'
        <3> DEFINE one == [is EXCEPT !.pc = "save"]
                   two == [one EXCEPT !.turn = 0]
                   three == [two EXCEPT !.status = status]
        <3>1. one = [f \in {"pc", "turn", "status"} |-> one[f]]
            BY <1>1
        <3>2. two = [f \in {"pc", "turn", "status"} |-> two[f]]
            <4> HIDE DEF one
            <4> QED
                BY <3>1
        <3>3. Good(three)
            <4> HIDE DEF two
            <4> QED
                BY <3>2
        <3>4. Step(r, three)
            BY <2>3
        <3> HIDE DEF three
        <3>5. QED
            BY <1>2, <2>1, <3>3, <3>4
    <2>4. QED
        BY <1>8, <2>2, <2>3 DEF Turn
<1>9. CASE SaveReport(r)
    <2>1. report' \in Reports
        BY <1>1, <1>9 DEF SaveReport
    <2>2. QED
        BY <1>2, <1>3, <1>9, <2>1 DEF SaveReport
<1>10. CASE Told(r)
    BY <1>1, <1>2, <1>3, <1>10 DEF Told
<1>11. CASE Send(r)
    BY <1>11, SameReports DEF Send
<1>12. QED
    BY <1>5, <1>6, <1>7, <1>8, <1>9, <1>10, <1>11 DEF InvestigationStep

LEMMA StepReports == ReportsInv /\ [Next]_vars => ReportsInv'
<1> SUFFICES ASSUME ReportsInv, [Next]_vars
             PROVE  ReportsInv'
    OBVIOUS
<1>1. CASE UNCHANGED <<report, starters>>
    BY <1>1, SameReports
<1>2. ASSUME NEW p \in Pipes, PipeStep(p)
      PROVE  UNCHANGED <<report, starters>>
    BY <1>2 DEF PipeStep, ReadVendor, ReloadRules, Match, FindUnknown, CountUnknown, Judge,
                ReadPlans, AskPlans, Store, Tell, Send, Take, liveVars
<1>3. CASE Outside
    <2>1. ASSUME NEW c, Watch(c)
          PROVE  UNCHANGED <<report, starters>>
        BY <2>1 DEF Watch, Connect
    <2>2. ASSUME NEW r \in Starters, Investigate(r)
          PROVE  ReportsInv'
        BY <2>2, TaskReports DEF Investigate
    <2>3. CASE Crash
        BY <2>3 DEF Crash, CrashLive, ReportsInv, IdleStarter
    <2>4. ASSUME NEW line, Receive(line) \/ Ingest(line)
          PROVE  UNCHANGED <<report, starters>>
        BY <2>4 DEF Receive, Ingest, liveVars
    <2>4a. ASSUME NEW p, CallFails(p)
           PROVE  UNCHANGED <<report, starters>>
        BY <2>4a DEF CallFails, liveVars
    <2>5. ASSUME NEW a, NEW r, NEW op, NEW body, ChangeRule(a, op, r, body)
          PROVE  UNCHANGED <<report, starters>>
        BY <2>5 DEF ChangeRule, liveVars
    <2>6. CASE Edit \/ EditPlans
        BY <1>1, <2>6 DEF Edit, EditPlans, liveVars
    <2>7. QED
        BY <1>1, <1>3, <2>1, <2>2, <2>3, <2>4, <2>4a, <2>5, <2>6 DEF Outside, One
<1>4. ASSUME NEW a, RequestStep(a)
      PROVE  UNCHANGED <<report, starters>>
    BY <1>4 DEF RequestStep, liveVars
<1>5. ASSUME NEW r \in Starters, TaskStep(r)
      PROVE  ReportsInv'
    BY <1>5, TaskReports DEF TaskStep
<1>6. CASE Start \/ Ready \/ Refuse
    BY <1>1, <1>6 DEF Start, StartLive, Ready, Refuse, ReportsInv, liveVars
<1>7. ASSUME NEW c, ClientLeaves(c) \/ ClientBreaks(c) \/ NoticeLeft(c)
      PROVE  UNCHANGED <<report, starters>>
    BY <1>7 DEF ClientLeaves, ClientBreaks, NoticeLeft, Leave, Break, Notice
<1>8. CASE UNCHANGED vars
    BY <1>1, <1>8 DEF vars, liveVars
<1>9. QED
    BY <1>1, <1>2, <1>3, <1>4, <1>5, <1>6, <1>7, <1>8 DEF Next, Progress

-----------------------------------------------------------------------------
(* The bounds on what happens from outside.                                 *)

LeftInv == left \in [all : 0..Inputs, changes : 0..Changes]

LEMMA InitLeft == Init => LeftInv
BY ServicesAssumption DEF Init, LeftInv

LEMMA StepLeft == LeftInv /\ [Next]_vars => LeftInv'
<1> SUFFICES ASSUME LeftInv, [Next]_vars
             PROVE  LeftInv'
    OBVIOUS
<1>1. CASE UNCHANGED left
    BY <1>1 DEF LeftInv
<1>2. CASE Outside
    <2>1. left.all > 0 /\ left.all \in 0..Inputs /\ left.changes \in 0..Changes
        BY <1>2 DEF Outside, LeftInv
    <2>2. CASE left' = [left EXCEPT !.all = @ - 1]
        BY <2>1, <2>2, ServicesAssumption DEF LeftInv
    <2>3. CASE left.changes > 0 /\ left' = [left EXCEPT !.all = @ - 1, !.changes = @ - 1]
        <3> DEFINE one == [left EXCEPT !.all = @ - 1]
        <3>1. one \in [all : 0..Inputs, changes : 0..Changes] /\ one.changes = left.changes
            BY <2>1, ServicesAssumption DEF LeftInv
        <3>2. [one EXCEPT !.changes = @ - 1] \in [all : 0..Inputs, changes : 0..Changes]
            <4> HIDE DEF one
            <4> QED
                BY <2>1, <2>3, <3>1, ServicesAssumption
        <3>3. left' = [one EXCEPT !.changes = @ - 1]
            BY <2>3
        <3>4. QED
            BY <3>2, <3>3 DEF LeftInv
    <2>4. QED
        BY <1>2, <2>2, <2>3 DEF Outside
<1>3. CASE Progress
    BY <1>1, <1>3 DEF Progress, RequestStep, TaskStep, Start, Ready, Refuse
<1>4. ASSUME NEW c, ClientLeaves(c) \/ ClientBreaks(c) \/ NoticeLeft(c)
      PROVE  UNCHANGED left
    BY <1>4 DEF ClientLeaves, ClientBreaks, NoticeLeft
<1>5. CASE UNCHANGED vars
    BY <1>1, <1>5 DEF vars
<1>6. QED
    BY <1>1, <1>2, <1>3, <1>4, <1>5 DEF Next

-----------------------------------------------------------------------------
(* Lists of rules.                                                          *)

\* Of finitely many things with numbers one has the highest.
LEMMA HighestOf ==
    ASSUME NEW S, IsFiniteSet(S), S # {}, NEW f \in [S -> Nat]
    PROVE  \E g \in S : \A x \in S : f[x] <= f[g]
<1> DEFINE R == {pair \in S \X S : f[pair[1]] <= f[pair[2]]}
<1>1. \A x, y \in S : <<x, y>> \in R <=> f[x] <= f[y]
    OBVIOUS
<1>2. \A x \in S : f[x] \in Nat
    OBVIOUS
<1> HIDE DEF R
<1>3. \A x, y \in S : x # y => <<x, y>> \in R \/ <<y, x>> \in R
    BY <1>1, <1>2
<1>4. \A x, y, z \in S : <<x, y>> \in R /\ <<y, z>> \in R => <<x, z>> \in R
    BY <1>1, <1>2
<1>5. PICK g \in S : \A x \in S \ {g} : <<x, g>> \in R
    BY <1>3, <1>4, GreatestInOrder
<1>6. ASSUME NEW x \in S
      PROVE  f[x] <= f[g]
    <2>1. CASE x = g
        BY <1>2, <2>1
    <2>2. CASE x # g
        BY <1>1, <1>5, <2>2
    <2>3. QED
        BY <2>1, <2>2
<1>7. QED
    BY <1>6

LEMMA FirstOfIsFirst ==
    ASSUME NEW n \in Nat, NEW places \in SUBSET (1..n), places # {}
    PROVE  FirstOf(places) \in places
<1>1. places \in SUBSET Nat
    OBVIOUS
<1>2. \E k \in places : \A j \in places : k <= j
    BY <1>1, LeastOf
<1>3. QED
    BY <1>2 DEF FirstOf

LEMMA PlacesAreFinite ==
    ASSUME NEW n \in Nat, NEW places \in SUBSET (1..n)
    PROVE  IsFiniteSet(places)
<1>1. IsFiniteSet(1..n)
    BY FS_Interval
<1>2. QED
    BY <1>1, FS_Subset

\* A rule that is approved was approved once.
Allowed(new) == new \in Rules /\ (new.status = "approved" => new.id \in approved)

\* Rules that may be in force.
Sound(rules) == rules \in Seq(Rules) /\ \A k \in DOMAIN rules : Allowed(rules[k])

LEMMA SoundIfApproved ==
    ASSUME NEW rules \in Seq(Rules), ApprovedIn(rules) \subseteq approved
    PROVE  Sound(rules)
<1>1. ASSUME NEW k \in DOMAIN rules
      PROVE  rules[k] \in Rules /\ (rules[k].status = "approved" => rules[k].id \in approved)
    BY DEF ApprovedIn
<1>2. QED
    BY <1>1 DEF Sound, Allowed

LEMMA NothingIsSound == Sound(<<>>)
BY DEF Sound

LEMMA SoundJoined ==
    ASSUME NEW first, NEW second, Sound(first), Sound(second)
    PROVE  Sound(first \o second)
<1>1. first \in Seq(Rules) /\ second \in Seq(Rules)
    BY DEF Sound
<1>2. /\ first \o second \in Seq(Rules) /\ Len(first) \in Nat /\ Len(second) \in Nat
      /\ DOMAIN (first \o second) = 1..(Len(first) + Len(second))
      /\ \A k \in 1..(Len(first) + Len(second)) :
            (first \o second)[k] = IF k <= Len(first) THEN first[k] ELSE second[k - Len(first)]
    BY <1>1
<1>3. ASSUME NEW k \in 1..(Len(first) + Len(second))
      PROVE  Allowed((first \o second)[k])
    <2>1. CASE k <= Len(first)
        <3>1. k \in DOMAIN first
            BY <1>1, <1>2, <2>1
        <3>2. QED
            BY <1>2, <2>1, <3>1 DEF Sound
    <2>2. CASE k > Len(first)
        <3>1. k - Len(first) \in DOMAIN second /\ ~(k <= Len(first))
            BY <1>1, <1>2, <2>2
        <3>2. QED
            BY <1>2, <3>1 DEF Sound
    <2>3. QED
        BY <1>2, <2>1, <2>2
<1>4. QED
    BY <1>2, <1>3 DEF Sound

LEMMA SoundParts ==
    ASSUME NEW first \in Seq(Rules), NEW second \in Seq(Rules), Sound(first \o second)
    PROVE  Sound(first) /\ Sound(second)
<1>1. /\ Len(first) \in Nat /\ Len(second) \in Nat
      /\ DOMAIN (first \o second) = 1..(Len(first) + Len(second))
      /\ \A k \in 1..(Len(first) + Len(second)) :
            (first \o second)[k] = IF k <= Len(first) THEN first[k] ELSE second[k - Len(first)]
      /\ DOMAIN first = 1..Len(first) /\ DOMAIN second = 1..Len(second)
    OBVIOUS
<1>2. ASSUME NEW k \in DOMAIN first
      PROVE  Allowed(first[k])
    <2>1. k \in DOMAIN (first \o second) /\ (first \o second)[k] = first[k]
        BY <1>1
    <2>2. QED
        BY <2>1 DEF Sound
<1>3. ASSUME NEW k \in DOMAIN second
      PROVE  Allowed(second[k])
    <2>1. /\ k + Len(first) \in DOMAIN (first \o second)
          /\ (first \o second)[k + Len(first)] = second[k]
        BY <1>1
    <2>2. QED
        BY <2>1 DEF Sound
<1>4. QED
    BY <1>2, <1>3 DEF Sound

LEMMA SoundAppended ==
    ASSUME NEW rules, NEW new, Sound(rules), Allowed(new)
    PROVE  Sound(Append(rules, new))
<1>1. rules \in Seq(Rules) /\ new \in Rules
    BY DEF Sound, Allowed
<1>2. /\ Append(rules, new) \in Seq(Rules) /\ Len(rules) \in Nat
      /\ DOMAIN Append(rules, new) = 1..(Len(rules) + 1)
      /\ \A k \in 1..Len(rules) : Append(rules, new)[k] = rules[k]
      /\ Append(rules, new)[Len(rules) + 1] = new
    BY <1>1
<1>3. \A k \in 1..Len(rules) : Allowed(rules[k])
    BY <1>1 DEF Sound
<1>4. \A k \in 1..(Len(rules) + 1) : Allowed(Append(rules, new)[k])
    BY <1>2, <1>3
<1>5. QED
    BY <1>2, <1>4 DEF Sound

LEMMA SoundCut ==
    ASSUME NEW rules, Sound(rules), NEW n \in 0..Len(rules)
    PROVE  Sound(SubSeq(rules, 1, n))
<1>1. rules \in Seq(Rules)
    BY DEF Sound
<1>2. /\ SubSeq(rules, 1, n) \in Seq(Rules) /\ DOMAIN SubSeq(rules, 1, n) = 1..n
      /\ \A k \in 1..n : SubSeq(rules, 1, n)[k] = rules[k] /\ k \in DOMAIN rules
    BY <1>1
<1>3. QED
    BY <1>2 DEF Sound

\* What is left of a rule has its identifier, and its status or none.
LEMMA ShortenedKeeps ==
    ASSUME NEW rule \in Rules, NEW last \in Shortened(rule)
    PROVE  last \in Rules /\ last.id = rule.id /\ last.status \in {rule.status, "pending"}
BY DEF Shortened, Rules, Statuses

\* A list that is not written to its end has nothing in force that the whole has not.
LEMMA BeginningsAreSound ==
    ASSUME NEW rules, Sound(rules), NEW beginning \in Beginnings(rules)
    PROVE  Sound(beginning)
<1>1. rules \in Seq(Rules)
    BY DEF Sound
<1>2. ASSUME NEW n \in 0..Len(rules), beginning = SubSeq(rules, 1, n)
      PROVE  Sound(beginning)
    BY <1>2, SoundCut
<1>3. ASSUME NEW k \in DOMAIN rules, NEW last \in Shortened(rules[k]),
             beginning = Append(SubSeq(rules, 1, k - 1), last)
      PROVE  Sound(beginning)
    <2>1. k - 1 \in 0..Len(rules)
        BY <1>1
    <2>2. Allowed(rules[k])
        BY DEF Sound
    <2>3. last \in Rules /\ last.id = rules[k].id /\ last.status \in {rules[k].status, "pending"}
        BY <2>2, ShortenedKeeps DEF Allowed
    <2>4. Allowed(last)
        BY <2>2, <2>3 DEF Allowed
    <2>5. QED
        BY <1>3, <2>1, <2>4, SoundCut, SoundAppended
<1>4. QED
    BY <1>2, <1>3 DEF Beginnings

LEMMA OthersAreSound ==
    ASSUME NEW r, Sound(cache.rules)
    PROVE  Sound(Others(r))
<1> DEFINE places == {k \in DOMAIN cache.rules : cache.rules[k].id # r}
           kept   == InOrder(places)
           size   == Cardinality(places)
<1>1. cache.rules \in Seq(Rules) /\ DOMAIN cache.rules = 1..Len(cache.rules)
      /\ Len(cache.rules) \in Nat
    BY DEF Sound
<1>2. places \in SUBSET (1..Len(cache.rules)) /\ places \in SUBSET Int
    BY <1>1
<1>3. IsFiniteSet(places)
    BY <1>1, <1>2, PlacesAreFinite
<1>4. size \in Nat /\ kept \in [1..size -> places]
    <2> HIDE DEF places
    <2> QED
        BY <1>2, <1>3, InOrderPermutes
<1>5. Others(r) = [k \in 1..size |-> cache.rules[kept[k]]]
    BY <1>4 DEF Others
<1>6. \A k \in 1..size : kept[k] \in DOMAIN cache.rules
    <2> HIDE DEF kept, size
    <2> QED
        BY <1>4
<1>7. \A k \in 1..size : Allowed(cache.rules[kept[k]]) /\ cache.rules[kept[k]] \in Rules
    BY <1>6 DEF Sound, Allowed
<1> HIDE DEF kept, size, places
<1>8. Others(r) \in Seq(Rules) /\ DOMAIN Others(r) = 1..size
    BY <1>4, <1>5, <1>7
<1>9. QED
    BY <1>5, <1>7, <1>8 DEF Sound

\* The rule that a request finds is one of the copy and has its name.
LEMMA FindIsAllowed ==
    ASSUME NEW r, Sound(cache.rules), Find(r) # NoRule
    PROVE  Allowed(Find(r)) /\ Find(r).id = r
<1> DEFINE places == {k \in DOMAIN cache.rules : cache.rules[k].id = r}
<1>1. DOMAIN cache.rules = 1..Len(cache.rules) /\ Len(cache.rules) \in Nat
    BY DEF Sound
<1>2. places # {} /\ Find(r) = cache.rules[FirstOf(places)]
    BY DEF Find
<1>3. FirstOf(places) \in places
    BY <1>1, <1>2, FirstOfIsFirst
<1>4. FirstOf(places) \in DOMAIN cache.rules /\ cache.rules[FirstOf(places)].id = r
    BY <1>3
<1>5. QED
    BY <1>2, <1>4 DEF Sound

-----------------------------------------------------------------------------
(* The invariant about the rules.                                           *)

AdminFields == {"pc", "then", "op", "rule", "new", "read", "version"}

\* What several changes of a record come to.
LEMMA TwoChanges ==
    ASSUME NEW F, NEW is, is = [f \in F |-> is[f]], NEW g \in F, NEW h \in F, NEW v, NEW w
    PROVE  [is EXCEPT ![g] = v, ![h] = w]
             = [f \in F |-> IF f = h THEN w ELSE IF f = g THEN v ELSE is[f]]
OBVIOUS

LEMMA ThreeChanges ==
    ASSUME NEW F, NEW is, is = [f \in F |-> is[f]], NEW g \in F, NEW h \in F, NEW i \in F,
           NEW v, NEW w, NEW x
    PROVE  [is EXCEPT ![g] = v, ![h] = w, ![i] = x]
             = [f \in F |-> IF f = i THEN x ELSE IF f = h THEN w ELSE IF f = g THEN v ELSE is[f]]
OBVIOUS

LEMMA FourChanges ==
    ASSUME NEW F, NEW is, is = [f \in F |-> is[f]], NEW g \in F, NEW h \in F, NEW i \in F,
           NEW j \in F, NEW v, NEW w, NEW x, NEW y
    PROVE  [is EXCEPT ![g] = v, ![h] = w, ![i] = x, ![j] = y]
             = [f \in F |-> IF f = j THEN y ELSE IF f = i THEN x ELSE IF f = h THEN w
                            ELSE IF f = g THEN v ELSE is[f]]
OBVIOUS

FileInv ==
    /\ files = [main |-> files.main, vendor |-> files.vendor, time |-> files.time,
                state |-> files.state]
    /\ files.state \in {"whole", "cut", "bad"}
    /\ files.time \in Nat /\ Sound(files.main) /\ Sound(files.vendor)
    /\ cache.time \in Nat /\ cache.time <= files.time /\ Sound(cache.rules)

Entries == [rule : RuleIds, version : Nat \ {0}, new : Rules]

AuditInv == audit \in Seq(Entries) /\ \A k \in DOMAIN audit : Allowed(audit[k].new)

\* Where a request has not decided yet, and where it has.
Asking(is) == \/ is.pc \in {"look", "decide"}
              \/ is.pc \in {"vendor", "loaded"} /\ is.then = "decide"
Saving(is) == \/ is.pc \in {"compose", "open", "write", "reread", "number", "record"}
              \/ is.pc \in {"vendor", "loaded"} /\ is.then = "number"

\* A request to approve a rule has approved it; what a request saves is allowed.
GoodRequest(is) ==
    /\ is = [f \in AdminFields |-> is[f]]
    /\ is.new \in Rules \cup {NoRule}
    /\ is.rule \in RuleIds
    /\ is.pc \in {"vendor", "loaded"} => is.then \in {"decide", "number"}
    /\ is.pc \in {"vendor", "loaded", "open", "write"} => Sound(is.read)
    /\ Asking(is) =>
          \/ /\ is.op \in {"created", "updated"} /\ is.new \in Rules
             /\ is.new.status = "pending" /\ is.new.id = is.rule
          \/ is.op = "disabled"
          \/ is.op = "approved" /\ is.rule \in approved
    /\ Saving(is) => Allowed(is.new)
    /\ is.pc = "record" => is.version \in Nat \ {0}

RequestsInv ==
    /\ admins = [a \in Admins |-> admins[a]]
    /\ \A a \in Admins : GoodRequest(admins[a])

\* The row of an unknown event whose total is that of its severities.
Agrees(row) ==
    /\ row = [count |-> row.count, by |-> row.by]
    /\ row.by \in [Severities -> Nat] /\ row.count = SumFunction(row.by)

\* A pipeline takes sound rules in, the rule it has found was approved, and the
\* row it has read agrees.
GoodPipe(is) ==
    /\ is.pc # "idle" => is.line \in Lines
    /\ is.pc \in {"vendor", "loaded"} => Sound(is.read)
    /\ is.known => is.rule \in approved
    /\ is.pc = "count" => Agrees(is.seen)

PipesInv == \A p \in Pipes : GoodPipe(pipes[p])

CountsInv ==
    /\ unknown = [s \in Signatures |-> unknown[s]]
    /\ \A s \in Signatures : Agrees(unknown[s])
    /\ queue \in Seq(Lines)

RulesInv == FileInv /\ AuditInv /\ RequestsInv /\ PipesInv

LEMMA ApprovedApply == RulesInv => UnapprovedIsUnused
BY DEF RulesInv, PipesInv, GoodPipe, UnapprovedIsUnused

\* What can be read of the file is sound, or an error.
LEMMA ReadingsAreSound ==
    ASSUME FileInv, RequestsInv, NEW rules \in Readings, rules # Garbled
    PROVE  Sound(rules)
<1>1. CASE files.state = "whole"
    BY <1>1 DEF FileInv, Readings
<1>2. CASE files.state = "bad"
    BY <1>2 DEF Readings
<1>3. CASE files.state = "cut"
    <2>1. \/ rules = <<>>
          \/ \E a \in Admins : admins[a].pc = "write" /\ rules \in Beginnings(admins[a].read)
        BY <1>3 DEF Readings
    <2>2. ASSUME NEW a \in Admins, admins[a].pc = "write", rules \in Beginnings(admins[a].read)
          PROVE  Sound(rules)
        <3>1. Sound(admins[a].read)
            BY <2>2 DEF RequestsInv, GoodRequest
        <3>2. QED
            BY <2>2, <3>1, BeginningsAreSound
    <2>3. QED
        BY <2>1, <2>2, NothingIsSound
<1>4. CASE files.state \notin {"whole", "bad", "cut"}
    BY <1>4 DEF FileInv
<1>5. QED
    BY <1>1, <1>2, <1>3, <1>4

LEMMA IdleIsGood == GoodRequest(IdleAdmin) /\ GoodPipe(IdlePipe)
<1>1. (CHOOSE r \in RuleIds : TRUE) \in RuleIds
    BY KnowledgeAssumption
<1>2. GoodRequest(IdleAdmin)
    BY <1>1 DEF GoodRequest, IdleAdmin, AdminFields, Asking, Saving
<1>3. GoodPipe(IdlePipe)
    BY DEF GoodPipe, IdlePipe
<1>4. QED
    BY <1>2, <1>3

\* A rule once approved stays so.
LEMMA ApprovedGrows ==
    ASSUME approved \subseteq approved'
    PROVE  /\ \A new : Allowed(new) => Allowed(new)'
           /\ \A rules : Sound(rules) => Sound(rules)'
           /\ \A is : GoodRequest(is) => GoodRequest(is)'
           /\ \A is : GoodPipe(is) => GoodPipe(is)'
<1>1. \A new : Allowed(new) => Allowed(new)'
    BY DEF Allowed
<1>2. \A rules : Sound(rules) => Sound(rules)'
    BY <1>1 DEF Sound
<1>3. \A is : GoodRequest(is) => GoodRequest(is)'
    BY <1>1, <1>2 DEF GoodRequest, Asking, Saving
<1>4. \A is : GoodPipe(is) => GoodPipe(is)'
    BY <1>2 DEF GoodPipe
<1>5. QED
    BY <1>1, <1>2, <1>3, <1>4

LEMMA SameFile ==
    ASSUME FileInv, approved \subseteq approved', UNCHANGED <<files, cache>>
    PROVE  FileInv'
<1>1. Sound(files.main)' /\ Sound(files.vendor)' /\ Sound(cache.rules)'
    <2>1. PICK m, v, c : m = files.main /\ v = files.vendor /\ c = cache.rules
        OBVIOUS
    <2>2. Sound(m)' /\ Sound(v)' /\ Sound(c)'
        BY <2>1, ApprovedGrows DEF FileInv
    <2>3. QED
        BY <2>1, <2>2
<1>2. QED
    BY <1>1 DEF FileInv

LEMMA SameAudit ==
    ASSUME AuditInv, approved \subseteq approved', UNCHANGED audit
    PROVE  AuditInv'
BY ApprovedGrows DEF AuditInv, Allowed

LEMMA SameRequests ==
    ASSUME RequestsInv, approved \subseteq approved', UNCHANGED admins
    PROVE  RequestsInv'
<1>1. ASSUME NEW a \in Admins
      PROVE  GoodRequest(admins[a])'
    <2>1. PICK is : is = admins[a] /\ GoodRequest(is)
        BY DEF RequestsInv
    <2>2. GoodRequest(is)'
        BY <2>1, ApprovedGrows
    <2>3. QED
        BY <2>1, <2>2
<1>2. QED
    BY <1>1 DEF RequestsInv

LEMMA SamePipes ==
    ASSUME PipesInv, approved \subseteq approved', UNCHANGED pipes
    PROVE  PipesInv'
<1>1. ASSUME NEW p \in Pipes
      PROVE  GoodPipe(pipes[p])'
    <2>1. PICK is : is = pipes[p] /\ GoodPipe(is)
        BY DEF PipesInv
    <2>2. GoodPipe(is)'
        BY <2>1, ApprovedGrows
    <2>3. QED
        BY <2>1, <2>2
<1>2. QED
    BY <1>1 DEF PipesInv

\* One request moves on.
LEMMA RequestMoves ==
    ASSUME RequestsInv, approved \subseteq approved', NEW a \in Admins,
           NEW now, GoodRequest(now)', Become(a, now)
    PROVE  RequestsInv'
<1>1. admins' = [b \in Admins |-> IF b = a THEN now ELSE admins[b]]
    BY DEF Become, RequestsInv
<1>2. ASSUME NEW b \in Admins, b # a
      PROVE  GoodRequest(admins[b])'
    <2>1. PICK is : is = admins[b] /\ GoodRequest(is)
        BY DEF RequestsInv
    <2>2. GoodRequest(is)' /\ admins'[b] = is
        BY <1>1, <1>2, <2>1, ApprovedGrows
    <2>3. QED
        BY <2>2
<1>3. QED
    BY <1>1, <1>2 DEF RequestsInv

\* One pipeline moves on.
LEMMA PipeMoves ==
    ASSUME PlansInv, PipesInv, approved \subseteq approved', NEW p \in Pipes,
           NEW now, GoodPipe(now)', Go(p, now)
    PROVE  PipesInv'
<1>1. pipes' = [q \in Pipes |-> IF q = p THEN now ELSE pipes[q]]
    BY DEF Go, PlansInv
<1>2. ASSUME NEW q \in Pipes, q # p
      PROVE  GoodPipe(pipes[q])'
    <2>1. PICK is : is = pipes[q] /\ GoodPipe(is)
        BY DEF PipesInv
    <2>2. GoodPipe(is)' /\ pipes'[q] = is
        BY <1>1, <1>2, <2>1, ApprovedGrows
    <2>3. QED
        BY <2>2
<1>3. QED
    BY <1>1, <1>2 DEF PipesInv

\* rules.yaml is written by a request or by hand.
LEMMA WriteKeeps ==
    ASSUME FileInv, NEW rules, Sound(rules), NEW state \in {"whole", "cut", "bad"},
           Written(rules, state), UNCHANGED <<cache, approved>>
    PROVE  FileInv'
<1>1. files' = [main |-> rules, vendor |-> files.vendor, time |-> files.time + 1, state |-> state]
    BY DEF Written, FileInv
<1>2. approved \subseteq approved'
    OBVIOUS
<1>3. Sound(rules)'
    BY <1>2, ApprovedGrows
<1>4. Sound(files.vendor)' /\ Sound(cache.rules)'
    <2>1. PICK v, c : v = files.vendor /\ c = cache.rules /\ Sound(v) /\ Sound(c)
        BY DEF FileInv
    <2>2. Sound(v)' /\ Sound(c)'
        BY <1>2, <2>1, ApprovedGrows
    <2>3. QED
        BY <1>1, <2>1, <2>2
<1>5. QED
    BY <1>1, <1>3, <1>4 DEF FileInv

\* The copy is taken from what was read.
LEMMA PublishKeeps ==
    ASSUME FileInv, NEW rules, Sound(rules), Publish(rules), UNCHANGED <<files, approved>>
    PROVE  FileInv'
BY DEF FileInv, Publish, Sound, Allowed

\* What a request makes of the rule of the copy is allowed to it.
LEMMA DecideAllowed ==
    ASSUME RulesInv, NEW a \in Admins, Decide(a)
    PROVE  \E now : Become(a, now) /\ GoodRequest(now)
<1> DEFINE is  == admins[a]
           old == Find(is.rule)
<1>1. is.pc = "decide" /\ GoodRequest(is)
    BY DEF Decide, RulesInv, RequestsInv
<1>2. old # NoRule => Allowed(old) /\ old.id = is.rule
    BY FindIsAllowed DEF RulesInv, FileInv
<1> HIDE DEF old
<1>4. CASE Become(a, IdleAdmin)
    BY <1>4, IdleIsGood
<1>5. CASE ~Become(a, IdleAdmin)
    <2> DEFINE new == CASE is.op = "created" -> is.new
                        [] is.op = "updated" -> [is.new EXCEPT !.status = old.status]
                        [] OTHER             -> [old EXCEPT !.status = is.op]
               now == [is EXCEPT !.pc = "compose", !.new = new]
    <2>1. (is.op = "created") = (old = NoRule)
        BY <1>5 DEF Decide, old
    <2>2. Become(a, now)
        BY <1>5 DEF Decide, old
    <2>3. \/ /\ is.op \in {"created", "updated"} /\ is.new \in Rules
             /\ is.new.status = "pending" /\ is.new.id = is.rule
          \/ is.op = "disabled"
          \/ is.op = "approved" /\ is.rule \in approved
        BY <1>1 DEF GoodRequest, Asking
    <2>4. Allowed(new)
        <3>1. CASE is.op = "created"
            BY <2>3, <3>1 DEF Allowed
        <3>2. CASE is.op = "updated"
            <4>1. Allowed(old) /\ old \in Rules /\ old.id = is.rule /\ is.new \in Rules
                BY <1>2, <2>1, <2>3, <3>2 DEF Allowed
            <4>2. /\ [is.new EXCEPT !.status = old.status] \in Rules
                  /\ [is.new EXCEPT !.status = old.status].status = old.status
                  /\ [is.new EXCEPT !.status = old.status].id = is.rule
                BY <2>3, <3>2, <4>1 DEF Rules
            <4>3. QED
                BY <3>2, <4>1, <4>2 DEF Allowed
        <3>3. CASE is.op \in {"approved", "disabled"}
            <4>1. old \in Rules /\ old.id = is.rule
                BY <1>2, <2>1, <3>3 DEF Allowed
            <4>2. /\ [old EXCEPT !.status = is.op] \in Rules
                  /\ [old EXCEPT !.status = is.op].status = is.op
                  /\ [old EXCEPT !.status = is.op].id = is.rule
                BY <3>3, <4>1 DEF Rules, Statuses
            <4>3. QED
                BY <2>3, <3>3, <4>2 DEF Allowed
        <3>4. QED
            BY <2>3, <3>1, <3>2, <3>3
    <2> HIDE DEF new
    <2>5. now = [f \in AdminFields |-> IF f = "new" THEN new ELSE IF f = "pc" THEN "compose"
                                       ELSE is[f]]
        BY <1>1, TwoChanges DEF AdminFields, GoodRequest
    <2>6. /\ now.pc = "compose" /\ now.new = new /\ now.rule = is.rule
          /\ now = [f \in AdminFields |-> now[f]]
        BY <2>5 DEF AdminFields
    <2> HIDE DEF now
    <2>7. GoodRequest(now)
        BY <1>1, <2>4, <2>6 DEF GoodRequest, Asking, Saving, Allowed
    <2>8. QED
        BY <2>2, <2>7
<1>6. QED
    BY <1>4, <1>5

\* The version that is found is one.
LEMMA NextIsVersion ==
    ASSUME AuditInv, NEW r \in RuleIds
    PROVE  NextVersion(r) \in Nat \ {0}
<1>1. /\ audit \in Seq(Entries) /\ Len(audit) \in Nat /\ DOMAIN audit = 1..Len(audit)
      /\ \A k \in DOMAIN audit : audit[k].version \in Nat
    <2>1. audit \in Seq(Entries)
        BY DEF AuditInv
    <2>2. \A k \in DOMAIN audit : audit[k] \in Entries
        BY <2>1
    <2>3. QED
        BY <2>1, <2>2 DEF Entries
<1>2. Records(r) \in SUBSET (1..Len(audit)) /\ \A k \in Records(r) : audit[k].version \in Nat
    BY <1>1 DEF Records
<1>3. CASE Versions(r) = {}
    BY <1>3 DEF NextVersion
<1>4. CASE Versions(r) # {}
    <2> DEFINE f == [k \in Records(r) |-> audit[k].version]
    <2>1. Records(r) # {} /\ IsFiniteSet(Records(r))
        BY <1>1, <1>2, <1>4, PlacesAreFinite DEF Versions
    <2>2. f \in [Records(r) -> Nat]
        BY <1>2
    <2>3. PICK g \in Records(r) : \A k \in Records(r) : f[k] <= f[g]
        <3> HIDE DEF f
        <3> QED
            BY <2>1, <2>2, HighestOf
    <2>4. /\ audit[g].version \in Versions(r) /\ Versions(r) \subseteq Nat
          /\ \A w \in Versions(r) : w <= audit[g].version
        BY <1>2, <2>3 DEF Versions
    <2>5. \E v \in Versions(r) : \A w \in Versions(r) : w <= v
        BY <2>4
    <2> DEFINE top == CHOOSE v \in Versions(r) : \A w \in Versions(r) : w <= v
    <2>6. top \in Versions(r)
        BY <2>5
    <2>7. NextVersion(r) = 1 + top
        BY <1>4 DEF NextVersion
    <2> HIDE DEF top
    <2>8. QED
        BY <2>4, <2>6, <2>7
<1>5. QED
    BY <1>3, <1>4

\* What a request saves was allowed to it, what it reads and publishes is sound.
LEMMA RequestRules ==
    ASSUME RulesInv, NEW a \in Admins, AdminStep(a), UNCHANGED <<approved, pipes>>
    PROVE  RulesInv'
<1> DEFINE is == admins[a]
<1>1. /\ FileInv /\ AuditInv /\ RequestsInv /\ PipesInv /\ GoodRequest(is)
      /\ approved \subseteq approved'
    BY DEF RulesInv, RequestsInv
<1>2. PipesInv'
    BY <1>1, SamePipes
<1>3. is = [f \in AdminFields |-> is[f]] /\ is.rule \in RuleIds
    BY <1>1 DEF GoodRequest
<1>4. \A now : GoodRequest(now) => GoodRequest(now)'
    BY <1>1, ApprovedGrows
<1>5. ASSUME NEW now, GoodRequest(now), Become(a, now)
      PROVE  RequestsInv'
    BY <1>1, <1>4, <1>5, RequestMoves
<1>6. GoodRequest(IdleAdmin)
    BY IdleIsGood
<1>7. UNCHANGED <<files, cache>> => FileInv'
    BY <1>1, SameFile
<1>8. UNCHANGED audit => AuditInv'
    BY <1>1, SameAudit
<1>9. ASSUME NEW pc, NEW rules, Sound(rules),
             \/ pc = "loaded" /\ is.pc = "vendor"
             \/ pc = "open" /\ is.pc = "compose"
      PROVE  GoodRequest([is EXCEPT !.pc = pc, !.read = rules])
    <2> DEFINE now == [is EXCEPT !.pc = pc, !.read = rules]
    <2>1. now = [f \in AdminFields |-> IF f = "read" THEN rules ELSE IF f = "pc" THEN pc
                                       ELSE is[f]]
        BY <1>3, TwoChanges DEF AdminFields
    <2>2. /\ now.pc = pc /\ now.read = rules /\ now.op = is.op /\ now.rule = is.rule
          /\ now.new = is.new /\ now.then = is.then
          /\ now = [f \in AdminFields |-> now[f]]
        BY <2>1 DEF AdminFields
    <2> HIDE DEF now
    <2>3. GoodRequest(now)
        BY <1>1, <1>9, <2>2 DEF GoodRequest, Asking, Saving
    <2>4. QED
        BY <2>3 DEF now
<1>10. ASSUME NEW then, Load(a, then), \/ then = "decide" /\ is.pc = "look"
                                       \/ then = "number" /\ is.pc = "reread"
       PROVE  RequestsInv'
    <2>1. PICK rules \in Readings :
              \/ Become(a, IdleAdmin)
              \/ /\ rules # Garbled
                 /\ Become(a, [is EXCEPT !.pc = "vendor", !.then = then, !.read = rules])
        BY <1>10 DEF Load
    <2>2. ASSUME rules # Garbled
          PROVE  GoodRequest([is EXCEPT !.pc = "vendor", !.then = then, !.read = rules])
        <3> DEFINE now == [is EXCEPT !.pc = "vendor", !.then = then, !.read = rules]
        <3>1. now = [f \in AdminFields |-> IF f = "read" THEN rules ELSE IF f = "then" THEN then
                              ELSE IF f = "pc" THEN "vendor" ELSE is[f]]
            BY <1>3, ThreeChanges DEF AdminFields
        <3>2. /\ now.pc = "vendor" /\ now.read = rules /\ now.op = is.op /\ now.rule = is.rule
              /\ now.new = is.new /\ now.then = then
              /\ now = [f \in AdminFields |-> now[f]]
            BY <3>1 DEF AdminFields
        <3> HIDE DEF now
        <3>3. Sound(rules)
            BY <1>1, <2>2, ReadingsAreSound
        <3>4. GoodRequest(now)
            BY <1>1, <1>10, <3>2, <3>3 DEF GoodRequest, Asking, Saving
        <3>5. QED
            BY <3>4 DEF now
    <2>3. QED
        BY <1>5, <1>6, <2>1, <2>2
<1>11. CASE Look(a)
    <2>1. is.pc = "look" /\ UNCHANGED <<files, cache, audit>>
        BY <1>11 DEF Look
    <2>2. CASE Load(a, "decide")
        BY <1>2, <1>7, <1>8, <1>10, <2>1, <2>2 DEF RulesInv
    <2>3. CASE Become(a, [is EXCEPT !.pc = "decide"])
        <3>1. GoodRequest([is EXCEPT !.pc = "decide"])
            BY <1>1, <1>3, <2>1 DEF GoodRequest, AdminFields, Asking, Saving
        <3>2. QED
            BY <1>2, <1>5, <1>7, <1>8, <2>1, <2>3, <3>1 DEF RulesInv
    <2>4. QED
        BY <1>11, <2>2, <2>3 DEF Look
<1>12. CASE LoadVendor(a)
    <2>1. /\ is.pc = "vendor" /\ UNCHANGED <<files, cache, audit>>
          /\ Become(a, [is EXCEPT !.pc = "loaded", !.read = is.read \o files.vendor])
        BY <1>12 DEF LoadVendor
    <2>2. Sound(is.read \o files.vendor)
        BY <1>1, <2>1, SoundJoined DEF GoodRequest, FileInv
    <2>3. GoodRequest([is EXCEPT !.pc = "loaded", !.read = is.read \o files.vendor])
        BY <1>9, <2>1, <2>2
    <2>4. QED
        BY <1>2, <1>5, <1>7, <1>8, <2>1, <2>3 DEF RulesInv
<1>13. CASE Reload(a)
    <2> DEFINE now == [is EXCEPT !.pc = is.then, !.then = "idle", !.read = <<>>]
    <2>1. /\ is.pc = "loaded" /\ UNCHANGED <<files, audit>> /\ Publish(is.read) /\ Become(a, now)
        BY <1>13 DEF Reload
    <2>2. now = [f \in AdminFields |-> IF f = "read" THEN <<>> ELSE IF f = "then" THEN "idle"
                          ELSE IF f = "pc" THEN is.then ELSE is[f]]
        BY <1>3, ThreeChanges DEF AdminFields
    <2>3. /\ now.pc = is.then /\ now.op = is.op /\ now.rule = is.rule /\ now.new = is.new
          /\ now = [f \in AdminFields |-> now[f]]
        BY <2>2 DEF AdminFields
    <2> HIDE DEF now
    <2>4. GoodRequest(now)
        BY <1>1, <2>1, <2>3 DEF GoodRequest, Asking, Saving
    <2>5. Sound(is.read)
        BY <1>1, <2>1 DEF GoodRequest
    <2>6. FileInv'
        BY <1>1, <2>1, <2>5, PublishKeeps
    <2>7. QED
        BY <1>2, <1>5, <1>8, <2>1, <2>4, <2>6 DEF RulesInv
<1>14. CASE Decide(a)
    <2>1. UNCHANGED <<files, cache, audit>>
        BY <1>14 DEF Decide
    <2>2. RequestsInv'
        BY <1>5, <1>14, DecideAllowed
    <2>3. QED
        BY <1>2, <1>7, <1>8, <2>1, <2>2 DEF RulesInv
<1>15. CASE Compose(a)
    <2> DEFINE rules == Append(Others(is.rule), is.new)
    <2>1. /\ is.pc = "compose" /\ UNCHANGED <<files, cache, audit>>
          /\ Become(a, [is EXCEPT !.pc = "open", !.read = rules])
        BY <1>15 DEF Compose
    <2>2. Sound(rules)
        BY <1>1, <2>1, OthersAreSound, SoundAppended DEF FileInv, GoodRequest, Saving
    <2> HIDE DEF rules
    <2>3. GoodRequest([is EXCEPT !.pc = "open", !.read = rules])
        BY <1>9, <2>1, <2>2
    <2>4. QED
        BY <1>2, <1>5, <1>7, <1>8, <2>1, <2>3 DEF RulesInv
<1>16. CASE OpenFile(a)
    <2>1. /\ is.pc = "open" /\ UNCHANGED <<cache, audit>> /\ Written(<<>>, "cut")
          /\ Become(a, [is EXCEPT !.pc = "write"])
        BY <1>16 DEF OpenFile
    <2>2. GoodRequest([is EXCEPT !.pc = "write"])
        BY <1>1, <1>3, <2>1 DEF GoodRequest, AdminFields, Asking, Saving
    <2>3. FileInv'
        BY <1>1, <2>1, NothingIsSound, WriteKeeps
    <2>4. QED
        BY <1>2, <1>5, <1>8, <2>1, <2>2, <2>3 DEF RulesInv
<1>17. CASE CloseFile(a)
    <2>1. /\ is.pc = "write" /\ UNCHANGED <<cache, audit>>
          /\ Written(is.read, "whole") \/ Written(<<>>, "bad")
          /\ Become(a, [is EXCEPT !.pc = "reread"])
        BY <1>17 DEF CloseFile
    <2>2. GoodRequest([is EXCEPT !.pc = "reread"])
        BY <1>1, <1>3, <2>1 DEF GoodRequest, AdminFields, Asking, Saving
    <2>3. Sound(is.read)
        BY <1>1, <2>1 DEF GoodRequest
    <2>4. FileInv'
        BY <1>1, <2>1, <2>3, NothingIsSound, WriteKeeps
    <2>5. QED
        BY <1>2, <1>5, <1>8, <2>1, <2>2, <2>4 DEF RulesInv
<1>18. CASE Reread(a)
    <2>1. is.pc = "reread" /\ Load(a, "number") /\ UNCHANGED <<files, cache, audit>>
        BY <1>18 DEF Reread
    <2>2. QED
        BY <1>2, <1>7, <1>8, <1>10, <2>1 DEF RulesInv
<1>19. CASE Number(a)
    <2> DEFINE version == NextVersion(is.rule)
               now     == [is EXCEPT !.pc = "record", !.version = version]
    <2>1. is.pc = "number" /\ UNCHANGED <<files, cache, audit>> /\ Become(a, now)
        BY <1>19 DEF Number
    <2>2. version \in Nat \ {0}
        BY <1>1, <1>3, NextIsVersion
    <2> HIDE DEF version
    <2>3. now = [f \in AdminFields |-> IF f = "version" THEN version
                                       ELSE IF f = "pc" THEN "record" ELSE is[f]]
        BY <1>3, TwoChanges DEF AdminFields
    <2>4. /\ now.pc = "record" /\ now.rule = is.rule /\ now.new = is.new /\ now.version = version
          /\ now = [f \in AdminFields |-> now[f]]
        BY <2>3 DEF AdminFields
    <2> HIDE DEF now
    <2>5. GoodRequest(now)
        BY <1>1, <2>1, <2>2, <2>4 DEF GoodRequest, Asking, Saving
    <2>6. QED
        BY <1>2, <1>5, <1>7, <1>8, <2>1, <2>5 DEF RulesInv
<1>20. CASE Record(a)
    <2> DEFINE e == [rule |-> is.rule, version |-> is.version, new |-> is.new]
    <2>1. /\ is.pc = "record" /\ UNCHANGED <<files, cache>> /\ Become(a, IdleAdmin)
          /\ audit' = Append(audit, e)
        BY <1>20 DEF Record
    <2>2. is.version \in Nat \ {0} /\ Allowed(is.new)
        BY <1>1, <2>1 DEF GoodRequest, Saving
    <2>3. e \in Entries /\ Allowed(e.new)
        BY <1>3, <2>2 DEF Entries, Allowed
    <2> HIDE DEF e
    <2>4. /\ audit' \in Seq(Entries) /\ DOMAIN audit' = 1..(Len(audit) + 1) /\ Len(audit) \in Nat
          /\ \A k \in 1..Len(audit) : audit'[k] = audit[k] /\ k \in DOMAIN audit
          /\ audit'[Len(audit) + 1] = e
        BY <1>1, <2>1, <2>3 DEF AuditInv
    <2>5. \A k \in 1..(Len(audit) + 1) : Allowed(audit'[k].new)
        BY <1>1, <2>3, <2>4 DEF AuditInv
    <2>6. AuditInv'
        BY <2>4, <2>5 DEF AuditInv, Allowed
    <2>7. QED
        BY <1>2, <1>5, <1>6, <1>7, <2>1, <2>6 DEF RulesInv
<1>21. QED
    BY <1>11, <1>12, <1>13, <1>14, <1>15, <1>16, <1>17, <1>18, <1>19, <1>20 DEF AdminStep

-----------------------------------------------------------------------------
(* The unknown events, and what the pipelines make of a line.               *)

LEMMA FiniteSeverities == IsFiniteSet(Severities)
<1>1. IsFiniteSet(0..7)
    <2>1. 0 \in Int /\ 7 \in Int
        OBVIOUS
    <2>2. QED
        BY ONLY <2>1, FS_Interval
<1>2. QED
    BY <1>1, FS_Subset, ServicesAssumption

LEMMA UnseenAgrees == Agrees(Unseen)
<1> DEFINE zero == [v \in Severities |-> 0]
<1>1. PICK h : IsSum(h, zero, Severities) /\ SumFunction(zero) = h[Severities]
    BY FiniteSeverities, SumFunctionIsSum
<1>2. h[Severities] = 0
    BY <1>1, FiniteSeverities, SumOfNothing
<1>3. QED
    BY <1>1, <1>2 DEF Agrees, Unseen

\* One more in one severity and in the total.
LEMMA OneMoreAgrees ==
    ASSUME NEW row, Agrees(row), NEW v \in Severities
    PROVE  Agrees([count |-> row.count + 1, by |-> [row.by EXCEPT ![v] = @ + 1]])
<1> DEFINE more == [row.by EXCEPT ![v] = @ + 1]
<1>1. row.by \in [Severities -> Nat] /\ row.count = SumFunction(row.by)
    BY DEF Agrees
<1>2. more \in [Severities -> Nat]
    BY <1>1
<1>3. PICK h : IsSum(h, row.by, Severities) /\ SumFunction(row.by) = h[Severities]
    BY <1>1, FiniteSeverities, SumFunctionIsSum
<1>4. PICK g : IsSum(g, more, Severities) /\ SumFunction(more) = g[Severities]
    <2> HIDE DEF more
    <2>1. DOMAIN more = Severities
        BY <1>2
    <2>2. QED
        BY <2>1, FiniteSeverities, SumFunctionIsSum
<1>5. g[Severities] = h[Severities] + 1
    BY <1>1, <1>3, <1>4, FiniteSeverities, SumOfOneMore
<1>6. SumFunction(more) = row.count + 1
    BY <1>1, <1>3, <1>4, <1>5
<1> HIDE DEF more
<1>7. QED
    BY <1>2, <1>6 DEF Agrees, more

LEMMA CountedAgrees == CountsInv => CountsAgree
BY DEF CountsInv, Agrees, CountsAgree

\* A pipeline is a record of its fields.
LEMMA PipeRecord ==
    ASSUME PlansInv, NEW p \in Pipes
    PROVE  pipes[p] = [f \in PipeFields |-> pipes[p][f]]
BY DEF PlansInv, PipeShape

LEMMA BeginRules ==
    ASSUME PlansInv, RulesInv, NEW p \in Pipes, NEW line \in Lines, Begin(p, line),
           UNCHANGED approved
    PROVE  PipesInv'
<1> DEFINE at == [IdlePipe EXCEPT !.line = line]
<1>1. \A now : GoodPipe(now) => GoodPipe(now)'
    BY ApprovedGrows
<1>2. ASSUME NEW now, GoodPipe(now), Go(p, now)
      PROVE  PipesInv'
    BY <1>1, <1>2, PipeMoves DEF RulesInv
<1>3. IdlePipe = [f \in PipeFields |-> IdlePipe[f]] /\ IdlePipe.known = FALSE
    BY DEF IdlePipe, PipeFields
<1>4. at = [f \in PipeFields |-> at[f]] /\ at.known = FALSE /\ at.line = line
    <2> HIDE DEF IdlePipe
    <2> QED
        BY <1>3 DEF PipeFields
<1> HIDE DEF at
<1>5. GoodPipe([at EXCEPT !.pc = "matching"])
    BY <1>4 DEF GoodPipe, PipeFields
<1>6. ASSUME NEW rules \in Readings, rules # Garbled
      PROVE  GoodPipe([at EXCEPT !.pc = "vendor", !.read = rules])
    <2> DEFINE now == [at EXCEPT !.pc = "vendor", !.read = rules]
    <2>1. now = [f \in PipeFields |-> IF f = "read" THEN rules ELSE IF f = "pc" THEN "vendor"
                                      ELSE at[f]]
        BY <1>4, TwoChanges DEF PipeFields
    <2>2. now.pc = "vendor" /\ now.read = rules /\ now.known = FALSE /\ now.line = line
        BY <1>4, <2>1 DEF PipeFields
    <2> HIDE DEF now
    <2>3. Sound(rules)
        BY <1>6, ReadingsAreSound DEF RulesInv
    <2>4. GoodPipe(now)
        BY <2>2, <2>3 DEF GoodPipe
    <2>5. QED
        BY <2>4 DEF now
<1>7. QED
    BY <1>2, <1>5, <1>6, IdleIsGood DEF Begin, Raise, at

\* The rule that decides about a line is one of the copy that applies.
LEMMA ChosenIsApproved ==
    ASSUME NEW line, Sound(cache.rules), Candidates(line) # {}
    PROVE  cache.rules[Chosen(Candidates(line))].id \in approved
<1> DEFINE places  == Candidates(line)
           weight  == [k \in places |-> cache.rules[k].body.weight]
           highest == {k \in places : \A j \in places :
                          cache.rules[j].body.weight <= cache.rules[k].body.weight}
<1>1. /\ cache.rules \in Seq(Rules) /\ Len(cache.rules) \in Nat
      /\ DOMAIN cache.rules = 1..Len(cache.rules)
    BY DEF Sound
<1>2. places \in SUBSET (1..Len(cache.rules))
    BY <1>1 DEF Candidates
<1>3. weight \in [places -> Nat]
    <2>1. \A k \in places : cache.rules[k] \in Rules
        BY <1>1, <1>2
    <2>2. \A k \in places : cache.rules[k].body.weight \in Nat
        BY <2>1, ServicesAssumption DEF Rules
    <2>3. QED
        BY <2>2
<1>4. \E g \in places : \A k \in places : weight[k] <= weight[g]
    <2> HIDE DEF weight, places
    <2>1. IsFiniteSet(places)
        BY <1>1, <1>2, PlacesAreFinite
    <2>2. places # {}
        BY DEF places
    <2>3. QED
        BY <1>3, <2>1, <2>2, HighestOf
<1>5. highest # {} /\ highest \in SUBSET (1..Len(cache.rules)) /\ Chosen(places) = FirstOf(highest)
    BY <1>2, <1>4 DEF Chosen
<1>6. Chosen(places) \in highest
    <2> HIDE DEF highest
    <2> QED
        BY <1>1, <1>5, FirstOfIsFirst
<1>7. Chosen(places) \in places
    BY <1>6
<1>8. Applies(cache.rules[Chosen(places)], line) /\ Chosen(places) \in DOMAIN cache.rules
    BY <1>7 DEF Candidates
<1>9. QED
    BY <1>8 DEF Applies, Sound, Allowed

\* The steps that change neither the rules, the record nor the requests.
LEMMA PipeRules ==
    ASSUME PlansInv, RulesInv, CountsInv, NEW p \in Pipes, PipeStep(p)
    PROVE  RulesInv' /\ CountsInv'
<1> DEFINE is == pipes[p]
<1>1. UNCHANGED <<approved, admins, audit, files>>
    BY DEF PipeStep, ReadVendor, ReloadRules, Match, FindUnknown, CountUnknown, Judge, ReadPlans, AskPlans,
           Store, Tell, Take, knowledgeVars
<1>2. FileInv /\ PipesInv /\ RequestsInv /\ AuditInv /\ GoodPipe(is)
    BY DEF RulesInv, PipesInv
<1>3. is = [f \in PipeFields |-> is[f]]
    BY PipeRecord
<1>4. RequestsInv' /\ AuditInv'
    BY <1>1, <1>2, SameRequests, SameAudit
<1>5. ASSUME NEW now, GoodPipe(now), Go(p, now)
      PROVE  PipesInv'
    <2>1. GoodPipe(now)'
        BY <1>1, <1>5, ApprovedGrows
    <2>2. QED
        BY <1>1, <1>2, <1>5, <2>1, PipeMoves
<1>6. UNCHANGED cache => FileInv'
    BY <1>1, <1>2, SameFile
<1>7. UNCHANGED <<unknown, queue>> => CountsInv'
    BY DEF CountsInv, Agrees
<1>8. Raise(p) \/ Go(p, Over(p)) => PipesInv'
    BY <1>5, IdleIsGood DEF Raise, Over
<1>9. ASSUME NEW pc, pc \notin {"idle", "vendor", "loaded", "count"}, is.pc # "idle"
      PROVE  GoodPipe([is EXCEPT !.pc = pc])
    BY <1>2, <1>3, <1>9 DEF GoodPipe, PipeFields
<1>9a. CASE ReadVendor(p)
    <2> DEFINE rules == is.read \o files.vendor
               now   == [is EXCEPT !.pc = "loaded", !.read = rules]
    <2>1. is.pc = "vendor" /\ Go(p, now) /\ UNCHANGED <<cache, unknown, queue>>
        BY <1>9a DEF ReadVendor, knowledgeVars
    <2>2. Sound(rules)
        BY <1>2, <2>1, SoundJoined DEF GoodPipe, FileInv
    <2> HIDE DEF rules
    <2>3. now = [f \in PipeFields |-> IF f = "read" THEN rules ELSE IF f = "pc" THEN "loaded"
                                      ELSE is[f]]
        BY <1>3, TwoChanges DEF PipeFields
    <2>4. /\ now.pc = "loaded" /\ now.read = rules /\ now.known = is.known /\ now.rule = is.rule
          /\ now.line = is.line
        BY <2>3 DEF PipeFields
    <2> HIDE DEF now
    <2>5. GoodPipe(now)
        BY <1>2, <2>1, <2>2, <2>4 DEF GoodPipe
    <2>6. QED
        BY <1>4, <1>5, <1>6, <1>7, <2>1, <2>5 DEF RulesInv
<1>10. CASE ReloadRules(p)
    <2> DEFINE now == [is EXCEPT !.pc = "matching", !.read = <<>>]
    <2>1. is.pc = "loaded" /\ Publish(is.read) /\ Go(p, now) /\ UNCHANGED <<unknown, queue>>
        BY <1>10 DEF ReloadRules
    <2>2. now = [f \in PipeFields |-> IF f = "read" THEN <<>> ELSE IF f = "pc" THEN "matching"
                                      ELSE is[f]]
        BY <1>3, TwoChanges DEF PipeFields
    <2>3. now.pc = "matching" /\ now.known = is.known /\ now.rule = is.rule /\ now.line = is.line
        BY <2>2 DEF PipeFields
    <2> HIDE DEF now
    <2>4. GoodPipe(now)
        BY <1>2, <2>1, <2>3 DEF GoodPipe
    <2>5. Sound(is.read)
        BY <1>2, <2>1 DEF GoodPipe
    <2>6. FileInv'
        BY <1>1, <1>2, <2>1, <2>5, PublishKeeps
    <2>7. QED
        BY <1>4, <1>5, <1>7, <2>1, <2>4, <2>6 DEF RulesInv
<1>11. CASE Match(p)
    <2>1. is.pc = "matching" /\ UNCHANGED <<cache, unknown, queue>>
        BY <1>11 DEF Match, knowledgeVars
    <2> DEFINE places == Candidates(is.line)
               rule   == cache.rules[Chosen(places)]
    <2>2. \/ Go(p, [is EXCEPT !.pc = "unknown"])
          \/ Raise(p)
          \/ places # {} /\ Go(p, [is EXCEPT !.pc = "log", !.known = TRUE, !.rule = rule.id,
                                             !.body = rule.body])
        BY <1>11 DEF Match
    <2>3. GoodPipe([is EXCEPT !.pc = "unknown"])
        BY <1>9, <2>1
    <2>4. ASSUME places # {}
          PROVE  GoodPipe([is EXCEPT !.pc = "log", !.known = TRUE, !.rule = rule.id,
                                     !.body = rule.body])
        <3> DEFINE body == rule.body
                   name == rule.id
                   now  == [is EXCEPT !.pc = "log", !.known = TRUE, !.rule = name, !.body = body]
        <3>0. name \in approved
            BY <1>2, <2>4, ChosenIsApproved DEF FileInv
        <3> HIDE DEF body, name
        <3>1. now = [f \in PipeFields |-> IF f = "body" THEN body ELSE IF f = "rule" THEN name
                              ELSE IF f = "known" THEN TRUE ELSE IF f = "pc" THEN "log"
                              ELSE is[f]]
            BY <1>3, FourChanges DEF PipeFields
        <3>2. now.pc = "log" /\ now.rule = name /\ now.line = is.line
            BY <3>1 DEF PipeFields
        <3> HIDE DEF now
        <3>4. GoodPipe(now)
            BY <1>2, <2>1, <3>0, <3>2 DEF GoodPipe
        <3>5. QED
            BY <3>4 DEF now, body, name
    <2> HIDE DEF places, rule
    <2>5. PipesInv'
        BY <1>5, <1>8, <2>2, <2>3, <2>4
    <2>6. QED
        BY <1>4, <1>6, <1>7, <2>1, <2>5 DEF RulesInv
<1>12. CASE FindUnknown(p)
    <2> DEFINE row == unknown[is.line.sig]
               now == [is EXCEPT !.pc = "count", !.seen = row]
    <2>1. is.pc = "unknown" /\ Go(p, now) /\ UNCHANGED <<cache, unknown, queue>>
        BY <1>12 DEF FindUnknown, knowledgeVars
    <2>2. is.line \in Lines /\ is.line.sig \in Signatures
        BY <1>2, <2>1 DEF GoodPipe, Signatures
    <2>3. Agrees(row)
        BY <2>2 DEF CountsInv
    <2> HIDE DEF row
    <2>4. now = [f \in PipeFields |-> IF f = "seen" THEN row ELSE IF f = "pc" THEN "count"
                                      ELSE is[f]]
        BY <1>3, TwoChanges DEF PipeFields
    <2>5. /\ now.pc = "count" /\ now.seen = row /\ now.known = is.known /\ now.rule = is.rule
          /\ now.line = is.line
        BY <2>4 DEF PipeFields
    <2> HIDE DEF now
    <2>6. GoodPipe(now)
        BY <1>2, <2>2, <2>3, <2>5 DEF GoodPipe
    <2>7. QED
        BY <1>4, <1>5, <1>6, <1>7, <2>1, <2>6 DEF RulesInv
<1>13. CASE CountUnknown(p)
    <2> DEFINE v   == is.line.severity
               row == [count |-> is.seen.count + 1, by |-> [is.seen.by EXCEPT ![v] = @ + 1]]
               now == [is EXCEPT !.pc = "log", !.seen = Unseen]
    <2>1. is.pc = "count" /\ UNCHANGED <<cache, queue>>
        BY <1>13 DEF CountUnknown, knowledgeVars
    <2>2. \/ Raise(p) /\ UNCHANGED unknown
          \/ unknown' = [unknown EXCEPT ![is.line.sig] = row] /\ Go(p, now)
        BY <1>13 DEF CountUnknown, CountedHere
    <2>3. is.line.sig \in Signatures /\ v \in Severities /\ Agrees(is.seen)
        BY <1>2, <2>1 DEF GoodPipe, Signatures, Severities
    <2>4. Agrees(row)
        BY <2>3, OneMoreAgrees
    <2> HIDE DEF row, v
    <2>5. unknown' = [unknown EXCEPT ![is.line.sig] = row] => CountsInv'
        <3> SUFFICES ASSUME unknown' = [unknown EXCEPT ![is.line.sig] = row]
                     PROVE  CountsInv'
            OBVIOUS
        <3>1. unknown' = [s \in Signatures |-> IF s = is.line.sig THEN row ELSE unknown[s]]
            BY DEF CountsInv
        <3>2. \A s \in Signatures : Agrees(unknown[s])
            BY DEF CountsInv
        <3>3. \A s \in Signatures : Agrees(unknown'[s])
            BY <2>4, <3>1, <3>2
        <3>4. QED
            BY <2>1, <3>1, <3>3 DEF CountsInv, Agrees
    <2>6. GoodPipe(now)
        <3>1. now = [f \in PipeFields |-> IF f = "seen" THEN Unseen ELSE IF f = "pc" THEN "log"
                                          ELSE is[f]]
            BY <1>3, TwoChanges DEF PipeFields
        <3>2. now.pc = "log" /\ now.known = is.known /\ now.rule = is.rule /\ now.line = is.line
            BY <3>1 DEF PipeFields
        <3> HIDE DEF now
        <3>3. QED
            BY <1>2, <2>1, <3>2 DEF GoodPipe
    <2>7. PipesInv' /\ CountsInv'
        BY <1>5, <1>7, <1>8, <2>1, <2>2, <2>5, <2>6
    <2>8. QED
        BY <1>4, <1>6, <2>1, <2>7 DEF RulesInv
<1>14. CASE Judge(p)
    <2>1. is.pc = "log" /\ UNCHANGED <<cache, unknown, queue>>
        BY <1>14 DEF Judge, knowledgeVars
    <2>2. \/ Go(p, Over(p))
          \/ \E pc \in {"plan", "plans"} : Go(p, [is EXCEPT !.pc = pc, !.time = planFile])
        BY <1>14 DEF Judge
    <2>3. ASSUME NEW pc \in {"plan", "plans"}
          PROVE  GoodPipe([is EXCEPT !.pc = pc, !.time = planFile])
        <3> DEFINE now == [is EXCEPT !.pc = pc, !.time = planFile]
        <3>1. now = [f \in PipeFields |-> IF f = "time" THEN planFile ELSE IF f = "pc" THEN pc
                                          ELSE is[f]]
            BY <1>3, TwoChanges DEF PipeFields
        <3>2. now.pc = pc /\ now.known = is.known /\ now.rule = is.rule /\ now.line = is.line
            BY <3>1 DEF PipeFields
        <3> HIDE DEF now
        <3>3. GoodPipe(now)
            BY <1>2, <2>1, <3>2 DEF GoodPipe
        <3>4. QED
            BY <3>3 DEF now
    <2>4. PipesInv'
        BY <1>5, <1>8, <2>2, <2>3
    <2>5. QED
        BY <1>4, <1>6, <1>7, <2>1, <2>4 DEF RulesInv
<1>15. CASE ReadPlans(p)
    <2>1. is.pc = "plans" /\ UNCHANGED <<cache, unknown, queue>>
        BY <1>15 DEF ReadPlans, knowledgeVars
    <2>2. Go(p, [is EXCEPT !.pc = "plan"])
        BY <1>15 DEF ReadPlans
    <2>3. QED
        BY <1>4, <1>5, <1>6, <1>7, <1>9, <2>1, <2>2 DEF RulesInv
<1>16. CASE AskPlans(p)
    <2>1. is.pc = "plan" /\ UNCHANGED <<cache, unknown, queue>>
        BY <1>16 DEF AskPlans, knowledgeVars
    <2>2. Raise(p) \/ Go(p, [is EXCEPT !.pc = "store"])
        BY <1>16 DEF AskPlans
    <2>3. QED
        BY <1>4, <1>5, <1>6, <1>7, <1>8, <1>9, <2>1, <2>2 DEF RulesInv
<1>17. CASE Store(p)
    <2>1. is.pc = "store" /\ UNCHANGED <<cache, unknown, queue>> /\ Go(p, [is EXCEPT !.pc = "tell"])
        BY <1>17 DEF Store, knowledgeVars
    <2>2. QED
        BY <1>4, <1>5, <1>6, <1>7, <1>9, <2>1 DEF RulesInv
<1>18. CASE Tell(p)
    <2>1. UNCHANGED <<cache, unknown, queue>>
        BY <1>18 DEF Tell, knowledgeVars
    <2>2. UNCHANGED pipes \/ Raise(p) \/ Go(p, Over(p))
        BY <1>18 DEF Tell
    <2>3. PipesInv'
        BY <1>1, <1>2, <1>8, <2>2, SamePipes
    <2>4. QED
        BY <1>4, <1>6, <1>7, <2>1, <2>3 DEF RulesInv
<1>19. CASE p = Consumer /\ Take
    <2>1. /\ queue # <<>> /\ queue' = Tail(queue) /\ Begin(Consumer, Head(queue))
          /\ UNCHANGED <<cache, unknown>>
        BY <1>19 DEF Take, knowledgeVars
    <2>2. Head(queue) \in Lines /\ Tail(queue) \in Seq(Lines)
        BY <2>1 DEF CountsInv
    <2>3. PipesInv'
        BY <1>1, <1>19, <2>1, <2>2, BeginRules
    <2>4. CountsInv'
        BY <2>1, <2>2 DEF CountsInv, Agrees
    <2>5. QED
        BY <1>4, <1>6, <2>1, <2>3, <2>4 DEF RulesInv
<1>20. QED
    BY <1>9a, <1>10, <1>11, <1>12, <1>13, <1>14, <1>15, <1>16, <1>17, <1>18, <1>19 DEF PipeStep

LEMMA FailedCallRules ==
    ASSUME PlansInv, RulesInv, CountsInv, NEW p \in Pipes, CallFails(p)
    PROVE  RulesInv' /\ CountsInv'
<1>1. UNCHANGED <<files, cache, admins, audit, approved, unknown, queue>> /\ Go(p, IdlePipe)
    BY DEF CallFails, Raise, knowledgeVars
<1>2. GoodPipe(IdlePipe)' /\ approved \subseteq approved'
    BY <1>1, IdleIsGood, ApprovedGrows
<1>3. PipesInv'
    <2>1. PICK idle : idle = IdlePipe /\ GoodPipe(idle)'
        BY <1>2 DEF IdlePipe, Unseen
    <2>2. QED
        BY <1>1, <1>2, <2>1, PipeMoves DEF RulesInv
<1>4. CountsInv'
    BY <1>1 DEF CountsInv, Agrees
<1>5. QED
    BY <1>1, <1>2, <1>3, <1>4, SameFile, SameAudit, SameRequests DEF RulesInv

-----------------------------------------------------------------------------
(* What happens from outside, a crash and a start.                          *)

\* The rule of a version was allowed when it was recorded.
LEMMA RecordedIsAllowed ==
    ASSUME AuditInv, NEW r, NEW version \in Versions(r)
    PROVE  Allowed(Recorded(r, version))
<1> DEFINE places == {k \in Records(r) : audit[k].version = version}
<1>1. Len(audit) \in Nat /\ DOMAIN audit = 1..Len(audit)
    BY DEF AuditInv
<1>2. places \in SUBSET (1..Len(audit)) /\ places # {}
    BY <1>1 DEF Versions, Records
<1>3. FirstOf(places) \in places
    <2> HIDE DEF places
    <2> QED
        BY <1>1, <1>2, FirstOfIsFirst
<1>4. FirstOf(places) \in DOMAIN audit
    BY <1>1, <1>2, <1>3
<1>5. Recorded(r, version) = audit[FirstOf(places)].new
    BY DEF Recorded
<1>6. QED
    BY <1>4, <1>5 DEF AuditInv

\* A request begins: it knows its rule, and one that approves has approved.
LEMMA AskRules ==
    ASSUME RulesInv, NEW a \in Admins, NEW op, NEW r \in RuleIds, NEW body \in Bodies,
           ChangeRule(a, op, r, body)
    PROVE  RulesInv'
<1> DEFINE is == admins[a]
<1>1. /\ FileInv /\ AuditInv /\ RequestsInv /\ PipesInv /\ GoodRequest(is)
    BY DEF RulesInv, RequestsInv
<1>2. /\ UNCHANGED <<files, cache, audit, pipes>> /\ approved \subseteq approved'
      /\ op = "approved" => r \in approved'
    BY DEF ChangeRule, Ask
<1>3. FileInv' /\ AuditInv' /\ PipesInv'
    BY <1>1, <1>2, SameFile, SameAudit, SamePipes
<1>4. is = [f \in AdminFields |-> is[f]]
    BY <1>1 DEF GoodRequest
<1> DEFINE me  == [is EXCEPT !.op = op, !.rule = r]
           new == [id |-> r, status |-> "pending", body |-> body]
<1>5. me = [f \in AdminFields |-> IF f = "rule" THEN r ELSE IF f = "op" THEN op ELSE is[f]]
    BY <1>4, TwoChanges DEF AdminFields
<1>6. /\ me = [f \in AdminFields |-> me[f]] /\ me.rule = r /\ me.op = op /\ me.new = is.new
    BY <1>5 DEF AdminFields
<1>7. ASSUME NEW now, GoodRequest(now)', Become(a, now)
      PROVE  RequestsInv'
    BY <1>1, <1>2, <1>7, RequestMoves
<1>8. \/ /\ op = "rolled_back"
         /\ \E version \in Versions(r) :
              Become(a, [me EXCEPT !.pc = "compose", !.new = Recorded(r, version)])
      \/ /\ op \in {"created", "updated"}
         /\ Become(a, [me EXCEPT !.pc = "look", !.new = new])
      \/ op \in {"approved", "disabled"} /\ Become(a, [me EXCEPT !.pc = "look"])
    BY DEF ChangeRule, Ask
<1> HIDE DEF me
<1>9. ASSUME NEW version \in Versions(r),
             Become(a, [me EXCEPT !.pc = "compose", !.new = Recorded(r, version)])
      PROVE  RequestsInv'
    <2>1. PICK now : now = [me EXCEPT !.pc = "compose", !.new = Recorded(r, version)]
        OBVIOUS
    <2>2. now = [f \in AdminFields |-> IF f = "new" THEN Recorded(r, version)
                          ELSE IF f = "pc" THEN "compose" ELSE me[f]]
        BY <1>6, <2>1, TwoChanges DEF AdminFields
    <2>3. /\ now.pc = "compose" /\ now.new = Recorded(r, version) /\ now.rule = r
          /\ now = [f \in AdminFields |-> now[f]]
        BY <1>6, <2>2 DEF AdminFields
    <2>4. Allowed(Recorded(r, version))
        BY <1>1, RecordedIsAllowed
    <2>5. Allowed(now.new)'
        BY <1>2, <2>3, <2>4 DEF Allowed
    <2>6. GoodRequest(now)'
        BY <2>3, <2>5 DEF GoodRequest, Asking, Saving, Allowed
    <2>7. QED
        BY <1>7, <1>9, <2>1, <2>6
<1>10. ASSUME op \in {"created", "updated"}, Become(a, [me EXCEPT !.pc = "look", !.new = new])
       PROVE  RequestsInv'
    <2>1. PICK now : now = [me EXCEPT !.pc = "look", !.new = new]
        OBVIOUS
    <2>2. new \in Rules /\ new.status = "pending" /\ new.id = r
        BY DEF Rules, Statuses
    <2> HIDE DEF new
    <2>3. now = [f \in AdminFields |-> IF f = "new" THEN new ELSE IF f = "pc" THEN "look" ELSE me[f]]
        BY <1>6, <2>1, TwoChanges DEF AdminFields
    <2>4. /\ now.pc = "look" /\ now.new = new /\ now.op = op /\ now.rule = r
          /\ now = [f \in AdminFields |-> now[f]]
        BY <1>6, <2>3 DEF AdminFields
    <2>5. GoodRequest(now)'
        BY <1>10, <2>2, <2>4 DEF GoodRequest, Asking, Saving
    <2>6. QED
        BY <1>7, <1>10, <2>1, <2>5
<1>11. ASSUME op \in {"approved", "disabled"}, Become(a, [me EXCEPT !.pc = "look"])
       PROVE  RequestsInv'
    <2>1. PICK now : now = [me EXCEPT !.pc = "look"]
        OBVIOUS
    <2>2. /\ now.pc = "look" /\ now.new = is.new /\ now.op = op /\ now.rule = r
          /\ now = [f \in AdminFields |-> now[f]]
        BY <1>6, <2>1 DEF AdminFields
    <2>3. is.new \in Rules \cup {NoRule}
        BY <1>1 DEF GoodRequest
    <2>4. GoodRequest(now)'
        BY <1>2, <1>11, <2>2, <2>3 DEF GoodRequest, Asking, Saving
    <2>5. QED
        BY <1>7, <1>11, <2>1, <2>4
<1>12. RequestsInv'
    BY <1>8, <1>9, <1>10, <1>11
<1>13. QED
    BY <1>3, <1>12 DEF RulesInv

\* Who approves a rule by hand in a file has approved it.
LEMMA EditRulesKeeps ==
    ASSUME RulesInv, Edit
    PROVE  RulesInv'
<1>1. PICK main \in Seq(Rules), vendor \in Seq(Rules), state \in {"whole", "bad", "cut"} :
          /\ files' = [main |-> main, vendor |-> vendor, time |-> files.time + 1, state |-> state]
          /\ main = files.main \/ main \in Drafts \/ main = <<>>
          /\ vendor = files.vendor \/ vendor \in Drafts
    <2>1. PICK rules \in Drafts :
              \/ Written(rules, "whole")
              \/ Written(<<>>, "bad")
              \/ files' = [files EXCEPT !.vendor = rules, !.time = @ + 1]
        BY DEF Edit, EditRules
    <2>2. /\ files = [main |-> files.main, vendor |-> files.vendor, time |-> files.time,
                      state |-> files.state]
          /\ files.main \in Seq(Rules) /\ files.vendor \in Seq(Rules)
          /\ files.state \in {"whole", "bad", "cut"}
        BY DEF RulesInv, FileInv, Sound
    <2>3. rules \in Seq(Rules) /\ <<>> \in Seq(Rules)
        BY KnowledgeAssumption
    <2>4. CASE Written(rules, "whole")
        BY <2>2, <2>3, <2>4 DEF Written
    <2>5. CASE Written(<<>>, "bad")
        BY <2>2, <2>3, <2>5 DEF Written
    <2>6. CASE files' = [files EXCEPT !.vendor = rules, !.time = @ + 1]
        <3>1. files' = [main |-> files.main, vendor |-> rules, time |-> files.time + 1,
                        state |-> files.state]
            BY <2>2, <2>6
        <3>2. QED
            BY <2>2, <2>3, <3>1
    <2>7. QED
        BY <2>1, <2>4, <2>5, <2>6
<1>2. /\ UNCHANGED <<cache, admins, audit, pipes>>
      /\ approved' = approved \cup ApprovedIn(main \o vendor)
    BY <1>1 DEF Edit, EditRules
<1>3. approved \subseteq approved'
    BY <1>2
<1>4. Sound(main \o vendor)'
    <2>1. \A k \in DOMAIN (main \o vendor) : (main \o vendor)[k] \in Rules
        BY <1>1
    <2>2. ASSUME NEW k \in DOMAIN (main \o vendor), (main \o vendor)[k].status = "approved"
          PROVE  (main \o vendor)[k].id \in approved'
        BY <1>2, <2>2 DEF ApprovedIn
    <2>3. main \o vendor \in Seq(Rules)
        BY <1>1
    <2>4. QED
        BY <2>1, <2>2, <2>3 DEF Sound, Allowed
<1>5. Sound(main)' /\ Sound(vendor)'
    <2>1. \A k \in DOMAIN main :
              k \in DOMAIN (main \o vendor) /\ (main \o vendor)[k] = main[k]
        BY <1>1
    <2>2. \A k \in DOMAIN vendor : /\ Len(main) + k \in DOMAIN (main \o vendor)
                                   /\ (main \o vendor)[Len(main) + k] = vendor[k]
        BY <1>1
    <2>3. QED
        BY <1>1, <1>4, <2>1, <2>2 DEF Sound, Allowed
<1>6. Sound(cache.rules)'
    <2>1. PICK c : c = cache.rules /\ Sound(c)
        BY DEF RulesInv, FileInv
    <2>2. QED
        BY <1>2, <1>3, <2>1, ApprovedGrows
<1>7. FileInv'
    BY <1>1, <1>2, <1>5, <1>6 DEF RulesInv, FileInv
<1>8. QED
    BY <1>2, <1>3, <1>7, SameAudit, SameRequests, SamePipes DEF RulesInv

LEMMA CrashRules ==
    ASSUME RulesInv, Crash
    PROVE  RulesInv'
<1>1. /\ UNCHANGED <<cache, audit, approved>> /\ approved \subseteq approved'
      /\ admins' = [a \in Admins |-> IdleAdmin] /\ pipes' = [p \in Pipes |-> IdlePipe]
    BY DEF Crash, CrashKnowledge
<1>2. \E main : \E state \in {"whole", "bad", "cut"} :
          /\ Sound(main)
          /\ files' = [main |-> main, vendor |-> files.vendor, time |-> files.time, state |-> state]
    <2>1. /\ files = [main |-> files.main, vendor |-> files.vendor, time |-> files.time,
                      state |-> files.state]
          /\ Sound(files.main) /\ files.state \in {"whole", "bad", "cut"}
        BY DEF RulesInv, FileInv
    <2>2. CASE UNCHANGED files
        <3>1. files' = [main |-> files.main, vendor |-> files.vendor, time |-> files.time,
                        state |-> files.state]
            BY <2>1, <2>2
        <3>2. QED
            BY <2>1, <3>1
    <2>3. ASSUME NEW rules \in Readings, rules # Garbled,
                 files' = [files EXCEPT !.main = rules, !.state = "whole"]
          PROVE  \E main : \E state \in {"whole", "bad", "cut"} :
                    /\ Sound(main)
                    /\ files' = [main |-> main, vendor |-> files.vendor, time |-> files.time,
                                 state |-> state]
        <3>1. Sound(rules)
            BY <2>3, ReadingsAreSound DEF RulesInv
        <3>2. files' = [main |-> rules, vendor |-> files.vendor, time |-> files.time,
                        state |-> "whole"]
            BY <2>1, <2>3
        <3>3. QED
            BY <3>1, <3>2
    <2>4. CASE files' = [files EXCEPT !.main = <<>>, !.state = "bad"]
        <3>1. files' = [main |-> <<>>, vendor |-> files.vendor, time |-> files.time,
                        state |-> "bad"]
            BY <2>1, <2>4
        <3>2. QED
            BY <3>1, NothingIsSound
    <2>5. QED
        BY <2>2, <2>3, <2>4 DEF Crash, CrashKnowledge
<1>3. FileInv'
    <2>1. PICK v, c : v = files.vendor /\ c = cache.rules /\ Sound(v) /\ Sound(c)
        BY DEF RulesInv, FileInv
    <2>2. PICK main : \E state \in {"whole", "bad", "cut"} :
              /\ Sound(main)
              /\ files' = [main |-> main, vendor |-> files.vendor, time |-> files.time,
                           state |-> state]
        BY <1>2
    <2>3. PICK state \in {"whole", "bad", "cut"} :
              files' = [main |-> main, vendor |-> files.vendor, time |-> files.time,
                        state |-> state]
        BY <2>2
    <2>4. Sound(main)' /\ Sound(v)' /\ Sound(c)'
        BY <1>1, <2>1, <2>2, ApprovedGrows
    <2>5. QED
        BY <1>1, <2>1, <2>3, <2>4 DEF RulesInv, FileInv
<1>4. PipesInv'
    <2>1. PICK idle : idle = IdlePipe /\ GoodPipe(idle)'
        BY <1>1, IdleIsGood, ApprovedGrows DEF IdlePipe, Unseen
    <2>2. QED
        BY <1>1, <2>1 DEF PipesInv
<1>5. RequestsInv'
    <2>1. PICK idle : idle = IdleAdmin /\ GoodRequest(idle)'
        BY <1>1, IdleIsGood, ApprovedGrows DEF IdleAdmin
    <2>2. QED
        BY <1>1, <2>1 DEF RequestsInv
<1>6. QED
    BY <1>1, <1>3, <1>4, <1>5, SameAudit DEF RulesInv

LEMMA InitRules == Init => RulesInv /\ CountsInv
<1> SUFFICES ASSUME Init
             PROVE  RulesInv /\ CountsInv
    OBVIOUS
<1>1. /\ files = [main |-> FirstMain, vendor |-> FirstVendor, time |-> 0, state |-> "whole"]
      /\ cache = [rules |-> FirstMain \o FirstVendor, time |-> 0] /\ audit = <<>>
      /\ admins = [a \in Admins |-> IdleAdmin] /\ pipes = [p \in Pipes |-> IdlePipe]
      /\ unknown = [s \in Signatures |-> Unseen] /\ queue = <<>>
      /\ approved = ApprovedIn(FirstMain \o FirstVendor)
    BY DEF Init, InitKnowledge
<1>2. FirstMain \in Seq(Rules) /\ FirstVendor \in Seq(Rules)
    BY KnowledgeAssumption
<1>3. Sound(FirstMain \o FirstVendor)
    <2>1. FirstMain \o FirstVendor \in Seq(Rules)
        BY <1>2
    <2>2. QED
        BY <1>1, <2>1, SoundIfApproved
<1>4. Sound(FirstMain) /\ Sound(FirstVendor)
    BY <1>2, <1>3, SoundParts
<1>5. FileInv
    BY <1>1, <1>3, <1>4 DEF FileInv
<1>6. AuditInv
    BY <1>1 DEF AuditInv
<1>7. RequestsInv /\ PipesInv
    BY <1>1, IdleIsGood DEF RequestsInv, PipesInv
<1>8. CountsInv
    BY <1>1, UnseenAgrees DEF CountsInv
<1>9. QED
    BY <1>5, <1>6, <1>7, <1>8 DEF RulesInv

LEMMA SameRules ==
    ASSUME RulesInv, UNCHANGED <<files, cache, audit, admins, pipes, approved>>
    PROVE  RulesInv'
<1>1. approved \subseteq approved'
    OBVIOUS
<1>2. QED
    BY <1>1, SameFile, SameAudit, SameRequests, SamePipes DEF RulesInv

LEMMA SameCounts == CountsInv /\ UNCHANGED <<unknown, queue>> => CountsInv'
BY DEF CountsInv, Agrees

\* All of it, with the invariant of the plans.
LEMMA StepRules ==
    PlansInv /\ RulesInv /\ CountsInv /\ [Next]_vars => RulesInv' /\ CountsInv'
<1> SUFFICES ASSUME PlansInv, RulesInv, CountsInv, [Next]_vars
             PROVE  RulesInv' /\ CountsInv'
    OBVIOUS
<1> DEFINE Same == UNCHANGED <<files, cache, audit, admins, pipes, approved, unknown, queue>>
<1>1. Same => RulesInv' /\ CountsInv'
    BY SameRules, SameCounts
<1>2. ASSUME NEW p \in Pipes, PipeStep(p)
      PROVE  RulesInv' /\ CountsInv'
    BY <1>2, PipeRules
<1>3. CASE Outside
    <2>1. ASSUME NEW line \in Lines, Receive(line)
          PROVE  RulesInv' /\ CountsInv'
        <3>1. /\ UNCHANGED <<files, cache, audit, admins, pipes, approved, unknown>>
              /\ queue' = Append(queue, line)
            BY <2>1 DEF Receive, knowledgeVars
        <3>2. queue' \in Seq(Lines)
            BY <3>1 DEF CountsInv
        <3>3. CountsInv'
            BY <3>1, <3>2 DEF CountsInv, Agrees
        <3>4. QED
            BY <3>1, <3>3, SameRules
    <2>2. ASSUME NEW line \in Lines, Ingest(line)
          PROVE  RulesInv' /\ CountsInv'
        <3>1. /\ UNCHANGED <<files, cache, audit, admins, approved, unknown, queue>>
              /\ Begin(Request, line) /\ Request \in Pipes
            BY <2>2 DEF Ingest, knowledgeVars, Pipes
        <3>2. PipesInv'
            BY <3>1, BeginRules
        <3>3. FileInv' /\ AuditInv' /\ RequestsInv'
            BY <3>1, SameFile, SameAudit, SameRequests DEF RulesInv
        <3>4. QED
            BY <3>1, <3>2, <3>3, SameCounts DEF RulesInv
    <2>3. CASE Edit
        BY <2>3, EditRulesKeeps, SameCounts DEF Edit
    <2>4. CASE EditPlans
        BY <1>1, <2>4 DEF EditPlans, knowledgeVars
    <2>5. ASSUME NEW c, Watch(c)
          PROVE  RulesInv' /\ CountsInv'
        BY <1>1, <2>5 DEF Watch, knowledgeVars, backendVars
    <2>6. ASSUME NEW r, Investigate(r)
          PROVE  RulesInv' /\ CountsInv'
        BY <1>1, <2>6 DEF Investigate, knowledgeVars, backendVars
    <2>7. CASE Crash
        <3>1. UNCHANGED unknown /\ queue' = <<>>
            BY <2>7 DEF Crash
        <3>2. CountsInv'
            BY <3>1 DEF CountsInv, Agrees
        <3>3. QED
            BY <2>7, <3>2, CrashRules
    <2>8. ASSUME NEW a \in Admins, NEW r \in RuleIds, NEW op, NEW body \in Bodies,
                 ChangeRule(a, op, r, body)
          PROVE  RulesInv' /\ CountsInv'
        BY <2>8, AskRules, SameCounts DEF ChangeRule
    <2>8a. ASSUME NEW p \in Pipes, CallFails(p)
           PROVE  RulesInv' /\ CountsInv'
        BY <2>8a, FailedCallRules
    <2>9. QED
        BY <1>3, <2>1, <2>2, <2>3, <2>4, <2>5, <2>6, <2>7, <2>8, <2>8a DEF Outside, One
<1>4. ASSUME NEW a \in Admins, RequestStep(a)
      PROVE  RulesInv' /\ CountsInv'
    BY <1>4, RequestRules, SameCounts DEF RequestStep, backendVars
<1>5. ASSUME NEW r, TaskStep(r)
      PROVE  RulesInv' /\ CountsInv'
    BY <1>1, <1>5 DEF TaskStep, knowledgeVars, backendVars
<1>6. CASE Ready
    <2>1. Publish(files.main \o files.vendor)
        BY <1>6 DEF Ready, StartKnowledge
    <2>2. UNCHANGED <<files, admins, audit, pipes, approved, unknown, queue>>
        BY <1>6 DEF Ready, StartKnowledge
    <2>3. Sound(files.main \o files.vendor)
        BY SoundJoined DEF RulesInv, FileInv
    <2>4. FileInv'
        BY <2>1, <2>2, <2>3, PublishKeeps DEF RulesInv
    <2>5. approved \subseteq approved'
        BY <2>2
    <2>6. QED
        BY <2>2, <2>4, <2>5, SameAudit, SameRequests, SamePipes, SameCounts DEF RulesInv
<1>6a. CASE Start \/ Refuse
    BY <1>1, <1>6a DEF Start, Refuse, knowledgeVars
<1>7. ASSUME NEW c, ClientLeaves(c) \/ ClientBreaks(c) \/ NoticeLeft(c)
      PROVE  RulesInv' /\ CountsInv'
    BY <1>1, <1>7 DEF ClientLeaves, ClientBreaks, NoticeLeft, knowledgeVars, backendVars
<1>8. CASE UNCHANGED vars
    BY <1>1, <1>8 DEF vars, knowledgeVars, backendVars
<1>9. QED
    BY <1>2, <1>3, <1>4, <1>5, <1>6, <1>6a, <1>7, <1>8 DEF Next, Progress

-----------------------------------------------------------------------------
(* The theorems about the rules, the counts and the consumer.               *)

ServicesInv ==
    /\ PlansInv /\ RulesInv /\ CountsInv
    /\ ClientsInv /\ ReportsInv /\ LeftInv

LEMMA InitServices == Init => ServicesInv
BY InitPlans, InitRules, InitClients, InitReports, InitLeft DEF ServicesInv

LEMMA StepServices == ServicesInv /\ [Next]_vars => ServicesInv'
BY StepPlans, StepRules, StepClients, StepReports, StepLeft DEF ServicesInv

LEMMA ServicesTyped == ServicesInv => TypeOK
<1> SUFFICES ASSUME ServicesInv
             PROVE  TypeOK
    OBVIOUS
<1>1. /\ files.main \in Seq(Rules) /\ files.vendor \in Seq(Rules) /\ cache.rules \in Seq(Rules)
      /\ cache.time <= files.time
    BY DEF ServicesInv, RulesInv, FileInv, Sound
<1>2. \A a \in Admins : admins[a].new \in Rules \cup {NoRule}
    BY DEF ServicesInv, RulesInv, RequestsInv, GoodRequest
<1>3. \A k \in DOMAIN audit : audit[k].new \in Rules /\ audit[k].version > 0
    <2>1. \A k \in DOMAIN audit : audit[k] \in Entries
        BY DEF ServicesInv, RulesInv, AuditInv
    <2>2. QED
        BY <2>1 DEF Entries
<1>4. IsInjective(connections) /\ \A c \in ToSet(connections) : client[c] # "away"
    BY DEF ServicesInv, ClientsInv, ConnectionsInv, ToSet
<1>5. report \in {"none", "running", "completed", "failed", "interrupted"}
    BY DEF ServicesInv, ReportsInv
<1>6. QED
    BY <1>1, <1>2, <1>3, <1>4, <1>5 DEF TypeOK, ServicesInv, LeftInv

\* The type invariant.
THEOREM ServicesTypes == Spec => []TypeOK
BY InitServices, StepServices, ServicesTyped, PTL DEF Spec

\* A rule that nobody has ever approved decides about no line, whatever requests,
\* rollbacks, saves of old rules and edits by hand ran meanwhile and whatever part of a
\* file was read (matcher.py:25-45, routes/knowledge.py:61-140).
THEOREM UnapprovedRulesWait == Spec => []UnapprovedIsUnused
<1>1. ServicesInv => UnapprovedIsUnused
    BY ApprovedApply DEF ServicesInv
<1>2. QED
    BY <1>1, InitServices, StepServices, PTL DEF Spec

\* The total of an unknown event is the sum over its severities, whatever
\* pipelines count it at once (unknown_event_store.py:48-82).
THEOREM TotalsAgree == Spec => []CountsAgree
<1>1. ServicesInv => CountsAgree
    BY CountedAgrees DEF ServicesInv
<1>2. QED
    BY <1>1, InitServices, StepServices, PTL DEF Spec

\* A client that has left and was removed from the connections.
Removal == \E c \in Clients : client[c] \in {"gone", "past"} /\ c \notin ToSet(connections)

\* A broadcast fails only over such a one.
LEMMA FailingCast ==
    ASSUME ClientsInv, NEW s \in Speakers, CastFails(s)
    PROVE  Removal
<1>1. PICK k \in DOMAIN casts[s].dead : casts[s].dead[k] \notin ToSet(connections)
    BY DEF CastFails, Missing
<1>2. GoodCast(casts[s])
    BY DEF ClientsInv, CastsInv
<1>3. casts[s].dead \in Seq(Clients) /\ client[casts[s].dead[k]] \in {"gone", "past"}
    BY <1>1, <1>2 DEF GoodCast
<1>4. casts[s].dead[k] \in Clients
    BY <1>1, <1>3
<1>5. QED
    BY <1>1, <1>3, <1>4 DEF Removal

LEMMA TellingEnds ==
    ASSUME ServicesInv, [Next]_vars, alive, ~alive', pipes[Consumer].pc = "tell"
    PROVE  Removal
<1>1. ASSUME NEW p \in Pipes, Raise(p)
      PROVE  p = Consumer
    BY <1>1 DEF Raise
<1>2. ASSUME NEW p \in Pipes, PipeStep(p)
      PROVE  Removal
    <2>1. p \in Speakers
        BY ServicesAssumption
    <2>2. CASE Tell(p)
        <3>1. CastFails(p)
            BY <2>2 DEF Tell
        <3>2. QED
            BY <2>1, <3>1, FailingCast DEF ServicesInv
    <2>3. CASE Raise(p)
        <3>1. pipes[p].pc = "tell"
            BY <1>1, <2>3
        <3>2. QED
            BY <1>2, <2>2, <3>1
               DEF PipeStep, ReadVendor, ReloadRules, Match, FindUnknown, CountUnknown, Judge,
                   ReadPlans, AskPlans, Store, Take, Consumer
    <2>4. CASE p = Consumer /\ Take
        BY <2>4 DEF Take
    <2>5. QED
        BY <1>2, <2>2, <2>3, <2>4
           DEF PipeStep, ReadVendor, ReloadRules, Match, FindUnknown, CountUnknown, Judge,
               ReadPlans, AskPlans, Store
<1>3. CASE Outside
    <2>1. ASSUME NEW line, Ingest(line)
          PROVE  FALSE
        <3>1. ~Raise(Request)
            BY <1>1 DEF Pipes, Consumer, Request
        <3>2. QED
            BY <2>1, <3>1 DEF Ingest, Begin
    <2>2. ASSUME NEW p \in Pipes, CallFails(p)
          PROVE  FALSE
        BY <1>1, <2>2 DEF CallFails
    <2>3. ASSUME NEW line, Receive(line)
          PROVE  FALSE
        BY <2>3 DEF Receive
    <2>4. ~Edit /\ ~EditPlans /\ ~Crash
        BY DEF Edit, EditPlans, Crash
    <2>5. ASSUME NEW c, Watch(c)
          PROVE  FALSE
        BY <2>5 DEF Watch, backendVars
    <2>6. ASSUME NEW r, Investigate(r)
          PROVE  FALSE
        BY <2>6 DEF Investigate, backendVars
    <2>7. ASSUME NEW a, NEW op, NEW r, NEW body, ChangeRule(a, op, r, body)
          PROVE  FALSE
        BY <2>7 DEF ChangeRule
    <2>8. QED
        BY <1>3, <2>1, <2>2, <2>3, <2>4, <2>5, <2>6, <2>7 DEF Outside
<1>4. ASSUME NEW a, RequestStep(a)
      PROVE  FALSE
    BY <1>4 DEF RequestStep, backendVars
<1>5. ASSUME NEW r, TaskStep(r)
      PROVE  FALSE
    BY <1>5 DEF TaskStep, backendVars
<1>6. ~Start /\ ~Ready /\ ~Refuse
    BY DEF Start, Ready, Refuse
<1>7. ASSUME NEW c, ClientLeaves(c) \/ ClientBreaks(c) \/ NoticeLeft(c)
      PROVE  FALSE
    BY <1>7 DEF ClientLeaves, ClientBreaks, NoticeLeft, backendVars
<1>8. ~ UNCHANGED vars
    BY DEF vars, backendVars
<1>9. QED
    BY <1>2, <1>3, <1>4, <1>5, <1>6, <1>7, <1>8 DEF Next, Progress

\* A consumer that tells its clients ends only when one that left was removed before,
\* never because one cannot be reached (main.py:514-518, ws.py:17-31).
THEOREM ConsumerSurvivesClients == Spec => BroadcastSparesConsumer
<1>1. ServicesInv /\ [Next]_vars =>
          [alive /\ ~alive' /\ pipes[Consumer].pc = "tell" => Removal]_vars
    BY TellingEnds
<1>2. QED
    BY <1>1, InitServices, StepServices, PTL DEF Spec, BroadcastSparesConsumer, Removal
=============================================================================
