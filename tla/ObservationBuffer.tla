-------------------------- MODULE ObservationBuffer --------------------------
(***************************************************************************)
(* The short window in which lines are judged together                     *)
(* (correlation/observation_buffer.py), as the pipeline of api/main.py     *)
(* uses it.  A line gets its time when it is parsed; the handlers of the   *)
(* UDP consumer and of ingest requests then await their thread calls, so   *)
(* lines reach the buffer in any order.  There each is judged with what    *)
(* the window holds, or opens a new window when it does not fit.           *)
(***************************************************************************)
EXTENDS HypothesisScoring

CONSTANTS
    Lines,      \* the lines that may be received, each once
    Window,     \* window_sec
    Early,      \* early_confidence, in thousandths
    MaxTime,    \* bound on the clock
    MaxLines    \* bound on the lines received

ASSUME BufferAssumption ==
    /\ \A line \in Lines : line.rule \in Int
    /\ Window \in Nat \ {0}
    /\ Early \in 0..1000
    /\ MaxTime \in Nat
    /\ MaxLines \in Nat

VARIABLES
    clock,
    handled,    \* the lines received
    waiting,    \* observations on their way to the buffer, by line
    buffer,     \* the observations of the window, as they were added
    lastRoot,   \* the root cause of the last result
    update      \* what the last call of add or reset returned

vars == <<clock, handled, waiting, buffer, lastRoot, update>>

Update(kind, root, previous) == [kind |-> kind, root |-> root, previous |-> previous]
NoUpdate == Update("none", NoRoot, NoRoot)

Init ==
    /\ clock = 0
    /\ handled = {}
    /\ waiting = <<>>
    /\ buffer = <<>>
    /\ lastRoot = NoRoot
    /\ update = NoUpdate

Tick ==
    /\ clock < MaxTime
    /\ clock' = clock + 1
    /\ UNCHANGED <<handled, waiting, buffer, lastRoot, update>>

\* Classes of lines that the pipeline does not reason about.
Ignored(line) == line.class \in {"config-change", "security", "noise", "retain-only"}

\* Mutant: a line keeps the time of a device whose clock is ahead.
ReceiveDeviceTime(line) ==
    /\ line \notin handled
    /\ Cardinality(handled) < MaxLines
    /\ handled' = handled \cup {line}
    /\ LET seen == Normalize(line, clock + 1)
       IN  waiting' = IF Ignored(line) \/ seen = NoObservation THEN waiting
                      ELSE [l \in DOMAIN waiting \cup {line} |->
                              IF l = line THEN seen ELSE waiting[l]]
    /\ UNCHANGED <<clock, buffer, lastRoot, update>>

\* A line is parsed and normalised; it takes its time from the clock.
Receive(line) ==
    /\ line \notin handled
    /\ Cardinality(handled) < MaxLines
    /\ handled' = handled \cup {line}
    /\ LET seen == Normalize(line, clock)
       IN  waiting' = IF Ignored(line) \/ seen = NoObservation THEN waiting
                      ELSE [l \in DOMAIN waiting \cup {line} |->
                              IF l = line THEN seen ELSE waiting[l]]
    /\ UNCHANGED <<clock, buffer, lastRoot, update>>

Take(line) == waiting' = [l \in DOMAIN waiting \ {line} |-> waiting[l]]

\* Mutant: the new observation is compared with the last one only.
FitsLast(obs, window) ==
    window = <<>> \/ (/\ obs.at - window[Len(window)].at <= Window
                      /\ window[Len(window)].at - obs.at <= Window)

\* The event times of the window and of one more observation span at most
\* the length of the window.
FitsActiveWindow(obs, window) ==
    \A i, j \in DOMAIN window :
        /\ window[i].at - window[j].at <= Window
        /\ obs.at - window[j].at <= Window
        /\ window[i].at - obs.at <= Window

\* Mutant: only a result confident enough to be announced is remembered.
JudgeConfident(result, last) ==
    IF result.root = NoRoot
    THEN [last |-> last, update |-> Update("BUFFERED", NoRoot, NoRoot)]
    ELSE [last   |-> IF result.confidence >= Early THEN result.root ELSE last,
          update |-> IF last \notin {NoRoot, result.root}
                     THEN Update("RCA_REVISED", result.root, last)
                     ELSE Update(IF result.confidence >= Early THEN "TENTATIVE" ELSE "BUFFERED",
                                 result.root, NoRoot)]

\* What becomes of a verdict, given the root cause of the last one.
Judge(result, last) ==
    IF result.root = NoRoot
    THEN [last |-> last, update |-> Update("BUFFERED", NoRoot, NoRoot)]
    ELSE [last   |-> result.root,
          update |-> IF last \notin {NoRoot, result.root}
                     THEN Update("RCA_REVISED", result.root, last)
                     ELSE Update(IF result.confidence >= Early THEN "TENTATIVE" ELSE "BUFFERED",
                                 result.root, NoRoot)]

Evaluate(window, last) == Judge(Infer(window), last)

\* The pipeline adds an observation that is not a recovery.  One that does not
\* fit closes the window (whose result is dropped) and opens another.
Add(line) ==
    /\ line \in DOMAIN waiting
    /\ waiting[line].assertion # "recovery"
    /\ LET fits   == FitsActiveWindow(waiting[line], buffer)
           window == Append(IF fits THEN buffer ELSE <<>>, waiting[line])
           judged == Evaluate(window, IF fits THEN lastRoot ELSE NoRoot)
       IN  /\ buffer' = window
           /\ lastRoot' = judged.last
           /\ update' = judged.update
    /\ Take(line)
    /\ UNCHANGED <<clock, handled>>

Reset ==
    /\ buffer' = <<>>
    /\ lastRoot' = NoRoot
    /\ update' = NoUpdate

\* A recovery does not enter the buffer; it resets the buffer when it affects
\* an incident.
Recover(line) ==
    /\ line \in DOMAIN waiting
    /\ waiting[line].assertion = "recovery"
    /\ \/ Reset
       \/ UNCHANGED <<buffer, lastRoot, update>>
    /\ Take(line)
    /\ UNCHANGED <<clock, handled>>

Next == \/ Tick
        \/ \E line \in Lines : Receive(line) \/ Add(line) \/ Recover(line)

Spec == Init /\ [][Next]_vars

-----------------------------------------------------------------------------
(* Properties *)

\* What the lines can be seen as, at any time.
Observations == {Normalize(l, t) : l \in Lines, t \in 0..MaxTime} \ {NoObservation}

\* Every variable has its type, and nothing was observed in the future: a line
\* takes its time from the clock of the backend, not from the device.
TypeOK ==
    /\ clock \in 0..MaxTime
    /\ handled \subseteq Lines
    /\ DOMAIN waiting \subseteq handled
    /\ waiting \in [DOMAIN waiting -> Observations]
    /\ \A l \in DOMAIN waiting : waiting[l].at <= clock
    /\ buffer \in Seq(Observations)
    /\ \A i \in DOMAIN buffer : buffer[i].at <= clock
    /\ update.kind \in {"none", "BUFFERED", "TENTATIVE", "RCA_REVISED"}

\* The lines judged together happened within the length of the window, in
\* whatever order they were added (_fits_active_window looks at both ends).
WindowSpan ==
    \A i, j \in DOMAIN buffer : buffer[i].at - buffer[j].at <= Window

\* Orders of the window in which lines of one time keep their places.
Reorderings ==
    {p \in [DOMAIN buffer -> DOMAIN buffer] :
        /\ \A i, j \in DOMAIN buffer : p[i] = p[j] => i = j
        /\ \A i, j \in DOMAIN buffer :
             i < j /\ buffer[p[i]].at = buffer[p[j]].at => p[i] < p[j]}

\* The root cause that the backend holds is the verdict on all lines of the
\* window, and it would be the same had the lines been added in another order
\* (_build_result sorts by event time, the scorer by event time again).
VerdictOfWindow ==
    \A p \in Reorderings : lastRoot = Infer([i \in DOMAIN buffer |-> buffer[p[i]]]).root

\* As long as the window goes on, another root cause is announced as a
\* revision that names the one announced before: the pipeline finds the
\* incident to revise by that name (main.py:251-255).
RevisionsAreTold ==
    [][ \A line \in Lines :
          /\ line \in DOMAIN waiting /\ line \notin DOMAIN waiting'
          /\ Len(buffer') = Len(buffer) + 1
          /\ update.root \notin {NoRoot, update'.root}
          => update'.kind = "RCA_REVISED" /\ update'.previous = update.root ]_vars

\* The lines of the window about one object.
About(o) == {i \in DOMAIN buffer : buffer[i].object = o}

\* Scores are rounded to thousandths: in a window of more than this many lines
\* the two lines of the interfaces could vanish in the rounding.
LargeWindow == 100000

\* No interface has two cables.  The loader does not refuse a topology in which
\* one has (a shared segment, drawn as pairs), so properties that need it say so.
OneCableEach ==
    \A a, b \in Connections : a # b => {a[1], a[2]} \cap {b[1], b[2]} = {}

\* The lines that name d as the neighbour they lost.
Naming(d) == {i \in DOMAIN buffer : buffer[i].peer = d}

\* When each end of a link reported its interface down once, and the rest of
\* the window is about sessions over the link, the link is the root cause
\* (README.md:238-253), in every order of the lines, as long as no interface has two
\* cables and the window is not a large one.  (A second message from one end, as of %LINK and %LINEPROTO, can
\* make its interface the root cause; so can two lines, or one that tells of
\* an expired session, that name the same device make it that device.)
LinkFailureNamed ==
    \A c \in Connections :
        /\ OneCableEach /\ c[1] # c[2]
        /\ \A i \in {c[1], c[2]} : Cardinality(About(Interface(i))) = 1
        /\ \A i \in DOMAIN buffer :
             buffer[i].object \in {Interface(c[1]), Interface(c[2])}
                                    \cup (Successors(PhysicalLink(c)) \cap Sessions)
        /\ \A d \in Devices : /\ Cardinality(Naming(d)) <= 1
                             /\ \A i \in Naming(d) : ~buffer[i].strong
        /\ Len(buffer) <= LargeWindow
        => lastRoot = PhysicalLink(c)

\* The sessions of a device that no line of the window is about.
Unreported(d) ==
    {s \in Successors(Device(d)) : s.type \in SessionTypes}
      \ {buffer[i].object : i \in DOMAIN buffer}

\* When the whole window is about sessions with one peer, reported by two or
\* more of its neighbours, or is one line that tells of an expired or removed
\* session, that peer is the root cause (README.md:255-300), unless most of its
\* sessions are still silent.  (Each of them counts 8 against it, a line that
\* names it 14 for it, and one that tells of an expired session 64.)
SilentPeerNamed ==
    \A d \in Devices :
        /\ \A i \in DOMAIN buffer : buffer[i].object \in Sessions /\ buffer[i].peer = d
        /\ \/ /\ OneCableEach
              /\ Cardinality({buffer[i].source : i \in DOMAIN buffer} \ {d}) >= 2
              /\ Cardinality(Unreported(d)) <= Len(buffer)
           \/ /\ Len(buffer) = 1 /\ buffer[1].strong
              /\ Cardinality(Unreported(d)) <= 5
        => lastRoot = Device(d)
=============================================================================
