----------------------- MODULE ObservationBuffer_proofs -----------------------
(***************************************************************************)
(* For every finite topology, every set of lines, every length of the      *)
(* window and any number of handlers: types, the span of the window, that  *)
(* the root cause that is held is the verdict on the whole window in       *)
(* whatever order its lines came, that a change of mind is told, and that  *)
(* a failed link and a silent peer are named.                              *)
(*                                                                         *)
(* The verdict is independent of the order because a renaming of the       *)
(* places of the window keeps every set, count and sum that a score is     *)
(* made of (the lemmas ...Alike).  It is a verdict at all because the      *)
(* ranking is a total order on the finitely many objects that can be a     *)
(* root cause, once scores are numbers (ScoreType, BestIsThere).           *)
(*                                                                         *)
(* Which object wins takes a comparison of two scores, each a rounded      *)
(* quotient of products of counts and sums (ComparedInPoints), bounds on   *)
(* the parts of a score, and what the graph says of distances: who is next *)
(* to the lines, and what the failure of one cable reaches.  The winner is *)
(* then shown ahead of every device, interface and link (AheadOf).         *)
(***************************************************************************)
EXTENDS ObservationBuffer, Ordering_proofs, SequenceTheorems, TLAPS

\* An observation carries the time at which its line was received.
LEMMA ObservedWhenReceived ==
    ASSUME NEW line, NEW t, Normalize(line, t) # NoObservation
    PROVE  Normalize(line, t).at = t
<1>1. Reporter(line) \in Devices
    BY DEF Normalize
<1>2. QED
    BY <1>1 DEF Normalize

\* The members of Observations have a time of the clock.
LEMMA ObservationTime ==
    ASSUME NEW o \in Observations
    PROVE  o.at \in 0..MaxTime
<1>1. PICK l \in Lines, t \in 0..MaxTime : o = Normalize(l, t)
    BY DEF Observations
<1>2. o # NoObservation
    BY DEF Observations
<1>3. QED
    BY <1>1, <1>2, ObservedWhenReceived

\* The judgement of a window is one of three.
LEMMA JudgementKinds ==
    ASSUME NEW window, NEW last
    PROVE  Evaluate(window, last).update.kind \in {"BUFFERED", "TENTATIVE", "RCA_REVISED"}
BY DEF Evaluate, Judge, Update

-----------------------------------------------------------------------------

\* The types hold at first.
LEMMA InitTypeOK == Init => TypeOK
BY BufferAssumption DEF Init, TypeOK, NoUpdate, Update

\* Every step keeps the types; a line gets its time from the clock, which does
\* not go back, so nothing in the window is ever in the future.
LEMMA StepTypeOK == TypeOK /\ [Next]_vars => TypeOK'
<1> SUFFICES ASSUME TypeOK, [Next]_vars
             PROVE  TypeOK'
    OBVIOUS
<1> USE DEF TypeOK
<1>t. clock \in 0..MaxTime /\ \A i \in DOMAIN buffer : buffer[i].at \in 0..MaxTime
    <2>1. \A i \in DOMAIN buffer : buffer[i] \in Observations
        OBVIOUS
    <2>2. QED
        BY <2>1, ObservationTime
<1>w. \A l \in DOMAIN waiting : waiting[l].at \in 0..MaxTime
    BY ObservationTime
<1>1. CASE Tick
    BY <1>1, <1>t, <1>w, BufferAssumption DEF Tick
<1>2. ASSUME NEW line \in Lines, Receive(line)
      PROVE  TypeOK'
    <2> DEFINE seen == Normalize(line, clock)
    <2>1. CASE Ignored(line) \/ seen = NoObservation
        BY <1>2, <2>1 DEF Receive
    <2>2. CASE ~(Ignored(line) \/ seen = NoObservation)
        <3>1. seen \in Observations /\ seen.at = clock
            BY <2>2, ObservedWhenReceived DEF Observations
        <3>2. waiting' = [l \in DOMAIN waiting \cup {line} |->
                            IF l = line THEN seen ELSE waiting[l]]
            BY <1>2, <2>2 DEF Receive
        <3>3. UNCHANGED <<clock, buffer, lastRoot, update>> /\ handled' = handled \cup {line}
            BY <1>2 DEF Receive
        <3> HIDE DEF seen
        <3>4. DOMAIN waiting' \subseteq handled' /\ handled' \subseteq Lines
            BY <3>2, <3>3
        <3>5. waiting' \in [DOMAIN waiting' -> Observations]
            BY <3>1, <3>2
        <3>6. \A l \in DOMAIN waiting' : waiting'[l].at <= clock'
            BY <1>t, <3>1, <3>2, <3>3
        <3>7. QED
            BY <3>3, <3>4, <3>5, <3>6
    <2>3. QED
        BY <2>1, <2>2
<1>3. ASSUME NEW line \in Lines, Add(line)
      PROVE  TypeOK'
    <2> DEFINE fits   == FitsActiveWindow(waiting[line], buffer)
               window == Append(IF fits THEN buffer ELSE <<>>, waiting[line])
    <2>1. /\ line \in DOMAIN waiting
          /\ buffer' = window
          /\ waiting' = [l \in DOMAIN waiting \ {line} |-> waiting[l]]
          /\ UNCHANGED <<clock, handled>>
        BY <1>3 DEF Add, Take
    <2>2. update'.kind \in {"none", "BUFFERED", "TENTATIVE", "RCA_REVISED"}
        BY <1>3, JudgementKinds DEF Add
    <2>3. waiting[line] \in Observations /\ waiting[line].at <= clock
        BY <2>1
    <2>4. (IF fits THEN buffer ELSE <<>>) \in Seq(Observations)
        OBVIOUS
    <2>5. \A i \in DOMAIN (IF fits THEN buffer ELSE <<>>) :
             (IF fits THEN buffer ELSE <<>>)[i].at <= clock
        BY <2>4
    <2>6. buffer' \in Seq(Observations) /\ \A i \in DOMAIN buffer' : buffer'[i].at <= clock'
        <3> HIDE DEF fits
        <3>1. \A s \in Seq(Observations), o \in Observations :
                 /\ Append(s, o) \in Seq(Observations)
                 /\ \A i \in DOMAIN Append(s, o) :
                       (i \in DOMAIN s /\ Append(s, o)[i] = s[i]) \/ Append(s, o)[i] = o
            OBVIOUS
        <3>2. QED
            BY <2>1, <2>3, <2>4, <2>5, <3>1
    <2>7. QED
        BY <2>1, <2>2, <2>6
<1>4. ASSUME NEW line \in Lines, Recover(line)
      PROVE  TypeOK'
    <2>1. /\ waiting' = [l \in DOMAIN waiting \ {line} |-> waiting[l]]
          /\ UNCHANGED <<clock, handled>>
        BY <1>4 DEF Recover, Take
    <2>2. \/ buffer' = <<>> /\ update'.kind = "none"
          \/ UNCHANGED <<buffer, update>>
        BY <1>4 DEF Recover, Reset, NoUpdate, Update
    <2>3. buffer' \in Seq(Observations) /\ \A i \in DOMAIN buffer' : buffer'[i].at <= clock'
        <3>1. CASE buffer' = <<>>
            BY <3>1
        <3>2. CASE UNCHANGED buffer
            BY <2>1, <3>2
        <3>3. QED
            BY <2>2, <3>1, <3>2
    <2>4. QED
        BY <2>1, <2>2, <2>3
<1>5. CASE UNCHANGED vars
    BY <1>5 DEF vars
<1>6. QED
    BY <1>1, <1>2, <1>3, <1>4, <1>5 DEF Next

\* Types, and no line of the future in the window, on the way to it or in it:
\* the window is about times of the backend's clock (observation_buffer.py:53-76).
THEOREM BufferTypeOK == Spec => []TypeOK
BY InitTypeOK, StepTypeOK, PTL DEF Spec

-----------------------------------------------------------------------------

\* A line that fits leaves the window within its span, one that does not is
\* alone in the next.
LEMMA StepWindowSpan == TypeOK /\ WindowSpan /\ [Next]_vars => WindowSpan'
<1> SUFFICES ASSUME TypeOK, WindowSpan, [Next]_vars
             PROVE  WindowSpan'
    OBVIOUS
<1>1. CASE UNCHANGED buffer
    BY <1>1 DEF WindowSpan
<1>2. ASSUME NEW line \in Lines, Add(line)
      PROVE  WindowSpan'
    <2> DEFINE obs == waiting[line]
    <2>1. obs \in Observations /\ buffer \in Seq(Observations)
        BY <1>2 DEF TypeOK, Add
    <2>2. obs.at \in Int /\ \A i \in DOMAIN buffer : buffer[i].at \in Int
        BY <2>1, ObservationTime
    <2>3. buffer' = Append(IF FitsActiveWindow(obs, buffer) THEN buffer ELSE <<>>, obs)
        BY <1>2 DEF Add
    <2> HIDE DEF obs
    <2>4. CASE FitsActiveWindow(obs, buffer)
        <3>1. \A i \in DOMAIN buffer' : (i \in DOMAIN buffer /\ buffer'[i] = buffer[i])
                                            \/ buffer'[i] = obs
            BY <2>1, <2>3, <2>4
        <3>2. \A i \in DOMAIN buffer : obs.at - buffer[i].at <= Window
                                         /\ buffer[i].at - obs.at <= Window
            BY <2>4 DEF FitsActiveWindow
        <3>3. SUFFICES ASSUME NEW i \in DOMAIN buffer', NEW j \in DOMAIN buffer'
                       PROVE  buffer'[i].at - buffer'[j].at <= Window
            BY DEF WindowSpan
        <3>4. QED
            BY <2>2, <3>1, <3>2, BufferAssumption DEF WindowSpan
    <2>5. CASE ~FitsActiveWindow(obs, buffer)
        <3>1. \A i \in DOMAIN buffer' : buffer'[i] = obs
            BY <2>1, <2>3, <2>5
        <3>2. QED
            BY <2>2, <3>1, BufferAssumption DEF WindowSpan
    <2>6. QED
        BY <2>4, <2>5
<1>3. ASSUME NEW line \in Lines, Recover(line)
      PROVE  WindowSpan'
    BY <1>3 DEF Recover, Reset, WindowSpan
<1>4. QED
    BY <1>1, <1>2, <1>3 DEF Next, Tick, Receive, vars

\* The lines that are judged together happened within the length of the window,
\* however long they were on their way and in whatever order they were added
\* (observation_buffer.py:116-120).
THEOREM BufferWindowSpan == Spec => []WindowSpan
<1>1. Init => WindowSpan
    BY DEF Init, WindowSpan
<1>2. QED
    BY <1>1, BufferTypeOK, StepWindowSpan, PTL DEF Spec

-----------------------------------------------------------------------------
(* Distances in the causal graph.                                           *)

\* An image of a finite set is finite.
LEMMA ImageIsFinite ==
    ASSUME NEW f, IsFiniteSet(DOMAIN f)
    PROVE  IsFiniteSet({f[x] : x \in DOMAIN f})
<1> DEFINE T == {f[x] : x \in DOMAIN f}
           g == [x \in DOMAIN f |-> f[x]]
<1>1. g \in Surjection(DOMAIN f, T)
    BY DEF Surjection
<1>2. QED
    BY <1>1, FS_Surjection

\* A finite topology has finitely many objects.
LEMMA ObjectsAreFinite == IsFiniteSet(Objects)
<1>1. IsFiniteSet({Device(d) : d \in Devices})
    <2> DEFINE f == [d \in Devices |-> Device(d)]
    <2>1. {f[x] : x \in DOMAIN f} = {Device(d) : d \in Devices} /\ DOMAIN f = Devices
        OBVIOUS
    <2> HIDE DEF f
    <2>2. QED
        BY <2>1, ImageIsFinite, TopologyAssumption
<1>2. IsFiniteSet({Interface(i) : i \in Interfaces})
    <2> DEFINE f == [i \in Interfaces |-> Interface(i)]
    <2>1. {f[x] : x \in DOMAIN f} = {Interface(i) : i \in Interfaces} /\ DOMAIN f = Interfaces
        OBVIOUS
    <2> HIDE DEF f
    <2>2. QED
        BY <2>1, ImageIsFinite, TopologyAssumption
<1>3. IsFiniteSet(PhysicalLinks)
    <2> DEFINE f == [c \in Connections |-> PhysicalLink(c)]
    <2>1. {f[x] : x \in DOMAIN f} = PhysicalLinks /\ DOMAIN f = Connections
        BY DEF PhysicalLinks
    <2> HIDE DEF f
    <2>2. QED
        BY <2>1, ImageIsFinite, TopologyAssumption
<1> DEFINE Bgp  == {t \in BgpSessions : KnownPair(t)}
           Ospf == {t \in OspfSessions : KnownPair(t)}
<1>4. IsFiniteSet(Bgp) /\ IsFiniteSet(Ospf) /\ IsFiniteSet(KnownLacp)
    <2>1. /\ Bgp \subseteq BgpSessions /\ Ospf \subseteq OspfSessions
          /\ KnownLacp \subseteq LacpSessions
        BY DEF KnownLacp
    <2>2. QED
        BY <2>1, FS_Subset, TopologyAssumption
<1>5. IsFiniteSet({BgpSession(s) : s \in Bgp})
    <2> HIDE DEF Bgp
    <2> DEFINE f == [s \in Bgp |-> BgpSession(s)]
    <2>1. {f[x] : x \in DOMAIN f} = {BgpSession(s) : s \in Bgp} /\ DOMAIN f = Bgp
        OBVIOUS
    <2> HIDE DEF f
    <2>2. QED
        BY <1>4, <2>1, ImageIsFinite
<1>6. IsFiniteSet({OspfSession(s) : s \in Ospf})
    <2> HIDE DEF Ospf
    <2> DEFINE f == [s \in Ospf |-> OspfSession(s)]
    <2>1. {f[x] : x \in DOMAIN f} = {OspfSession(s) : s \in Ospf} /\ DOMAIN f = Ospf
        OBVIOUS
    <2> HIDE DEF f
    <2>2. QED
        BY <1>4, <2>1, ImageIsFinite
<1>7. IsFiniteSet({LacpSession(s) : s \in KnownLacp})
    <2> DEFINE f == [s \in KnownLacp |-> LacpSession(s)]
    <2>1. {f[x] : x \in DOMAIN f} = {LacpSession(s) : s \in KnownLacp} /\ DOMAIN f = KnownLacp
        OBVIOUS
    <2> HIDE DEF f
    <2>2. QED
        BY <1>4, <2>1, ImageIsFinite
<1>8. IsFiniteSet(Sessions)
    BY <1>5, <1>6, <1>7, FS_Union DEF Sessions, PeerSessions
<1>9. QED
    BY <1>1, <1>2, <1>3, <1>8, FS_Union DEF Objects

\* The breadth first search from o, layer by layer.
IsLayers(L, o, last) ==
    L = [n \in 0..last |-> IF n = 0 THEN [x \in {o} |-> 0] ELSE Layer(n, L[n - 1])]

\* The search for distances is defined for any number of layers.
LEMMA LayersExist ==
    ASSUME NEW o, NEW last \in Nat
    PROVE  \E L : IsLayers(L, o, last)
<1> DEFINE Missing == {n \in Nat : ~ \E L : IsLayers(L, o, n)}
<1> SUFFICES ASSUME Missing # {}
             PROVE  FALSE
    OBVIOUS
<1>1. PICK n \in Missing : \A m \in Missing : n <= m
    <2>1. Missing \in SUBSET Nat
        OBVIOUS
    <2> HIDE DEF Missing
    <2>2. QED
        BY <2>1, LeastOf
<1>2. n \in Nat /\ ~ \E L : IsLayers(L, o, n)
    BY <1>1
<1>3. CASE n = 0
    <2> DEFINE start == [x \in {o} |-> 0]
               L     == [k \in 0..0 |-> start]
    <2>1. L = [k \in 0..0 |-> IF k = 0 THEN start ELSE Layer(k, L[k - 1])]
        OBVIOUS
    <2>2. IsLayers(L, o, 0)
        BY <2>1 DEF IsLayers
    <2>3. QED
        BY <1>2, <1>3, <2>2
<1>4. CASE n # 0
    <2>1. n - 1 \in Nat /\ n - 1 \notin Missing
        BY <1>1, <1>2, <1>4
    <2>2. PICK K : IsLayers(K, o, n - 1)
        BY <2>1
    <2> DEFINE start   == [x \in {o} |-> 0]
               Next0(L, k) == IF k = 0 THEN start ELSE Layer(k, L[k - 1])
               M       == [k \in 0..n |-> IF k = n THEN Layer(n, K[n - 1]) ELSE K[k]]
    <2>3. \A k \in 0..(n - 1) : K[k] = Next0(K, k)
        BY <2>2 DEF IsLayers
    <2>4. \A k \in 0..(n - 1) : M[k] = K[k]
        BY <1>2
    <2>5. M[n] = Layer(n, K[n - 1])
        BY <1>2
    <2>6. ASSUME NEW k \in 0..n
          PROVE  M[k] = Next0(M, k)
        <3>1. CASE k = n
            <4>1. M[n - 1] = K[n - 1]
                BY <2>1, <2>4
            <4> HIDE DEF M
            <4>2. QED
                BY <1>4, <2>5, <3>1, <4>1
        <3>2. CASE k # n /\ k # 0
            <4>1. k \in 0..(n - 1) /\ k - 1 \in 0..(n - 1)
                BY <1>2, <2>6, <3>2
            <4>2. M[k] = K[k] /\ M[k - 1] = K[k - 1] /\ K[k] = Next0(K, k)
                BY <2>3, <2>4, <4>1
            <4> HIDE DEF M
            <4>3. QED
                BY <3>2, <4>2
        <3>3. CASE k # n /\ k = 0
            <4>1. k \in 0..(n - 1)
                BY <1>2, <2>6, <3>3
            <4>2. M[k] = K[k] /\ K[k] = Next0(K, k)
                BY <2>3, <2>4, <4>1
            <4> HIDE DEF M
            <4>3. QED
                BY <3>3, <4>2
        <3>4. QED
            BY <3>1, <3>2, <3>3
    <2>7. M = [k \in 0..n |-> Next0(M, k)]
        <3>1. DOMAIN M = 0..n /\ M = [k \in 0..n |-> M[k]]
            OBVIOUS
        <3> HIDE DEF M, Next0
        <3>2. QED
            BY <2>6, <3>1
    <2>8. IsLayers(M, o, n)
        <3> HIDE DEF M
        <3>1. QED
            BY <2>7 DEF IsLayers
    <2>9. QED
        BY <1>2, <2>8
<1>5. QED
    BY <1>3, <1>4

\* The distances are lengths of paths.
LEMMA LayersType ==
    ASSUME NEW o
    PROVE  \A x \in DOMAIN Layers(o) : Layers(o)[x] \in Nat
<1> DEFINE last == Cardinality(Objects)
           L    == CHOOSE K : IsLayers(K, o, last)
<1>1. last \in Nat
    BY ObjectsAreFinite, FS_CardinalityType
<1>2. IsLayers(L, o, last)
    <2> HIDE DEF last
    <2>1. QED
        BY <1>1, LayersExist
<1>3. Layers(o) = L[last]
    BY DEF Layers, IsLayers
<1> HIDE DEF L, last
<1> DEFINE Lengths(d) == \A x \in DOMAIN d : d[x] \in Nat
           Wrong == {n \in 0..last : ~Lengths(L[n])}
<1>4. ASSUME Wrong # {}
      PROVE  FALSE
    <2>1. PICK n \in Wrong : \A m \in Wrong : n <= m
        <3>1. Wrong \in SUBSET Nat
            BY <1>1
        <3> HIDE DEF Wrong
        <3>2. QED
            BY <1>4, <3>1, LeastOf
    <2>2. n \in 0..last /\ ~Lengths(L[n])
        BY <2>1
    <2>3. CASE n = 0
        <3>1. L[n] = [x \in {o} |-> 0]
            BY <1>1, <1>2, <2>2, <2>3 DEF IsLayers
        <3>2. QED
            BY <2>2, <3>1
    <2>4. CASE n # 0
        <3>1. n - 1 \in 0..last /\ n - 1 \notin Wrong
            BY <1>1, <2>1, <2>2, <2>4
        <3>2. PICK d : d = L[n - 1]
            OBVIOUS
        <3>3. Lengths(d)
            BY <3>1, <3>2
        <3>4. L[n] = Layer(n, d)
            BY <1>1, <1>2, <2>2, <2>4, <3>2 DEF IsLayers
        <3>5. n \in Nat
            BY <1>1, <2>2
        <3>6. Lengths(Layer(n, d))
            BY <3>3, <3>5 DEF Layer
        <3>7. QED
            BY <2>2, <3>4, <3>6
    <2>5. QED
        BY <2>3, <2>4
<1>5. last \in 0..last
    BY <1>1
<1>6. QED
    BY <1>3, <1>4, <1>5

\* A distance is a number.
LEMMA DistanceType ==
    ASSUME NEW c, NEW o
    PROVE  Distance(c, o) \in Int
<1>1. CASE c # o /\ {c, o} \subseteq Objects
    <2>1. PICK d : d = Layers(c)
        OBVIOUS
    <2>2. Distance(c, o) = IF o \in DOMAIN d THEN d[o] ELSE NoPath
        BY <1>1, <2>1 DEF Distance, PathLength
    <2>3. QED
        BY <2>1, <2>2, LayersType DEF NoPath
<1>2. QED
    BY <1>1 DEF Distance, NoPath

-----------------------------------------------------------------------------
(* The ranking of the candidates is a total order.                          *)

\* Of two different ids one comes first.
LEMMA IdsAreOrdered ==
    ASSUME NEW s \in Seq(Nat), NEW t \in Seq(Nat), s # t
    PROVE  LessId(s, t) \/ LessId(t, s)
<1> DEFINE Differ == {i \in Nat \ {0} : i <= Len(s) /\ i <= Len(t) /\ s[i] # t[i]}
<1>1. Len(s) \in Nat /\ Len(t) \in Nat /\ \A i \in 1..Len(s) : s[i] \in Nat
    OBVIOUS
<1>2. \A i \in 1..Len(t) : t[i] \in Nat
    OBVIOUS
<1>3. CASE Differ = {}
    <2>1. ASSUME NEW i \in 1..Len(s), i <= Len(t)
          PROVE  s[i] = t[i]
        <3>1. i \in Nat \ {0} /\ i <= Len(s)
            BY <1>1
        <3>2. QED
            BY <1>3, <2>1, <3>1
    <2>2. Len(s) # Len(t)
        <3> SUFFICES ASSUME Len(s) = Len(t)
                     PROVE  FALSE
            OBVIOUS
        <3>1. \A i \in 1..Len(s) : s[i] = t[i]
            BY <2>1
        <3>2. s = [i \in 1..Len(s) |-> s[i]] /\ t = [i \in 1..Len(t) |-> t[i]]
            OBVIOUS
        <3>3. QED
            BY <3>1, <3>2
    <2>3. CASE Len(s) < Len(t)
        <3>1. PICK k : k = Len(s)
            OBVIOUS
        <3>2. k \in 0..Len(s) /\ k <= Len(t) /\ \A i \in 1..k : s[i] = t[i]
            BY <1>1, <2>1, <2>3, <3>1
        <3>3. QED
            BY <2>3, <3>1, <3>2 DEF LessId
    <2>4. CASE Len(t) < Len(s)
        <3>1. PICK k : k = Len(t)
            OBVIOUS
        <3>2. k \in 0..Len(t) /\ k <= Len(s) /\ \A i \in 1..k : t[i] = s[i]
            BY <1>1, <2>1, <2>4, <3>1
        <3>3. QED
            BY <2>4, <3>1, <3>2 DEF LessId
    <2>5. QED
        BY <1>1, <2>2, <2>3, <2>4
<1>4. CASE Differ # {}
    <2>1. PICK k \in Differ : \A i \in Differ : k <= i
        <3>1. Differ \in SUBSET Nat
            OBVIOUS
        <3> HIDE DEF Differ
        <3>2. QED
            BY <1>4, <3>1, LeastOf
    <2>2. k \in Nat \ {0} /\ k <= Len(s) /\ k <= Len(t) /\ s[k] # t[k]
        BY <2>1
    <2>3. ASSUME NEW i \in 1..(k - 1)
          PROVE  s[i] = t[i]
        <3>1. i \in Nat \ {0} /\ i < k /\ i <= Len(s) /\ i <= Len(t)
            BY <1>1, <2>2
        <3>2. i \notin Differ
            BY <2>1, <2>2, <3>1
        <3>3. QED
            BY <3>1, <3>2
    <2>4. PICK j : j = k - 1
        OBVIOUS
    <2>5. /\ j \in 0..Len(s) /\ j \in 0..Len(t) /\ j < Len(s) /\ j < Len(t)
          /\ \A i \in 1..j : s[i] = t[i]
          /\ s[j + 1] # t[j + 1] /\ s[j + 1] \in Nat /\ t[j + 1] \in Nat
        BY <1>1, <1>2, <2>2, <2>3, <2>4
    <2>6. CASE s[j + 1] < t[j + 1]
        BY <1>1, <2>5, <2>6 DEF LessId
    <2>7. CASE t[j + 1] < s[j + 1]
        BY <1>1, <2>5, <2>7 DEF LessId
    <2>8. s[j + 1] < t[j + 1] \/ t[j + 1] < s[j + 1]
        <3>1. \A a, b \in Nat : a # b => a < b \/ b < a
            OBVIOUS
        <3>2. s[j + 1] # t[j + 1] /\ s[j + 1] \in Nat /\ t[j + 1] \in Nat
            BY <2>5
        <3>3. QED
            BY <3>1, <3>2
    <2>9. QED
        BY <2>6, <2>7, <2>8
<1>5. QED
    BY <1>3, <1>4

\* Ids are ordered transitively.
LEMMA IdsInOrder ==
    ASSUME NEW s \in Seq(Nat), NEW t \in Seq(Nat), NEW u \in Seq(Nat),
           LessId(s, t), LessId(t, u)
    PROVE  LessId(s, u)
<1> DEFINE At(a, b, k) == /\ k \in 0..Len(a) /\ k <= Len(b)
                          /\ \A i \in 1..k : a[i] = b[i]
                          /\ \/ k = Len(a) /\ k < Len(b)
                             \/ k < Len(a) /\ k < Len(b) /\ a[k + 1] < b[k + 1]
<1>1. /\ Len(s) \in Nat /\ Len(t) \in Nat /\ Len(u) \in Nat
      /\ \A i \in 1..Len(s) : s[i] \in Nat
      /\ \A i \in 1..Len(t) : t[i] \in Nat
      /\ \A i \in 1..Len(u) : u[i] \in Nat
    OBVIOUS
<1>2. PICK k : At(s, t, k)
    BY DEF LessId
<1>3. PICK m : At(t, u, m)
    BY DEF LessId
<1>4. CASE k < m
    <2> HIDE DEF At
    <2>0. m \in 0..Len(t) /\ m <= Len(u) /\ k \in 0..Len(s)
        BY <1>2, <1>3 DEF At
    <2>1. /\ k \in 0..Len(s) /\ k <= Len(u) /\ k < Len(u) /\ k + 1 \in 1..m
          /\ \A i \in 1..k : s[i] = t[i] /\ i \in 1..m
        <3>1. \A i \in 1..k : s[i] = t[i]
            BY <1>2 DEF At
        <3>2. m \in Nat /\ k \in Nat
            BY <1>1, <2>0
        <3>3. \A i \in 1..k : i \in 1..m
            BY <1>4, <3>2
        <3>4. k <= Len(u) /\ k < Len(u) /\ k + 1 \in 1..m
            BY <1>1, <1>4, <2>0, <3>2
        <3>5. QED
            BY <2>0, <3>1, <3>3, <3>4
    <2> USE DEF At
    <2>2. \A i \in 1..m : t[i] = u[i]
        BY <1>3
    <2>3. \A i \in 1..k : s[i] = u[i]
        BY <2>1, <2>2
    <2>4. t[k + 1] = u[k + 1]
        BY <2>1, <2>2
    <2>5. k = Len(s) \/ (k < Len(s) /\ s[k + 1] < u[k + 1])
        BY <1>2, <2>4
    <2>6. At(s, u, k)
        BY <2>1, <2>3, <2>5
    <2>7. QED
        BY <2>6 DEF LessId
<1>5. CASE m < k
    <2> HIDE DEF At
    <2>0. m \in 0..Len(t) /\ m <= Len(u) /\ k \in 0..Len(s) /\ k <= Len(t)
        BY <1>2, <1>3 DEF At
    <2>1. /\ m \in 0..Len(s) /\ m < Len(s) /\ m < Len(t) /\ m <= Len(u) /\ m + 1 \in 1..k
          /\ \A i \in 1..m : t[i] = u[i] /\ i \in 1..k
        <3>1. \A i \in 1..m : t[i] = u[i]
            BY <1>3 DEF At
        <3>2. m \in Nat /\ k \in Nat
            BY <1>1, <2>0
        <3>3. \A i \in 1..m : i \in 1..k
            BY <1>5, <3>2
        <3>4. /\ m \in 0..Len(s) /\ m < Len(s) /\ m < Len(t) /\ m <= Len(u)
              /\ m + 1 \in 1..k
            BY <1>1, <1>5, <2>0, <3>2
        <3>5. QED
            BY <3>1, <3>3, <3>4
    <2> USE DEF At
    <2>2. \A i \in 1..k : s[i] = t[i]
        BY <1>2
    <2>3. \A i \in 1..m : s[i] = u[i]
        BY <2>1, <2>2
    <2>4. s[m + 1] = t[m + 1]
        BY <2>1, <2>2
    <2>5. m < Len(u) /\ t[m + 1] < u[m + 1]
        BY <1>1, <1>3, <2>1
    <2>6. At(s, u, m)
        BY <2>1, <2>3, <2>4, <2>5
    <2>7. QED
        BY <2>6 DEF LessId
<1>6. CASE k = m
    <2>1. /\ k \in 0..Len(s) /\ k <= Len(t) /\ k <= Len(u)
          /\ \A i \in 1..k : s[i] = t[i]
          /\ \A i \in 1..k : t[i] = u[i]
        BY <1>2, <1>3, <1>6
    <2>2. k = Len(s) \/ (k < Len(s) /\ k < Len(t) /\ s[k + 1] < t[k + 1])
        BY <1>2
    <2>3. k < Len(t) /\ k < Len(u) /\ t[k + 1] < u[k + 1]
        <3>1. k < Len(t)
            BY <1>2
        <3>2. QED
            BY <1>1, <1>3, <1>6, <3>1
    <2>4. k < Len(s) => s[k + 1] < u[k + 1]
        <3> SUFFICES ASSUME k < Len(s)
                     PROVE  s[k + 1] < u[k + 1]
            OBVIOUS
        <3>1. k \in Nat /\ k < Len(s) /\ k < Len(t) /\ k < Len(u)
            BY <1>1, <2>1, <2>3
        <3>2. \A n \in Nat : k < n => k + 1 \in 1..n
            BY <3>1
        <3>3. k + 1 \in 1..Len(s) /\ k + 1 \in 1..Len(t) /\ k + 1 \in 1..Len(u)
            BY <1>1, <3>1, <3>2
        <3>4. s[k + 1] \in Nat /\ t[k + 1] \in Nat /\ u[k + 1] \in Nat
            BY <1>1, <3>3
        <3>5. s[k + 1] < t[k + 1]
            BY <2>2
        <3>6. QED
            BY <2>3, <3>4, <3>5
    <2>5. At(s, u, k)
        BY <2>1, <2>2, <2>3, <2>4
    <2>6. QED
        BY <2>5 DEF LessId
<1>7. QED
    BY <1>1, <1>2, <1>3, <1>4, <1>5, <1>6

\* The objects that can be a root cause.
Causes == {Device(d) : d \in Devices} \cup {Interface(i) : i \in Interfaces} \cup PhysicalLinks

\* What can be a root cause: finitely many objects with sequences of numbers as ids.
LEMMA CausesFacts ==
    /\ IsFiniteSet(Causes)
    /\ NoRoot \notin Causes
    /\ \A c \in Causes : /\ c.type \in CandidateTypes /\ c.id \in Seq(Nat)
                         /\ c = [type |-> c.type, id |-> c.id]
<1>1. Causes \subseteq Objects
    BY DEF Causes, Objects
<1>2. IsFiniteSet(Causes)
    BY <1>1, ObjectsAreFinite, FS_Subset
<1>3. \A d \in Devices : <<d>> \in Seq(Nat)
    BY TopologyAssumption
<1>4. \A i \in Interfaces : i \in Seq(Nat)
    <2> SUFFICES ASSUME NEW i \in Interfaces
                 PROVE  i \in Seq(Nat)
        OBVIOUS
    <2>1. PICK d \in Devices, n \in Nat : i = <<d, n>>
        <3>1. i \in Devices \X Nat
            BY TopologyAssumption
        <3>2. QED
            BY <3>1
    <2>2. Devices \subseteq Nat
        BY TopologyAssumption
    <2>3. d \in Nat
        BY <2>2
    <2>4. QED
        BY <2>1, <2>3
<1>5. \A c \in Connections : c[1] \o c[2] \in Seq(Nat)
    BY <1>4, TopologyAssumption
<1>6. \A c \in Causes : /\ c.type \in CandidateTypes /\ c.id \in Seq(Nat)
                         /\ c = [type |-> c.type, id |-> c.id]
    <2>1. \A d \in Devices : Device(d).type = "device" /\ Device(d).id = <<d>>
        BY DEF Device
    <2>2. \A i \in Interfaces : Interface(i).type = "interface" /\ Interface(i).id = i
        BY DEF Interface
    <2>3. \A c \in Connections : /\ PhysicalLink(c).type = "physical-link"
                                 /\ PhysicalLink(c).id = c[1] \o c[2]
        BY DEF PhysicalLink
    <2> SUFFICES ASSUME NEW c \in Causes
                 PROVE  /\ c.type \in CandidateTypes /\ c.id \in Seq(Nat)
                        /\ c = [type |-> c.type, id |-> c.id]
        OBVIOUS
    <2>4. CASE \E d \in Devices : c = Device(d)
        BY <1>3, <2>1, <2>4 DEF CandidateTypes, Device
    <2>5. CASE \E i \in Interfaces : c = Interface(i)
        BY <1>4, <2>2, <2>5 DEF CandidateTypes, Interface
    <2>6. CASE \E k \in Connections : c = PhysicalLink(k)
        <3>1. PICK k \in Connections : c = PhysicalLink(k)
            BY <2>6
        <3>2. PICK id : id = k[1] \o k[2]
            OBVIOUS
        <3>3. id \in Seq(Nat) /\ c = [type |-> "physical-link", id |-> id]
            BY <1>5, <3>1, <3>2 DEF PhysicalLink
        <3>4. QED
            BY <3>3 DEF CandidateTypes
    <2>7. QED
        BY <2>4, <2>5, <2>6 DEF Causes, PhysicalLinks
<1>7. NoRoot \notin Causes
    BY <1>6 DEF NoRoot, CandidateTypes
<1>8. QED
    BY <1>2, <1>6, <1>7

\* What is considered can be a root cause.
LEMMA CandidatesAreCauses ==
    ASSUME NEW obs, \A i \in DOMAIN obs : obs[i].source \in Devices
    PROVE  CandidateObjects(obs) \subseteq Causes
<1>1. ASSUME NEW c \in Objects, c.type \in CandidateTypes
      PROVE  c \in Causes
    BY <1>1 DEF Objects, Causes, Sessions, PeerSessions, BgpSession, OspfSession, LacpSession,
                CandidateTypes
<1>2. \A o : Suspects(o) \subseteq Causes
    BY <1>1 DEF Suspects
<1>3. QED
    BY <1>2 DEF CandidateObjects, Causes

\* Among scored candidates one is the best.
LEMMA BestIsThere ==
    ASSUME NEW h, DOMAIN h \subseteq Causes, DOMAIN h # {}, \A c \in DOMAIN h : h[c].score \in Int
    PROVE  BestOf(h) \in DOMAIN h
<1> DEFINE S == DOMAIN h
           R == {p \in S \X S : RankedAfter(h, p[1], p[2])}
<1>1. IsFiniteSet(S)
    BY CausesFacts, FS_Subset
<1>2. \A c \in S : /\ c.type \in CandidateTypes /\ c.id \in Seq(Nat)
                   /\ c = [type |-> c.type, id |-> c.id]
    BY CausesFacts
<1>3. \A x, y \in CandidateTypes : TypeRank(x) \in Nat /\ (TypeRank(x) = TypeRank(y) => x = y)
    BY DEF CandidateTypes, TypeRank
<1>4. ASSUME NEW x \in S, NEW y \in S, x # y
      PROVE  <<x, y>> \in R \/ <<y, x>> \in R
    <2>1. x.type # y.type \/ x.id # y.id
        BY <1>2, <1>4
    <2>2. /\ h[x].score \in Int /\ h[y].score \in Int
          /\ TypeRank(x.type) \in Nat /\ TypeRank(y.type) \in Nat
        BY <1>2, <1>3
    <2>3. x.id # y.id => LessId(x.id, y.id) \/ LessId(y.id, x.id)
        BY <1>2, IdsAreOrdered
    <2>4. TypeRank(x.type) = TypeRank(y.type) => x.type = y.type
        BY <1>2, <1>3
    <2>5. RankedAfter(h, x, y) \/ RankedAfter(h, y, x)
        BY <2>1, <2>2, <2>3, <2>4 DEF RankedAfter
    <2>6. QED
        BY <2>5
<1>5. ASSUME NEW x \in S, NEW y \in S, NEW z \in S, <<x, y>> \in R, <<y, z>> \in R
      PROVE  <<x, z>> \in R
    <2>1. RankedAfter(h, x, y) /\ RankedAfter(h, y, z)
        BY <1>5
    <2>2. /\ h[x].score \in Int /\ h[y].score \in Int /\ h[z].score \in Int
          /\ TypeRank(x.type) \in Nat /\ TypeRank(y.type) \in Nat /\ TypeRank(z.type) \in Nat
        BY <1>2, <1>3
    <2>3. LessId(x.id, y.id) /\ LessId(y.id, z.id) => LessId(x.id, z.id)
        BY <1>2, IdsInOrder
    <2>4. RankedAfter(h, x, z)
        BY <2>1, <2>2, <2>3 DEF RankedAfter
    <2>5. QED
        BY <2>4
<1>6. \E g \in S : \A x \in S \ {g} : <<x, g>> \in R
    <2> HIDE DEF S, R
    <2>1. S # {}
        BY DEF S
    <2>2. QED
        BY <1>1, <1>4, <1>5, <2>1, GreatestInOrder
<1>7. \E g \in S : \A x \in S \ {g} : RankedAfter(h, x, g)
    BY <1>6
<1>8. QED
    BY <1>7 DEF BestOf

-----------------------------------------------------------------------------
(* Scores are numbers.                                                      *)

\* The weight of a sighting is an integer.
LEMMA SightingWeight ==
    ASSUME NEW line
    PROVE  Sighting(line).weight \in Int
<1>1. \A type, pairs : NeighbourSighting(line, type, pairs).weight \in Int
    BY DEF NeighbourSighting
<1>2. QED
    BY <1>1 DEF Sighting

\* So is the weight of an observation.
LEMMA WeightType ==
    ASSUME NEW line, line.rule \in Int, NEW sure \in Int
    PROVE  Weight(line, sure) \in Int
BY DEF Weight, Least, Greatest, NoRule

\* The fields of an observation.
LEMMA ObservationFields ==
    ASSUME NEW o \in Observations
    PROVE  o.at \in Int /\ o.source \in Devices /\ o.weight \in Int
<1>1. PICK l \in Lines, t \in 0..MaxTime : o = Normalize(l, t)
    BY DEF Observations
<1>2. o # NoObservation
    BY DEF Observations
<1>3. Reporter(l) \in Devices
    BY <1>1, <1>2 DEF Normalize
<1>4. o.source = Reporter(l) /\ o.weight = Weight(l, Sighting(l).weight)
    BY <1>1, <1>3 DEF Normalize
<1>5. l.rule \in Int /\ Sighting(l).weight \in Int
    BY BufferAssumption, SightingWeight
<1>6. Weight(l, Sighting(l).weight) \in Int
    BY <1>5, WeightType
<1>7. o.at \in Int
    BY ObservationTime
<1>8. QED
    BY <1>3, <1>4, <1>6, <1>7

\* A candidate explains places of the window.
LEMMA CoveredIsFinite ==
    ASSUME NEW obs \in Seq(Observations), NEW c
    PROVE  /\ Covered(c, obs) \subseteq 1..Len(obs) /\ Len(obs) \in Nat
           /\ IsFiniteSet(Covered(c, obs))
<1>1. Len(obs) \in Nat /\ DOMAIN obs = 1..Len(obs)
    OBVIOUS
<1>2. Covered(c, obs) \subseteq 1..Len(obs)
    BY <1>1 DEF Covered
<1>3. IsFiniteSet(1..Len(obs))
    BY <1>1, FS_Interval
<1>4. QED
    BY <1>1, <1>2, <1>3, FS_Subset

\* What an edge leads to is a session, or has the type of a cause.
LEMMA SessionsFollow ==
    ASSUME NEW c, NEW s \in Successors(c), s.type \in SessionTypes
    PROVE  s \in Sessions
<1>1. PICK e \in Edges : e[2] = s
    BY DEF Successors
<1>2. CASE e \in OwnsEdges
    BY <1>1, <1>2 DEF OwnsEdges, Interface, SessionTypes
<1>3. CASE e \in LinkEdges
    <2>1. PICK k \in Connections : \E i \in {k[1], k[2]} :
             e \in {<<Interface(i), PhysicalLink(k)>>, <<PhysicalLink(k), Interface(i)>>,
                   <<Device(i[1]), PhysicalLink(k)>>}
        BY <1>3 DEF LinkEdges
    <2>2. s = PhysicalLink(k) \/ \E i : s = Interface(i)
        BY <1>1, <2>1
    <2>3. /\ \A i : Interface(i).type = "interface"
          /\ PhysicalLink(k).type = "physical-link"
        BY DEF Interface, PhysicalLink
    <2>4. s.type \in {"interface", "physical-link"}
        BY <2>2, <2>3
    <2>5. QED
        BY <2>4 DEF SessionTypes
<1>4. CASE e \in DeviceEdges
    BY <1>1, <1>4 DEF DeviceEdges, Device, SessionTypes
<1>5. CASE e \in PeerSessionEdges
    BY <1>1, <1>5 DEF PeerSessionEdges, Sessions
<1>6. CASE e \in LacpSessionEdges
    BY <1>1, <1>6 DEF LacpSessionEdges, Sessions
<1>7. QED
    BY <1>1, <1>2, <1>3, <1>4, <1>5, <1>6 DEF Edges

\* There are finitely many sessions.
LEMMA SessionsAreFinite == IsFiniteSet(Sessions)
<1>1. Sessions \subseteq Objects
    BY DEF Objects
<1>2. QED
    BY <1>1, ObjectsAreFinite, FS_Subset

\* Parts of a score are integers.
LEMMA RedundancyType ==
    ASSUME NEW c, NEW obs, NEW cov
    PROVE  Redundancy(c, obs, cov) \in Int
<1> DEFINE all      == {s \in Successors(c) : s.type \in SessionTypes}
           affected == {obs[i].object : i \in cov} \cap Sessions
<1>1. all \ affected \subseteq Sessions
    BY SessionsFollow
<1>2. Cardinality(all \ affected) \in Nat
    <2> HIDE DEF all, affected
    <2>1. IsFiniteSet(all \ affected)
        BY <1>1, SessionsAreFinite, FS_Subset
    <2>2. QED
        BY <2>1, FS_CardinalityType
<1>3. Redundancy(c, obs, cov) \in {0, -8000 * Cardinality(all \ affected)}
    BY DEF Redundancy
<1> HIDE DEF all, affected
<1>4. QED
    BY <1>2, <1>3

\* So is what the order of the lines counts.
LEMMA TemporalFitType ==
    ASSUME NEW c, NEW obs, NEW cov, IsFiniteSet(cov)
    PROVE  TemporalFit(c, obs, cov) \in Int
<1> DEFINE pairs  == {p \in cov \X cov : Before(obs, p[1], p[2])}
           dist   == [i \in cov |-> Distance(c, obs[i].object)]
           Toward == {p \in pairs : dist[p[1]] < dist[p[2]]}
           Away   == {p \in pairs : dist[p[1]] > dist[p[2]]}
<1>1. IsFiniteSet(cov \X cov)
    BY FS_Product
<1>2. Toward \subseteq cov \X cov /\ Away \subseteq cov \X cov
    OBVIOUS
<1>3. PICK toward : toward = Cardinality(Toward)
    OBVIOUS
<1>4. PICK away : away = Cardinality(Away)
    OBVIOUS
<1>5. TemporalFit(c, obs, cov) =
         LET fit == 4000 * (toward - away)
         IN  IF fit > 12000 THEN 12000 ELSE IF fit < -12000 THEN -12000 ELSE fit
    BY <1>3, <1>4 DEF TemporalFit
<1>6. toward \in Nat /\ away \in Nat
    <2> HIDE DEF Toward, Away
    <2>1. QED
        BY <1>1, <1>2, <1>3, <1>4, FS_Subset, FS_CardinalityType
<1>7. QED
    BY <1>5, <1>6

\* So is what naming a device as the peer counts.
LEMMA SilentPeerType ==
    ASSUME NEW c, NEW obs, NEW cov, IsFiniteSet(cov)
    PROVE  SilentPeer(c, obs, cov) \in Int
<1> DEFINE named  == {i \in cov : c.type = "device" /\ obs[i].peer = c.id[1]}
           strong == {i \in named : obs[i].strong}
<1>1. named \subseteq cov /\ strong \subseteq cov
    OBVIOUS
<1>2. SilentPeer(c, obs, cov) \in {64000 * Cardinality(strong), 14000 * Cardinality(named)}
    BY DEF SilentPeer
<1> HIDE DEF named, strong
<1>3. Cardinality(named) \in Nat /\ Cardinality(strong) \in Nat
    BY <1>1, FS_Subset, FS_CardinalityType
<1>4. QED
    BY <1>2, <1>3

\* So is what recoveries count.
LEMMA ContradictionType ==
    ASSUME NEW obs, NEW cov, IsFiniteSet(cov)
    PROVE  Contradiction(obs, cov) \in Int
<1> DEFINE recoveries == {i \in cov : obs[i].assertion = "recovery"}
<1>1. recoveries \subseteq cov
    OBVIOUS
<1>2. Contradiction(obs, cov) = -35000 * Cardinality(recoveries)
    BY DEF Contradiction
<1> HIDE DEF recoveries
<1>3. Cardinality(recoveries) \in Nat
    BY <1>1, FS_Subset, FS_CardinalityType
<1>4. QED
    BY <1>2, <1>3

\* So is what is rounded.
LEMMA RoundedType ==
    ASSUME NEW n \in Int, NEW d \in Nat \ {0}
    PROVE  Rounded(n, d) \in Int
<1>1. 2 * n + d \in Int /\ 2 * d \in Nat /\ 2 * d > 0
    OBVIOUS
<1>2. QED
    BY <1>1 DEF Rounded

\* What the evidence for c weighs, near and far.
Evidence(c, obs, cov) ==
    [i \in cov |-> IF obs[i].object = c THEN 12 * obs[i].weight ELSE 0]
Shares(c, obs, cov) ==
    [i \in cov |-> 10 * obs[i].weight - 4000 * Distance(c, obs[i].object)]

\* So is what each line counts for a candidate, alone and in its share.
LEMMA EvidenceType ==
    ASSUME NEW obs \in Seq(Observations), NEW c, NEW cov \in SUBSET (1..Len(obs))
    PROVE  /\ Evidence(c, obs, cov) \in [cov -> Int]
           /\ Shares(c, obs, cov) \in [cov -> Int]
<1>1. ASSUME NEW i \in cov
      PROVE  obs[i].weight \in Int /\ Distance(c, obs[i].object) \in Int
    <2>1. obs[i] \in Observations
        OBVIOUS
    <2>2. QED
        BY <2>1, ObservationFields, DistanceType
<1>2. \A i \in cov : 12 * obs[i].weight \in Int
    BY <1>1
<1>3. \A i \in cov : 10 * obs[i].weight - 4000 * Distance(c, obs[i].object) \in Int
    BY <1>1
<1>4. QED
    BY <1>2, <1>3 DEF Evidence, Shares

\* The score is made of these numbers.
Total(c, obs, cov) ==
    Specificity(c.type) + SumFunction(Evidence(c, obs, cov)) + SilentPeer(c, obs, cov)
      + TemporalFit(c, obs, cov) + Contradiction(obs, cov)
      + Redundancy(c, obs, cov) + Coherence(c, cov)

\* A score in terms of its named parts.
LEMMA ScoredParts ==
    ASSUME NEW obs, NEW c, NEW cov
    PROVE  Scored(c, obs, cov) =
              LET k == Cardinality(cov)
                  n == Len(obs)
              IN  [score    |-> Rounded(100000 * k * k + Total(c, obs, cov) * k * n
                                          + SumFunction(Shares(c, obs, cov)) * n, k * n),
                   coverage |-> Rounded(100000 * k, n),
                   direct   |-> SumFunction(Evidence(c, obs, cov)),
                   explains |-> k]
BY DEF Scored, DirectEvidence, Total, Evidence, Shares

\* A score is an integer when the candidate explains some line.
LEMMA ScoreType ==
    ASSUME NEW obs \in Seq(Observations), NEW c, Covered(c, obs) # {}
    PROVE  Hypothesis(c, obs).score \in Int
<1>1. PICK cov : cov = Covered(c, obs)
    OBVIOUS
<1>2. cov \subseteq 1..Len(obs) /\ Len(obs) \in Nat /\ IsFiniteSet(cov) /\ cov # {}
    BY <1>1, CoveredIsFinite
<1>3. PICK k, n : k = Cardinality(cov) /\ n = Len(obs)
    OBVIOUS
<1>4. k \in Nat \ {0} /\ n \in Nat \ {0}
    <2>1. k \in Nat /\ k # 0
        BY <1>2, <1>3, FS_CardinalityType, FS_EmptySet
    <2>2. n # 0
        <3>1. PICK i \in cov : i \in 1..n
            BY <1>2, <1>3
        <3>2. QED
            BY <1>2, <1>3, <3>1
    <2>3. QED
        BY <1>2, <1>3, <2>1, <2>2
<1>5. PICK shared : shared = SumFunction(Shares(c, obs, cov))
    OBVIOUS
<1>6. shared \in Int /\ SumFunction(Evidence(c, obs, cov)) \in Int
    BY <1>2, <1>5, EvidenceType, SumFunctionType
<1>7. PICK whole : whole = Total(c, obs, cov)
    OBVIOUS
<1>8. whole \in Int
    <2>1. Specificity(c.type) \in Int /\ Coherence(c, cov) \in Int
        BY DEF Specificity, Coherence
    <2>2. SilentPeer(c, obs, cov) \in Int /\ TemporalFit(c, obs, cov) \in Int
        BY <1>2, SilentPeerType, TemporalFitType
    <2>3. Contradiction(obs, cov) \in Int /\ Redundancy(c, obs, cov) \in Int
        BY <1>2, ContradictionType, RedundancyType
    <2>4. QED
        BY <1>6, <1>7, <2>1, <2>2, <2>3 DEF Total
<1>9. Hypothesis(c, obs).score = Rounded(100000 * k * k + whole * k * n + shared * n, k * n)
    BY <1>1, <1>3, <1>5, <1>7, ScoredParts DEF Hypothesis
<1>10. k * n \in Nat \ {0}
    BY <1>4
<1>11. 100000 * k * k \in Int /\ whole * k * n \in Int /\ shared * n \in Int
    BY <1>4, <1>6, <1>8
<1>12. 100000 * k * k + whole * k * n + shared * n \in Int
    BY <1>11
<1>13. QED
    BY <1>9, <1>10, <1>12, RoundedType

-----------------------------------------------------------------------------
(* The order of the lines of a window makes no difference.                  *)

\* An order of the window s in which lines of one time keep their places.
Reorders(p, s) ==
    /\ p \in [DOMAIN s -> DOMAIN s]
    /\ \A i, j \in DOMAIN s : p[i] = p[j] => i = j
    /\ \A i, j \in DOMAIN s : i < j /\ s[p[i]].at = s[p[j]].at => p[i] < p[j]

Reordered(p, s) == [i \in DOMAIN s |-> s[p[i]]]

\* A reordering leaves out nothing; nothing changes places with what it is of
\* one time with.
LEMMA ReorderedFacts ==
    ASSUME NEW s \in Seq(Observations), NEW p, Reorders(p, s)
    PROVE  /\ Renames(p, DOMAIN s, DOMAIN s)
           /\ Reordered(p, s) \in Seq(Observations)
           /\ Len(Reordered(p, s)) = Len(s) /\ DOMAIN Reordered(p, s) = DOMAIN s
           /\ \A i, j \in DOMAIN s : Before(Reordered(p, s), i, j) <=> Before(s, p[i], p[j])
<1> DEFINE t == Reordered(p, s)
           N == DOMAIN s
<1>1. N = 1..Len(s) /\ Len(s) \in Nat /\ \A i \in N : s[i] \in Observations
    OBVIOUS
<1>2. Renames(p, N, N)
    <2>1. IsFiniteSet(N)
        BY <1>1, FS_Interval
    <2>2. p \in Injection(N, N)
        BY DEF Reorders, Injection, IsInjective
    <2>3. p \in Surjection(N, N)
        BY <2>1, <2>2, FS_Injection
    <2>4. QED
        BY <2>3 DEF Reorders, Renames, Surjection
<1>3. DOMAIN t = N /\ \A i \in N : t[i] = s[p[i]] /\ p[i] \in N
    BY DEF Reordered, Reorders
<1>4. t \in Seq(Observations) /\ Len(t) = Len(s)
    <2>1. t = [i \in 1..Len(s) |-> s[p[i]]]
        BY <1>1 DEF Reordered
    <2>2. \A i \in 1..Len(s) : s[p[i]] \in Observations
        BY <1>1, <1>3
    <2>3. QED
        BY <1>1, <2>1, <2>2
<1>5. ASSUME NEW i \in N, NEW j \in N
      PROVE  Before(t, i, j) <=> Before(s, p[i], p[j])
    <2>1. t[i] = s[p[i]] /\ t[j] = s[p[j]] /\ p[i] \in N /\ p[j] \in N
        BY <1>3
    <2>2. s[p[i]].at = s[p[j]].at => (i < j => p[i] < p[j])
        BY DEF Reorders
    <2>3. s[p[j]].at = s[p[i]].at => (j < i => p[j] < p[i])
        BY DEF Reorders
    <2>4. i \in Int /\ j \in Int /\ p[i] \in Int /\ p[j] \in Int
        BY <1>1, <2>1
    <2>5. s[p[i]].at = s[p[j]].at => (p[i] < p[j] => i < j)
        BY <2>3, <2>4
    <2>6. QED
        BY <2>1, <2>2, <2>5 DEF Before
<1>6. QED
    BY <1>2, <1>3, <1>4, <1>5

\* The observations of t are those of s under other numbers, in the same order;
\* d are the numbers of those in e.
Alike(q, t, d, s, e) ==
    /\ Renames(q, d, e)
    /\ \A i \in d : t[i] = s[q[i]]
    /\ \A i, j \in d : Before(t, i, j) <=> Before(s, q[i], q[j])

\* A candidate explains the same lines in any order.
LEMMA CoveredAlike ==
    ASSUME NEW s \in Seq(Observations), NEW p, Reorders(p, s), NEW c
    PROVE  \E q : Alike(q, Reordered(p, s), Covered(c, Reordered(p, s)), s, Covered(c, s))
<1> DEFINE t == Reordered(p, s)
           q == [i \in Covered(c, t) |-> p[i]]
<1>1. /\ Renames(p, DOMAIN s, DOMAIN s) /\ DOMAIN t = DOMAIN s
      /\ \A i, j \in DOMAIN s : Before(t, i, j) <=> Before(s, p[i], p[j])
    BY ReorderedFacts
<1>2. \A i \in DOMAIN s : t[i] = s[p[i]] /\ p[i] \in DOMAIN s
    BY <1>1 DEF Reordered, Renames
<1>3. \A i \in DOMAIN s : i \in Covered(c, t) <=> p[i] \in Covered(c, s)
    BY <1>1, <1>2 DEF Covered
<1>4. Covered(c, t) \subseteq DOMAIN s /\ Covered(c, s) \subseteq DOMAIN s
    BY <1>1 DEF Covered
<1> HIDE DEF t
<1>5. \A i \in Covered(c, t) : q[i] = p[i] /\ q[i] \in Covered(c, s)
    BY <1>3, <1>4
<1>6. Renames(q, Covered(c, t), Covered(c, s))
    <2>1. q \in [Covered(c, t) -> Covered(c, s)]
        BY <1>5
    <2>2. \A i, j \in Covered(c, t) : q[i] = q[j] => i = j
        BY <1>1, <1>4, <1>5 DEF Renames
    <2>3. ASSUME NEW i \in Covered(c, s)
          PROVE  \E j \in Covered(c, t) : q[j] = i
        <3>1. PICK j \in DOMAIN s : p[j] = i
            BY <1>1, <1>4 DEF Renames
        <3>2. j \in Covered(c, t)
            BY <1>3, <3>1
        <3>3. QED
            BY <1>5, <3>1, <3>2
    <2>4. QED
        BY <2>1, <2>2, <2>3 DEF Renames
<1>7. Alike(q, t, Covered(c, t), s, Covered(c, s))
    BY <1>1, <1>2, <1>4, <1>5, <1>6 DEF Alike
<1>8. QED
    BY <1>7 DEF t

\* The order of the event times is that of the lines in any order.
LEMMA TemporalFitAlike ==
    ASSUME NEW q, NEW t, NEW d, NEW s, NEW e, IsFiniteSet(e), Alike(q, t, d, s, e), NEW c
    PROVE  TemporalFit(c, t, d) = TemporalFit(c, s, e)
<1> DEFINE Pairs(o, v)  == {p \in v \X v : Before(o, p[1], p[2])}
           Dist(o, v)   == [i \in v |-> Distance(c, o[i].object)]
           Toward(o, v) == {p \in Pairs(o, v) : Dist(o, v)[p[1]] < Dist(o, v)[p[2]]}
           Away(o, v)   == {p \in Pairs(o, v) : Dist(o, v)[p[1]] > Dist(o, v)[p[2]]}
<1>1. \A i \in d : t[i] = s[q[i]] /\ q[i] \in e
    BY DEF Alike, Renames
<1>2. \A i, j \in d : Before(t, i, j) <=> Before(s, q[i], q[j])
    BY DEF Alike
<1>3. \A i \in d : Dist(t, d)[i] = Dist(s, e)[q[i]]
    BY <1>1
<1>4. \A i, j \in d : <<i, j>> \in Toward(t, d) <=> <<q[i], q[j]>> \in Toward(s, e)
    <2> HIDE DEF Dist
    <2>1. QED
        BY <1>1, <1>2, <1>3
<1>5. \A i, j \in d : <<i, j>> \in Away(t, d) <=> <<q[i], q[j]>> \in Away(s, e)
    <2> HIDE DEF Dist
    <2>1. QED
        BY <1>1, <1>2, <1>3
<1>6. /\ Toward(t, d) \in SUBSET (d \X d) /\ Toward(s, e) \in SUBSET (e \X e)
      /\ Away(t, d) \in SUBSET (d \X d) /\ Away(s, e) \in SUBSET (e \X e)
    OBVIOUS
<1>7. Renames(q, d, e)
    BY DEF Alike
<1>8. \A o, v : TemporalFit(c, o, v) =
         LET fit == 4000 * (Cardinality(Toward(o, v)) - Cardinality(Away(o, v)))
         IN  IF fit > 12000 THEN 12000 ELSE IF fit < -12000 THEN -12000 ELSE fit
    BY DEF TemporalFit
<1> HIDE DEF Toward, Away
<1>9. /\ Cardinality(Toward(t, d)) = Cardinality(Toward(s, e))
      /\ Cardinality(Away(t, d)) = Cardinality(Away(s, e))
    BY <1>4, <1>5, <1>6, <1>7, CountOfPairs
<1>10. QED
    BY <1>8, <1>9

\* As many lines name a device.
LEMMA SilentPeerAlike ==
    ASSUME NEW q, NEW t, NEW d, NEW s, NEW e, IsFiniteSet(e), Alike(q, t, d, s, e), NEW c
    PROVE  SilentPeer(c, t, d) = SilentPeer(c, s, e)
<1> DEFINE Named(o, v)  == {i \in v : c.type = "device" /\ o[i].peer = c.id[1]}
           Strong(o, v) == {i \in Named(o, v) : o[i].strong}
<1>1. Renames(q, d, e) /\ \A i \in d : t[i] = s[q[i]] /\ q[i] \in e
    BY DEF Alike, Renames
<1>2. \A i \in d : i \in Named(t, d) <=> q[i] \in Named(s, e)
    BY <1>1
<1>3. \A i \in d : i \in Strong(t, d) <=> q[i] \in Strong(s, e)
    BY <1>1
<1>4. /\ Named(t, d) \in SUBSET d /\ Named(s, e) \in SUBSET e
      /\ Strong(t, d) \in SUBSET d /\ Strong(s, e) \in SUBSET e
    OBVIOUS
<1>5. \A o, v : SilentPeer(c, o, v) =
         IF Cardinality(Named(o, v)) < 2 THEN 64000 * Cardinality(Strong(o, v))
                                         ELSE 14000 * Cardinality(Named(o, v))
    BY DEF SilentPeer
<1> HIDE DEF Named, Strong
<1>6. /\ Cardinality(Named(t, d)) = Cardinality(Named(s, e))
      /\ Cardinality(Strong(t, d)) = Cardinality(Strong(s, e))
    BY <1>1, <1>2, <1>3, <1>4, CountOfParts
<1>7. QED
    BY <1>5, <1>6

\* As many lines tell of recoveries.
LEMMA ContradictionAlike ==
    ASSUME NEW q, NEW t, NEW d, NEW s, NEW e, IsFiniteSet(e), Alike(q, t, d, s, e)
    PROVE  Contradiction(t, d) = Contradiction(s, e)
<1> DEFINE Recoveries(o, v) == {i \in v : o[i].assertion = "recovery"}
<1>1. Renames(q, d, e) /\ \A i \in d : t[i] = s[q[i]] /\ q[i] \in e
    BY DEF Alike, Renames
<1>2. \A i \in d : i \in Recoveries(t, d) <=> q[i] \in Recoveries(s, e)
    BY <1>1
<1>3. Recoveries(t, d) \in SUBSET d /\ Recoveries(s, e) \in SUBSET e
    OBVIOUS
<1>4. \A o, v : Contradiction(o, v) = -35000 * Cardinality(Recoveries(o, v))
    BY DEF Contradiction
<1> HIDE DEF Recoveries
<1>5. Cardinality(Recoveries(t, d)) = Cardinality(Recoveries(s, e))
    BY <1>1, <1>2, <1>3, CountOfParts
<1>6. QED
    BY <1>4, <1>5

\* As many sessions are silent.
LEMMA RedundancyAlike ==
    ASSUME NEW q, NEW t, NEW d, NEW s, NEW e, Alike(q, t, d, s, e), NEW c
    PROVE  Redundancy(c, t, d) = Redundancy(c, s, e)
<1>1. Renames(q, d, e) /\ \A i \in d : t[i] = s[q[i]]
    BY DEF Alike
<1> DEFINE Seen(o, v) == {o[i].object : i \in v}
           All == {o \in Successors(c) : o.type \in SessionTypes}
<1>2. Seen(t, d) = Seen(s, e)
    BY <1>1 DEF Renames
<1> DEFINE Value(seen) ==
             IF c.type # "device" \/ Cardinality(All) <= 1 \/ seen \cap Sessions = {} THEN 0
             ELSE -8000 * Cardinality(All \ (seen \cap Sessions))
<1>3. /\ Redundancy(c, t, d) = Value(Seen(t, d))
      /\ Redundancy(c, s, e) = Value(Seen(s, e))
    BY DEF Redundancy
<1> HIDE DEF Seen, Value
<1>4. QED
    BY <1>2, <1>3

\* As many lines are explained.
LEMMA CoherenceAlike ==
    ASSUME NEW d, NEW e, Cardinality(d) = Cardinality(e), NEW c
    PROVE  Coherence(c, d) = Coherence(c, e)
BY DEF Coherence

\* The sums over the lines are the same.
LEMMA SumsAlike ==
    ASSUME NEW t, NEW d, IsFiniteSet(d), NEW s, NEW e, IsFiniteSet(e), NEW c,
           Evidence(c, t, d) \in [d -> Int], Shares(c, t, d) \in [d -> Int],
           Evidence(c, s, e) \in [e -> Int], Shares(c, s, e) \in [e -> Int],
           NEW q, Alike(q, t, d, s, e)
    PROVE  /\ SumFunction(Evidence(c, t, d)) = SumFunction(Evidence(c, s, e))
           /\ SumFunction(Shares(c, t, d)) = SumFunction(Shares(c, s, e))
<1>1. Renames(q, d, e)
    BY DEF Alike
<1>2. \A i \in d : t[i] = s[q[i]] /\ q[i] \in e
    BY DEF Alike, Renames
<1>3. \A i \in d : Evidence(c, t, d)[i] = Evidence(c, s, e)[q[i]]
    BY <1>2 DEF Evidence
<1>4. \A i \in d : Shares(c, t, d)[i] = Shares(c, s, e)[q[i]]
    BY <1>2 DEF Shares
<1>5. SumFunction(Evidence(c, t, d)) = SumFunction(Evidence(c, s, e))
    BY <1>1, <1>3, SumOfRenamed
<1>6. SumFunction(Shares(c, t, d)) = SumFunction(Shares(c, s, e))
    BY <1>1, <1>4, SumOfRenamed
<1>7. QED
    BY <1>5, <1>6

\* A candidate scores the same.
LEMMA HypothesisOfReordered ==
    ASSUME NEW s \in Seq(Observations), NEW p, Reorders(p, s), NEW c
    PROVE  /\ Hypothesis(c, Reordered(p, s)) = Hypothesis(c, s)
           /\ Covered(c, Reordered(p, s)) = {} <=> Covered(c, s) = {}
<1>1. PICK t : t = Reordered(p, s)
    OBVIOUS
<1>2. t \in Seq(Observations) /\ Len(t) = Len(s)
    BY <1>1, ReorderedFacts
<1>3. PICK d, e : d = Covered(c, t) /\ e = Covered(c, s)
    OBVIOUS
<1>4. PICK q : Alike(q, t, d, s, e)
    BY <1>1, <1>3, CoveredAlike
<1>5. /\ d \in SUBSET (1..Len(t)) /\ IsFiniteSet(d)
      /\ e \in SUBSET (1..Len(s)) /\ IsFiniteSet(e)
    BY <1>2, <1>3, CoveredIsFinite
<1>6. Cardinality(d) = Cardinality(e) /\ (d = {} <=> e = {})
    <2>1. Renames(q, d, e)
        BY <1>4 DEF Alike
    <2>2. d = {} <=> e = {}
        BY <2>1 DEF Renames
    <2>3. QED
        BY <1>5, <2>1, <2>2, CountOfRenamed
<1>7. /\ SumFunction(Evidence(c, t, d)) = SumFunction(Evidence(c, s, e))
      /\ SumFunction(Shares(c, t, d)) = SumFunction(Shares(c, s, e))
    <2>1. Evidence(c, t, d) \in [d -> Int] /\ Shares(c, t, d) \in [d -> Int]
        BY <1>2, <1>5, EvidenceType
    <2>2. Evidence(c, s, e) \in [e -> Int] /\ Shares(c, s, e) \in [e -> Int]
        BY <1>5, EvidenceType
    <2>3. IsFiniteSet(d) /\ IsFiniteSet(e)
        BY <1>5
    <2>4. QED
        BY <1>4, <2>1, <2>2, <2>3, SumsAlike
<1>8. Total(c, t, d) = Total(c, s, e)
    <2>1. SilentPeer(c, t, d) = SilentPeer(c, s, e) /\ TemporalFit(c, t, d) = TemporalFit(c, s, e)
        BY <1>4, <1>5, SilentPeerAlike, TemporalFitAlike
    <2>2. Contradiction(t, d) = Contradiction(s, e) /\ Redundancy(c, t, d) = Redundancy(c, s, e)
        BY <1>4, <1>5, ContradictionAlike, RedundancyAlike
    <2>3. Coherence(c, d) = Coherence(c, e)
        BY <1>6, CoherenceAlike
    <2>4. QED
        BY <1>7, <2>1, <2>2, <2>3 DEF Total
<1>9. Scored(c, t, d) = Scored(c, s, e)
    BY <1>2, <1>6, <1>7, <1>8, ScoredParts
<1>10. QED
    BY <1>1, <1>3, <1>6, <1>9 DEF Hypothesis

\* So the verdict is the same.
LEMMA VerdictOfReordered ==
    ASSUME NEW s \in Seq(Observations), NEW p, Reorders(p, s)
    PROVE  Infer(Reordered(p, s)) = Infer(s)
<1>1. PICK t : t = Reordered(p, s)
    OBVIOUS
<1>2. Renames(p, DOMAIN s, DOMAIN s) /\ DOMAIN t = DOMAIN s
    BY <1>1, ReorderedFacts
<1>3. \A i \in DOMAIN s : t[i] = s[p[i]]
    BY <1>1 DEF Reordered
<1>4. CandidateObjects(t) = CandidateObjects(s)
    <2> DEFINE Of(o) == Suspects(o.object) \cup {Device(o.source)}
    <2>1. {Of(t[i]) : i \in DOMAIN t} = {Of(s[i]) : i \in DOMAIN s}
        <3> HIDE DEF Of
        <3>1. QED
            BY <1>2, <1>3 DEF Renames
    <2>2. \A o : CandidateObjects(o) = UNION {Of(o[i]) : i \in DOMAIN o}
        BY DEF CandidateObjects
    <2> HIDE DEF Of
    <2>3. QED
        BY <2>1, <2>2
<1>5. \A c : Hypothesis(c, t) = Hypothesis(c, s) /\ (Covered(c, t) = {} <=> Covered(c, s) = {})
    BY <1>1, HypothesisOfReordered
<1>6. {c \in CandidateObjects(t) : Covered(c, t) # {}} =
         {c \in CandidateObjects(s) : Covered(c, s) # {}}
    BY <1>4, <1>5
<1>7. Hypotheses(t) = Hypotheses(s)
    BY <1>5, <1>6 DEF Hypotheses
<1>8. QED
    BY <1>1, <1>7 DEF Infer

-----------------------------------------------------------------------------
(* The verdict that is held is the verdict on the window.                   *)

\* A window without a verdict has no candidate that explains anything.
LEMMA NoVerdict ==
    ASSUME NEW s \in Seq(Observations)
    PROVE  Infer(s).root = NoRoot <=> DOMAIN Hypotheses(s) = {}
<1>1. CASE DOMAIN Hypotheses(s) = {}
    BY <1>1 DEF Infer, Verdict
<1>2. CASE DOMAIN Hypotheses(s) # {}
    <2>1. PICK h : h = Hypotheses(s)
        OBVIOUS
    <2>2. \A i \in DOMAIN s : s[i].source \in Devices
        <3>1. \A i \in DOMAIN s : s[i] \in Observations
            OBVIOUS
        <3>2. QED
            BY <3>1, ObservationFields
    <2>3. DOMAIN h = {c \in CandidateObjects(s) : Covered(c, s) # {}}
        BY <2>1 DEF Hypotheses
    <2>4. DOMAIN h \subseteq Causes
        BY <2>2, <2>3, CandidatesAreCauses
    <2>5. ASSUME NEW c \in DOMAIN h
          PROVE  h[c].score \in Int
        <3>1. h[c] = Hypothesis(c, s) /\ Covered(c, s) # {}
            BY <2>1, <2>3 DEF Hypotheses
        <3>2. QED
            BY <3>1, ScoreType
    <2>6. BestOf(h) \in DOMAIN h
        BY <1>2, <2>1, <2>4, <2>5, BestIsThere
    <2>7. Infer(s).root = BestOf(h)
        BY <1>2, <2>1 DEF Infer, Verdict
    <2>8. QED
        BY <1>2, <2>4, <2>6, <2>7, CausesFacts
<1>3. QED
    BY <1>1, <1>2

\* A line more never takes the verdict away.
LEMMA VerdictStays ==
    ASSUME NEW s \in Seq(Observations), NEW o \in Observations,
           Infer(Append(s, o)).root = NoRoot
    PROVE  Infer(s).root = NoRoot
<1>1. PICK t : t = Append(s, o)
    OBVIOUS
<1>2. t \in Seq(Observations) /\ \A i \in DOMAIN s : i \in DOMAIN t /\ t[i] = s[i]
    BY <1>1
<1>3. CandidateObjects(s) \subseteq CandidateObjects(t)
    BY <1>2 DEF CandidateObjects
<1>4. \A c : Covered(c, s) \subseteq Covered(c, t)
    BY <1>2 DEF Covered
<1>5. DOMAIN Hypotheses(s) \subseteq DOMAIN Hypotheses(t)
    BY <1>3, <1>4 DEF Hypotheses
<1>6. DOMAIN Hypotheses(t) = {}
    BY <1>1, <1>2, NoVerdict
<1>7. QED
    BY <1>5, <1>6, NoVerdict

\* What is held and announced after a verdict.
LEMMA JudgeFacts ==
    ASSUME NEW result, NEW last
    PROVE  /\ result.root = NoRoot => /\ Judge(result, last).last = last
                                      /\ Judge(result, last).update.root = NoRoot
           /\ result.root # NoRoot => /\ Judge(result, last).last = result.root
                                      /\ Judge(result, last).update.root = result.root
           /\ result.root # NoRoot /\ last \notin {NoRoot, result.root} =>
                 /\ Judge(result, last).update.kind = "RCA_REVISED"
                 /\ Judge(result, last).update.previous = last
BY DEF Judge, Update

\* The root cause that is held is the verdict on the window, and it is the one
\* that was announced last.
HeldIsVerdict   == lastRoot = Infer(buffer).root
AnnouncedIsHeld == update.root \in {NoRoot, lastRoot}
HeldInv         == HeldIsVerdict /\ AnnouncedIsHeld

\* No line has no root cause.
LEMMA NothingObserved == Infer(<<>>).root = NoRoot
<1>1. <<>> \in Seq(Observations) /\ DOMAIN <<>> = {}
    OBVIOUS
<1>2. CandidateObjects(<<>>) = {}
    BY <1>1 DEF CandidateObjects
<1>3. DOMAIN Hypotheses(<<>>) = {}
    BY <1>2 DEF Hypotheses
<1>4. QED
    BY <1>1, <1>3, NoVerdict

\* At first nothing is held.
LEMMA InitHeldInv == Init => HeldInv
BY NothingObserved DEF Init, HeldInv, HeldIsVerdict, AnnouncedIsHeld, NoUpdate, Update

\* What Add does to the window and to what is held.
LEMMA AddFacts ==
    ASSUME TypeOK, NEW line, Add(line)
    PROVE  LET o      == waiting[line]
               fits   == FitsActiveWindow(o, buffer)
               judged == Judge(Infer(buffer'), IF fits THEN lastRoot ELSE NoRoot)
           IN  /\ o \in Observations /\ buffer \in Seq(Observations)
               /\ fits => buffer' = Append(buffer, o)
               /\ ~fits => buffer' = <<o>>
               /\ buffer' \in Seq(Observations)
               /\ lastRoot' = judged.last /\ update' = judged.update
<1> DEFINE o    == waiting[line]
           fits == FitsActiveWindow(o, buffer)
           w    == Append(IF fits THEN buffer ELSE <<>>, o)
<1>1. o \in Observations /\ buffer \in Seq(Observations)
    BY DEF TypeOK, Add
<1>2. /\ buffer' = w
      /\ lastRoot' = Judge(Infer(w), IF fits THEN lastRoot ELSE NoRoot).last
      /\ update' = Judge(Infer(w), IF fits THEN lastRoot ELSE NoRoot).update
    BY DEF Add, Evaluate
<1>3. (fits => w = Append(buffer, o)) /\ (~fits => w = <<o>>)
    <2>1. \A x \in Observations : Append(<<>>, x) = <<x>>
        OBVIOUS
    <2> HIDE DEF fits, o
    <2>2. QED
        BY <1>1, <2>1
<1>4. w \in Seq(Observations)
    BY <1>1
<1> HIDE DEF w, fits, o
<1>5. QED
    BY <1>1, <1>2, <1>3, <1>4 DEF fits, o

\* Every step holds the verdict on the window, and what is announced is held.
LEMMA StepHeldInv == TypeOK /\ HeldInv /\ [Next]_vars => HeldInv'
<1> SUFFICES ASSUME TypeOK, HeldInv, [Next]_vars
             PROVE  HeldInv'
    OBVIOUS
<1> USE DEF HeldInv, HeldIsVerdict, AnnouncedIsHeld
<1>1. CASE UNCHANGED <<buffer, lastRoot, update>>
    BY <1>1
<1>2. ASSUME NEW line \in Lines, Add(line)
      PROVE  HeldInv'
    <2> DEFINE o      == waiting[line]
               fits   == FitsActiveWindow(o, buffer)
    <2>1. PICK before : before = IF fits THEN lastRoot ELSE NoRoot
        OBVIOUS
    <2>2. PICK result : result = Infer(buffer')
        OBVIOUS
    <2>3. /\ o \in Observations /\ buffer \in Seq(Observations)
          /\ fits => buffer' = Append(buffer, o)
          /\ lastRoot' = Judge(result, before).last
          /\ update' = Judge(result, before).update
        BY <1>2, <2>1, <2>2, AddFacts
    <2>4. CASE result.root # NoRoot
        BY <2>2, <2>3, <2>4, JudgeFacts
    <2>5. CASE result.root = NoRoot
        <3>1. before = NoRoot
            <4>1. CASE fits
                BY <2>1, <2>2, <2>3, <2>5, <4>1, VerdictStays
            <4>2. QED
                BY <2>1, <4>1
        <3>2. lastRoot' = NoRoot /\ update'.root = NoRoot
            BY <2>3, <2>5, <3>1, JudgeFacts
        <3>3. QED
            BY <2>2, <2>5, <3>2
    <2>6. QED
        BY <2>4, <2>5
<1>3. ASSUME NEW line \in Lines, Recover(line)
      PROVE  HeldInv'
    <2>1. CASE Reset
        BY <2>1, NothingObserved DEF Reset, NoUpdate, Update
    <2>2. QED
        BY <1>1, <1>3, <2>1 DEF Recover
<1>4. QED
    BY <1>1, <1>2, <1>3 DEF Next, Tick, Receive, vars

\* The root cause that is held is the verdict on the window as it stands, and the
\* one last announced (observation_buffer.py:97-150).
THEOREM BufferHolds == Spec => []HeldInv
BY InitHeldInv, BufferTypeOK, StepHeldInv, PTL DEF Spec

\* The root cause that the backend holds is the verdict on the whole window,
\* and it would be the same had the lines been added in any other order that
\* keeps lines of one time in place, as the thread calls of the handlers may
\* finish (observation_buffer.py:97-114, hypothesis_scoring.py:104-120).
THEOREM VerdictIsOfTheWindow == Spec => []VerdictOfWindow
<1>1. TypeOK /\ HeldInv => VerdictOfWindow
    <2> SUFFICES ASSUME TypeOK, HeldInv, NEW p \in Reorderings
                 PROVE  lastRoot = Infer([i \in DOMAIN buffer |-> buffer[p[i]]]).root
        BY DEF VerdictOfWindow
    <2>1. buffer \in Seq(Observations) /\ Reorders(p, buffer)
        BY DEF TypeOK, Reorderings, Reorders
    <2>2. Infer(Reordered(p, buffer)) = Infer(buffer)
        BY <2>1, VerdictOfReordered
    <2>3. QED
        BY <2>2 DEF HeldInv, HeldIsVerdict, Reordered
<1>2. QED
    BY <1>1, BufferTypeOK, BufferHolds, PTL

\* While a window goes on, a root cause other than the one announced before is
\* told as a revision of that one (observation_buffer.py:70-83), so the
\* pipeline finds the incident to revise.
THEOREM RevisionsAreAnnounced == Spec => RevisionsAreTold
<1> DEFINE Told == \A line \in Lines :
                      /\ line \in DOMAIN waiting /\ line \notin DOMAIN waiting'
                      /\ Len(buffer') = Len(buffer) + 1
                      /\ update.root \notin {NoRoot, update'.root}
                      => update'.kind = "RCA_REVISED" /\ update'.previous = update.root
<1>1. TypeOK /\ HeldInv /\ [Next]_vars => [Told]_vars
    <2> SUFFICES ASSUME TypeOK, HeldInv, Next,
                        Len(buffer') = Len(buffer) + 1,
                        update.root \notin {NoRoot, update'.root}
                 PROVE  update'.kind = "RCA_REVISED" /\ update'.previous = update.root
        OBVIOUS
    <2>1. buffer \in Seq(Observations) /\ Len(buffer) \in Nat
        BY DEF TypeOK
    <2>2. buffer' # buffer /\ buffer' # <<>>
        BY <2>1
    <2>3. PICK line \in Lines : Add(line)
        BY <2>2 DEF Next, Tick, Receive, Recover, Reset
    <2> DEFINE o    == waiting[line]
               fits == FitsActiveWindow(o, buffer)
    <2>4. PICK result : result = Infer(buffer')
        OBVIOUS
    <2>5. /\ o \in Observations
          /\ fits => buffer' = Append(buffer, o)
          /\ ~fits => buffer' = <<o>>
          /\ update' = Judge(result, IF fits THEN lastRoot ELSE NoRoot).update
        BY <2>3, <2>4, AddFacts
    <2>6. fits
        <3> SUFFICES ASSUME ~fits
                     PROVE  FALSE
            OBVIOUS
        <3>1. Len(buffer) = 0
            BY <2>1, <2>5
        <3>2. DOMAIN buffer = {}
            BY <2>1, <3>1
        <3>3. QED
            BY <3>2 DEF FitsActiveWindow
    <2>7. buffer' = Append(buffer, o) /\ update' = Judge(result, lastRoot).update
        BY <2>5, <2>6
    <2>8. lastRoot = update.root /\ lastRoot # NoRoot /\ lastRoot = Infer(buffer).root
        BY DEF HeldInv, HeldIsVerdict, AnnouncedIsHeld
    <2>9. result.root # NoRoot
        BY <2>1, <2>4, <2>5, <2>7, <2>8, VerdictStays
    <2>10. update'.root = result.root
        BY <2>7, <2>9, JudgeFacts
    <2>11. QED
        BY <2>7, <2>8, <2>9, <2>10, JudgeFacts
<1>2. QED
    BY <1>1, BufferTypeOK, BufferHolds, PTL DEF Spec, RevisionsAreTold

-----------------------------------------------------------------------------
(* Scores compared without the divisions in them.                           *)

\* What is divided lies between the multiples.
LEMMA QuotientBounds ==
    ASSUME NEW x \in Int, NEW y \in Nat \ {0}
    PROVE  x \div y \in Int /\ y * (x \div y) <= x /\ x < y * (x \div y) + y
OBVIOUS

\* Products are ordered as their factors.
LEMMA FactorsCancel ==
    ASSUME NEW x \in Int, NEW y \in Int, NEW m \in Nat \ {0}, m * x < m * y
    PROVE  x < y
OBVIOUS

\* Factors are ordered as their products.
LEMMA ProductsInOrder ==
    ASSUME NEW x \in Int, NEW y \in Int, NEW m \in Nat, x <= y
    PROVE  m * x <= m * y
OBVIOUS

\* So are factors that differ.
LEMMA ProductsInStrictOrder ==
    ASSUME NEW x \in Int, NEW y \in Int, NEW m \in Nat \ {0}, x < y
    PROVE  m * x < m * y
OBVIOUS

\* Products of positive numbers are positive.
LEMMA MoreThanNone ==
    ASSUME NEW x \in Nat \ {0}, NEW y \in Nat \ {0}
    PROVE  2 * x * y \in Nat \ {0} /\ x * y \in Nat \ {0}
OBVIOUS

\* Fractions that differ by g or more are still so far apart when rounded.
LEMMA RoundedInOrder ==
    ASSUME NEW a \in Int, NEW b \in Nat \ {0}, NEW c \in Int, NEW d \in Nat \ {0}, NEW g \in Nat,
           (a + g * b) * d <= c * b
    PROVE  Rounded(a, b) + g <= Rounded(c, d)
<1>1. PICK q : q = Rounded(a, b)
    OBVIOUS
<1>2. PICK p : p = Rounded(c, d)
    OBVIOUS
<1>3. q \in Int /\ 2 * b * q <= 2 * a + b
    <2>1. 2 * a + b \in Int /\ 2 * b \in Nat \ {0}
        OBVIOUS
    <2>2. QED
        BY <1>1, <2>1, QuotientBounds DEF Rounded
<1>4. p \in Int /\ 2 * c + d < 2 * d * p + 2 * d
    <2>1. 2 * c + d \in Int /\ 2 * d \in Nat \ {0}
        OBVIOUS
    <2>2. QED
        BY <1>2, <2>1, QuotientBounds DEF Rounded
<1> DEFINE m == 2 * b * d
<1>5. m \in Nat \ {0}
    BY MoreThanNone
<1>6. m * (q + g) <= d * (2 * a + b) + 2 * (g * b) * d
    <2>1. d * (2 * b * q) <= d * (2 * a + b)
        <3>1. 2 * b * q \in Int /\ 2 * a + b \in Int
            BY <1>3
        <3>2. QED
            BY <1>3, <3>1, ProductsInOrder
    <2>2. m * (q + g) = d * (2 * b * q) + 2 * (g * b) * d
        BY <1>3
    <2>3. d * (2 * b * q) \in Int /\ d * (2 * a + b) \in Int /\ 2 * (g * b) * d \in Int
        BY <1>3
    <2>4. QED
        BY <2>1, <2>2, <2>3
<1>7. d * (2 * a + b) + 2 * (g * b) * d <= b * (2 * c + d)
    <2>1. d * (2 * a + b) + 2 * (g * b) * d = 2 * ((a + g * b) * d) + b * d
        OBVIOUS
    <2>2. b * (2 * c + d) = 2 * (c * b) + b * d
        OBVIOUS
    <2>3. (a + g * b) * d \in Int /\ c * b \in Int /\ b * d \in Int
        OBVIOUS
    <2>4. QED
        BY <2>1, <2>2, <2>3
<1>8. b * (2 * c + d) < m * (p + 1)
    <2>1. b * (2 * d * p + 2 * d) = m * (p + 1)
        BY <1>4
    <2>2. 2 * c + d \in Int /\ 2 * d * p + 2 * d \in Int
        BY <1>4
    <2>3. b * (2 * c + d) < b * (2 * d * p + 2 * d)
        BY <1>4, <2>2, ProductsInStrictOrder
    <2>4. QED
        BY <2>1, <2>3
<1>9. m * (q + g) < m * (p + 1)
    <2>1. /\ m * (q + g) \in Int /\ d * (2 * a + b) + 2 * (g * b) * d \in Int
          /\ b * (2 * c + d) \in Int /\ m * (p + 1) \in Int
        BY <1>3, <1>4, <1>5
    <2> HIDE DEF m
    <2>2. QED
        BY <1>6, <1>7, <1>8, <2>1
<1> HIDE DEF m
<1>10. q + g < p + 1
    BY <1>3, <1>4, <1>5, <1>9, FactorsCancel
<1>11. QED
    BY <1>1, <1>2, <1>3, <1>4, <1>10

\* The score of a candidate that explains k of n lines, with "whole" for the
\* lines together and "shared" of each.
Points(whole, shared, k, n) == Rounded(100000 * k * k + whole * k * n + shared * n, k * n)

\* What b is above a is no more than what is lost on the way, and of lines that
\* are not explained.
Outweighed(n, k, a, b, far, g) == k * ((b + g) * n - a * n - 90000 * (n - k)) <= far * n

\* Of n lines, of weight "heavy", w explains all, one step away, and gets a and
\* that step for each; c explains k of weight "light", "far" away in all, and
\* gets no more than b.  A line that is not explained costs 100 of its share, and
\* no line weighs more than 10.
Compared(n, k, heavy, light, first, shares, whole, shared, a, b, far, g) ==
    /\ n \in Nat \ {0} /\ k \in Nat \ {0} /\ k <= n
    /\ heavy \in Int /\ light \in Int /\ light <= heavy /\ light <= 1000 * k
    /\ first \in Int /\ shares \in Int /\ whole \in Int /\ shared \in Int
    /\ a \in Int /\ b \in Int /\ far \in Int /\ g \in Nat
    /\ a + 4000 <= first /\ 10 * heavy - 4000 * n <= shares
    /\ whole <= b /\ shared <= 10 * light - far
    /\ Outweighed(n, k, a, b, far, g)

\* Then w is ahead by g.
LEMMA ComparedInPoints ==
    ASSUME NEW n \in Nat \ {0}, NEW k \in Nat \ {0}, k <= n,
           NEW heavy \in Int, NEW light \in Int, light <= heavy, light <= 1000 * k,
           NEW first \in Int, NEW shares \in Int, NEW whole \in Int, NEW shared \in Int,
           NEW a \in Int, NEW b \in Int, NEW far \in Int, NEW g \in Nat,
           a + 4000 <= first, 10 * heavy - 4000 * n <= shares,
           whole <= b, shared <= 10 * light - far,
           Outweighed(n, k, a, b, far, g)
    PROVE  Points(whole, shared, k, n) + g <= Points(first, shares, n, n)
<1>1. k \in Nat \ {0} /\ n - k \in Nat
    OBVIOUS
<1>2. light * n - heavy * k <= 1000 * k * (n - k)
    <2>1. (n - k) * light <= (n - k) * (1000 * k)
        BY <1>1, ProductsInOrder
    <2>2. k * light <= k * heavy
        BY <1>1, ProductsInOrder
    <2>3. light * n - heavy * k = (n - k) * light + (k * light - k * heavy)
        BY <1>1
    <2>4. (n - k) * (1000 * k) = 1000 * k * (n - k)
        BY <1>1
    <2>5. /\ (n - k) * light \in Int /\ (n - k) * (1000 * k) \in Int
          /\ k * light \in Int /\ k * heavy \in Int
        BY <1>1
    <2>6. QED
        BY <2>1, <2>2, <2>3, <2>4, <2>5
<1>3. a * n + 10 * heavy <= first * n + shares
    <2>1. a + 4000 \in Int
        OBVIOUS
    <2>2. n * (a + 4000) <= n * first
        BY <2>1, ProductsInOrder
    <2>3. n * (a + 4000) = a * n + 4000 * n /\ n * first = first * n
        OBVIOUS
    <2>4. a * n \in Int /\ first * n \in Int /\ 4000 * n \in Int
        OBVIOUS
    <2>5. QED
        BY <2>2, <2>3, <2>4
<1> DEFINE above == 100000 * k * k + whole * k * n + shared * n
           line  == 100000 * n + first * n + shares
<1>4. above + g * (k * n) <= 100000 * k * k + (b + g) * k * n + (10 * light - far) * n
    <2>1. (k * n) * whole <= (k * n) * b
        <3>1. k * n \in Nat
            BY <1>1
        <3>2. QED
            BY <3>1, ProductsInOrder
    <2>2. n * shared <= n * (10 * light - far)
        BY ProductsInOrder
    <2>3. above + g * (k * n) = 100000 * k * k + (k * n) * whole + n * shared + g * (k * n)
        BY <1>1
    <2>4. (b + g) * k * n = (k * n) * b + g * (k * n) /\ (10 * light - far) * n = n * (10 * light - far)
        BY <1>1
    <2>5. /\ (k * n) * whole \in Int /\ (k * n) * b \in Int /\ g * (k * n) \in Int
          /\ n * shared \in Int /\ n * (10 * light - far) \in Int /\ 100000 * k * k \in Int
        BY <1>1
    <2> HIDE DEF above
    <2>6. QED
        BY <2>1, <2>2, <2>3, <2>4, <2>5
<1>5. (100000 * n + a * n + 10 * heavy) * k <= line * k
    <2>1. 100000 * n + a * n + 10 * heavy \in Int /\ line \in Int
        OBVIOUS
    <2>2. 100000 * n + a * n + 10 * heavy <= line
        BY <1>3
    <2> HIDE DEF line
    <2>3. k * (100000 * n + a * n + 10 * heavy) <= k * line
        BY <1>1, <2>1, <2>2, ProductsInOrder
    <2>4. QED
        BY <1>1, <2>1, <2>3
<1>6. 100000 * k * k + (b + g) * k * n + (10 * light - far) * n
         <= (100000 * n + a * n + 10 * heavy) * k
    <2>1. k * ((b + g) * n - a * n - 90000 * (n - k))
             = (b + g) * k * n - a * n * k - 90000 * k * (n - k)
        BY <1>1
    <2>8. k * ((b + g) * n - a * n - 90000 * (n - k)) <= far * n
        BY DEF Outweighed
    <2>2. (10 * light - far) * n = 10 * (light * n) - far * n
        OBVIOUS
    <2>3. (100000 * n + a * n + 10 * heavy) * k = 100000 * k * n + a * n * k + 10 * (heavy * k)
        BY <1>1
    <2>4. 100000 * k * n - 100000 * k * k = 100000 * k * (n - k)
        BY <1>1
    <2>5. /\ 90000 * k * (n - k) = 90000 * (k * (n - k)) /\ 1000 * k * (n - k) = 1000 * (k * (n - k))
          /\ 100000 * k * (n - k) = 100000 * (k * (n - k))
        BY <1>1
    <2>6. /\ k * (n - k) \in Int /\ (b + g) * k * n \in Int /\ a * n * k \in Int
          /\ light * n \in Int /\ heavy * k \in Int /\ far * n \in Int
          /\ 100000 * k * n \in Int /\ 100000 * k * k \in Int
        BY <1>1
    <2>7. QED
        BY <1>2, <2>1, <2>2, <2>3, <2>4, <2>5, <2>6, <2>8
<1>7. above + g * (k * n) <= line * k
    <2>1. /\ above \in Int /\ g * (k * n) \in Int /\ line * k \in Int
          /\ 100000 * k * k + (b + g) * k * n + (10 * light - far) * n \in Int
          /\ (100000 * n + a * n + 10 * heavy) * k \in Int
        BY <1>1
    <2> HIDE DEF above, line
    <2>2. QED
        BY <1>4, <1>5, <1>6, <2>1
<1>8. (above + g * (k * n)) * (n * n) <= (n * line) * (k * n)
    <2>1. above + g * (k * n) \in Int /\ line * k \in Int /\ n * n \in Nat /\ line \in Int
        BY <1>1
    <2> HIDE DEF above, line
    <2>2. PICK x : x = above + g * (k * n)
        OBVIOUS
    <2>3. (n * n) * x <= (n * n) * (line * k)
        BY <1>7, <2>1, <2>2, ProductsInOrder
    <2>4. (n * line) * (k * n) = (n * n) * (line * k)
        BY <1>1, <2>1
    <2>5. x * (n * n) = (n * n) * x
        BY <2>1, <2>2
    <2>6. QED
        BY <2>2, <2>3, <2>4, <2>5
<1>9. Points(first, shares, n, n) = Rounded(n * line, n * n)
    <2>1. 100000 * n * n + first * n * n + shares * n = n * line
        OBVIOUS
    <2>2. QED
        BY <2>1 DEF Points
<1>10. Points(whole, shared, k, n) = Rounded(above, k * n)
    BY DEF Points
<1>11. /\ above \in Int /\ n * line \in Int /\ k * n \in Nat \ {0} /\ n * n \in Nat \ {0}
    BY <1>1, MoreThanNone
<1> HIDE DEF above, line
<1>12. PICK x, y, u, v : x = above /\ y = k * n /\ u = n * line /\ v = n * n
    OBVIOUS
<1>13. x \in Int /\ y \in Nat \ {0} /\ u \in Int /\ v \in Nat \ {0} /\ (x + g * y) * v <= u * y
    BY <1>8, <1>11, <1>12
<1>14. Rounded(x, y) + g <= Rounded(u, v)
    BY <1>13, RoundedInOrder
<1>15. QED
    BY <1>9, <1>10, <1>12, <1>14

\* w is ahead of c by g.
LEMMA AheadInPoints ==
    ASSUME NEW n, NEW k, NEW heavy, NEW light, NEW first, NEW shares, NEW whole, NEW shared,
           NEW a, NEW b, NEW far, NEW g,
           Compared(n, k, heavy, light, first, shares, whole, shared, a, b, far, g)
    PROVE  Points(whole, shared, k, n) + g <= Points(first, shares, n, n)
<1> USE DEF Compared
<1>1. n \in Nat \ {0} /\ k \in Nat \ {0} /\ k <= n
    OBVIOUS
<1>2. heavy \in Int /\ light \in Int /\ light <= heavy /\ light <= 1000 * k
    OBVIOUS
<1>3. first \in Int /\ shares \in Int /\ whole \in Int /\ shared \in Int
    OBVIOUS
<1>4. a \in Int /\ b \in Int /\ far \in Int /\ g \in Nat /\ Outweighed(n, k, a, b, far, g)
    OBVIOUS
<1>5. a + 4000 <= first /\ 10 * heavy - 4000 * n <= shares
    OBVIOUS
<1>6. whole <= b /\ shared <= 10 * light - far
    OBVIOUS
<1> HIDE DEF Compared
<1>7. QED
    BY <1>1, <1>2, <1>3, <1>4, <1>5, <1>6, ComparedInPoints

-----------------------------------------------------------------------------
(* What is near.                                                            *)

\* n layers of the search from c: what an edge leads to is at distance 1, what
\* two edges lead to at 2 or less, and all of it is in S.
Reached(d, c, n, S) ==
    /\ c \in DOMAIN d /\ DOMAIN d \subseteq S
    /\ \A x \in DOMAIN d : /\ d[x] \in 0..n
                           /\ d[x] = 0 <=> x = c
                           /\ d[x] = 1 => x \in Successors(c)
    /\ n = 0 => DOMAIN d = {c}
    /\ n >= 1 => \A x \in Successors(c) : x \in DOMAIN d /\ d[x] <= 1
    /\ n >= 2 => \A m \in Successors(c) : \A x \in Successors(m) : x \in DOMAIN d /\ d[x] <= 2

\* One more layer reaches what an edge leads to.
LEMMA NextLayer ==
    ASSUME NEW d, NEW c, NEW n \in Nat, NEW S, Reached(d, c, n, S),
           \A x \in S : Successors(x) \subseteq S
    PROVE  Reached(Layer(n + 1, d), c, n + 1, S)
<1> DEFINE new == (UNION {Successors(x) : x \in DOMAIN d}) \ DOMAIN d
           e   == Layer(n + 1, d)
<1>1. /\ DOMAIN e = DOMAIN d \cup new
      /\ \A x \in DOMAIN d : e[x] = d[x]
      /\ \A x \in new : e[x] = n + 1
    BY DEF Layer
<1>2. \A x \in DOMAIN d : \A y \in Successors(x) : y \in DOMAIN d \cup new
    OBVIOUS
<1>3. \A y \in new : y \notin DOMAIN d /\ \E x \in DOMAIN d : y \in Successors(x)
    OBVIOUS
<1> HIDE DEF new, e
<1> USE DEF Reached
<1>4. c \in DOMAIN e /\ DOMAIN e \subseteq S
    BY <1>1, <1>3
<1>5. ASSUME NEW x \in DOMAIN e
      PROVE  e[x] \in 0..(n + 1) /\ (e[x] = 0 <=> x = c) /\ (e[x] = 1 => x \in Successors(c))
    <2>1. CASE x \in DOMAIN d
        BY <1>1, <2>1
    <2>2. CASE x \in new
        <3>1. e[x] = n + 1 /\ x # c
            BY <1>1, <1>3, <2>2
        <3>2. n = 0 => x \in Successors(c)
            BY <1>3, <2>2
        <3>3. QED
            BY <3>1, <3>2
    <2>3. QED
        BY <1>1, <2>1, <2>2
<1>6. ASSUME NEW x \in Successors(c)
      PROVE  x \in DOMAIN e /\ e[x] <= 1
    <2>1. x \in DOMAIN d \cup new
        BY <1>2
    <2>2. CASE n = 0
        BY <1>1, <2>1, <2>2
    <2>3. CASE n >= 1
        BY <1>1, <2>3
    <2>4. QED
        BY <2>2, <2>3
<1>7. ASSUME n >= 1, NEW m \in Successors(c), NEW x \in Successors(m)
      PROVE  x \in DOMAIN e /\ e[x] <= 2
    <2>1. m \in DOMAIN d
        BY <1>7
    <2>2. x \in DOMAIN d \cup new
        BY <1>2, <2>1
    <2>3. CASE n = 1
        <3>1. CASE x \in new
            BY <1>1, <2>3, <3>1
        <3>2. CASE x \in DOMAIN d
            BY <1>1, <2>3, <3>2
        <3>3. QED
            BY <2>2, <3>1, <3>2
    <2>4. CASE n >= 2
        BY <1>1, <2>4
    <2>5. QED
        BY <1>7, <2>3, <2>4
<1>8. n + 1 # 0 /\ (n + 1 >= 2 => n >= 1)
    OBVIOUS
<1>9. Reached(e, c, n + 1, S)
    BY <1>4, <1>5, <1>6, <1>7, <1>8
<1>10. QED
    BY <1>9 DEF e

\* The search from c, as far as it goes.
LEMMA SearchReaches ==
    ASSUME NEW c, NEW S, c \in S, \A x \in S : Successors(x) \subseteq S
    PROVE  Reached(Layers(c), c, Cardinality(Objects), S)
<1> DEFINE last == Cardinality(Objects)
           L    == CHOOSE K : IsLayers(K, c, last)
<1>1. last \in Nat
    BY ObjectsAreFinite, FS_CardinalityType
<1>2. IsLayers(L, c, last)
    <2> HIDE DEF last
    <2>1. QED
        BY <1>1, LayersExist
<1>3. Layers(c) = L[last]
    BY DEF Layers, IsLayers
<1> HIDE DEF L, last
<1> DEFINE Wrong == {n \in 0..last : ~Reached(L[n], c, n, S)}
<1>4. ASSUME Wrong # {}
      PROVE  FALSE
    <2>1. PICK n \in Wrong : \A m \in Wrong : n <= m
        <3>1. Wrong \in SUBSET Nat
            BY <1>1
        <3> HIDE DEF Wrong
        <3>2. QED
            BY <1>4, <3>1, LeastOf
    <2>2. n \in 0..last /\ ~Reached(L[n], c, n, S)
        BY <2>1
    <2>3. CASE n = 0
        <3>1. L[0] = [x \in {c} |-> 0]
            BY <1>1, <1>2, <2>2, <2>3 DEF IsLayers
        <3>2. PICK d : d = L[0]
            OBVIOUS
        <3>3. DOMAIN d = {c} /\ d[c] = 0
            BY <3>1, <3>2
        <3>4. Reached(d, c, 0, S)
            BY <3>3 DEF Reached
        <3>5. QED
            BY <2>2, <2>3, <3>2, <3>4
    <2>4. CASE n # 0
        <3>1. n - 1 \in 0..last /\ n - 1 \notin Wrong
            BY <1>1, <2>1, <2>2, <2>4
        <3>2. PICK d, m : d = L[n - 1] /\ m = n - 1
            OBVIOUS
        <3>3. Reached(d, c, m, S) /\ m \in Nat
            BY <1>1, <3>1, <3>2
        <3>4. L[n] = Layer(n, d)
            BY <1>1, <1>2, <2>2, <2>4, <3>2 DEF IsLayers
        <3>5. Reached(Layer(m + 1, d), c, m + 1, S)
            BY <3>3, NextLayer
        <3>6. m + 1 = n
            BY <1>1, <2>2, <3>2
        <3>7. QED
            BY <2>2, <3>4, <3>5, <3>6
    <2>5. QED
        BY <2>3, <2>4
<1>5. last \in 0..last
    BY <1>1
<1>6. QED
    BY <1>3, <1>4, <1>5 DEF last

\* Every object is reached within S from c, when S holds c and what follows.
LEMMA ReachStays ==
    ASSUME NEW c, NEW S, c \in S, \A x \in S : Successors(x) \subseteq S,
           NEW o, Distance(c, o) # NoPath
    PROVE  o \in S
<1>1. CASE c = o
    BY <1>1
<1>2. CASE c # o
    <2>1. {c, o} \subseteq Objects
        BY <1>2 DEF Distance
    <2>2. PICK d : d = Layers(c)
        OBVIOUS
    <2>3. Distance(c, o) = IF o \in DOMAIN d THEN d[o] ELSE NoPath
        BY <1>2, <2>1, <2>2 DEF Distance, PathLength
    <2>4. DOMAIN d \subseteq S
        BY <2>2, SearchReaches DEF Reached
    <2>5. QED
        BY <2>3, <2>4
<1>3. QED
    BY <1>1, <1>2

\* Of two different objects, with a path between them or not.
LEMMA NearObjects ==
    ASSUME NEW c \in Objects, NEW o \in Objects, c # o
    PROVE  /\ Distance(c, o) = NoPath \/ Distance(c, o) \in Nat \ {0}
           /\ Distance(c, o) = 1 <=> o \in Successors(c)
           /\ \A m \in Successors(c) :
                 o \in Successors(m) /\ o \notin Successors(c) => Distance(c, o) = 2
<1> DEFINE S == {c} \cup {e[2] : e \in Edges}
           d == Layers(c)
           n == Cardinality(Objects)
<1>1. c \in S /\ \A x \in S : Successors(x) \subseteq S
    BY DEF Successors
<1>2. n >= 2 /\ n \in Nat
    BY CountOfTwo, ObjectsAreFinite, FS_CardinalityType
<1>3. Distance(c, o) = IF o \in DOMAIN d THEN d[o] ELSE NoPath
    BY DEF Distance, PathLength
<1> HIDE DEF S
<1>4. Reached(d, c, n, S)
    BY <1>1, SearchReaches
<1> HIDE DEF n, d
<1>5. QED
    BY <1>2, <1>3, <1>4 DEF Reached, NoPath

-----------------------------------------------------------------------------
(* What fails with what.                                                    *)

\* The type of an object, and the id of a device or an interface.
LEMMA TypesOfObjects ==
    /\ \A d : Device(d).type = "device" /\ Device(d).id = <<d>>
    /\ \A i : Interface(i).type = "interface" /\ Interface(i).id = i
    /\ \A c : PhysicalLink(c).type = "physical-link"
    /\ \A s \in PeerSessions : s.type \in {"bgp-session", "ospf-session"}
    /\ \A s \in Sessions : s.type \in SessionTypes
BY DEF Device, Interface, PhysicalLink, PeerSessions, BgpSession, OspfSession, Sessions,
       LacpSession, SessionTypes

Joined(s, t) == s \o t

\* Where the parts of joined pairs are.
LEMMA PairsJoined ==
    ASSUME NEW s \in Seq(Nat), NEW t \in Seq(Nat), Len(s) = 2, Len(t) = 2
    PROVE  /\ Joined(s, t)[1] = s[1] /\ Joined(s, t)[2] = s[2]
           /\ Joined(s, t)[3] = t[1] /\ Joined(s, t)[4] = t[2]
<1>1. \A i \in 1..Len(s) + Len(t) :
         Joined(s, t)[i] = IF i <= Len(s) THEN s[i] ELSE t[i - Len(s)]
    BY ConcatProperties DEF Joined
<1>2. QED
    BY <1>1

\* Two connections are two links.
LEMMA LinksDiffer ==
    ASSUME NEW a \in Connections, NEW b \in Connections, PhysicalLink(a) = PhysicalLink(b)
    PROVE  a = b
<1>1. ASSUME NEW i \in Interfaces
      PROVE  i \in Seq(Nat) /\ Len(i) = 2
    <2>1. Interfaces \subseteq Nat \X Nat
        BY TopologyAssumption
    <2>2. PICK d, n \in Nat : i = <<d, n>>
        BY <2>1
    <2>3. QED
        BY <2>2
<1>2. \A i, j \in Interfaces : i[1] = j[1] /\ i[2] = j[2] => i = j
    BY TopologyAssumption
<1>3. /\ a[1] \in Interfaces /\ a[2] \in Interfaces /\ a = <<a[1], a[2]>>
      /\ b[1] \in Interfaces /\ b[2] \in Interfaces /\ b = <<b[1], b[2]>>
    BY TopologyAssumption
<1>4. Joined(a[1], a[2]) = Joined(b[1], b[2])
    BY DEF PhysicalLink, Joined
<1>5. ASSUME NEW i \in Interfaces, NEW j \in Interfaces
      PROVE  /\ Joined(i, j)[1] = i[1] /\ Joined(i, j)[2] = i[2]
             /\ Joined(i, j)[3] = j[1] /\ Joined(i, j)[4] = j[2]
    BY <1>1, PairsJoined
<1>6. a[1][1] = b[1][1] /\ a[1][2] = b[1][2] /\ a[2][1] = b[2][1] /\ a[2][2] = b[2][2]
    BY <1>3, <1>4, <1>5
<1>7. a[1] = b[1] /\ a[2] = b[2]
    BY <1>2, <1>3, <1>6
<1>8. QED
    BY <1>3, <1>7

\* The edges of the graph, by what they lead from and to.
FromDevice(e)    == \E d : e[1] = Device(d)
FromInterface(e) == \E k \in Connections : \E i \in {k[1], k[2]} :
                       e[1] = Interface(i) /\ e[2] = PhysicalLink(k)
ToInterface(e)   == \E k \in Connections : \E i \in {k[1], k[2]} :
                       e[1] = PhysicalLink(k) /\ e[2] = Interface(i)
ToPeers(e)       == e[2] \in PeerSessions /\ e[1] \in LinksBetween(e[2].id[1], e[2].id[2])
ToBundle(e)      == /\ e[2] \in {LacpSession(s) : s \in KnownLacp}
                    /\ e[1] \in PhysicalLinks

\* What an edge of the graph joins.
LEMMA EdgeShapes ==
    ASSUME NEW e \in Edges
    PROVE  FromDevice(e) \/ FromInterface(e) \/ ToInterface(e) \/ ToPeers(e) \/ ToBundle(e)
<1>1. CASE e \in OwnsEdges
    BY <1>1 DEF OwnsEdges, FromDevice
<1>2. CASE e \in LinkEdges
    <2>1. PICK k \in Connections : \E i \in {k[1], k[2]} :
             e \in {<<Interface(i), PhysicalLink(k)>>, <<PhysicalLink(k), Interface(i)>>,
                   <<Device(i[1]), PhysicalLink(k)>>}
        BY <1>2 DEF LinkEdges
    <2>2. PICK i \in {k[1], k[2]} :
             e \in {<<Interface(i), PhysicalLink(k)>>, <<PhysicalLink(k), Interface(i)>>,
                   <<Device(i[1]), PhysicalLink(k)>>}
        BY <2>1
    <2>3. CASE e = <<Interface(i), PhysicalLink(k)>>
        BY <2>3 DEF FromInterface
    <2>4. CASE e = <<PhysicalLink(k), Interface(i)>>
        BY <2>4 DEF ToInterface
    <2>5. CASE e = <<Device(i[1]), PhysicalLink(k)>>
        BY <2>5 DEF FromDevice
    <2>6. QED
        BY <2>2, <2>3, <2>4, <2>5
<1>3. CASE e \in DeviceEdges
    BY <1>3 DEF DeviceEdges, FromDevice
<1>4. CASE e \in PeerSessionEdges
    <2>1. PICK s \in PeerSessions : e \in {<<Device(d), s>> : d \in Ends(s.id)}
             \cup {<<l, s>> : l \in LinksBetween(s.id[1], s.id[2])}
        BY <1>4 DEF PeerSessionEdges
    <2>2. QED
        BY <2>1 DEF FromDevice, ToPeers
<1>5. CASE e \in LacpSessionEdges
    <2>1. PICK s \in KnownLacp : e \in {<<Device(i[1]), LacpSession(s)>> : i \in Ends(s)}
             \cup {<<l, LacpSession(s)>> :
                     l \in IF Len(s) = 2 THEN LinksBetween(s[1][1], s[2][1]) ELSE {}}
        BY <1>5 DEF LacpSessionEdges
    <2>2. CASE e \in {<<Device(i[1]), LacpSession(s)>> : i \in Ends(s)}
        BY <2>2 DEF FromDevice
    <2>3. CASE e \in {<<l, LacpSession(s)>> :
                         l \in IF Len(s) = 2 THEN LinksBetween(s[1][1], s[2][1]) ELSE {}}
        <3>1. \A a, b : LinksBetween(a, b) \subseteq PhysicalLinks
            BY DEF LinksBetween, PhysicalLinks
        <3>2. PICK l \in PhysicalLinks : e = <<l, LacpSession(s)>>
            BY <2>3, <3>1
        <3>3. QED
            BY <3>2 DEF ToBundle
    <2>4. QED
        BY <2>1, <2>2, <2>3
<1>6. QED
    BY <1>1, <1>2, <1>3, <1>4, <1>5 DEF Edges

\* What an object affects is at the end of an edge from it.
LEMMA SuccessorEdges ==
    ASSUME NEW c, NEW o \in Successors(c)
    PROVE  \E e \in Edges : e[1] = c /\ e[2] = o
BY DEF Successors

\* A session affects nothing.
LEMMA SessionsEnd ==
    ASSUME NEW s \in Sessions
    PROVE  Successors(s) = {}
<1> SUFFICES ASSUME NEW o \in Successors(s)
             PROVE  FALSE
    OBVIOUS
<1>1. PICK e \in Edges : e[1] = s /\ e[2] = o
    BY SuccessorEdges
<1>2. e[1].type \in SessionTypes
    BY <1>1, TypesOfObjects
<1>3. e[1].type \notin {"device", "interface", "physical-link"}
    BY <1>2 DEF SessionTypes
<1>4. \A l \in PhysicalLinks : l.type = "physical-link"
    BY TypesOfObjects DEF PhysicalLinks
<1>5. \A a, b : LinksBetween(a, b) \subseteq PhysicalLinks
    BY DEF LinksBetween, PhysicalLinks
<1>6. QED
    BY <1>3, <1>4, <1>5, EdgeShapes, TypesOfObjects
       DEF FromDevice, FromInterface, ToInterface, ToPeers, ToBundle

\* An interface affects the links that its cables are.
LEMMA InterfaceAffects ==
    ASSUME NEW i, NEW o \in Successors(Interface(i))
    PROVE  \E k \in Connections : i \in {k[1], k[2]} /\ o = PhysicalLink(k)
<1>1. PICK e \in Edges : e[1] = Interface(i) /\ e[2] = o
    BY SuccessorEdges
<1>2. e[1].type = "interface" /\ e[1].id = i
    BY <1>1, TypesOfObjects
<1>4. \A l \in PhysicalLinks : l.type = "physical-link"
    BY TypesOfObjects DEF PhysicalLinks
<1>5. \A a, b : LinksBetween(a, b) \subseteq PhysicalLinks
    BY DEF LinksBetween, PhysicalLinks
<1>6. FromInterface(e)
    <2>1. ~FromDevice(e) /\ ~ToInterface(e) /\ ~ToPeers(e) /\ ~ToBundle(e)
        BY <1>2, <1>4, <1>5, TypesOfObjects DEF FromDevice, ToInterface, ToPeers, ToBundle
    <2>2. QED
        BY <2>1, EdgeShapes
<1>7. PICK k \in Connections : \E j \in {k[1], k[2]} : e[1] = Interface(j) /\ e[2] = PhysicalLink(k)
    BY <1>6 DEF FromInterface
<1>8. QED
    BY <1>1, <1>2, <1>7, TypesOfObjects

\* A link affects its interfaces and sessions, a peer session only between the
\* devices of its ends.
LEMMA LinkAffects ==
    ASSUME NEW k \in Connections, NEW o \in Successors(PhysicalLink(k))
    PROVE  \/ o \in {Interface(k[1]), Interface(k[2])}
           \/ o \in Sessions /\ (o \in PeerSessions =>
                                   {o.id[1], o.id[2]} \subseteq {k[1][1], k[2][1]})
<1>1. PICK e \in Edges : e[1] = PhysicalLink(k) /\ e[2] = o
    BY SuccessorEdges
<1>2. e[1].type = "physical-link"
    BY <1>1, TypesOfObjects
<1>3. ~FromDevice(e) /\ ~FromInterface(e)
    BY <1>2, TypesOfObjects DEF FromDevice, FromInterface
<1>4. CASE ToInterface(e)
    <2>1. PICK j \in Connections : e[1] = PhysicalLink(j) /\ e[2] \in {Interface(j[1]), Interface(j[2])}
        BY <1>4 DEF ToInterface
    <2>2. j = k
        BY <1>1, <2>1, LinksDiffer
    <2>3. QED
        BY <1>1, <2>1, <2>2
<1>5. CASE ToPeers(e)
    <2>1. o \in PeerSessions /\ PhysicalLink(k) \in LinksBetween(o.id[1], o.id[2])
        BY <1>1, <1>5 DEF ToPeers
    <2>2. PICK j \in Connections : /\ {o.id[1], o.id[2]} \subseteq {j[1][1], j[2][1]}
                                   /\ PhysicalLink(k) = PhysicalLink(j)
        BY <2>1 DEF LinksBetween
    <2>3. j = k
        BY <2>2, LinksDiffer
    <2>4. QED
        BY <2>1, <2>2, <2>3 DEF Sessions
<1>6. CASE ToBundle(e)
    <2>1. o \in Sessions
        BY <1>1, <1>6 DEF ToBundle, Sessions
    <2>2. o \notin PeerSessions
        <3>1. o.type = "lacp-session"
            BY <1>1, <1>6 DEF ToBundle, LacpSession
        <3>2. QED
            BY <3>1, TypesOfObjects
    <2>3. QED
        BY <2>1, <2>2
<1>7. QED
    BY <1>3, <1>4, <1>5, <1>6, EdgeShapes

\* The other way, interfaces, links and devices do affect these.
LEMMA CableAffects ==
    ASSUME NEW k \in Connections, NEW i \in {k[1], k[2]}
    PROVE  /\ PhysicalLink(k) \in Successors(Interface(i))
           /\ Interface(i) \in Successors(PhysicalLink(k))
           /\ PhysicalLink(k) \in Objects /\ Interface(i) \in Objects
<1>1. /\ <<Interface(i), PhysicalLink(k)>> \in LinkEdges
      /\ <<PhysicalLink(k), Interface(i)>> \in LinkEdges
    BY DEF LinkEdges
<1>2. \A a, b : <<a, b>> \in LinkEdges => b \in Successors(a)
    <2> SUFFICES ASSUME NEW a, NEW b, <<a, b>> \in LinkEdges
                 PROVE  b \in Successors(a)
        OBVIOUS
    <2>1. PICK e : e = <<a, b>>
        OBVIOUS
    <2>2. e \in Edges /\ e[1] = a /\ e[2] = b
        BY <2>1 DEF Edges
    <2>3. QED
        BY <2>2 DEF Successors
<1>3. i \in Interfaces
    BY TopologyAssumption
<1>4. PhysicalLink(k) \in Objects /\ Interface(i) \in Objects
    BY <1>3 DEF Objects, PhysicalLinks
<1>5. QED
    BY <1>1, <1>2, <1>4

\* A device affects the sessions it is an end of.
LEMMA DeviceAffects ==
    ASSUME NEW s \in PeerSessions, NEW d \in Ends(s.id)
    PROVE  s \in Successors(Device(d))
<1>1. PICK e : e = <<Device(d), s>>
    OBVIOUS
<1>2. e \in PeerSessionEdges
    BY <1>1 DEF PeerSessionEdges
<1>3. e \in Edges /\ e[1] = Device(d) /\ e[2] = s
    BY <1>1, <1>2 DEF Edges
<1>4. QED
    BY <1>3 DEF Successors

-----------------------------------------------------------------------------
(* What the lines of a window say.                                          *)

IsWeight(w) == w \in Nat /\ w <= 1000

Capped(base, rule) == LET least == IF base < rule THEN base ELSE rule
                      IN  IF 0 < least THEN least ELSE 0

\* A capped weight is a weight.
LEMMA CappedBounds ==
    ASSUME NEW base, IsWeight(base), NEW rule \in Int
    PROVE  IsWeight(Capped(base, rule))
BY DEF Capped, IsWeight

\* Weights are numbers from 0 to 1000.
LEMMA WeightBounds ==
    ASSUME NEW line, line.rule \in Int
    PROVE  IsWeight(Weight(line, Sighting(line).weight))
<1>1. PICK sure : sure = Sighting(line).weight
    OBVIOUS
<1>2. IsWeight(sure)
    <2>1. \A type, pairs : IsWeight(NeighbourSighting(line, type, pairs).weight)
        BY DEF NeighbourSighting, IsWeight
    <2>2. IsWeight(900) /\ IsWeight(950) /\ IsWeight(650) /\ IsWeight(500)
        BY DEF IsWeight
    <2>3. QED
        BY <1>1, <2>1, <2>2 DEF Sighting
<1> DEFINE noise    == Assertion(line) = "noise"
           unknown  == ~noise /\ line.class = "unknown" /\ line.rule = NoRule
           recovery == ~noise /\ ~unknown /\ Assertion(line) = "recovery"
           base     == CASE noise    -> Least(sure, 200)
                         [] unknown  -> Least(sure, 350)
                         [] recovery -> Greatest(sure, 800)
                         [] OTHER    -> sure
<1>3. Weight(line, sure) \in {base, Capped(base, line.rule)}
    BY DEF Weight, Greatest, Least, Capped
<1>4. IsWeight(base)
    <2>1. /\ IsWeight(Least(sure, 200)) /\ IsWeight(Least(sure, 350))
          /\ IsWeight(Greatest(sure, 800))
        BY <1>2 DEF Least, Greatest, IsWeight
    <2>2. ~(noise /\ unknown) /\ ~(noise /\ recovery) /\ ~(unknown /\ recovery)
        OBVIOUS
    <2> HIDE DEF noise, unknown, recovery
    <2>3. CASE noise
        BY <2>1, <2>2, <2>3
    <2>4. CASE unknown
        BY <2>1, <2>2, <2>4
    <2>5. CASE recovery
        BY <2>1, <2>2, <2>5
    <2>6. CASE ~noise /\ ~unknown /\ ~recovery
        BY <1>2, <2>6
    <2>7. QED
        BY <2>3, <2>4, <2>5, <2>6
<1> HIDE DEF base
<1>5. IsWeight(Capped(base, line.rule))
    BY <1>4, CappedBounds
<1>6. QED
    BY <1>1, <1>3, <1>4, <1>5

\* A session between two devices.
Between(s, a, b) ==
    s \in PeerSessions /\ {s.id[1], s.id[2]} = {a, b} /\ Ends(s.id) = {a, b}

\* A session that is looked up is between the devices it is looked up for.
LEMMA SessionsBetween ==
    ASSUME NEW a, NEW b, NEW s,
           \/ s \in SessionOf("bgp-session", BgpSessions, a, b)
           \/ s \in SessionOf("ospf-session", OspfSessions, a, b)
    PROVE  Between(s, a, b)
<1>1. ASSUME NEW t \in BgpSessions \cup OspfSessions
      PROVE  Ends(t) = {t[1], t[2]}
    <2>1. t \in Nat \X Nat
        BY TopologyAssumption
    <2>2. DOMAIN t = {1, 2}
        BY <2>1
    <2>3. QED
        BY <2>2 DEF Ends
<1>2. CASE s \in SessionOf("bgp-session", BgpSessions, a, b)
    <2>1. PICK t \in BgpSessions : KnownPair(t) /\ Ends(t) = {a, b} /\ s = BgpSession(t)
        BY <1>2 DEF SessionOf, BgpSession
    <2>2. s.id = t /\ s \in PeerSessions
        BY <2>1 DEF BgpSession, PeerSessions
    <2>3. QED
        BY <1>1, <2>1, <2>2 DEF Between
<1>3. CASE s \in SessionOf("ospf-session", OspfSessions, a, b)
    <2>1. PICK t \in OspfSessions : KnownPair(t) /\ Ends(t) = {a, b} /\ s = OspfSession(t)
        BY <1>3 DEF SessionOf, OspfSession
    <2>2. s.id = t /\ s \in PeerSessions
        BY <2>1 DEF OspfSession, PeerSessions
    <2>3. QED
        BY <1>1, <2>1, <2>2 DEF Between
<1>4. QED
    BY <1>2, <1>3

\* A line that names a device and is about a session is about one between the
\* device that reported it and the one it names.
LEMMA NamedPeer ==
    ASSUME NEW line, Sighting(line).peer \in Devices, Sighting(line).object \in Sessions
    PROVE  Between(Sighting(line).object, Reporter(line), Sighting(line).peer)
<1> DEFINE d        == Reporter(line)
           seen     == Sighting(line)
           about(b) == \/ b = NeighbourSighting(line, "bgp-session", BgpSessions)
                       \/ b = NeighbourSighting(line, "ospf-session", OspfSessions)
<1>1. seen.peer # NoPeer
    BY TopologyAssumption DEF NoPeer
<1>2. about(seen)
    BY <1>1 DEF Sighting
<1>3. ASSUME NEW type, NEW pairs, NEW s, s = NeighbourSighting(line, type, pairs),
             s.object \in Sessions
      PROVE  s.object \in SessionOf(type, pairs, d, s.peer)
    <2>1. \A x : Device(x) \notin Sessions
        BY TypesOfObjects DEF SessionTypes
    <2>2. PICK sessions : sessions = IF line.neighbour = NoPeer THEN {}
                                     ELSE SessionOf(type, pairs, d, line.neighbour)
        OBVIOUS
    <2>3. s = IF sessions # {}
              THEN [object |-> CHOOSE x \in sessions : TRUE, weight |-> 900, peer |-> line.neighbour]
              ELSE [object |-> Device(d), weight |-> 450, peer |-> line.neighbour]
        BY <1>3, <2>2 DEF NeighbourSighting
    <2>4. sessions # {}
        BY <1>3, <2>1, <2>3
    <2>5. s.object \in sessions /\ s.peer = line.neighbour
        BY <2>3, <2>4
    <2>6. QED
        BY <2>2, <2>4, <2>5
<1>4. CASE seen = NeighbourSighting(line, "bgp-session", BgpSessions)
    <2> HIDE DEF seen, d
    <2>1. seen.object \in SessionOf("bgp-session", BgpSessions, d, seen.peer)
        BY <1>3, <1>4 DEF seen
    <2>2. QED
        BY <2>1, SessionsBetween DEF seen, d
<1>5. CASE seen = NeighbourSighting(line, "ospf-session", OspfSessions)
    <2> HIDE DEF seen, d
    <2>1. seen.object \in SessionOf("ospf-session", OspfSessions, d, seen.peer)
        BY <1>3, <1>5 DEF seen
    <2>2. QED
        BY <2>1, SessionsBetween DEF seen, d
<1>6. QED
    BY <1>2, <1>4, <1>5

\* The weight of an observation, and what a session it is about is between.
LEMMA ObservationFacts ==
    ASSUME NEW o \in Observations
    PROVE  /\ IsWeight(o.weight)
           /\ o.peer \in Devices /\ o.object \in Sessions => Between(o.object, o.source, o.peer)
<1>1. PICK l \in Lines, t \in 0..MaxTime : o = Normalize(l, t)
    BY DEF Observations
<1>2. o # NoObservation
    BY DEF Observations
<1>3. Reporter(l) \in Devices
    BY <1>1, <1>2 DEF Normalize
<1>4. /\ o.source = Reporter(l) /\ o.weight = Weight(l, Sighting(l).weight)
      /\ o.peer = Sighting(l).peer /\ o.object = Sighting(l).object
    BY <1>1, <1>3 DEF Normalize
<1>5. l.rule \in Int
    BY BufferAssumption
<1>6. QED
    BY <1>4, <1>5, WeightBounds, NamedPeer

\* No line of the window tells a recovery: those do not enter it.
NoRecoveries == \A i \in DOMAIN buffer : buffer[i].assertion # "recovery"

\* Every step keeps recoveries out of the window.
LEMMA StepNoRecoveries == TypeOK /\ NoRecoveries /\ [Next]_vars => NoRecoveries'
<1> SUFFICES ASSUME TypeOK, NoRecoveries, [Next]_vars
             PROVE  NoRecoveries'
    OBVIOUS
<1>1. CASE UNCHANGED buffer
    BY <1>1 DEF NoRecoveries
<1>2. ASSUME NEW line \in Lines, Add(line)
      PROVE  NoRecoveries'
    <2>1. PICK o, fits : o = waiting[line] /\ fits = FitsActiveWindow(o, buffer)
        OBVIOUS
    <2>2. /\ o \in Observations /\ buffer \in Seq(Observations)
          /\ fits => buffer' = Append(buffer, o)
          /\ ~fits => buffer' = <<o>>
        BY <1>2, <2>1, AddFacts
    <2>3. o.assertion # "recovery"
        BY <1>2, <2>1 DEF Add
    <2>4. \A i \in DOMAIN buffer' : (i \in DOMAIN buffer /\ buffer'[i] = buffer[i])
                                        \/ buffer'[i] = o
        BY <2>2
    <2>5. QED
        BY <2>3, <2>4 DEF NoRecoveries
<1>3. ASSUME NEW line \in Lines, Recover(line)
      PROVE  NoRecoveries'
    BY <1>3 DEF Recover, Reset, NoRecoveries
<1>4. QED
    BY <1>1, <1>2, <1>3 DEF Next, Tick, Receive, vars

\* No recovery is in the window: the pipeline does not add one
\* (api/main.py:207-234).
LEMMA BufferNoRecoveries == Spec => []NoRecoveries
<1>1. Init => NoRecoveries
    BY DEF Init, NoRecoveries
<1>2. QED
    BY <1>1, BufferTypeOK, StepNoRecoveries, PTL DEF Spec

-----------------------------------------------------------------------------
(* Who is ahead of whom.                                                    *)

\* The weights of the lines that are explained.
Weights(obs, cov) == [i \in cov |-> obs[i].weight]

\* A score in terms of its sums.
LEMMA HypothesisPoints ==
    ASSUME NEW obs, NEW c
    PROVE  Hypothesis(c, obs).score =
              Points(Total(c, obs, Covered(c, obs)), SumFunction(Shares(c, obs, Covered(c, obs))),
                     Cardinality(Covered(c, obs)), Len(obs))
BY ScoredParts DEF Hypothesis, Points

\* There are n of the numbers 1 to n.
LEMMA LinesCounted ==
    ASSUME NEW n \in Nat
    PROVE  IsFiniteSet(1..n) /\ Cardinality(1..n) = n
BY FS_Interval

\* The weights of some lines are no more than those of all, nor than 1000 each.
LEMMA WeightsAddUp ==
    ASSUME NEW obs \in Seq(Observations), NEW cov \in SUBSET (1..Len(obs)), IsFiniteSet(cov)
    PROVE  /\ SumFunction(Weights(obs, cov)) \in Int
           /\ SumFunction(Weights(obs, 1..Len(obs))) \in Int
           /\ SumFunction(Weights(obs, cov)) <= SumFunction(Weights(obs, 1..Len(obs)))
           /\ SumFunction(Weights(obs, cov)) <= 1000 * Cardinality(cov)
<1> DEFINE all == 1..Len(obs)
           f   == Weights(obs, all)
           g   == Weights(obs, cov)
<1>1. \A i \in all : IsWeight(obs[i].weight)
    BY ObservationFacts
<1>2. f \in [all -> Nat] /\ f \in [all -> Int] /\ g \in [cov -> Int]
    BY <1>1 DEF Weights, IsWeight
<1>3. (\A i \in cov : g[i] = f[i] /\ g[i] <= 1000)
    BY <1>1 DEF Weights, IsWeight
<1>4. IsFiniteSet(all)
    BY FS_Interval
<1>5. SumFunction(f) \in Int /\ SumFunction(g) \in Int
    BY <1>2, <1>4, SumFunctionType
<1>6. SumFunction(g) <= SumFunction(f)
    <2>1. cov \in SUBSET all
        OBVIOUS
    <2>2. \A i \in cov : g[i] = f[i]
        BY <1>3
    <2> HIDE DEF f, g, all
    <2>3. QED
        BY <1>2, <1>4, <2>1, <2>2, SumOfPart
<1>7. SumFunction(g) <= 1000 * Cardinality(cov)
    <2> HIDE DEF f, g
    <2>1. \A a, b \in Int : (\A i \in cov : g[i] <= a * g[i] + b) =>
             SumFunction(g) <= a * SumFunction(g) + b * Cardinality(cov)
        BY <1>2, SumAtMost
    <2>2. \A i \in cov : g[i] <= 0 * g[i] + 1000
        BY <1>2, <1>3
    <2>3. SumFunction(g) <= 0 * SumFunction(g) + 1000 * Cardinality(cov)
        BY <2>1, <2>2
    <2>4. Cardinality(cov) \in Nat
        BY FS_CardinalityType
    <2>5. QED
        BY <1>5, <2>3, <2>4
<1>8. QED
    BY <1>5, <1>6, <1>7

\* What lies at least m away gets no more than its weight less the way.
LEMMA SharesFarAway ==
    ASSUME NEW obs \in Seq(Observations), NEW cov \in SUBSET (1..Len(obs)), IsFiniteSet(cov),
           NEW c, NEW m \in Nat, \A i \in cov : m <= Distance(c, obs[i].object)
    PROVE  SumFunction(Shares(c, obs, cov)) <=
              10 * SumFunction(Weights(obs, cov)) - 4000 * m * Cardinality(cov)
<1> DEFINE f == Shares(c, obs, cov)
           g == Weights(obs, cov)
<1>1. f \in [cov -> Int]
    BY EvidenceType
<1>2. \A i \in cov : IsWeight(obs[i].weight) /\ Distance(c, obs[i].object) \in Int
    BY ObservationFacts, DistanceType
<1>3. g \in [cov -> Int]
    BY <1>2 DEF Weights, IsWeight
<1>4. \A i \in cov : f[i] <= 10 * g[i] + (-4000 * m)
    BY <1>2 DEF Shares, Weights, IsWeight
<1>5. SumFunction(f) \in Int /\ SumFunction(g) \in Int
    BY <1>1, <1>3, SumFunctionType
<1>6. Cardinality(cov) \in Nat
    BY FS_CardinalityType
<1> HIDE DEF f, g
<1>7. SumFunction(f) <= 10 * SumFunction(g) + (-4000 * m) * Cardinality(cov)
    <2>1. PICK b \in Int : b = -4000 * m
        OBVIOUS
    <2>2. \A a, e \in Int : (\A i \in cov : f[i] <= a * g[i] + e) =>
             SumFunction(f) <= a * SumFunction(g) + e * Cardinality(cov)
        BY <1>1, <1>3, SumAtMost
    <2>3. \A i \in cov : f[i] <= 10 * g[i] + b
        BY <1>4, <2>1
    <2>4. SumFunction(f) <= 10 * SumFunction(g) + b * Cardinality(cov)
        BY <2>2, <2>3
    <2>5. QED
        BY <2>1, <2>4
<1>8. (-4000 * m) * Cardinality(cov) = -(4000 * m * Cardinality(cov))
    BY <1>6
<1>9. 4000 * m * Cardinality(cov) \in Int
    BY <1>6
<1>10. QED
    BY <1>5, <1>7, <1>8, <1>9 DEF f, g

\* What lies at distance 1 gets its weight less one step.
LEMMA SharesNextTo ==
    ASSUME NEW obs \in Seq(Observations), NEW c,
           \A i \in 1..Len(obs) : Distance(c, obs[i].object) = 1
    PROVE  10 * SumFunction(Weights(obs, 1..Len(obs))) - 4000 * Len(obs)
              <= SumFunction(Shares(c, obs, 1..Len(obs)))
<1> DEFINE all == 1..Len(obs)
           f   == Shares(c, obs, all)
           g   == Weights(obs, all)
<1>0. Len(obs) \in Nat /\ IsFiniteSet(all) /\ Cardinality(all) = Len(obs)
    <2>1. Len(obs) \in Nat
        OBVIOUS
    <2>2. QED
        BY <2>1, LinesCounted
<1>1. f \in [all -> Int]
    BY EvidenceType
<1>2. \A i \in all : IsWeight(obs[i].weight)
    BY ObservationFacts
<1>3. g \in [all -> Int]
    BY <1>2 DEF Weights, IsWeight
<1>4. \A i \in all : 10 * g[i] + (-4000) <= f[i]
    BY <1>2 DEF Shares, Weights, IsWeight
<1>5. SumFunction(f) \in Int /\ SumFunction(g) \in Int
    BY <1>0, <1>1, <1>3, SumFunctionType
<1> HIDE DEF f, g, all
<1>6. \A a, b \in Int : (\A i \in all : a * g[i] + b <= f[i]) =>
         a * SumFunction(g) + b * Cardinality(all) <= SumFunction(f)
    BY <1>0, <1>1, <1>3, SumAtLeast
<1>7. 10 * SumFunction(g) + (-4000) * Cardinality(all) <= SumFunction(f)
    BY <1>4, <1>6
<1>8. QED
    BY <1>0, <1>5, <1>7 DEF f, g, all

\* What a score is made of are numbers.
LEMMA TotalType ==
    ASSUME NEW obs \in Seq(Observations), NEW c, NEW cov \in SUBSET (1..Len(obs)), IsFiniteSet(cov)
    PROVE  /\ Total(c, obs, cov) \in Int
           /\ SumFunction(Shares(c, obs, cov)) \in Int /\ SumFunction(Evidence(c, obs, cov)) \in Int
           /\ SilentPeer(c, obs, cov) \in Int /\ TemporalFit(c, obs, cov) \in Int
           /\ Redundancy(c, obs, cov) \in Int
<1>1. SumFunction(Shares(c, obs, cov)) \in Int /\ SumFunction(Evidence(c, obs, cov)) \in Int
    BY EvidenceType, SumFunctionType
<1>2. Specificity(c.type) \in Int /\ Coherence(c, cov) \in Int
    BY DEF Specificity, Coherence
<1>3. SilentPeer(c, obs, cov) \in Int /\ TemporalFit(c, obs, cov) \in Int
    BY SilentPeerType, TemporalFitType
<1>4. Contradiction(obs, cov) \in Int /\ Redundancy(c, obs, cov) \in Int
    BY ContradictionType, RedundancyType
<1>5. QED
    BY <1>1, <1>2, <1>3, <1>4 DEF Total

\* n and k are the numbers of lines and of lines that are explained.
Measured(obs, cov, n, k) ==
    /\ n = Len(obs) /\ k = Cardinality(cov)
    /\ n \in Nat \ {0} /\ k \in Nat \ {0} /\ k <= n
    /\ cov \in SUBSET (1..Len(obs)) /\ IsFiniteSet(cov)

\* What is explained can be counted.
LEMMA Measuring ==
    ASSUME NEW obs \in Seq(Observations), NEW c, Covered(c, obs) # {}
    PROVE  \E n, k : Measured(obs, Covered(c, obs), n, k)
<1>1. PICK cov : cov = Covered(c, obs)
    OBVIOUS
<1>2. PICK n, k : n = Len(obs) /\ k = Cardinality(cov)
    OBVIOUS
<1>3. n \in Nat /\ cov \in SUBSET (1..n) /\ IsFiniteSet(cov) /\ cov # {}
    BY <1>1, <1>2, CoveredIsFinite
<1>4. IsFiniteSet(1..n) /\ Cardinality(1..n) = n
    BY <1>3, LinesCounted
<1>5. k \in Nat /\ k # 0
    BY <1>2, <1>3, FS_CardinalityType, FS_EmptySet
<1>6. k <= n
    BY <1>2, <1>3, <1>4, FS_Subset
<1>7. QED
    BY <1>1, <1>2, <1>3, <1>5, <1>6 DEF Measured

\* To be ahead by x is less than the lines that are not explained cost.
Behind(x, n, k) == x * n <= 90000 * (n - k)

\* To be ahead by less is outweighed as well.
LEMMA BehindByLess ==
    ASSUME NEW n \in Nat, NEW k \in Nat, NEW x \in Int, Behind(x, n, k), NEW z \in Int, z <= x
    PROVE  Behind(z, n, k)
<1>1. n * z <= n * x
    BY ProductsInOrder
<1>2. n * z = z * n /\ n * x = x * n /\ z * n \in Int /\ x * n \in Int /\ 90000 * (n - k) \in Int
    OBVIOUS
<1>3. QED
    BY <1>1, <1>2 DEF Behind

\* What k lines cost that are m steps away, and how far c is ahead of w then.
Steps(far, m, k)      == far = 4000 * m * k
Ahead(z, a, b, m, g) == z = b + g - a - 4000 * m

\* c is outweighed when it is m steps away from each line.
LEMMA WayOfAll ==
    ASSUME NEW n \in Nat, NEW k \in Nat, NEW a \in Int, NEW b \in Int, NEW m \in Nat, NEW g \in Nat,
           NEW far \in Int, Steps(far, m, k), NEW z \in Int, Ahead(z, a, b, m, g), Behind(z, n, k)
    PROVE  Outweighed(n, k, a, b, far, g)
<1>1. PICK u, v \in Int : u = z * n /\ v = 90000 * (n - k)
    OBVIOUS
<1>2. u <= v
    BY <1>1 DEF Behind
<1>3. (b + g) * n - a * n - 90000 * (n - k) = u + 4000 * m * n - v
    BY <1>1 DEF Ahead
<1>4. 4000 * m * n \in Int /\ k * (4000 * m * n) = far * n
    BY DEF Steps
<1>5. k * u <= k * v
    BY <1>2, ProductsInOrder
<1>6. k * (u + 4000 * m * n - v) = k * u - k * v + k * (4000 * m * n)
    BY <1>4
<1>7. k * u \in Int /\ k * v \in Int /\ k * (4000 * m * n) \in Int
    BY <1>4
<1>8. QED
    BY <1>3, <1>4, <1>5, <1>6, <1>7 DEF Outweighed

\* w explains every line, and is next to each.
NextToAll(w, obs) ==
    Covered(w, obs) = 1..Len(obs) /\ \A i \in 1..Len(obs) : Distance(w, obs[i].object) = 1

\* w, next to every line and with a total of a and a step, is ahead by g of c
\* with a total of b at most, "far" away in all.
LEMMA AheadInAll ==
    ASSUME NEW obs \in Seq(Observations), NEW w, NextToAll(w, obs), NEW c, NEW n, NEW k,
           Measured(obs, Covered(c, obs), n, k),
           NEW a \in Int, a + 4000 <= Total(w, obs, 1..Len(obs)),
           NEW b \in Int, Total(c, obs, Covered(c, obs)) <= b,
           NEW far \in Int,
           SumFunction(Shares(c, obs, Covered(c, obs)))
              <= 10 * SumFunction(Weights(obs, Covered(c, obs))) - far,
           NEW g \in Nat, Outweighed(n, k, a, b, far, g)
    PROVE  Hypothesis(c, obs).score + g <= Hypothesis(w, obs).score
<1> DEFINE cov    == Covered(c, obs)
           all    == 1..Len(obs)
           heavy  == SumFunction(Weights(obs, all))
           light  == SumFunction(Weights(obs, cov))
           first  == Total(w, obs, all)
           shares == SumFunction(Shares(w, obs, all))
           whole  == Total(c, obs, cov)
           shared == SumFunction(Shares(c, obs, cov))
<1>1. n \in Nat \ {0} /\ k \in Nat \ {0} /\ k <= n /\ n = Len(obs) /\ k = Cardinality(cov)
    BY DEF Measured
<1>2. cov \in SUBSET all /\ IsFiniteSet(cov)
    BY DEF Measured
<1>3. all \in SUBSET (1..Len(obs)) /\ IsFiniteSet(all) /\ Cardinality(all) = Len(obs)
    BY <1>1, LinesCounted
<1>4. heavy \in Int /\ light \in Int /\ light <= heavy /\ light <= 1000 * Cardinality(cov)
    BY <1>2, WeightsAddUp
<1>5. first \in Int /\ shares \in Int
    BY <1>3, TotalType
<1>6. whole \in Int /\ shared \in Int
    BY <1>2, TotalType
<1>7. 10 * heavy - 4000 * Len(obs) <= shares
    BY SharesNextTo DEF NextToAll
<1>8. light <= 1000 * k /\ 10 * heavy - 4000 * n <= shares
    BY <1>1, <1>4, <1>7
<1>9. Hypothesis(c, obs).score = Points(whole, shared, Cardinality(cov), Len(obs))
    BY HypothesisPoints
<1>10. Hypothesis(w, obs).score = Points(first, shares, Cardinality(all), Len(obs))
    BY HypothesisPoints DEF NextToAll
<1>11. a + 4000 <= first /\ whole <= b /\ shared <= 10 * light - far
    OBVIOUS
<1>12. n \in Nat \ {0} /\ k \in Nat \ {0} /\ k <= n
    BY <1>1
<1> HIDE DEF heavy, light, first, shares, whole, shared
<1>13. Points(whole, shared, k, n) + g <= Points(first, shares, n, n)
    <2>1. Compared(n, k, heavy, light, first, shares, whole, shared, a, b, far, g)
        BY <1>4, <1>5, <1>6, <1>8, <1>11, <1>12 DEF Compared
    <2>2. QED
        BY <2>1, AheadInPoints
<1>14. QED
    BY <1>1, <1>3, <1>9, <1>10, <1>13

\* The same of c that is m or more away from each line it explains.
LEMMA AheadFarAway ==
    ASSUME NEW obs \in Seq(Observations), NEW w, NextToAll(w, obs), NEW c, NEW n, NEW k,
           Measured(obs, Covered(c, obs), n, k),
           NEW a \in Int, a + 4000 <= Total(w, obs, 1..Len(obs)),
           NEW b \in Int, Total(c, obs, Covered(c, obs)) <= b,
           NEW m \in Nat, \A i \in Covered(c, obs) : m <= Distance(c, obs[i].object),
           NEW g \in Nat, NEW x \in Int, b + g - a - 4000 * m <= x, Behind(x, n, k)
    PROVE  Hypothesis(c, obs).score + g <= Hypothesis(w, obs).score
<1> DEFINE cov == Covered(c, obs)
           far == 4000 * m * k
<1>1. n \in Nat /\ k \in Nat /\ k = Cardinality(cov)
    BY DEF Measured
<1>2. cov \in SUBSET (1..Len(obs)) /\ IsFiniteSet(cov)
    BY DEF Measured
<1>3. SumFunction(Shares(c, obs, cov)) <= 10 * SumFunction(Weights(obs, cov)) - 4000 * m * Cardinality(cov)
    BY <1>2, SharesFarAway
<1>4. far \in Int
    BY <1>1
<1>5. SumFunction(Shares(c, obs, cov)) <= 10 * SumFunction(Weights(obs, cov)) - far
    BY <1>1, <1>3
<1>6. Outweighed(n, k, a, b, far, g)
    <2>1. PICK z \in Int : Ahead(z, a, b, m, g)
        BY DEF Ahead
    <2>2. z <= x
        BY <2>1 DEF Ahead
    <2>3. Behind(z, n, k)
        BY <1>1, <2>2, BehindByLess
    <2>4. Steps(far, m, k)
        BY DEF Steps
    <2>5. n \in Nat /\ k \in Nat
        BY <1>1
    <2> HIDE DEF far
    <2>6. QED
        BY ONLY <1>4, <2>1, <2>3, <2>4, <2>5, a \in Int, b \in Int, m \in Nat, g \in Nat, WayOfAll
<1> HIDE DEF far
<1>7. QED
    BY <1>4, <1>5, <1>6, AheadInAll

-----------------------------------------------------------------------------
(* What the parts of a total are at most, and at least.                     *)

\* Lines about an object never count against it.
LEMMA EvidenceIsPositive ==
    ASSUME NEW obs \in Seq(Observations), NEW cov \in SUBSET (1..Len(obs)), IsFiniteSet(cov), NEW c
    PROVE  SumFunction(Evidence(c, obs, cov)) \in Nat
<1> DEFINE f == Evidence(c, obs, cov)
<1>1. f \in [cov -> Int]
    BY EvidenceType
<1>2. \A i \in cov : IsWeight(obs[i].weight)
    BY ObservationFacts
<1>3. \A i \in cov : 0 * f[i] + 0 <= f[i]
    BY <1>1, <1>2 DEF Evidence, IsWeight
<1>4. SumFunction(f) \in Int
    BY <1>1, SumFunctionType
<1> HIDE DEF f
<1>5. \A a, b \in Int : (\A i \in cov : a * f[i] + b <= f[i]) =>
         a * SumFunction(f) + b * Cardinality(cov) <= SumFunction(f)
    BY <1>1, SumAtLeast
<1>6. 0 * SumFunction(f) + 0 * Cardinality(cov) <= SumFunction(f)
    BY <1>3, <1>5
<1>7. Cardinality(cov) \in Nat
    BY FS_CardinalityType
<1>8. QED
    BY <1>4, <1>6, <1>7 DEF f

\* No line is about c.
LEMMA NoEvidence ==
    ASSUME NEW obs \in Seq(Observations), NEW cov \in SUBSET (1..Len(obs)), IsFiniteSet(cov), NEW c,
           \A i \in cov : obs[i].object # c
    PROVE  SumFunction(Evidence(c, obs, cov)) <= 0
<1> DEFINE f == Evidence(c, obs, cov)
<1>1. f \in [cov -> Int]
    BY EvidenceType
<1>2. \A i \in cov : f[i] <= 0 * f[i] + 0
    BY <1>1 DEF Evidence
<1>3. SumFunction(f) \in Int
    BY <1>1, SumFunctionType
<1> HIDE DEF f
<1>4. \A a, b \in Int : (\A i \in cov : f[i] <= a * f[i] + b) =>
         SumFunction(f) <= a * SumFunction(f) + b * Cardinality(cov)
    BY <1>1, SumAtMost
<1>5. SumFunction(f) <= 0 * SumFunction(f) + 0 * Cardinality(cov)
    BY <1>2, <1>4
<1>6. Cardinality(cov) \in Nat
    BY FS_CardinalityType
<1>7. QED
    BY <1>3, <1>5, <1>6 DEF f

\* One line at most is about c.
LEMMA OneEvidence ==
    ASSUME NEW obs \in Seq(Observations), NEW cov \in SUBSET (1..Len(obs)), IsFiniteSet(cov), NEW c,
           NEW y \in cov, \A i \in cov \ {y} : obs[i].object # c
    PROVE  SumFunction(Evidence(c, obs, cov)) <= 12000
<1> DEFINE f == Evidence(c, obs, cov)
<1>1. f \in [cov -> Int]
    BY EvidenceType
<1>2. IsWeight(obs[y].weight)
    BY ObservationFacts
<1>3. f[y] <= 12000 /\ f[y] \in Int
    BY <1>2 DEF Evidence, IsWeight
<1>4. \A i \in cov \ {y} : f[i] <= 0 * f[i] + 0
    BY <1>1 DEF Evidence
<1>5. SumFunction(f) \in Int
    BY <1>1, SumFunctionType
<1> HIDE DEF f
<1>6. \A a, b \in Int : (\A i \in cov \ {y} : f[i] <= a * f[i] + b) =>
         SumFunction(f) <= f[y] + a * (SumFunction(f) - f[y]) + b * (Cardinality(cov) - 1)
    BY <1>1, SumAtMostBut
<1>7. SumFunction(f) <= f[y] + 0 * (SumFunction(f) - f[y]) + 0 * (Cardinality(cov) - 1)
    BY <1>4, <1>6
<1>8. Cardinality(cov) \in Nat
    BY FS_CardinalityType
<1>9. QED
    BY <1>3, <1>5, <1>7, <1>8 DEF f

\* Steps away in the order of time are among the pairs T.
LEMMA FitAtMost ==
    ASSUME NEW obs, NEW cov, IsFiniteSet(cov), NEW c, NEW T, IsFiniteSet(T),
           \A i, j \in cov :
              Before(obs, i, j) /\ Distance(c, obs[i].object) < Distance(c, obs[j].object)
              => <<i, j>> \in T
    PROVE  TemporalFit(c, obs, cov) <= 4000 * Cardinality(T) /\ TemporalFit(c, obs, cov) <= 12000
<1> DEFINE pairs  == {p \in cov \X cov : Before(obs, p[1], p[2])}
           dist   == [i \in cov |-> Distance(c, obs[i].object)]
           Toward == {p \in pairs : dist[p[1]] < dist[p[2]]}
           Away   == {p \in pairs : dist[p[1]] > dist[p[2]]}
<1>1. IsFiniteSet(cov \X cov)
    BY FS_Product
<1>2. Toward \subseteq cov \X cov /\ Away \subseteq cov \X cov
    OBVIOUS
<1>3. Toward \subseteq T
    <2>1. \A p \in Toward : \E i, j \in cov :
             p = <<i, j>> /\ Before(obs, i, j) /\ Distance(c, obs[i].object) < Distance(c, obs[j].object)
        OBVIOUS
    <2>2. QED
        BY <2>1
<1>4. PICK toward : toward = Cardinality(Toward)
    OBVIOUS
<1>5. PICK away : away = Cardinality(Away)
    OBVIOUS
<1>6. TemporalFit(c, obs, cov) =
         LET fit == 4000 * (toward - away)
         IN  IF fit > 12000 THEN 12000 ELSE IF fit < -12000 THEN -12000 ELSE fit
    BY <1>4, <1>5 DEF TemporalFit
<1>7. toward \in Nat /\ away \in Nat /\ toward <= Cardinality(T) /\ Cardinality(T) \in Nat
    <2> HIDE DEF Toward, Away
    <2>1. toward \in Nat /\ away \in Nat
        BY <1>1, <1>2, <1>4, <1>5, FS_Subset, FS_CardinalityType
    <2>2. toward <= Cardinality(T)
        BY <1>3, <1>4, FS_Subset
    <2>3. QED
        BY <2>1, <2>2, FS_CardinalityType
<1>8. QED
    BY <1>6, <1>7

\* The order of the lines counts 12 at most.
LEMMA FitIsBounded ==
    ASSUME NEW obs, NEW cov, IsFiniteSet(cov), NEW c
    PROVE  TemporalFit(c, obs, cov) <= 12000
<1>1. PICK T : T = cov \X cov
    OBVIOUS
<1>2. IsFiniteSet(T)
    BY <1>1, FS_Product
<1>3. \A i, j \in cov :
         Before(obs, i, j) /\ Distance(c, obs[i].object) < Distance(c, obs[j].object)
         => <<i, j>> \in T
    BY <1>1
<1>4. QED
    BY ONLY IsFiniteSet(cov), <1>2, <1>3, FitAtMost

\* All lines are equally far away.
LEMMA FitOfEqual ==
    ASSUME NEW obs, NEW cov, NEW c,
           \A i, j \in cov : Distance(c, obs[i].object) = Distance(c, obs[j].object)
    PROVE  TemporalFit(c, obs, cov) = 0
<1> DEFINE pairs  == {p \in cov \X cov : Before(obs, p[1], p[2])}
           dist   == [i \in cov |-> Distance(c, obs[i].object)]
           Toward == {p \in pairs : dist[p[1]] < dist[p[2]]}
           Away   == {p \in pairs : dist[p[1]] > dist[p[2]]}
<1>1. \A p \in pairs : dist[p[1]] = dist[p[2]] /\ dist[p[1]] \in Int
    BY DistanceType
<1>2. Toward = {} /\ Away = {}
    <2> HIDE DEF dist, pairs
    <2>1. QED
        BY <1>1
<1>3. PICK toward, away : toward = Cardinality(Toward) /\ away = Cardinality(Away)
    OBVIOUS
<1>4. toward = 0 /\ away = 0
    <2> HIDE DEF Toward, Away
    <2>1. QED
        BY <1>2, <1>3, FS_EmptySet
<1>5. TemporalFit(c, obs, cov) =
         LET fit == 4000 * (toward - away)
         IN  IF fit > 12000 THEN 12000 ELSE IF fit < -12000 THEN -12000 ELSE fit
    BY <1>3 DEF TemporalFit
<1>6. QED
    BY <1>4, <1>5

\* No line that is explained tells a recovery.
Uncontradicted(obs) == \A i \in DOMAIN obs : obs[i].assertion # "recovery"

\* Then no recovery counts against a candidate.
LEMMA NoContradiction ==
    ASSUME NEW obs \in Seq(Observations), NEW cov \in SUBSET (1..Len(obs)), Uncontradicted(obs)
    PROVE  Contradiction(obs, cov) = 0
<1> DEFINE recoveries == {i \in cov : obs[i].assertion = "recovery"}
<1>1. DOMAIN obs = 1..Len(obs)
    OBVIOUS
<1>2. recoveries = {}
    BY <1>1 DEF Uncontradicted
<1>3. Cardinality(recoveries) = 0
    <2> HIDE DEF recoveries
    <2>1. QED
        BY <1>2, FS_EmptySet
<1>4. Contradiction(obs, cov) = -35000 * Cardinality(recoveries)
    BY DEF Contradiction
<1> HIDE DEF recoveries
<1>5. PICK x \in Int : x <= 0 /\ 0 <= x /\ Contradiction(obs, cov) = -35000 * x
    BY <1>3, <1>4
<1>6. QED
    BY <1>5

\* Silent sessions count only against devices.
LEMMA RedundancyAtMost ==
    ASSUME NEW c, NEW obs, NEW cov
    PROVE  Redundancy(c, obs, cov) <= 0 /\ (c.type # "device" => Redundancy(c, obs, cov) = 0)
<1> DEFINE all      == {s \in Successors(c) : s.type \in SessionTypes}
           affected == {obs[i].object : i \in cov} \cap Sessions
<1>1. all \ affected \subseteq Sessions
    BY SessionsFollow
<1>2. PICK u : u = Cardinality(all \ affected)
    OBVIOUS
<1>3. u \in Nat
    <2> HIDE DEF all, affected
    <2>1. IsFiniteSet(all \ affected)
        BY <1>1, SessionsAreFinite, FS_Subset
    <2>2. QED
        BY <1>2, <2>1, FS_CardinalityType
<1>4. Redundancy(c, obs, cov) \in {0, -8000 * u}
    BY <1>2 DEF Redundancy
<1>5. c.type # "device" => Redundancy(c, obs, cov) = 0
    BY DEF Redundancy
<1> HIDE DEF all, affected
<1>6. QED
    BY <1>3, <1>4, <1>5

\* No line names c as its peer.
LEMMA NotNamed ==
    ASSUME NEW c, NEW obs, NEW cov, \A i \in cov : c.type = "device" => obs[i].peer # c.id[1]
    PROVE  SilentPeer(c, obs, cov) = 0
<1> DEFINE named  == {i \in cov : c.type = "device" /\ obs[i].peer = c.id[1]}
           strong == {i \in named : obs[i].strong}
<1>1. named = {} /\ strong = {}
    OBVIOUS
<1>2. SilentPeer(c, obs, cov) = IF Cardinality(named) < 2 THEN 64000 * Cardinality(strong)
                                                          ELSE 14000 * Cardinality(named)
    BY DEF SilentPeer
<1> HIDE DEF named, strong
<1>3. Cardinality(named) = 0 /\ Cardinality(strong) = 0
    BY <1>1, FS_EmptySet
<1>4. QED
    BY <1>2, <1>3

\* One line at most names d, and no line that speaks of an expired session.
LEMMA HardlyNamed ==
    ASSUME NEW d, NEW obs \in Seq(Observations), NEW cov \in SUBSET (1..Len(obs)),
           Cardinality({i \in DOMAIN obs : obs[i].peer = d}) <= 1,
           \A i \in DOMAIN obs : obs[i].peer = d => ~obs[i].strong
    PROVE  SilentPeer(Device(d), obs, cov) = 0
<1> DEFINE c      == Device(d)
           names  == {i \in DOMAIN obs : obs[i].peer = d}
           named  == {i \in cov : c.type = "device" /\ obs[i].peer = c.id[1]}
           strong == {i \in named : obs[i].strong}
<1>1. DOMAIN obs = 1..Len(obs) /\ Len(obs) \in Nat
    OBVIOUS
<1>2. c.type = "device" /\ c.id = <<d>> /\ c.id[1] = d
    BY TypesOfObjects
<1>3. named \subseteq names /\ strong = {} /\ names \subseteq 1..Len(obs)
    <2> HIDE DEF c
    <2>1. named \subseteq names
        BY <1>1, <1>2
    <2>2. strong = {}
        BY <1>1, <1>2
    <2>3. QED
        BY <1>1, <2>1, <2>2
<1>4. SilentPeer(c, obs, cov) = IF Cardinality(named) < 2 THEN 64000 * Cardinality(strong)
                                                          ELSE 14000 * Cardinality(named)
    BY DEF SilentPeer
<1>5. Cardinality(names) <= 1
    OBVIOUS
<1> HIDE DEF named, strong, names, c
<1>6. IsFiniteSet(names)
    BY <1>1, <1>3, LinesCounted, FS_Subset
<1>7. Cardinality(named) <= Cardinality(names) /\ Cardinality(named) \in Nat /\ Cardinality(names) \in Nat
    BY <1>3, <1>6, FS_Subset, FS_CardinalityType
<1>8. Cardinality(strong) = 0
    BY <1>3, FS_EmptySet
<1>9. SilentPeer(c, obs, cov) = 0
    BY <1>4, <1>5, <1>7, <1>8
<1>10. QED
    BY <1>9 DEF c

\* A total is no more than the bounds of its parts.
LEMMA TotalAtMost ==
    ASSUME NEW obs \in Seq(Observations), NEW cov \in SUBSET (1..Len(obs)), IsFiniteSet(cov),
           NEW c, Uncontradicted(obs),
           NEW e \in Int, SumFunction(Evidence(c, obs, cov)) <= e,
           SilentPeer(c, obs, cov) = 0,
           NEW f \in Int, TemporalFit(c, obs, cov) <= f,
           NEW h \in Int, Coherence(c, cov) <= h
    PROVE  Total(c, obs, cov) <= Specificity(c.type) + e + f + h
<1>1. PICK x1, x2, x3, x4 : /\ x1 = Specificity(c.type) /\ x2 = SumFunction(Evidence(c, obs, cov))
                            /\ x3 = TemporalFit(c, obs, cov) /\ x4 = Redundancy(c, obs, cov)
    OBVIOUS
<1>2. PICK x5 : x5 = Coherence(c, cov)
    OBVIOUS
<1>3. x2 \in Int /\ x3 \in Int /\ x4 \in Int
    BY <1>1, TotalType
<1>4. x1 \in Int /\ x5 \in Int
    BY <1>1, <1>2 DEF Specificity, Coherence
<1>5. Total(c, obs, cov) = x1 + x2 + 0 + x3 + 0 + x4 + x5
    BY <1>1, <1>2, NoContradiction DEF Total
<1>6. x4 <= 0
    BY <1>1, RedundancyAtMost
<1>7. x2 <= e /\ x3 <= f /\ x5 <= h
    BY <1>1, <1>2
<1>8. Total(c, obs, cov) <= x1 + e + f + h
    BY <1>3, <1>4, <1>5, <1>6, <1>7
<1>9. QED
    BY <1>1, <1>8

\* What a type and its coherence count.
LEMMA TypeCounts ==
    /\ \A cov : \A d : Specificity(Device(d).type) = 8000 /\ Coherence(Device(d), cov) = 0
    /\ \A cov : \A i : Specificity(Interface(i).type) = 24000 /\ Coherence(Interface(i), cov) = 0
    /\ \A cov : \A k : /\ Specificity(PhysicalLink(k).type) = 28000
                       /\ Coherence(PhysicalLink(k), cov) =
                             IF Cardinality(cov) >= 2 THEN 18000 ELSE 0
BY TypesOfObjects DEF Specificity, Coherence

\* What there is a path to is some steps away.
LEMMA DistanceOfPath ==
    ASSUME NEW c, NEW o, Distance(c, o) # NoPath
    PROVE  /\ Distance(c, o) \in Nat
           /\ c # o => Distance(c, o) >= 1 /\ c \in Objects /\ o \in Objects
<1>1. CASE c = o
    BY <1>1 DEF Distance
<1>2. CASE c # o
    <2>1. c \in Objects /\ o \in Objects
        BY <1>2 DEF Distance
    <2>2. Distance(c, o) \in Nat \ {0}
        BY <1>2, <2>1, NearObjects
    <2>3. QED
        BY <1>2, <2>1, <2>2
<1>3. QED
    BY <1>1, <1>2

\* One candidate is ahead of another by score, or by type at the same score.
AheadOf(c, w, obs) ==
    \/ Hypothesis(c, obs).score < Hypothesis(w, obs).score
    \/ /\ Hypothesis(c, obs).score = Hypothesis(w, obs).score
       /\ TypeRank(c.type) < TypeRank(w.type)

\* The best candidate is the one that is ahead of all others.
LEMMA NamedWhenAhead ==
    ASSUME NEW obs \in Seq(Observations), obs # <<>>, NEW w \in Causes, w \in Objects,
           NextToAll(w, obs),
           \A c \in Causes \ {w} : Covered(c, obs) # {} => AheadOf(c, w, obs)
    PROVE  Infer(obs).root = w
<1>1. 1 \in DOMAIN obs /\ 1 \in 1..Len(obs) /\ DOMAIN obs = 1..Len(obs)
    OBVIOUS
<1>2. w.type \in CandidateTypes
    BY CausesFacts
<1>3. w \in CandidateObjects(obs)
    <2>1. Distance(w, obs[1].object) # NoPath
        BY <1>1 DEF NextToAll, NoPath
    <2>2. w \in Suspects(obs[1].object)
        BY <1>2, <2>1 DEF Suspects
    <2>3. QED
        BY <1>1, <2>2 DEF CandidateObjects
<1>4. Covered(w, obs) # {}
    BY <1>1 DEF NextToAll
<1>5. PICK h : h = Hypotheses(obs)
    OBVIOUS
<1>6. /\ DOMAIN h = {c \in CandidateObjects(obs) : Covered(c, obs) # {}}
      /\ \A c \in DOMAIN h : h[c] = Hypothesis(c, obs)
    BY <1>5 DEF Hypotheses
<1>7. w \in DOMAIN h
    BY <1>3, <1>4, <1>6
<1>8. DOMAIN h \subseteq Causes
    <2>1. \A i \in DOMAIN obs : obs[i].source \in Devices
        <3>1. \A i \in DOMAIN obs : obs[i] \in Observations
            OBVIOUS
        <3>2. QED
            BY <3>1, ObservationFields
    <2>2. QED
        BY <1>6, <2>1, CandidatesAreCauses
<1>9. \A c \in DOMAIN h : h[c].score \in Int
    BY <1>6, ScoreType
<1>10. \A c \in Causes : TypeRank(c.type) \in Int
    BY DEF TypeRank
<1>11. \A c \in DOMAIN h \ {w} : AheadOf(c, w, obs)
    BY <1>6, <1>8
<1>12. \A c \in DOMAIN h \ {w} : RankedAfter(h, c, w) /\ ~RankedAfter(h, w, c)
    <2> SUFFICES ASSUME NEW c \in DOMAIN h, c # w
                 PROVE  RankedAfter(h, c, w) /\ ~RankedAfter(h, w, c)
        OBVIOUS
    <2>1. /\ h[c].score \in Int /\ h[w].score \in Int
          /\ TypeRank(c.type) \in Int /\ TypeRank(w.type) \in Int
        BY <1>7, <1>8, <1>9, <1>10
    <2>2. \/ h[c].score < h[w].score
          \/ h[c].score = h[w].score /\ TypeRank(c.type) < TypeRank(w.type)
        BY <1>6, <1>7, <1>11 DEF AheadOf
    <2>3. QED
        BY <2>1, <2>2 DEF RankedAfter
<1>13. BestOf(h) \in DOMAIN h /\ \A d \in DOMAIN h \ {BestOf(h)} : RankedAfter(h, d, BestOf(h))
    <2>1. \E c \in DOMAIN h : \A d \in DOMAIN h \ {c} : RankedAfter(h, d, c)
        BY <1>7, <1>12
    <2>2. QED
        BY <2>1 DEF BestOf
<1>14. BestOf(h) = w
    BY <1>7, <1>12, <1>13
<1>15. QED
    BY <1>5, <1>7, <1>14 DEF Infer, Verdict

\* c is ahead when it is ahead by a thousandth.
LEMMA AheadByOne ==
    ASSUME NEW obs \in Seq(Observations), NEW c, Covered(c, obs) # {}, NEW w, Covered(w, obs) # {},
           NEW g \in Nat, Hypothesis(c, obs).score + g <= Hypothesis(w, obs).score,
           g >= 1 \/ TypeRank(c.type) < TypeRank(w.type)
    PROVE  AheadOf(c, w, obs)
<1>1. Hypothesis(c, obs).score \in Int /\ Hypothesis(w, obs).score \in Int
    BY ScoreType
<1>2. QED
    BY <1>1 DEF AheadOf

-----------------------------------------------------------------------------
(* How far a failure reaches.                                               *)

\* What a link affects is next to it, when no interface has two cables.
LEMMA LinkReach ==
    ASSUME OneCableEach, NEW k \in Connections, NEW o, Distance(PhysicalLink(k), o) # NoPath,
           o # PhysicalLink(k)
    PROVE  o \in Successors(PhysicalLink(k)) /\ Distance(PhysicalLink(k), o) = 1
<1> DEFINE L == PhysicalLink(k)
           S == {L} \cup Successors(L)
<1>1. ASSUME NEW x \in Successors(L), NEW y \in Successors(x)
      PROVE  y = L
    <2>1. CASE x \in Sessions
        BY <1>1, <2>1, SessionsEnd
    <2>2. CASE x \in {Interface(k[1]), Interface(k[2])}
        <3>1. PICK i \in {k[1], k[2]} : x = Interface(i)
            BY <2>2
        <3>2. PICK j \in Connections : i \in {j[1], j[2]} /\ y = PhysicalLink(j)
            BY <1>1, <3>1, InterfaceAffects
        <3>3. j = k
            BY <3>1, <3>2 DEF OneCableEach
        <3>4. QED
            BY <3>2, <3>3
    <2>3. QED
        BY <1>1, <2>1, <2>2, LinkAffects
<1>2. L \in S /\ \A x \in S : Successors(x) \subseteq S
    BY <1>1
<1> HIDE DEF S, L
<1>3. o \in S
    BY <1>2, ReachStays DEF L
<1>4. o \in Successors(L)
    BY <1>3 DEF S, L
<1>5. L \in Objects /\ o \in Objects
    BY DistanceOfPath DEF L
<1>6. Distance(L, o) = 1
    BY <1>4, <1>5, NearObjects DEF L
<1>7. QED
    BY <1>4, <1>6 DEF L

\* The sessions that the failure of a link or of an interface affects are those
\* over one cable, when no interface has two.
LEMMA OverOneCable ==
    ASSUME OneCableEach, NEW c,
           (\E k \in Connections : c = PhysicalLink(k)) \/ (\E i : c = Interface(i))
    PROVE  \/ \A s \in Sessions : Distance(c, s) = NoPath
           \/ \E k \in Connections : \A s \in Sessions :
                 Distance(c, s) # NoPath => s \in Successors(PhysicalLink(k))
<1>1. CASE \E k \in Connections : c = PhysicalLink(k)
    <2>1. PICK k \in Connections : c = PhysicalLink(k)
        BY <1>1
    <2>2. \A s \in Sessions : s # PhysicalLink(k)
        BY TypesOfObjects DEF SessionTypes
    <2>3. QED
        BY <2>1, <2>2, LinkReach
<1>2. CASE \E i : c = Interface(i)
    <2>1. PICK i : c = Interface(i)
        BY <1>2
    <2>2. \A s \in Sessions : s # c /\ \A j : s # Interface(j) /\ s # PhysicalLink(j)
        BY <2>1, TypesOfObjects DEF SessionTypes
    <2>3. CASE \E k \in Connections : i \in {k[1], k[2]}
        <3>1. PICK k \in Connections : i \in {k[1], k[2]}
            BY <2>3
        <3> DEFINE L == PhysicalLink(k)
                   S == {c, L} \cup Successors(L)
        <3>2. ASSUME NEW j \in {k[1], k[2]}, NEW y \in Successors(Interface(j))
              PROVE  y = L
            <4>1. PICK m \in Connections : j \in {m[1], m[2]} /\ y = PhysicalLink(m)
                BY <3>2, InterfaceAffects
            <4>2. m = k
                BY <3>2, <4>1 DEF OneCableEach
            <4>3. QED
                BY <4>1, <4>2
        <3>3. ASSUME NEW x \in Successors(L), NEW y \in Successors(x)
              PROVE  y = L
            <4>1. CASE x \in Sessions
                BY <3>3, <4>1, SessionsEnd
            <4>2. CASE x \in {Interface(k[1]), Interface(k[2])}
                BY <3>2, <3>3, <4>2
            <4>3. QED
                BY <3>3, <4>1, <4>2, LinkAffects
        <3>4. c \in S /\ \A x \in S : Successors(x) \subseteq S
            <4>1. \A y \in Successors(c) : y = L
                BY <2>1, <3>1, <3>2
            <4>2. QED
                BY <3>3, <4>1
        <3>5. ASSUME NEW s \in Sessions, Distance(c, s) # NoPath
              PROVE  s \in Successors(L)
            <4> HIDE DEF S, L
            <4>1. s \in S
                BY <3>4, <3>5, ReachStays
            <4>2. s # c /\ s # L
                BY <2>2 DEF L
            <4>3. QED
                BY <4>1, <4>2 DEF S
        <3>6. QED
            BY <3>5
    <2>4. CASE ~ \E k \in Connections : i \in {k[1], k[2]}
        <3>1. PICK S : S = {c}
            OBVIOUS
        <3>2. c \in S /\ \A x \in S : Successors(x) \subseteq S
            <4>1. Successors(c) = {}
                BY <2>1, <2>4, InterfaceAffects
            <4>2. QED
                BY <3>1, <4>1
        <3>3. ASSUME NEW s \in Sessions, Distance(c, s) # NoPath
              PROVE  FALSE
            <4>1. s \in S
                BY <3>2, <3>3, ReachStays
            <4>2. QED
                BY <2>2, <3>1, <4>1
        <3>4. QED
            BY <3>3
    <2>5. QED
        BY <2>3, <2>4
<1>3. QED
    BY <1>1, <1>2

-----------------------------------------------------------------------------
(* The root cause of a failed link.                                         *)

\* w, one step from each line, is ahead of what has a lower type, and less.
LEMMA AheadOfLower ==
    ASSUME NEW obs \in Seq(Observations), NEW w, NextToAll(w, obs), Covered(w, obs) # {},
           NEW c, Covered(c, obs) # {},
           NEW a \in Int, a + 4000 <= Total(w, obs, 1..Len(obs)),
           NEW b \in Int, b <= a, Total(c, obs, Covered(c, obs)) <= b,
           TypeRank(c.type) < TypeRank(w.type)
    PROVE  AheadOf(c, w, obs)
<1>1. PICK n, k : Measured(obs, Covered(c, obs), n, k)
    BY Measuring
<1>2. n \in Nat /\ k \in Nat /\ k <= n
    BY <1>1 DEF Measured
<1>3. PICK m, g \in Nat, x \in Int : m = 0 /\ g = 0 /\ x = 0
    OBVIOUS
<1>4. b + g - a - 4000 * m <= x /\ Behind(x, n, k)
    <2>1. b + g - a - 4000 * m <= x
        BY <1>3
    <2>2. x * n = 0 /\ 0 <= 90000 * (n - k)
        BY <1>2, <1>3
    <2>3. QED
        BY <2>1, <2>2 DEF Behind
<1>5. \A i \in Covered(c, obs) : m <= Distance(c, obs[i].object)
    <2>1. \A i \in Covered(c, obs) : Distance(c, obs[i].object) \in Nat
        BY DistanceOfPath DEF Covered
    <2>2. QED
        BY <1>3, <2>1
<1>6. Hypothesis(c, obs).score + g <= Hypothesis(w, obs).score
    BY <1>1, <1>4, <1>5, AheadFarAway
<1>7. QED
    BY <1>6, AheadByOne

\* All lines but one are two steps away or more.
LEMMA SharesButOne ==
    ASSUME NEW obs \in Seq(Observations), NEW cov \in SUBSET (1..Len(obs)), IsFiniteSet(cov),
           NEW c, NEW y \in cov, 0 <= Distance(c, obs[y].object),
           \A i \in cov \ {y} : 2 <= Distance(c, obs[i].object)
    PROVE  SumFunction(Shares(c, obs, cov)) <=
              10 * SumFunction(Weights(obs, cov)) - 8000 * (Cardinality(cov) - 1)
<1> DEFINE f == Shares(c, obs, cov)
           g == Weights(obs, cov)
<1>1. f \in [cov -> Int]
    BY EvidenceType
<1>2. \A i \in cov : IsWeight(obs[i].weight) /\ Distance(c, obs[i].object) \in Int
    BY ObservationFacts, DistanceType
<1>3. g \in [cov -> Int]
    BY <1>2 DEF Weights, IsWeight
<1>4. \A i \in cov \ {y} : f[i] <= 10 * g[i] + (-8000)
    BY <1>2 DEF Shares, Weights, IsWeight
<1>5. f[y] <= 10 * g[y] /\ f[y] \in Int /\ g[y] \in Int
    BY <1>1, <1>2, <1>3 DEF Shares, Weights, IsWeight
<1>6. SumFunction(f) \in Int /\ SumFunction(g) \in Int
    BY <1>1, <1>3, SumFunctionType
<1>7. Cardinality(cov) \in Nat
    BY FS_CardinalityType
<1> HIDE DEF f, g
<1>8. \A a, b \in Int : (\A i \in cov \ {y} : f[i] <= a * g[i] + b) =>
         SumFunction(f) <= f[y] + a * (SumFunction(g) - g[y]) + b * (Cardinality(cov) - 1)
    BY <1>1, <1>3, SumAtMostBut
<1>9. SumFunction(f) <= f[y] + 10 * (SumFunction(g) - g[y]) + (-8000) * (Cardinality(cov) - 1)
    BY <1>4, <1>8
<1>10. SumFunction(f) <= 10 * SumFunction(g) - 8000 * (Cardinality(cov) - 1)
    <2>1. PICK p, q, r, s, k :
             /\ p = f[y] /\ q = g[y] /\ k = Cardinality(cov)
             /\ r = SumFunction(f) /\ s = SumFunction(g)
        OBVIOUS
    <2>2. p \in Int /\ q \in Int /\ r \in Int /\ s \in Int /\ k \in Int
        BY <1>5, <1>6, <1>7, <2>1
    <2>3. p <= 10 * q /\ r <= p + 10 * (s - q) + (-8000) * (k - 1)
        BY <1>5, <1>9, <2>1
    <2>4. r <= 10 * s - 8000 * (k - 1)
        BY <2>2, <2>3
    <2>5. QED
        BY <2>1, <2>4
<1>11. QED
    BY <1>10 DEF f, g

\* A window in which only the two interfaces and the sessions of a link appear,
\* each interface once.
FailedLink(l, obs) ==
    /\ obs \in Seq(Observations) /\ Uncontradicted(obs)
    /\ l \in Connections /\ l[1] # l[2]
    /\ \A j \in {l[1], l[2]} :
          \E y \in 1..Len(obs) : /\ obs[y].object = Interface(j)
                                 /\ \A i \in 1..Len(obs) \ {y} : obs[i].object # Interface(j)
    /\ \A i \in 1..Len(obs) : obs[i].object \in {Interface(l[1]), Interface(l[2])}
                                                  \cup (Successors(PhysicalLink(l)) \cap Sessions)

\* The link is next to every line, and there are two or more.
LEMMA LinkIsNext ==
    ASSUME NEW l, NEW obs, FailedLink(l, obs)
    PROVE  /\ NextToAll(PhysicalLink(l), obs) /\ PhysicalLink(l) \in Objects
           /\ \A i \in 1..Len(obs) : /\ obs[i].object \in Objects
                                     /\ obs[i].object \in Successors(PhysicalLink(l))
                                     /\ obs[i].object.type \in SessionTypes \cup {"interface"}
           /\ Len(obs) \in Nat /\ Len(obs) >= 2 /\ DOMAIN obs = 1..Len(obs)
<1>1. Len(obs) \in Nat /\ DOMAIN obs = 1..Len(obs) /\ l \in Connections
    BY DEF FailedLink
<1>2. PhysicalLink(l) \in Objects
    BY <1>1, CableAffects
<1>3. ASSUME NEW i \in 1..Len(obs)
      PROVE  /\ obs[i].object \in Objects /\ obs[i].object \in Successors(PhysicalLink(l))
             /\ obs[i].object.type \in SessionTypes \cup {"interface"}
    <2>1. CASE obs[i].object \in {Interface(l[1]), Interface(l[2])}
        <3>1. \A j \in {l[1], l[2]} :
                 /\ Interface(j) \in Objects /\ Interface(j) \in Successors(PhysicalLink(l))
                 /\ Interface(j).type = "interface"
            BY <1>1, CableAffects, TypesOfObjects
        <3>2. QED
            BY <2>1, <3>1
    <2>2. CASE obs[i].object \in Successors(PhysicalLink(l)) \cap Sessions
        <3>1. Sessions \subseteq Objects
            BY DEF Objects
        <3>2. QED
            BY <2>2, <3>1, TypesOfObjects
    <2>3. QED
        BY <2>1, <2>2 DEF FailedLink
<1>4. ASSUME NEW i \in 1..Len(obs)
      PROVE  Distance(PhysicalLink(l), obs[i].object) = 1
    <2>1. PhysicalLink(l).type \notin SessionTypes \cup {"interface"}
        BY TypesOfObjects DEF SessionTypes
    <2>2. PhysicalLink(l) # obs[i].object
        BY <1>3, <2>1
    <2>3. QED
        BY <1>2, <1>3, <2>2, NearObjects
<1>5. NextToAll(PhysicalLink(l), obs)
    <2>1. Covered(PhysicalLink(l), obs) = 1..Len(obs)
        BY <1>1, <1>4 DEF Covered, NoPath
    <2>2. QED
        BY <1>4, <2>1 DEF NextToAll
<1>6. Len(obs) >= 2
    <2>1. PICK y, z \in 1..Len(obs) : obs[y].object = Interface(l[1]) /\ obs[z].object = Interface(l[2])
        BY DEF FailedLink
    <2>2. Interface(l[1]) # Interface(l[2])
        <3>1. Interface(l[1]).id # Interface(l[2]).id
            BY TypesOfObjects DEF FailedLink
        <3>2. QED
            BY <3>1
    <2>3. y # z
        BY <2>1, <2>2
    <2>4. QED
        BY <1>1, <2>3
<1>7. QED
    BY <1>1, <1>2, <1>3, <1>5, <1>6

\* The link gets 28 and 18.
LEMMA LinkTotal ==
    ASSUME NEW l, NEW obs, FailedLink(l, obs)
    PROVE  46000 <= Total(PhysicalLink(l), obs, 1..Len(obs))
<1> DEFINE L   == PhysicalLink(l)
           all == 1..Len(obs)
<1>1. obs \in Seq(Observations) /\ Uncontradicted(obs)
    BY DEF FailedLink
<1>2. Len(obs) \in Nat /\ Len(obs) >= 2 /\ \A i \in all : Distance(L, obs[i].object) = 1
    BY LinkIsNext DEF NextToAll
<1>3. IsFiniteSet(all) /\ Cardinality(all) = Len(obs) /\ all \in SUBSET (1..Len(obs))
    BY <1>2, LinesCounted
<1>4. SumFunction(Evidence(L, obs, all)) \in Nat
    BY <1>1, <1>3, EvidenceIsPositive
<1>5. SilentPeer(L, obs, all) = 0
    <2>1. L.type # "device"
        BY TypesOfObjects
    <2> HIDE DEF L
    <2>2. QED
        BY <2>1, NotNamed
<1>6. TemporalFit(L, obs, all) = 0
    <2>1. \A i, j \in all : Distance(L, obs[i].object) = Distance(L, obs[j].object)
        BY <1>2
    <2>2. QED
        BY <2>1, FitOfEqual
<1>7. Contradiction(obs, all) = 0
    BY <1>1, <1>3, NoContradiction
<1>8. Redundancy(L, obs, all) = 0
    <2>1. L.type # "device"
        BY TypesOfObjects
    <2> HIDE DEF L
    <2>2. QED
        BY <2>1, RedundancyAtMost
<1>9. Specificity(L.type) = 28000 /\ Coherence(L, all) = 18000
    BY <1>2, <1>3, TypeCounts
<1> HIDE DEF L, all
<1>10. Total(L, obs, all) = 28000 + SumFunction(Evidence(L, obs, all)) + 0 + 0 + 0 + 0 + 18000
    BY <1>5, <1>6, <1>7, <1>8, <1>9 DEF Total
<1>11. 46000 <= Total(L, obs, all)
    BY <1>4, <1>10
<1>12. QED
    BY <1>11 DEF L, all

\* A device gets 8 and, for the order of the lines, 12 at most.
LEMMA LinkAheadOfDevice ==
    ASSUME NEW l, NEW obs, FailedLink(l, obs), NEW d, Covered(Device(d), obs) # {},
           Cardinality({i \in DOMAIN obs : obs[i].peer = d}) <= 1,
           \A i \in DOMAIN obs : obs[i].peer = d => ~obs[i].strong
    PROVE  AheadOf(Device(d), PhysicalLink(l), obs)
<1> DEFINE c   == Device(d)
           cov == Covered(c, obs)
<1>1. obs \in Seq(Observations) /\ Uncontradicted(obs)
    BY DEF FailedLink
<1>2. cov \in SUBSET (1..Len(obs)) /\ IsFiniteSet(cov)
    BY <1>1, CoveredIsFinite
<1>3. SumFunction(Evidence(c, obs, cov)) <= 0
    <2>1. \A i \in cov : obs[i].object # c
        BY <1>2, LinkIsNext, TypesOfObjects DEF SessionTypes
    <2>2. QED
        BY <1>1, <1>2, <2>1, NoEvidence
<1>4. SilentPeer(c, obs, cov) = 0
    BY <1>1, <1>2, HardlyNamed
<1>5. TemporalFit(c, obs, cov) <= 12000
    BY <1>2, FitIsBounded
<1>6. Specificity(c.type) = 8000 /\ Coherence(c, cov) = 0
    BY TypeCounts
<1>7. Total(c, obs, cov) <= 20000
    <2>1. PICK e, f, h \in Int : e = 0 /\ f = 12000 /\ h = 0
        OBVIOUS
    <2> HIDE DEF c, cov
    <2>2. Total(c, obs, cov) <= Specificity(c.type) + e + f + h
        BY <1>1, <1>2, <1>3, <1>4, <1>5, <1>6, <2>1, TotalAtMost
    <2>3. QED
        BY <1>6, <2>1, <2>2
<1>8. TypeRank(c.type) < TypeRank(PhysicalLink(l).type)
    BY TypesOfObjects DEF TypeRank
<1>9. NextToAll(PhysicalLink(l), obs) /\ Covered(PhysicalLink(l), obs) # {}
    BY LinkIsNext DEF NextToAll
<1>10. PICK a, b \in Int : a = 42000 /\ b = 20000
    OBVIOUS
<1> HIDE DEF c, cov
<1>11. a + 4000 <= Total(PhysicalLink(l), obs, 1..Len(obs))
    BY <1>10, LinkTotal
<1>12. b <= a /\ Total(c, obs, cov) <= b
    BY <1>7, <1>10
<1>13. cov = Covered(c, obs) /\ cov # {}
    BY DEF c, cov
<1>14. AheadOf(c, PhysicalLink(l), obs)
    BY <1>1, <1>8, <1>9, <1>11, <1>12, <1>13, AheadOfLower
<1>15. QED
    BY <1>14 DEF c

\* So does an interface that no line is about, with 24.
LEMMA LinkAheadOfInterface ==
    ASSUME NEW l, NEW obs, FailedLink(l, obs), NEW j, j \notin {l[1], l[2]},
           Covered(Interface(j), obs) # {}
    PROVE  AheadOf(Interface(j), PhysicalLink(l), obs)
<1> DEFINE c   == Interface(j)
           cov == Covered(c, obs)
<1>1. obs \in Seq(Observations) /\ Uncontradicted(obs)
    BY DEF FailedLink
<1>2. cov \in SUBSET (1..Len(obs)) /\ IsFiniteSet(cov)
    BY <1>1, CoveredIsFinite
<1>3. SumFunction(Evidence(c, obs, cov)) <= 0
    <2>1. \A s \in Sessions : s # c
        BY TypesOfObjects DEF SessionTypes
    <2>2. c # Interface(l[1]) /\ c # Interface(l[2])
        <3>1. c.id = j /\ Interface(l[1]).id = l[1] /\ Interface(l[2]).id = l[2]
            BY TypesOfObjects
        <3>2. QED
            BY <3>1
    <2>3. \A i \in cov : obs[i].object # c
        <3> HIDE DEF c
        <3>1. QED
            BY <1>2, <2>1, <2>2 DEF FailedLink
    <2>4. QED
        BY <1>1, <1>2, <2>3, NoEvidence
<1>4. SilentPeer(c, obs, cov) = 0
    <2>1. c.type # "device"
        BY TypesOfObjects
    <2> HIDE DEF c, cov
    <2>2. QED
        BY <2>1, NotNamed
<1>5. TemporalFit(c, obs, cov) <= 12000
    BY <1>2, FitIsBounded
<1>6. Specificity(c.type) = 24000 /\ Coherence(c, cov) = 0
    BY TypeCounts
<1>7. Total(c, obs, cov) <= 36000
    <2>1. PICK e, f, h \in Int : e = 0 /\ f = 12000 /\ h = 0
        OBVIOUS
    <2> HIDE DEF c, cov
    <2>2. Total(c, obs, cov) <= Specificity(c.type) + e + f + h
        BY <1>1, <1>2, <1>3, <1>4, <1>5, <1>6, <2>1, TotalAtMost
    <2>3. QED
        BY <1>6, <2>1, <2>2
<1>8. TypeRank(c.type) < TypeRank(PhysicalLink(l).type)
    BY TypesOfObjects DEF TypeRank
<1>9. NextToAll(PhysicalLink(l), obs) /\ Covered(PhysicalLink(l), obs) # {}
    BY LinkIsNext DEF NextToAll
<1>10. PICK a, b \in Int : a = 42000 /\ b = 36000
    OBVIOUS
<1> HIDE DEF c, cov
<1>11. a + 4000 <= Total(PhysicalLink(l), obs, 1..Len(obs))
    BY <1>10, LinkTotal
<1>12. b <= a /\ Total(c, obs, cov) <= b
    BY <1>7, <1>10
<1>13. cov = Covered(c, obs) /\ cov # {}
    BY DEF c, cov
<1>14. AheadOf(c, PhysicalLink(l), obs)
    BY <1>1, <1>8, <1>9, <1>11, <1>12, <1>13, AheadOfLower
<1>15. QED
    BY <1>14 DEF c

\* Two lines are not explained: each costs 90 of what c could be ahead.
LEMMA LostOfTwo ==
    ASSUME NEW n \in Nat, NEW k \in Nat, k + 2 <= n, n <= LargeWindow, NEW x \in Int, x <= 1
    PROVE  Behind(x, n, k)
<1>1. x * n <= 1 * n
    <2>1. n * x <= n * 1
        BY ProductsInOrder
    <2>2. n * x = x * n /\ n * 1 = 1 * n
        OBVIOUS
    <2>3. QED
        BY <2>1, <2>2
<1>2. 180000 <= 90000 * (n - k)
    OBVIOUS
<1>3. x * n \in Int /\ 90000 * (n - k) \in Int
    OBVIOUS
<1>4. QED
    BY <1>1, <1>2, <1>3 DEF LargeWindow, Behind

\* Another link explains neither of the lines about the interfaces.
LEMMA LinkAheadOfLink ==
    ASSUME NEW l, NEW obs, FailedLink(l, obs), OneCableEach, Len(obs) <= LargeWindow,
           NEW j \in Connections, j # l, Covered(PhysicalLink(j), obs) # {}
    PROVE  AheadOf(PhysicalLink(j), PhysicalLink(l), obs)
<1> DEFINE c   == PhysicalLink(j)
           w   == PhysicalLink(l)
           cov == Covered(c, obs)
           all == 1..Len(obs)
<1>1. obs \in Seq(Observations) /\ Uncontradicted(obs) /\ l \in Connections
    BY DEF FailedLink
<1>2. cov \in SUBSET all /\ IsFiniteSet(cov) /\ Len(obs) \in Nat
    BY <1>1, CoveredIsFinite
<1>3. \A i \in all : obs[i].object # c
    BY LinkIsNext, TypesOfObjects DEF SessionTypes
<1>4. ASSUME NEW i \in cov
      PROVE  Distance(c, obs[i].object) = 1 /\ obs[i].object \in Successors(c)
    <2>1. Distance(c, obs[i].object) # NoPath
        BY DEF Covered
    <2>2. obs[i].object # c
        BY <1>2, <1>3
    <2>3. QED
        BY <2>1, <2>2, LinkReach
<1>5. PICK y, z \in all : obs[y].object = Interface(l[1]) /\ obs[z].object = Interface(l[2])
    BY DEF FailedLink
<1>6. y # z
    <2>1. Interface(l[1]) # Interface(l[2])
        <3>1. Interface(l[1]).id # Interface(l[2]).id
            BY TypesOfObjects DEF FailedLink
        <3>2. QED
            BY <3>1
    <2>2. QED
        BY <1>5, <2>1
<1>7. \A i \in {l[1], l[2]} : Interface(i) \notin Successors(c)
    <2> SUFFICES ASSUME NEW i \in {l[1], l[2]}, Interface(i) \in Successors(c)
                 PROVE  FALSE
        OBVIOUS
    <2>1. Interface(i) \notin Sessions
        BY TypesOfObjects DEF SessionTypes
    <2>2. Interface(i) \in {Interface(j[1]), Interface(j[2])}
        BY <2>1, LinkAffects
    <2>3. i \in {j[1], j[2]}
        <3>1. Interface(i).id = i /\ Interface(j[1]).id = j[1] /\ Interface(j[2]).id = j[2]
            BY TypesOfObjects
        <3>2. QED
            BY <2>2, <3>1
    <2>4. QED
        BY <1>1, <2>3 DEF OneCableEach
<1>8. y \notin cov /\ z \notin cov
    BY <1>4, <1>5, <1>7
<1>9. PICK n, k : Measured(obs, cov, n, k)
    BY <1>1, Measuring
<1>10. n \in Nat /\ k \in Nat /\ k + 2 <= n /\ n = Len(obs)
    <2>1. n \in Nat /\ k \in Nat /\ n = Len(obs) /\ k = Cardinality(cov)
        BY <1>9 DEF Measured
    <2>2. IsFiniteSet(all) /\ Cardinality(all) = Len(obs)
        BY <1>2, LinesCounted
    <2>3. PICK rest : rest = all \ cov
        OBVIOUS
    <2> HIDE DEF all, cov
    <2>4. Cardinality(rest) >= 2
        <3>1. y \in rest /\ z \in rest /\ IsFiniteSet(rest)
            BY <1>5, <1>8, <2>2, <2>3, FS_Subset
        <3>2. QED
            BY <1>6, <3>1, CountOfTwo
    <2>5. Cardinality(rest) = Cardinality(all) - Cardinality(all \cap cov)
        BY <2>2, <2>3, FS_Difference
    <2>6. all \cap cov = cov
        BY <1>2
    <2>7. Cardinality(rest) = n - k
        BY <2>1, <2>2, <2>5, <2>6
    <2>8. QED
        BY <2>1, <2>4, <2>7
<1>11. SumFunction(Evidence(c, obs, cov)) <= 0
    <2>1. \A i \in cov : obs[i].object # c
        BY <1>2, <1>3
    <2>2. QED
        BY <1>1, <1>2, <2>1, NoEvidence
<1>12. SilentPeer(c, obs, cov) = 0
    <2>1. c.type # "device"
        BY TypesOfObjects
    <2> HIDE DEF c, cov
    <2>2. QED
        BY <2>1, NotNamed
<1>13. TemporalFit(c, obs, cov) = 0
    <2>1. \A p, q \in cov : Distance(c, obs[p].object) = Distance(c, obs[q].object)
        BY <1>4
    <2>2. QED
        BY <2>1, FitOfEqual
<1>14. Specificity(c.type) = 28000 /\ Coherence(c, cov) <= 18000
    BY TypeCounts
<1>15. Total(c, obs, cov) <= 46000
    <2>1. PICK e, f, h \in Int : e = 0 /\ f = 0 /\ h = 18000
        OBVIOUS
    <2>2. TemporalFit(c, obs, cov) <= f
        BY <1>13, <2>1
    <2> HIDE DEF c, cov
    <2>3. Total(c, obs, cov) <= Specificity(c.type) + e + f + h
        BY <1>1, <1>2, <1>11, <1>12, <1>14, <2>1, <2>2, TotalAtMost
    <2>4. QED
        BY <1>14, <2>1, <2>3
<1>16. NextToAll(w, obs) /\ Covered(w, obs) # {}
    BY LinkIsNext DEF NextToAll
<1>17. PICK a, b \in Int : a = 42000 /\ b = 46000
    OBVIOUS
<1>18. PICK m, g \in Nat : m = 1 /\ g = 1
    OBVIOUS
<1>19. \A i \in cov : m <= Distance(c, obs[i].object)
    BY <1>4, <1>18
<1> HIDE DEF c, cov, w, all
<1>20. a + 4000 <= Total(w, obs, 1..Len(obs))
    BY <1>17, LinkTotal DEF w
<1>21. Total(c, obs, cov) <= b
    BY <1>15, <1>17
<1>22. PICK x \in Int : b + g - a - 4000 * m <= x /\ Behind(x, n, k)
    <2>1. PICK x \in Int : x = 1
        OBVIOUS
    <2>2. n \in Nat /\ k \in Nat /\ k + 2 <= n /\ n <= LargeWindow
        BY <1>10
    <2>3. x <= 1
        BY <2>1
    <2>4. Behind(x, n, k)
        BY <2>2, <2>3, LostOfTwo
    <2>5. b + g - a - 4000 * m <= x
        BY <1>17, <1>18, <2>1
    <2>6. QED
        BY <2>4, <2>5
<1>23. cov = Covered(c, obs) /\ cov # {}
    BY DEF c, cov
<1>24. Hypothesis(c, obs).score + g <= Hypothesis(w, obs).score
    BY <1>1, <1>9, <1>16, <1>19, <1>20, <1>21, <1>22, <1>23, AheadFarAway
<1>25. AheadOf(c, w, obs)
    BY <1>1, <1>16, <1>18, <1>23, <1>24, AheadByOne
<1>26. QED
    BY <1>25 DEF c, w

\* What the order of n lines counts for one that is at the end of the first.
FitOfFirst(n) == IF n <= 3 THEN 4000 * (n - 1) ELSE 12000

\* The lines that are two steps away outweigh the own line and the order.
LEMMA FirstIsOutweighed ==
    ASSUME NEW n \in Nat, n >= 2, NEW f \in Int, f = FitOfFirst(n)
    PROVE  Outweighed(n, n, 42000, 36000 + f, 8000 * (n - 1), 0)
<1> DEFINE x == (36000 + f) * n - 42000 * n
           y == 8000 * (n - 1)
<1>1. x <= y /\ x \in Int /\ y \in Int
    <2>1. CASE n = 2
        BY <2>1 DEF FitOfFirst
    <2>2. CASE n = 3
        BY <2>2 DEF FitOfFirst
    <2>3. CASE n >= 4
        <3>1. f = 12000
            BY <2>3 DEF FitOfFirst
        <3>2. x = 6000 * n
            BY <3>1
        <3>3. QED
            BY <2>3, <3>2
    <2>4. QED
        BY <2>1, <2>2, <2>3
<1>2. (36000 + f + 0) * n - 42000 * n - 90000 * (n - n) = x
    OBVIOUS
<1> HIDE DEF x
<1>3. n * x <= n * y
    <2> HIDE DEF y
    <2>1. QED
        BY <1>1, ProductsInOrder
<1>4. n * y = (8000 * (n - 1)) * n
    OBVIOUS
<1> HIDE DEF y
<1>5. QED
    BY <1>2, <1>3, <1>4 DEF Outweighed

\* An interface of the link explains as much, but all other lines are two steps
\* away from it: its own line and the order of the lines do not outweigh that.
LEMMA LinkAheadOfItsInterface ==
    ASSUME NEW l, NEW obs, FailedLink(l, obs), NEW j \in {l[1], l[2]}
    PROVE  AheadOf(Interface(j), PhysicalLink(l), obs)
<1> DEFINE c   == Interface(j)
           w   == PhysicalLink(l)
           all == 1..Len(obs)
<1>1. obs \in Seq(Observations) /\ Uncontradicted(obs) /\ l \in Connections
    BY DEF FailedLink
<1>2. Len(obs) \in Nat /\ Len(obs) >= 2 /\ DOMAIN obs = all
    BY LinkIsNext
<1>3. PICK y \in all : obs[y].object = c /\ \A i \in all \ {y} : obs[i].object # c
    BY DEF FailedLink
<1>4. /\ w \in Successors(c) /\ c \in Objects
      /\ \A i : Interface(i) \notin Successors(c)
      /\ \A s \in Sessions : s \notin Successors(c)
    <2>1. \A o \in Successors(c) : o.type = "physical-link"
        BY InterfaceAffects, TypesOfObjects
    <2>2. \A i : Interface(i).type # "physical-link"
        BY TypesOfObjects
    <2>3. \A s \in Sessions : s.type # "physical-link"
        BY TypesOfObjects DEF SessionTypes
    <2>4. w \in Successors(c) /\ c \in Objects
        BY <1>1, CableAffects
    <2> HIDE DEF c, w
    <2>5. QED
        BY <2>1, <2>2, <2>3, <2>4
<1>5. Distance(c, obs[y].object) = 0
    BY <1>3 DEF Distance
<1>6. ASSUME NEW i \in all \ {y}
      PROVE  Distance(c, obs[i].object) = 2
    <2>1. obs[i].object \in Objects /\ obs[i].object \in Successors(w)
        BY LinkIsNext
    <2>2. obs[i].object \notin Successors(c)
        <3> HIDE DEF c, w
        <3>1. QED
            BY <1>4 DEF FailedLink
    <2>3. obs[i].object # c
        BY <1>3
    <2> HIDE DEF c, w
    <2>4. QED
        BY <1>4, <2>1, <2>2, <2>3, NearObjects
<1>7. Covered(c, obs) = all
    <2>1. \A i \in all : Distance(c, obs[i].object) # NoPath
        BY <1>5, <1>6 DEF NoPath
    <2>2. QED
        BY <1>2, <2>1 DEF Covered
<1>8. all \in SUBSET (1..Len(obs)) /\ IsFiniteSet(all) /\ Cardinality(all) = Len(obs)
    BY <1>2, LinesCounted
<1>9. SumFunction(Evidence(c, obs, all)) <= 12000
    <2>1. y \in all /\ \A i \in all \ {y} : obs[i].object # c
        BY <1>3
    <2> HIDE DEF c, all
    <2>2. QED
        BY <1>1, <1>8, <2>1, OneEvidence
<1>10. SilentPeer(c, obs, all) = 0
    <2>1. c.type # "device"
        BY TypesOfObjects
    <2> HIDE DEF c, all
    <2>2. QED
        BY <2>1, NotNamed
<1>11. PICK n : n = Len(obs)
    OBVIOUS
<1>12. n \in Nat /\ n >= 2
    BY <1>2, <1>11
<1>13. PICK f : f = FitOfFirst(n)
    OBVIOUS
<1>14. f \in Int
    BY <1>12, <1>13 DEF FitOfFirst
<1>15. TemporalFit(c, obs, all) <= f
    <2>1. PICK others : others = all \ {y}
        OBVIOUS
    <2>2. PICK T : T = {y} \X others
        OBVIOUS
    <2>3. IsFiniteSet(others) /\ Cardinality(others) = Cardinality(all) - 1
        <3> HIDE DEF all
        <3>1. IsFiniteSet(others)
            BY <1>8, <2>1, FS_Subset
        <3>2. QED
            BY <1>3, <1>8, <2>1, <3>1, FS_RemoveElement
    <2>4. IsFiniteSet({y}) /\ Cardinality({y}) = 1
        BY FS_Singleton
    <2>5. IsFiniteSet(T) /\ Cardinality(T) = Cardinality({y}) * Cardinality(others)
        BY <2>2, <2>3, <2>4, FS_Product
    <2>6. Cardinality(T) = n - 1
        BY <1>8, <1>11, <1>12, <2>3, <2>4, <2>5
    <2>7. \A p, q \in all :
             Before(obs, p, q) /\ Distance(c, obs[p].object) < Distance(c, obs[q].object)
             => <<p, q>> \in T
        <3> SUFFICES ASSUME NEW p \in all, NEW q \in all,
                            Distance(c, obs[p].object) < Distance(c, obs[q].object)
                     PROVE  <<p, q>> \in T
            OBVIOUS
        <3> HIDE DEF c, all
        <3>1. p = y
            BY <1>5, <1>6
        <3>2. q # y
            BY <1>5, <1>6, <3>1
        <3>3. QED
            BY <2>1, <2>2, <3>1, <3>2
    <2> HIDE DEF c, all
    <2>8. TemporalFit(c, obs, all) <= 4000 * Cardinality(T) /\ TemporalFit(c, obs, all) <= 12000
        BY <1>8, <2>5, <2>7, FitAtMost
    <2>9. QED
        BY <1>13, <2>6, <2>8 DEF FitOfFirst
<1>16. Specificity(c.type) = 24000 /\ Coherence(c, all) = 0
    BY TypeCounts
<1>17. NextToAll(w, obs) /\ Covered(w, obs) # {}
    BY LinkIsNext DEF NextToAll
<1>18. 46000 <= Total(w, obs, 1..Len(obs))
    BY LinkTotal
<1>19. TypeRank(c.type) < TypeRank(w.type)
    BY TypesOfObjects DEF TypeRank
<1>20. all # {}
    BY <1>3
<1>21. \A i \in all \ {y} : 2 <= Distance(c, obs[i].object)
    BY <1>6
<1> HIDE DEF c, w, all
<1>22. Total(c, obs, all) <= 36000 + f
    <2>1. PICK e, h \in Int : e = 12000 /\ h = 0
        OBVIOUS
    <2>2. SumFunction(Evidence(c, obs, all)) <= e /\ Coherence(c, all) <= h
        BY <1>9, <1>16, <2>1
    <2>3. Total(c, obs, all) <= Specificity(c.type) + e + f + h
        BY <1>1, <1>8, <1>10, <1>14, <1>15, <2>2, TotalAtMost
    <2>4. QED
        BY <1>14, <1>16, <2>1, <2>3
<1>23. SumFunction(Shares(c, obs, all)) <=
          10 * SumFunction(Weights(obs, all)) - 8000 * (Cardinality(all) - 1)
    <2>1. 0 <= Distance(c, obs[y].object)
        BY <1>5
    <2>2. QED
        BY <1>1, <1>3, <1>8, <1>21, <2>1, SharesButOne
<1>24. Measured(obs, Covered(c, obs), n, n)
    BY <1>7, <1>8, <1>11, <1>12, <1>1 DEF Measured
<1>25. PICK a, b, far : a = 42000 /\ b = 36000 + f /\ far = 8000 * (n - 1)
    OBVIOUS
<1>26. PICK g \in Nat : g = 0
    OBVIOUS
<1>27. a \in Int /\ b \in Int /\ far \in Int
    BY <1>12, <1>14, <1>25
<1>28. Outweighed(n, n, a, b, far, g)
    BY <1>12, <1>13, <1>14, <1>25, <1>26, FirstIsOutweighed
<1>29. a + 4000 <= Total(w, obs, 1..Len(obs))
    BY <1>18, <1>25
<1>30. Total(c, obs, Covered(c, obs)) <= b
    BY <1>7, <1>22, <1>25
<1>31. SumFunction(Shares(c, obs, Covered(c, obs)))
          <= 10 * SumFunction(Weights(obs, Covered(c, obs))) - far
    BY <1>7, <1>8, <1>11, <1>23, <1>25
<1>32. Hypothesis(c, obs).score + g <= Hypothesis(w, obs).score
    BY <1>1, <1>17, <1>24, <1>27, <1>28, <1>29, <1>30, <1>31, AheadInAll
<1>33. AheadOf(c, w, obs)
    BY <1>1, <1>7, <1>17, <1>19, <1>20, <1>32, AheadByOne
<1>34. QED
    BY <1>33 DEF c, w

\* The link is the verdict.
LEMMA LinkIsVerdict ==
    ASSUME NEW l, NEW obs, FailedLink(l, obs), OneCableEach, Len(obs) <= LargeWindow,
           \A d \in Devices : /\ Cardinality({i \in DOMAIN obs : obs[i].peer = d}) <= 1
                              /\ \A i \in DOMAIN obs : obs[i].peer = d => ~obs[i].strong
    PROVE  Infer(obs).root = PhysicalLink(l)
<1> DEFINE w == PhysicalLink(l)
<1>1. obs \in Seq(Observations) /\ l \in Connections
    BY DEF FailedLink
<1>2. obs # <<>> /\ w \in Objects /\ NextToAll(w, obs)
    <2>1. Len(obs) >= 2 /\ Len(<<>>) = 0
        BY LinkIsNext
    <2>2. QED
        BY <2>1, LinkIsNext
<1>3. w \in Causes
    BY <1>1 DEF Causes, PhysicalLinks
<1>4. ASSUME NEW c \in Causes \ {w}, Covered(c, obs) # {}
      PROVE  AheadOf(c, w, obs)
    <2>1. CASE \E d \in Devices : c = Device(d)
        <3>1. PICK d \in Devices : c = Device(d)
            BY <2>1
        <3>2. QED
            BY <1>4, <3>1, LinkAheadOfDevice
    <2>2. CASE \E i \in Interfaces : c = Interface(i)
        <3>1. PICK i \in Interfaces : c = Interface(i)
            BY <2>2
        <3>2. CASE i \in {l[1], l[2]}
            BY <3>1, <3>2, LinkAheadOfItsInterface
        <3>3. CASE i \notin {l[1], l[2]}
            BY <1>4, <3>1, <3>3, LinkAheadOfInterface
        <3>4. QED
            BY <3>2, <3>3
    <2>3. CASE \E k \in Connections : c = PhysicalLink(k)
        <3>1. PICK k \in Connections : c = PhysicalLink(k)
            BY <2>3
        <3>2. k # l
            BY <1>4, <3>1
        <3>3. QED
            BY <1>4, <3>1, <3>2, LinkAheadOfLink
    <2>4. QED
        BY <1>4, <2>1, <2>2, <2>3 DEF Causes, PhysicalLinks
<1> HIDE DEF w
<1>5. Infer(obs).root = w
    BY <1>1, <1>2, <1>3, <1>4, NamedWhenAhead
<1>6. QED
    BY <1>5 DEF w

\* When each end of a link reported its interface down once and the rest of the
\* window is about sessions over it, the link is the root cause, in every order of
\* the lines: if no interface has two cables, no two lines name one lost neighbour,
\* none tells of an expired session, and the window is not a large one
\* (README.md:238-253, hypothesis_scoring.py:122-187).
THEOREM LinkFailuresAreNamed == Spec => []LinkFailureNamed
<1>1. TypeOK /\ NoRecoveries /\ HeldInv => LinkFailureNamed
    <2> SUFFICES ASSUME TypeOK, NoRecoveries, HeldInv, NEW l \in Connections,
                        OneCableEach, l[1] # l[2],
                        \A i \in {l[1], l[2]} : Cardinality(About(Interface(i))) = 1,
                        \A i \in DOMAIN buffer :
                           buffer[i].object \in {Interface(l[1]), Interface(l[2])}
                                                  \cup (Successors(PhysicalLink(l)) \cap Sessions),
                        \A d \in Devices : /\ Cardinality(Naming(d)) <= 1
                                           /\ \A i \in Naming(d) : ~buffer[i].strong,
                        Len(buffer) <= LargeWindow
                 PROVE  lastRoot = PhysicalLink(l)
        BY DEF LinkFailureNamed
    <2>1. buffer \in Seq(Observations) /\ DOMAIN buffer = 1..Len(buffer) /\ Len(buffer) \in Nat
        BY DEF TypeOK
    <2>2. ASSUME NEW j \in {l[1], l[2]}
          PROVE  \E y \in 1..Len(buffer) :
                    /\ buffer[y].object = Interface(j)
                    /\ \A i \in 1..Len(buffer) \ {y} : buffer[i].object # Interface(j)
        <3>1. PICK A : A = About(Interface(j))
            OBVIOUS
        <3>2. A = {i \in 1..Len(buffer) : buffer[i].object = Interface(j)}
            BY <2>1, <3>1 DEF About
        <3>3. IsFiniteSet(A)
            BY <2>1, <3>2, LinesCounted, FS_Subset
        <3>4. PICK y : A = {y}
            BY <3>1, <3>3, FS_Singleton
        <3>5. QED
            BY <3>2, <3>4
    <2>3. FailedLink(l, buffer)
        BY <2>1, <2>2 DEF FailedLink, NoRecoveries, Uncontradicted
    <2>4. \A d \in Devices : /\ Cardinality({i \in DOMAIN buffer : buffer[i].peer = d}) <= 1
                             /\ \A i \in DOMAIN buffer : buffer[i].peer = d => ~buffer[i].strong
        BY DEF Naming
    <2>5. Infer(buffer).root = PhysicalLink(l)
        BY <2>3, <2>4, LinkIsVerdict
    <2>6. QED
        BY <2>5 DEF HeldInv, HeldIsVerdict
<1>2. QED
    BY <1>1, BufferTypeOK, BufferNoRecoveries, BufferHolds, PTL

-----------------------------------------------------------------------------
(* The root cause when a peer is silent.                                    *)

\* A window that is all about sessions with d.
FailedPeer(d, obs) ==
    /\ obs \in Seq(Observations) /\ Uncontradicted(obs) /\ d \in Devices /\ Len(obs) >= 1
    /\ \A i \in 1..Len(obs) : obs[i].object \in Sessions /\ obs[i].peer = d

\* The peer is next to every line.
LEMMA PeerIsNext ==
    ASSUME NEW d, NEW obs, FailedPeer(d, obs)
    PROVE  /\ NextToAll(Device(d), obs) /\ Device(d) \in Objects
           /\ Len(obs) \in Nat /\ Len(obs) >= 1 /\ DOMAIN obs = 1..Len(obs)
           /\ \A i \in 1..Len(obs) : Between(obs[i].object, obs[i].source, d)
<1>1. Len(obs) \in Nat /\ Len(obs) >= 1 /\ DOMAIN obs = 1..Len(obs) /\ d \in Devices
    BY DEF FailedPeer
<1>2. Device(d) \in Objects
    BY <1>1 DEF Objects
<1>3. ASSUME NEW i \in 1..Len(obs)
      PROVE  Between(obs[i].object, obs[i].source, d)
    <2>1. obs[i] \in Observations /\ obs[i].object \in Sessions /\ obs[i].peer = d
        BY DEF FailedPeer
    <2>2. QED
        BY <1>1, <2>1, ObservationFacts
<1>4. ASSUME NEW i \in 1..Len(obs)
      PROVE  Distance(Device(d), obs[i].object) = 1
    <2>1. obs[i].object \in PeerSessions /\ d \in Ends(obs[i].object.id)
        BY <1>3 DEF Between
    <2>2. obs[i].object \in Successors(Device(d))
        BY <2>1, DeviceAffects
    <2>3. obs[i].object \in Objects /\ obs[i].object # Device(d)
        <3>1. Sessions \subseteq Objects /\ PeerSessions \subseteq Sessions
            BY DEF Objects, Sessions
        <3>2. \A s \in Sessions : s # Device(d)
            BY TypesOfObjects DEF SessionTypes
        <3>3. QED
            BY <2>1, <3>1, <3>2
    <2>4. QED
        BY <1>2, <2>2, <2>3, NearObjects
<1>5. NextToAll(Device(d), obs)
    <2>1. Covered(Device(d), obs) = 1..Len(obs)
        BY <1>1, <1>4 DEF Covered, NoPath
    <2>2. QED
        BY <1>4, <2>1 DEF NextToAll
<1>6. QED
    BY <1>1, <1>2, <1>3, <1>5

\* The sessions of d that are silent.
SilentOf(d, obs) ==
    {s \in Successors(Device(d)) : s.type \in SessionTypes} \ {obs[i].object : i \in DOMAIN obs}

\* Each of them counts 8 against d.
LEMMA PeerRedundancy ==
    ASSUME NEW d, NEW obs, FailedPeer(d, obs)
    PROVE  /\ Cardinality(SilentOf(d, obs)) \in Nat
           /\ -(8000 * Cardinality(SilentOf(d, obs))) <= Redundancy(Device(d), obs, 1..Len(obs))
<1> DEFINE c        == Device(d)
           all      == {s \in Successors(c) : s.type \in SessionTypes}
           seen     == {obs[i].object : i \in 1..Len(obs)}
           affected == seen \cap Sessions
<1>1. affected = seen
    BY DEF FailedPeer
<1>2. SilentOf(d, obs) = all \ affected
    BY <1>1, PeerIsNext DEF SilentOf
<1>3. all \ affected \subseteq Sessions
    BY SessionsFollow
<1>4. PICK u : u = Cardinality(all \ affected)
    OBVIOUS
<1>5. u \in Nat
    <2> HIDE DEF all, affected
    <2>1. IsFiniteSet(all \ affected)
        BY <1>3, SessionsAreFinite, FS_Subset
    <2>2. QED
        BY <1>4, <2>1, FS_CardinalityType
<1>6. PICK r : r = Redundancy(c, obs, 1..Len(obs))
    OBVIOUS
<1>7. r \in {0, -8000 * u}
    BY <1>4, <1>6 DEF Redundancy
<1> HIDE DEF c, all, affected, seen
<1>8. -(8000 * u) <= r
    BY <1>5, <1>7
<1>9. QED
    BY <1>2, <1>4, <1>5, <1>6, <1>8 DEF c

\* Several lines that name d count 14 each, one that tells of an expired session 64.
LEMMA PeerSilence ==
    ASSUME NEW d, NEW obs, FailedPeer(d, obs), NEW n, n = Len(obs)
    PROVE  /\ n >= 2 => SilentPeer(Device(d), obs, 1..Len(obs)) = 14000 * n
           /\ n = 1 /\ obs[1].strong => SilentPeer(Device(d), obs, 1..Len(obs)) = 64000
<1> DEFINE c      == Device(d)
           all    == 1..Len(obs)
           named  == {i \in all : c.type = "device" /\ obs[i].peer = c.id[1]}
           strong == {i \in named : obs[i].strong}
<1>1. c.type = "device" /\ c.id = <<d>> /\ c.id[1] = d
    BY TypesOfObjects
<1>2. named = all
    <2> HIDE DEF c
    <2>1. QED
        BY <1>1 DEF FailedPeer
<1>3. n \in Nat /\ n >= 1 /\ IsFiniteSet(all) /\ Cardinality(all) = n
    BY PeerIsNext, LinesCounted
<1>4. SilentPeer(c, obs, all) = IF Cardinality(named) < 2 THEN 64000 * Cardinality(strong)
                                                          ELSE 14000 * Cardinality(named)
    BY DEF SilentPeer
<1>5. n = 1 /\ obs[1].strong => strong = {1}
    BY <1>2
<1>6. Cardinality({1}) = 1
    BY FS_Singleton
<1> HIDE DEF c, all, named, strong
<1>7. n >= 2 => SilentPeer(c, obs, all) = 14000 * n
    BY <1>2, <1>3, <1>4
<1>8. n = 1 /\ obs[1].strong => SilentPeer(c, obs, all) = 64000
    BY <1>2, <1>3, <1>4, <1>5, <1>6
<1>9. QED
    BY <1>7, <1>8 DEF c, all

\* What d gets, less one step.
PeerStrength(n) == IF n = 1 THEN 28000 ELSE 4000 + 6000 * n

\* Enough lines name d for the sessions of it that are silent.
WellNamed(d, obs) ==
    \/ Len(obs) >= 2 /\ Cardinality(SilentOf(d, obs)) <= Len(obs)
    \/ Len(obs) = 1 /\ obs[1].strong /\ Cardinality(SilentOf(d, obs)) <= 5

\* The peer gets that much.
LEMMA PeerTotal ==
    ASSUME NEW d, NEW obs, FailedPeer(d, obs), WellNamed(d, obs)
    PROVE  PeerStrength(Len(obs)) + 4000 <= Total(Device(d), obs, 1..Len(obs))
<1> DEFINE c   == Device(d)
           all == 1..Len(obs)
<1>1. obs \in Seq(Observations) /\ Uncontradicted(obs)
    BY DEF FailedPeer
<1>2. Len(obs) \in Nat /\ Len(obs) >= 1 /\ \A i \in all : Distance(c, obs[i].object) = 1
    BY PeerIsNext DEF NextToAll
<1>3. IsFiniteSet(all) /\ Cardinality(all) = Len(obs) /\ all \in SUBSET (1..Len(obs))
    BY <1>2, LinesCounted
<1>4. PICK e : e = SumFunction(Evidence(c, obs, all))
    OBVIOUS
<1>5. e \in Nat
    BY <1>1, <1>3, <1>4, EvidenceIsPositive
<1>6. TemporalFit(c, obs, all) = 0
    <2>1. \A i, j \in all : Distance(c, obs[i].object) = Distance(c, obs[j].object)
        BY <1>2
    <2>2. QED
        BY <2>1, FitOfEqual
<1>7. Contradiction(obs, all) = 0
    BY <1>1, <1>3, NoContradiction
<1>8. Specificity(c.type) = 8000 /\ Coherence(c, all) = 0
    BY TypeCounts
<1>9. PICK n, u, r, s : /\ n = Len(obs) /\ u = Cardinality(SilentOf(d, obs))
                        /\ r = Redundancy(c, obs, all) /\ s = SilentPeer(c, obs, all)
    OBVIOUS
<1>10. r \in Int /\ s \in Int
    BY <1>1, <1>3, <1>9, TotalType
<1>11. u \in Nat /\ -(8000 * u) <= r
    BY <1>9, PeerRedundancy
<1>12. (n >= 2 => s = 14000 * n) /\ (n = 1 /\ obs[1].strong => s = 64000)
    BY <1>9, PeerSilence
<1>13. n \in Nat /\ ((n >= 2 /\ u <= n) \/ (n = 1 /\ obs[1].strong /\ u <= 5))
    BY <1>2, <1>9 DEF WellNamed
<1> HIDE DEF c, all
<1>14. Total(c, obs, all) = 8000 + e + s + 0 + 0 + r + 0
    BY <1>4, <1>6, <1>7, <1>8, <1>9 DEF Total
<1>15. PeerStrength(n) + 4000 <= 8000 + e + s + 0 + 0 + r + 0
    <2>1. CASE n >= 2 /\ u <= n
        <3>1. s = 14000 * n
            BY <1>12, <2>1
        <3>2. PeerStrength(n) = 4000 + 6000 * n
            BY <1>13, <2>1 DEF PeerStrength
        <3>3. QED
            BY <1>5, <1>10, <1>11, <1>13, <2>1, <3>1, <3>2
    <2>2. CASE n = 1 /\ obs[1].strong /\ u <= 5
        <3>1. s = 64000
            BY <1>12, <2>2
        <3>2. PeerStrength(n) = 28000
            BY <2>2 DEF PeerStrength
        <3>3. QED
            BY <1>5, <1>10, <1>11, <2>2, <3>1, <3>2
    <2>3. QED
        BY <1>13, <2>1, <2>2
<1>16. PeerStrength(Len(obs)) + 4000 <= Total(c, obs, all)
    BY <1>9, <1>14, <1>15
<1>17. QED
    BY <1>16 DEF c, all

\* What the order of few lines counts.
FitOfSome(n) == IF n = 1 THEN 0 ELSE IF n = 2 THEN 4000 ELSE 12000

\* Only p comes before another line, and that is q.
OneOrder(obs, cov, p, q) == \A i, j \in cov : Before(obs, i, j) => i = p /\ j = q

\* One pair of lines in order counts 4.
LEMMA FitOfOnePair ==
    ASSUME NEW obs, NEW cov, IsFiniteSet(cov), NEW c, NEW p, NEW q, OneOrder(obs, cov, p, q)
    PROVE  TemporalFit(c, obs, cov) <= 4000
<1>1. PICK T : T = {<<p, q>>}
    OBVIOUS
<1>2. IsFiniteSet(T) /\ Cardinality(T) = 1
    BY <1>1, FS_Singleton
<1>3. \A i, j \in cov : Before(obs, i, j) /\ Distance(c, obs[i].object) < Distance(c, obs[j].object)
                        => <<i, j>> \in T
    BY <1>1 DEF OneOrder
<1>4. IsFiniteSet(T)
    BY <1>2
<1>5. TemporalFit(c, obs, cov) <= 4000 * Cardinality(T)
    BY ONLY IsFiniteSet(cov), <1>3, <1>4, FitAtMost
<1>6. QED
    BY <1>2, <1>5

\* The order of two lines counts 4 at most, of one nothing.
LEMMA FitOfFew ==
    ASSUME NEW obs \in Seq(Observations), NEW cov \in SUBSET (1..Len(obs)), IsFiniteSet(cov), NEW c,
           Len(obs) >= 1
    PROVE  TemporalFit(c, obs, cov) <= FitOfSome(Len(obs))
<1>1. Len(obs) \in Nat /\ TemporalFit(c, obs, cov) \in Int
    BY TemporalFitType
<1>2. CASE Len(obs) = 1
    <2>1. \A i, j \in cov : i = j
        BY <1>2
    <2>2. \A i, j \in cov : Distance(c, obs[i].object) = Distance(c, obs[j].object)
        BY <2>1
    <2>3. TemporalFit(c, obs, cov) = 0
        BY <2>2, FitOfEqual
    <2>4. QED
        BY <1>2, <2>3 DEF FitOfSome
<1>3. CASE Len(obs) = 2
    <2>1. \A i \in cov : i \in {1, 2} /\ obs[i].at \in Int
        <3>1. \A i \in cov : obs[i] \in Observations
            OBVIOUS
        <3>2. QED
            BY <1>3, <3>1, ObservationFields
    <2>3. CASE Before(obs, 1, 2)
        <3>1. PICK p, q : p = 1 /\ q = 2
            OBVIOUS
        <3>2. OneOrder(obs, cov, p, q)
            BY <2>1, <2>3, <3>1 DEF OneOrder, Before
        <3>3. TemporalFit(c, obs, cov) <= 4000
            BY <3>2, FitOfOnePair
        <3>4. QED
            BY <1>3, <3>3 DEF FitOfSome
    <2>4. CASE ~Before(obs, 1, 2)
        <3>1. PICK p, q : p = 2 /\ q = 1
            OBVIOUS
        <3>2. OneOrder(obs, cov, p, q)
            BY <2>1, <2>4, <3>1 DEF OneOrder, Before
        <3>3. TemporalFit(c, obs, cov) <= 4000
            BY <3>2, FitOfOnePair
        <3>4. QED
            BY <1>3, <3>3 DEF FitOfSome
    <2>5. QED
        BY <2>3, <2>4
<1>4. CASE Len(obs) # 1 /\ Len(obs) # 2
    BY <1>4, FitIsBounded DEF FitOfSome
<1>5. QED
    BY <1>2, <1>3, <1>4

\* d is ahead of c, which cannot be a session, when c is not too far behind.
LEMMA PeerAhead ==
    ASSUME NEW d, NEW obs, FailedPeer(d, obs), WellNamed(d, obs),
           NEW c \in Causes, NEW n, NEW k, Measured(obs, Covered(c, obs), n, k),
           NEW b \in Int, Total(c, obs, Covered(c, obs)) <= b,
           NEW x \in Int, b - 3999 - PeerStrength(n) <= x, Behind(x, n, k)
    PROVE  AheadOf(c, Device(d), obs)
<1>1. obs \in Seq(Observations)
    BY DEF FailedPeer
<1>2. NextToAll(Device(d), obs) /\ Covered(Device(d), obs) # {}
    BY PeerIsNext DEF NextToAll
<1>3. n \in Nat /\ n = Len(obs) /\ k = Cardinality(Covered(c, obs)) /\ k # 0
    BY DEF Measured
<1>4. Covered(c, obs) # {}
    <2>1. Cardinality(Covered(c, obs)) # 0
        BY <1>3
    <2>2. QED
        BY <2>1, FS_EmptySet
<1>5. PICK m, g \in Nat : m = 1 /\ g = 1
    OBVIOUS
<1>6. PICK a : a = PeerStrength(n)
    OBVIOUS
<1>7. a \in Int
    BY <1>3, <1>6 DEF PeerStrength
<1>8. a + 4000 <= Total(Device(d), obs, 1..Len(obs))
    BY <1>3, <1>6, PeerTotal
<1>9. \A i \in Covered(c, obs) : m <= Distance(c, obs[i].object)
    <2> SUFFICES ASSUME NEW i \in Covered(c, obs)
                 PROVE  1 <= Distance(c, obs[i].object)
        BY <1>5
    <2>1. Distance(c, obs[i].object) # NoPath /\ i \in 1..Len(obs)
        BY <1>1, CoveredIsFinite DEF Covered
    <2>2. obs[i].object \in Sessions
        BY <2>1 DEF FailedPeer
    <2>3. c # obs[i].object
        <3>1. c.type \in CandidateTypes /\ obs[i].object.type \in SessionTypes
            BY <2>2, CausesFacts, TypesOfObjects
        <3>2. QED
            BY <3>1 DEF CandidateTypes, SessionTypes
    <2>4. QED
        BY <2>1, <2>3, DistanceOfPath
<1>10. b + g - a - 4000 * m <= x
    BY <1>5, <1>6, <1>7
<1>11. Hypothesis(c, obs).score + g <= Hypothesis(Device(d), obs).score
    BY <1>1, <1>2, <1>7, <1>8, <1>9, <1>10, AheadFarAway
<1>12. g >= 1
    BY <1>5
<1>13. QED
    BY <1>1, <1>2, <1>4, <1>11, <1>12, AheadByOne

\* No line is about a candidate, and none names another device than d.
LEMMA RivalTotal ==
    ASSUME NEW d, NEW obs, FailedPeer(d, obs), NEW c \in Causes, c # Device(d),
           NEW f \in Int, TemporalFit(c, obs, Covered(c, obs)) <= f,
           NEW h \in Int, Coherence(c, Covered(c, obs)) <= h
    PROVE  Total(c, obs, Covered(c, obs)) <= Specificity(c.type) + f + h
<1> DEFINE cov == Covered(c, obs)
<1>1. obs \in Seq(Observations) /\ Uncontradicted(obs) /\ Len(obs) >= 1
    BY DEF FailedPeer
<1>2. cov \in SUBSET (1..Len(obs)) /\ IsFiniteSet(cov)
    BY <1>1, CoveredIsFinite
<1>3. SumFunction(Evidence(c, obs, cov)) <= 0
    <2>1. c.type \in CandidateTypes
        BY CausesFacts
    <2>2. \A s \in Sessions : s # c
        BY <2>1, TypesOfObjects DEF CandidateTypes, SessionTypes
    <2>3. \A i \in cov : obs[i].object # c
        BY <1>2, <2>2 DEF FailedPeer
    <2>4. QED
        BY <1>1, <1>2, <2>3, NoEvidence
<1>4. SilentPeer(c, obs, cov) = 0
    <2>1. ASSUME NEW i \in cov, c.type = "device"
          PROVE  obs[i].peer # c.id[1]
        <3>1. PICK e \in Devices : c = Device(e)
            BY <2>1, TypesOfObjects DEF Causes, PhysicalLinks
        <3>2. c.id[1] = e /\ e # d
            BY <3>1, TypesOfObjects
        <3>3. obs[i].peer = d
            BY <1>2 DEF FailedPeer
        <3>4. QED
            BY <3>2, <3>3
    <2> HIDE DEF cov
    <2>2. QED
        BY <2>1, NotNamed
<1>5. PICK e \in Int : e = 0
    OBVIOUS
<1>6. SumFunction(Evidence(c, obs, cov)) <= e
    BY <1>3, <1>5
<1>7. Specificity(c.type) \in Int
    BY DEF Specificity
<1>8. Coherence(c, cov) <= h /\ TemporalFit(c, obs, cov) <= f
    OBVIOUS
<1> HIDE DEF cov
<1>9. Total(c, obs, cov) <= Specificity(c.type) + e + f + h
    BY <1>1, <1>2, <1>4, <1>6, <1>8, TotalAtMost
<1>10. Total(c, obs, cov) <= Specificity(c.type) + f + h
    BY <1>5, <1>7, <1>9
<1>11. QED
    BY <1>10 DEF cov

\* A line of another source than d and one that is not over the same cable.
LEMMA OneCableMisses ==
    ASSUME OneCableEach, NEW d, NEW obs, FailedPeer(d, obs),
           Cardinality({obs[i].source : i \in DOMAIN obs} \ {d}) >= 2, NEW c,
           (\E k \in Connections : c = PhysicalLink(k)) \/ (\E i : c = Interface(i))
    PROVE  \E i \in 1..Len(obs) : i \notin Covered(c, obs)
<1>1. DOMAIN obs = 1..Len(obs) /\ Len(obs) \in Nat /\ Len(obs) >= 1
    BY PeerIsNext
<1>2. \A i \in 1..Len(obs) : Between(obs[i].object, obs[i].source, d)
    BY PeerIsNext
<1>3. PICK S : S = {obs[i].source : i \in DOMAIN obs} \ {d}
    OBVIOUS
<1>4. IsFiniteSet(S)
    <2>1. PICK R : R = {obs[i].source : i \in DOMAIN obs}
        OBVIOUS
    <2>2. \A i \in DOMAIN obs : obs[i].source \in Devices
        <3>1. \A i \in DOMAIN obs : obs[i] \in Observations
            BY DEF FailedPeer
        <3>2. QED
            BY <3>1, ObservationFields
    <2>3. S \subseteq Devices
        BY <1>3, <2>2
    <2>4. IsFiniteSet(Devices)
        BY TopologyAssumption
    <2>5. QED
        BY <2>3, <2>4, FS_Subset
<1>5. PICK a, b \in S : a # b
    <2>1. Cardinality(S) >= 2
        BY <1>3
    <2>2. QED
        BY <1>4, <2>1, AnotherOne
<1>6. PICK i, j \in 1..Len(obs) : obs[i].source = a /\ obs[j].source = b
    BY <1>1, <1>3, <1>5
<1>7. a # d /\ b # d /\ a # b
    BY <1>3, <1>5
<1>8. Between(obs[i].object, a, d) /\ Between(obs[j].object, b, d)
    BY <1>2, <1>6
<1>9. ASSUME i \in Covered(c, obs), j \in Covered(c, obs)
      PROVE  FALSE
    <2>1. /\ Distance(c, obs[i].object) # NoPath /\ obs[i].object \in Sessions
          /\ Distance(c, obs[j].object) # NoPath /\ obs[j].object \in Sessions
        BY <1>6, <1>9 DEF Covered, FailedPeer
    <2>2. PICK k \in Connections : \A s \in Sessions :
                 Distance(c, s) # NoPath => s \in Successors(PhysicalLink(k))
        BY <2>1, OverOneCable
    <2>3. ASSUME NEW s \in Sessions, s \in Successors(PhysicalLink(k)), s \in PeerSessions
          PROVE  {s.id[1], s.id[2]} \subseteq {k[1][1], k[2][1]}
        <3>1. \A m : s # Interface(m)
            BY <2>3, TypesOfObjects DEF SessionTypes
        <3>2. QED
            BY <2>3, <3>1, LinkAffects
    <2>4. {a, d} \subseteq {k[1][1], k[2][1]} /\ {b, d} \subseteq {k[1][1], k[2][1]}
        BY <1>8, <2>1, <2>2, <2>3 DEF Between
    <2>5. QED
        BY <1>7, <2>4
<1>10. QED
    BY <1>9

\* Then fewer lines are explained.
LEMMA MissesOne ==
    ASSUME NEW c, NEW obs, NEW n, NEW k, Measured(obs, Covered(c, obs), n, k),
           \E i \in 1..Len(obs) : i \notin Covered(c, obs)
    PROVE  k + 1 <= n
<1> DEFINE cov == Covered(c, obs)
<1>1. n = Len(obs) /\ n \in Nat \ {0} /\ k \in Nat /\ k = Cardinality(cov) /\ cov \in SUBSET (1..n)
    BY DEF Measured
<1> HIDE DEF cov
<1>2. PICK i \in 1..n : i \notin cov
    BY <1>1 DEF cov
<1>3. PICK all, rest : all = 1..n /\ rest = all \ {i}
    OBVIOUS
<1>4. IsFiniteSet(all) /\ Cardinality(all) = n
    BY <1>1, <1>3, LinesCounted
<1>5. IsFiniteSet(rest) /\ Cardinality(rest) = Cardinality(all) - 1
    <2>1. i \in all
        BY <1>2, <1>3
    <2>2. IsFiniteSet(rest)
        BY <1>3, <1>4, FS_Subset
    <2>3. QED
        BY <1>3, <1>4, <2>1, <2>2, FS_RemoveElement
<1>6. cov \subseteq rest
    BY <1>1, <1>2, <1>3
<1>7. Cardinality(cov) <= Cardinality(rest)
    BY <1>5, <1>6, FS_Subset
<1>8. QED
    BY <1>1, <1>4, <1>5, <1>7

\* To explain one line less costs more than what links and interfaces are ahead.
LEMMA ManyOutweigh ==
    ASSUME NEW n \in Nat, n >= 2, NEW k \in Nat, k + 1 <= n, NEW x \in Int, x = 38001 - 6000 * n
    PROVE  Behind(x, n, k)
<1>1. PICK y \in Int : y = 90000 * (n - k)
    OBVIOUS
<1>2. 90000 <= y
    BY <1>1
<1>3. x * n <= 90000
    <2>1. CASE n \in {2, 3, 4, 5, 6}
        BY <2>1
    <2>2. CASE n >= 7
        <3>1. PICK z \in Int : z = 0
            OBVIOUS
        <3>2. x <= z
            BY <2>2, <3>1
        <3>3. n * x <= n * z
            BY <3>2, ProductsInOrder
        <3>4. n * z = 0 /\ n * x = x * n /\ x * n \in Int
            BY <3>1
        <3>5. QED
            BY <3>3, <3>4
    <2>3. QED
        BY <2>1, <2>2
<1>4. QED
    BY <1>1, <1>2, <1>3 DEF Behind

\* To be ahead by nothing is outweighed.
LEMMA NothingOutweighs ==
    ASSUME NEW n \in Nat, NEW k \in Nat, k <= n, NEW x, x = 0
    PROVE  Behind(x, n, k)
<1>1. PICK y \in Int : y = 90000 * (n - k)
    OBVIOUS
<1>2. 0 <= y
    BY <1>1
<1>3. x * n = 0
    OBVIOUS
<1>4. QED
    BY <1>1, <1>2, <1>3 DEF Behind

\* Another device is named by no line.
LEMMA PeerAheadOfDevice ==
    ASSUME NEW d, NEW obs, FailedPeer(d, obs), WellNamed(d, obs),
           NEW e \in Devices, e # d, Covered(Device(e), obs) # {}
    PROVE  AheadOf(Device(e), Device(d), obs)
<1> DEFINE c == Device(e)
<1>1. obs \in Seq(Observations) /\ Len(obs) >= 1
    BY DEF FailedPeer
<1>2. c \in Causes /\ c # Device(d)
    BY TypesOfObjects DEF Causes
<1>3. PICK n, k : Measured(obs, Covered(c, obs), n, k)
    BY <1>1, Measuring
<1>4. n \in Nat /\ n >= 1 /\ k \in Nat /\ k <= n /\ n = Len(obs)
    BY <1>3 DEF Measured
<1>5. PICK f, h \in Int : f = FitOfSome(n) /\ h = 0
    BY DEF FitOfSome
<1>6. TemporalFit(c, obs, Covered(c, obs)) <= f
    <2>1. Covered(c, obs) \in SUBSET (1..Len(obs)) /\ IsFiniteSet(Covered(c, obs))
        BY <1>1, CoveredIsFinite
    <2>2. TemporalFit(c, obs, Covered(c, obs)) <= FitOfSome(Len(obs))
        BY <1>1, <2>1, FitOfFew
    <2>3. QED
        BY <1>4, <1>5, <2>2
<1>7. Specificity(c.type) = 8000 /\ Coherence(c, Covered(c, obs)) <= h
    BY <1>5, TypeCounts
<1> HIDE DEF c
<1>8. Total(c, obs, Covered(c, obs)) <= Specificity(c.type) + f + h
    BY <1>2, <1>6, <1>7, RivalTotal
<1>9. PICK b \in Int : b = 8000 + f
    OBVIOUS
<1>10. Total(c, obs, Covered(c, obs)) <= b
    BY <1>5, <1>7, <1>8, <1>9
<1>11. PICK x \in Int : x = 0
    OBVIOUS
<1>12. b - 3999 - PeerStrength(n) <= x
    BY <1>4, <1>5, <1>9, <1>11 DEF FitOfSome, PeerStrength
<1>13. Behind(x, n, k)
    BY <1>4, <1>11, NothingOutweighs
<1>14. AheadOf(c, Device(d), obs)
    BY <1>2, <1>3, <1>10, <1>12, <1>13, PeerAhead
<1>15. QED
    BY <1>14 DEF c

\* What lets the peer win: one line, or several of which no cable explains all.
OneOrMany(d, obs) ==
    \/ Len(obs) = 1
    \/ /\ OneCableEach /\ Len(obs) >= 2
       /\ Cardinality({obs[i].source : i \in DOMAIN obs} \ {d}) >= 2

\* b is what a link or an interface may get.
LEMMA PeerAheadOfCable ==
    ASSUME NEW d, NEW obs, FailedPeer(d, obs), WellNamed(d, obs), OneOrMany(d, obs),
           NEW c \in Causes, Covered(c, obs) # {},
           (\E k \in Connections : c = PhysicalLink(k)) \/ (\E i : c = Interface(i)),
           NEW b \in Int, Total(c, obs, Covered(c, obs)) <= b,
           b <= IF Len(obs) = 1 THEN 28000 ELSE 46000
    PROVE  AheadOf(c, Device(d), obs)
<1>1. obs \in Seq(Observations)
    BY DEF FailedPeer
<1>2. PICK n, k : Measured(obs, Covered(c, obs), n, k)
    BY <1>1, Measuring
<1>3. n \in Nat /\ n >= 1 /\ k \in Nat /\ k <= n /\ n = Len(obs)
    BY <1>2 DEF Measured
<1>4. CASE n = 1
    <2>1. PICK x \in Int : x = 0
        OBVIOUS
    <2>2. b - 3999 - PeerStrength(n) <= x
        BY <1>3, <1>4, <2>1 DEF PeerStrength
    <2>3. Behind(x, n, k)
        BY <1>3, <2>1, NothingOutweighs
    <2>4. QED
        BY <1>2, <2>2, <2>3, PeerAhead
<1>5. CASE n # 1
    <2>1. n \in Nat /\ n >= 2 /\ b <= 46000
        BY <1>3, <1>5
    <2>2. PICK x \in Int : x = 38001 - 6000 * n
        BY ONLY <2>1
    <2>3. b - 3999 - PeerStrength(n) <= x
        BY <1>3, <2>1, <2>2 DEF PeerStrength
    <2>4. \E i \in 1..Len(obs) : i \notin Covered(c, obs)
        BY <1>3, <1>5, OneCableMisses DEF OneOrMany
    <2>5. k + 1 <= n
        BY <1>2, <2>4, MissesOne
    <2>6. Behind(x, n, k)
        BY <1>3, <2>1, <2>2, <2>5, ManyOutweigh
    <2>7. QED
        BY <1>2, <2>3, <2>6, PeerAhead
<1>6. QED
    BY <1>4, <1>5

\* The order of the lines may count for an interface, but it is not coherent.
LEMMA PeerAheadOfInterface ==
    ASSUME NEW d, NEW obs, FailedPeer(d, obs), WellNamed(d, obs), OneOrMany(d, obs),
           NEW i \in Interfaces, Covered(Interface(i), obs) # {}
    PROVE  AheadOf(Interface(i), Device(d), obs)
<1> DEFINE c == Interface(i)
<1>1. obs \in Seq(Observations) /\ Len(obs) >= 1 /\ Len(obs) \in Nat
    BY DEF FailedPeer
<1>2. c \in Causes /\ c # Device(d) /\ \E j : c = Interface(j)
    BY TypesOfObjects DEF Causes
<1>3. PICK f, h \in Int : f = FitOfSome(Len(obs)) /\ h = 0
    BY DEF FitOfSome
<1>4. TemporalFit(c, obs, Covered(c, obs)) <= f
    <2>1. Covered(c, obs) \in SUBSET (1..Len(obs)) /\ IsFiniteSet(Covered(c, obs))
        BY <1>1, CoveredIsFinite
    <2>2. TemporalFit(c, obs, Covered(c, obs)) <= FitOfSome(Len(obs))
        BY <1>1, <2>1, FitOfFew
    <2>3. QED
        BY <1>3, <2>2
<1>5. Specificity(c.type) = 24000 /\ Coherence(c, Covered(c, obs)) <= h
    BY <1>3, TypeCounts
<1> HIDE DEF c
<1>6. Total(c, obs, Covered(c, obs)) <= Specificity(c.type) + f + h
    BY <1>2, <1>4, <1>5, RivalTotal
<1>7. PICK b \in Int : b = 24000 + f
    OBVIOUS
<1>8. Total(c, obs, Covered(c, obs)) <= b
    BY <1>3, <1>5, <1>6, <1>7
<1>9. b <= IF Len(obs) = 1 THEN 28000 ELSE 46000
    BY <1>3, <1>7 DEF FitOfSome
<1>10. AheadOf(c, Device(d), obs)
    BY <1>2, <1>8, <1>9, PeerAheadOfCable DEF c
<1>11. QED
    BY <1>10 DEF c

\* A link is coherent when it explains several lines, but it is next to all.
LEMMA PeerAheadOfLink ==
    ASSUME NEW d, NEW obs, FailedPeer(d, obs), WellNamed(d, obs), OneOrMany(d, obs),
           NEW l \in Connections, Covered(PhysicalLink(l), obs) # {}
    PROVE  AheadOf(PhysicalLink(l), Device(d), obs)
<1> DEFINE c   == PhysicalLink(l)
           cov == Covered(c, obs)
<1>1. obs \in Seq(Observations) /\ Len(obs) >= 1 /\ Len(obs) \in Nat
    BY DEF FailedPeer
<1>2. c \in Causes /\ c # Device(d) /\ \E k \in Connections : c = PhysicalLink(k)
    BY TypesOfObjects DEF Causes, PhysicalLinks
<1>3. cov \in SUBSET (1..Len(obs)) /\ IsFiniteSet(cov)
    BY <1>1, CoveredIsFinite
<1>4. \A i \in cov : Distance(c, obs[i].object) # NoPath /\ obs[i].object \in Sessions
    BY <1>3 DEF Covered, FailedPeer
<1>5. \A s \in Sessions : s # c
    BY TypesOfObjects DEF SessionTypes
<1>6. PICK f, h \in Int : f = 0 /\ h = IF Len(obs) = 1 THEN 0 ELSE 18000
    OBVIOUS
<1>7. TemporalFit(c, obs, cov) <= f
    <2>1. CASE Len(obs) = 1
        <3>1. TemporalFit(c, obs, cov) <= FitOfSome(Len(obs))
            BY <1>1, <1>3, FitOfFew
        <3>2. QED
            BY <1>6, <2>1, <3>1 DEF FitOfSome
    <2>2. CASE OneCableEach
        <3>1. \A i \in cov : Distance(c, obs[i].object) = 1
            BY <1>4, <1>5, <2>2, LinkReach
        <3>2. \A i, j \in cov : Distance(c, obs[i].object) = Distance(c, obs[j].object)
            BY <3>1
        <3> HIDE DEF c, cov
        <3>3. TemporalFit(c, obs, cov) = 0
            BY <3>2, FitOfEqual
        <3>4. QED
            BY <1>6, <3>3
    <2>3. QED
        BY <2>1, <2>2 DEF OneOrMany
<1>8. Specificity(c.type) = 28000 /\ Coherence(c, cov) = IF Cardinality(cov) >= 2 THEN 18000 ELSE 0
    BY TypeCounts
<1>9. Coherence(c, cov) <= h
    <2>1. CASE Len(obs) = 1
        <3>1. PICK n, k : Measured(obs, cov, n, k)
            BY <1>1, Measuring
        <3>2. Cardinality(cov) <= 1 /\ Cardinality(cov) \in Nat
            <4> HIDE DEF cov
            <4>1. QED
                BY <2>1, <3>1 DEF Measured
        <3> HIDE DEF c, cov
        <3>3. QED
            BY <1>6, <1>8, <2>1, <3>2
    <2>2. CASE Len(obs) # 1
        <3> HIDE DEF c, cov
        <3>1. QED
            BY <1>6, <1>8, <2>2
    <2>3. QED
        BY <2>1, <2>2
<1>10. cov = Covered(c, obs)
    OBVIOUS
<1> HIDE DEF c, cov
<1>11. Total(c, obs, Covered(c, obs)) <= Specificity(c.type) + f + h
    BY <1>2, <1>7, <1>9, <1>10, RivalTotal
<1>12. PICK b \in Int : b = 28000 + h
    OBVIOUS
<1>13. Total(c, obs, Covered(c, obs)) <= b
    BY <1>6, <1>8, <1>11, <1>12
<1>14. b <= IF Len(obs) = 1 THEN 28000 ELSE 46000
    BY <1>6, <1>12
<1>15. AheadOf(c, Device(d), obs)
    BY <1>2, <1>13, <1>14, PeerAheadOfCable DEF c
<1>16. QED
    BY <1>15 DEF c

\* The peer is the verdict.
LEMMA PeerIsVerdict ==
    ASSUME NEW d, NEW obs, FailedPeer(d, obs), WellNamed(d, obs), OneOrMany(d, obs)
    PROVE  Infer(obs).root = Device(d)
<1> DEFINE w == Device(d)
<1>1. obs \in Seq(Observations) /\ d \in Devices
    BY DEF FailedPeer
<1>2. obs # <<>> /\ w \in Objects /\ NextToAll(w, obs)
    <2>1. Len(obs) >= 1 /\ Len(<<>>) = 0
        BY PeerIsNext
    <2>2. QED
        BY <2>1, PeerIsNext
<1>3. w \in Causes
    BY <1>1 DEF Causes
<1>4. ASSUME NEW c \in Causes \ {w}, Covered(c, obs) # {}
      PROVE  AheadOf(c, w, obs)
    <2>1. CASE \E e \in Devices : c = Device(e)
        <3>1. PICK e \in Devices : c = Device(e)
            BY <2>1
        <3>2. e # d
            BY <1>4, <3>1
        <3>3. QED
            BY <1>4, <3>1, <3>2, PeerAheadOfDevice
    <2>2. CASE \E i \in Interfaces : c = Interface(i)
        BY <1>4, <2>2, PeerAheadOfInterface
    <2>3. CASE \E k \in Connections : c = PhysicalLink(k)
        BY <1>4, <2>3, PeerAheadOfLink
    <2>4. QED
        BY <1>4, <2>1, <2>2, <2>3 DEF Causes, PhysicalLinks
<1> HIDE DEF w
<1>5. Infer(obs).root = w
    BY <1>1, <1>2, <1>3, <1>4, NamedWhenAhead
<1>6. QED
    BY <1>5 DEF w

\* Several sources take several lines.
LEMMA SourcesTakeLines ==
    ASSUME NEW obs \in Seq(Observations), NEW d,
           Cardinality({obs[i].source : i \in DOMAIN obs} \ {d}) >= 2
    PROVE  Len(obs) >= 2
<1>1. DOMAIN obs = 1..Len(obs) /\ Len(obs) \in Nat
    OBVIOUS
<1>2. PICK S : S = {obs[i].source : i \in DOMAIN obs} \ {d}
    OBVIOUS
<1>3. CASE Len(obs) = 0
    <2>1. S = {}
        BY <1>1, <1>2, <1>3
    <2>2. Cardinality(S) = 0
        BY <2>1, FS_EmptySet
    <2>3. Cardinality(S) >= 2
        BY <1>2
    <2>4. QED
        BY <2>2, <2>3
<1>4. CASE Len(obs) = 1
    <2>1. S \subseteq {obs[1].source}
        BY <1>1, <1>2, <1>4
    <2>2. IsFiniteSet({obs[1].source}) /\ Cardinality({obs[1].source}) = 1
        BY FS_Singleton
    <2>3. Cardinality(S) <= Cardinality({obs[1].source}) /\ IsFiniteSet(S)
        BY <2>1, <2>2, FS_Subset
    <2>4. Cardinality(S) \in Nat
        BY <2>3, FS_CardinalityType
    <2>5. QED
        BY <1>2, <2>2, <2>3, <2>4
<1>5. QED
    BY <1>1, <1>3, <1>4

\* When the whole window is about sessions with one peer that two or more of its
\* neighbours reported, the peer is the root cause if no interface has two cables and
\* no more of its sessions are silent than there are lines; and when the window is one
\* line that tells of an expired session, if at most five are silent
\* (README.md:255-300, hypothesis_scoring.py:122-187).
THEOREM SilentPeersAreNamed == Spec => []SilentPeerNamed
<1>1. TypeOK /\ NoRecoveries /\ HeldInv => SilentPeerNamed
    <2> SUFFICES ASSUME TypeOK, NoRecoveries, HeldInv, NEW d \in Devices,
                        \A i \in DOMAIN buffer : /\ buffer[i].object \in Sessions
                                                 /\ buffer[i].peer = d,
                        \/ /\ OneCableEach
                           /\ Cardinality({buffer[i].source : i \in DOMAIN buffer} \ {d}) >= 2
                           /\ Cardinality(Unreported(d)) <= Len(buffer)
                        \/ /\ Len(buffer) = 1 /\ buffer[1].strong
                           /\ Cardinality(Unreported(d)) <= 5
                 PROVE  lastRoot = Device(d)
        BY DEF SilentPeerNamed
    <2>1. buffer \in Seq(Observations) /\ DOMAIN buffer = 1..Len(buffer) /\ Len(buffer) \in Nat
        BY DEF TypeOK
    <2>2. Unreported(d) = SilentOf(d, buffer)
        BY DEF Unreported, SilentOf
    <2>3. WellNamed(d, buffer) /\ OneOrMany(d, buffer) /\ Len(buffer) >= 1
        <3>1. CASE /\ OneCableEach
                   /\ Cardinality({buffer[i].source : i \in DOMAIN buffer} \ {d}) >= 2
                   /\ Cardinality(Unreported(d)) <= Len(buffer)
            <4>1. Len(buffer) >= 2
                BY <2>1, <3>1, SourcesTakeLines
            <4>2. Cardinality(SilentOf(d, buffer)) <= Len(buffer)
                BY <2>2, <3>1
            <4>3. WellNamed(d, buffer)
                BY <4>1, <4>2 DEF WellNamed
            <4>4. OneOrMany(d, buffer)
                BY <3>1, <4>1 DEF OneOrMany
            <4>5. QED
                BY <2>1, <4>1, <4>3, <4>4
        <3>2. CASE /\ Len(buffer) = 1 /\ buffer[1].strong
                   /\ Cardinality(Unreported(d)) <= 5
            <4>1. Cardinality(SilentOf(d, buffer)) <= 5
                BY <2>2, <3>2
            <4>2. QED
                BY <3>2, <4>1 DEF WellNamed, OneOrMany
        <3>3. QED
            BY <3>1, <3>2
    <2>4. FailedPeer(d, buffer)
        BY <2>1, <2>3 DEF FailedPeer, NoRecoveries, Uncontradicted
    <2>5. Infer(buffer).root = Device(d)
        BY <2>3, <2>4, PeerIsVerdict
    <2>6. QED
        BY <2>5 DEF HeldInv, HeldIsVerdict
<1>2. QED
    BY <1>1, BufferTypeOK, BufferNoRecoveries, BufferHolds, PTL
=============================================================================
