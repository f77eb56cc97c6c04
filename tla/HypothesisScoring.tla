-------------------------- MODULE HypothesisScoring --------------------------
(***************************************************************************)
(* The root-cause verdict on a sequence of observations                    *)
(* (correlation/hypothesis_scoring.py, hypothesis_rca.py).  Scores,        *)
(* confidences and observation weights are in thousandths, rounded where   *)
(* the code rounds.  An observation is a record of its event time, the     *)
(* device that reported it, the observed object, the assertion, its weight *)
(* and the peer it names (NoPeer if none); "strong" says that the text of  *)
(* the line speaks of an expired or removed session.                       *)
(***************************************************************************)
EXTENDS Observation, FiniteSetsExt

NoRoot == [type |-> "none", id |-> <<>>]

\* n / d to the nearest integer.
Rounded(n, d) == (2 * n + d) \div (2 * d)

Specificity(type) ==
    CASE type = "physical-link" -> 28000
      [] type = "interface"     -> 24000
      [] type = "device"        -> 8000
      [] OTHER                  -> 0

TypeRank(type) ==
    CASE type = "physical-link" -> 4
      [] type = "interface"     -> 3
      [] type = "device"        -> 2
      [] OTHER                  -> 0

SessionTypes == {"bgp-session", "ospf-session", "lacp-session"}

\* The observations that c explains.
Covered(c, obs) == {i \in DOMAIN obs : Distance(c, obs[i].object) # NoPath}

\* Mutant: the observations are taken in the order in which they arrived.
BeforeByArrival(obs, i, j) == i < j

\* Of two observations the one with the earlier event time is the first, and
\* of two with the same time the one that comes first in the sequence.
Before(obs, i, j) == obs[i].at < obs[j].at \/ (obs[i].at = obs[j].at /\ i < j)

\* Observations near the candidate should come before those far from it.
TemporalFit(c, obs, cov) ==
    LET pairs  == {p \in cov \X cov : Before(obs, p[1], p[2])}
        dist   == [i \in cov |-> Distance(c, obs[i].object)]
        toward == Cardinality({p \in pairs : dist[p[1]] < dist[p[2]]})
        away   == Cardinality({p \in pairs : dist[p[1]] > dist[p[2]]})
        fit    == 4000 * (toward - away)
    IN  IF fit > 12000 THEN 12000 ELSE IF fit < -12000 THEN -12000 ELSE fit

\* Mutant: only a peer that several lines name counts.
SilentPeerMany(c, obs, cov) ==
    LET named == {i \in cov : c.type = "device" /\ obs[i].peer = c.id[1]}
    IN  IF Cardinality(named) < 2 THEN 0 ELSE 14000 * Cardinality(named)

\* A device named as the peer by several of its neighbours, or by one that
\* saw the session expire, is likely to be the silent cause.
SilentPeer(c, obs, cov) ==
    LET named  == {i \in cov : c.type = "device" /\ obs[i].peer = c.id[1]}
        strong == {i \in named : obs[i].strong}
    IN  IF Cardinality(named) < 2 THEN 64000 * Cardinality(strong)
                                  ELSE 14000 * Cardinality(named)

\* A device with sessions that nobody reported is a less likely cause.
Redundancy(c, obs, cov) ==
    LET all      == {s \in Successors(c) : s.type \in SessionTypes}
        affected == {obs[i].object : i \in cov} \cap Sessions
    IN  IF c.type # "device" \/ Cardinality(all) <= 1 \/ affected = {} THEN 0
        ELSE -8000 * Cardinality(all \ affected)

\* Mutant: a link must explain three observations.
CoherenceOfThree(c, cov) ==
    IF c.type = "physical-link" /\ Cardinality(cov) >= 3 THEN 18000 ELSE 0

\* One object that explains several observations is coherent when it is a link.
Coherence(c, cov) == IF c.type = "physical-link" /\ Cardinality(cov) >= 2 THEN 18000 ELSE 0

Contradiction(obs, cov) == -35000 * Cardinality({i \in cov : obs[i].assertion = "recovery"})

DirectEvidence(c, obs, cov) ==
    SumFunction([i \in cov |-> IF obs[i].object = c THEN 12 * obs[i].weight ELSE 0])

\* What a candidate that explains cov scores, and the parts of the score that
\* the confidence is made of.
Scored(c, obs, cov) ==
    LET k      == Cardinality(cov)
        n      == Len(obs)
        direct == DirectEvidence(c, obs, cov)
        whole  == Specificity(c.type) + direct + SilentPeer(c, obs, cov)
                    + TemporalFit(c, obs, cov) + Contradiction(obs, cov)
                    + Redundancy(c, obs, cov) + Coherence(c, cov)
        \* ten times the average weight, less four for each step of distance
        shared == SumFunction([i \in cov |-> 10 * obs[i].weight
                                               - 4000 * Distance(c, obs[i].object)])
    IN  [score    |-> Rounded(100000 * k * k + whole * k * n + shared * n, k * n),
         coverage |-> Rounded(100000 * k, n),
         direct   |-> direct,
         explains |-> k]

Hypothesis(c, obs) == Scored(c, obs, Covered(c, obs))

\* The objects considered: what the observed objects suggest, and the devices
\* that reported.
CandidateObjects(obs) ==
    UNION {Suspects(obs[i].object) \cup {Device(obs[i].source)} : i \in DOMAIN obs}

Hypotheses(obs) ==
    [c \in {d \in CandidateObjects(obs) : Covered(d, obs) # {}} |-> Hypothesis(c, obs)]

\* Tuples of numbers in the order of their first difference.
LessId(s, t) ==
    \E k \in 0..Len(s) :
        /\ k <= Len(t)
        /\ \A i \in 1..k : s[i] = t[i]
        /\ \/ k = Len(s) /\ k < Len(t)
           \/ k < Len(s) /\ k < Len(t) /\ s[k + 1] < t[k + 1]

\* c is ranked after d: by score, then by type, then by id.
RankedAfter(h, c, d) ==
    \/ h[c].score < h[d].score
    \/ /\ h[c].score = h[d].score
       /\ \/ TypeRank(c.type) < TypeRank(d.type)
          \/ TypeRank(c.type) = TypeRank(d.type) /\ LessId(c.id, d.id)

BestOf(h) == CHOOSE c \in DOMAIN h : \A d \in DOMAIN h \ {c} : RankedAfter(h, d, c)

\* Four tenths for the margin over the runner-up, a quarter for coverage, 0.15
\* for direct evidence and a fifth for the number of observations.
ConfidenceOf(h, best) ==
    LET others == {h[c].score : c \in DOMAIN h \ {best}}
        second == IF others = {} THEN 0 ELSE Max(others)
        margin == Min({100000, Max({0, h[best].score - second + 25000})})
    IN  Rounded(48 * margin + 30 * h[best].coverage + 75 * Min({24000, h[best].direct})
                  + 800000 * Min({3, h[best].explains}), 12000)

\* The verdict (RCAResult): the root cause and the confidence in it.
Verdict(h) ==
    IF DOMAIN h = {} THEN [root |-> NoRoot, confidence |-> 0]
    ELSE [root |-> BestOf(h), confidence |-> ConfidenceOf(h, BestOf(h))]

Infer(obs) == Verdict(Hypotheses(obs))
=============================================================================
