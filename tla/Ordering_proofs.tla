---------------------------- MODULE Ordering_proofs ----------------------------
(***************************************************************************)
(* Facts that the other proofs need: the least and the greatest number of  *)
(* a set, that ordering a set is a permutation of it, what a sum over a    *)
(* function is, that sums and counts do not depend on the names of what    *)
(* is summed or counted, and that a finite set has a greatest element in   *)
(* a total order.                                                          *)
(***************************************************************************)
EXTENDS Ordering, Functions, FiniteSetTheorems, WellFoundedInduction, TLAPS

\* A set of naturals that is not empty has a least number.
LEMMA LeastOf ==
    ASSUME NEW S \in SUBSET Nat, S # {}
    PROVE  \E n \in S : \A m \in S : n <= m
<1> DEFINE less == {p \in Nat \X Nat : p[1] < p[2]}
<1>1. IsWellFoundedOn(less, Nat)
    BY NatLessThanWellFounded DEF OpToRel
<1>2. PICK n \in S : \A m \in S : <<m, n>> \notin less
    BY <1>1, WFMin
<1>3. \A m \in S : n <= m
    <2>1. ASSUME NEW m \in S, ~(n <= m)
          PROVE  <<m, n>> \in less
        BY <2>1
    <2>2. QED
        BY <1>2, <2>1
<1>4. QED
    BY <1>3

\* One that has a bound has a greatest number.
LEMMA GreatestOf ==
    ASSUME NEW n \in Nat, NEW S \in SUBSET (0..n), S # {}
    PROVE  \E m \in S : \A k \in S : k <= m
<1> DEFINE T == {n - k : k \in S}
<1>1. T \in SUBSET Nat /\ T # {}
    OBVIOUS
<1>2. PICK t \in T : \A u \in T : t <= u
    BY <1>1, LeastOf
<1>3. PICK m \in S : t = n - m
    OBVIOUS
<1>4. ASSUME NEW k \in S
      PROVE  k <= m
    <2>1. n - m <= n - k
        BY <1>2, <1>3
    <2>2. QED
        BY <2>1
<1>5. QED
    BY <1>4

-----------------------------------------------------------------------------

Below(numbers, n) == {m \in numbers : m < n}

\* Different numbers of a finite set have different counts of smaller ones.
LEMMA RanksDiffer ==
    ASSUME NEW numbers \in SUBSET Int, IsFiniteSet(numbers),
           NEW a \in numbers, NEW b \in numbers, a < b
    PROVE  Cardinality(Below(numbers, a)) < Cardinality(Below(numbers, b))
<1> DEFINE A == Below(numbers, a)
           B == Below(numbers, b)
<1>1. A \subseteq B /\ a \in B /\ a \notin A
    <2>1. a \in Int /\ b \in Int /\ \A m \in numbers : m \in Int
        OBVIOUS
    <2>2. \A m \in numbers : m < a => m < b
        BY <2>1
    <2>3. ~(a < a)
        BY <2>1
    <2>4. QED
        BY <2>2, <2>3 DEF Below
<1>2. IsFiniteSet(B) /\ IsFiniteSet(A)
    BY FS_Subset DEF Below
<1>3. Cardinality(A) <= Cardinality(B) /\ (Cardinality(A) = Cardinality(B) => A = B)
    BY <1>1, <1>2, FS_Subset
<1>4. Cardinality(A) \in Nat /\ Cardinality(B) \in Nat
    BY <1>2, FS_CardinalityType
<1>5. QED
    BY <1>1, <1>3, <1>4

\* Ordering a finite set of numbers neither drops nor repeats one.
LEMMA InOrderPermutes ==
    ASSUME NEW numbers \in SUBSET Int, IsFiniteSet(numbers)
    PROVE  /\ Cardinality(numbers) \in Nat
           /\ InOrder(numbers) \in [1..Cardinality(numbers) -> numbers]
           /\ \A i, j \in 1..Cardinality(numbers) :
                 InOrder(numbers)[i] = InOrder(numbers)[j] => i = j
           /\ \A n \in numbers : \E k \in 1..Cardinality(numbers) : InOrder(numbers)[k] = n
<1> DEFINE size    == Cardinality(numbers)
           rank(n) == Cardinality(Below(numbers, n))
           ranks   == [n \in numbers |-> rank(n) + 1]
<1>0. size \in Nat
    BY FS_CardinalityType
<1>1. ASSUME NEW n \in numbers
      PROVE  rank(n) \in Nat /\ rank(n) < size
    <2>1. Below(numbers, n) \subseteq numbers /\ n \notin Below(numbers, n)
        BY DEF Below
    <2>2. /\ IsFiniteSet(Below(numbers, n)) /\ rank(n) <= size
          /\ size = rank(n) => numbers = Below(numbers, n)
        BY <2>1, FS_Subset
    <2>3. rank(n) \in Nat
        BY <2>2, FS_CardinalityType
    <2>4. QED
        BY <1>0, <2>1, <2>2, <2>3
<1>2. ASSUME NEW a \in numbers, NEW b \in numbers, rank(a) = rank(b)
      PROVE  a = b
    <2>1. ASSUME a < b
          PROVE  FALSE
        BY <1>1, <1>2, <2>1, RanksDiffer
    <2>2. ASSUME b < a
          PROVE  FALSE
        BY <1>1, <1>2, <2>2, RanksDiffer
    <2>3. a \in Int /\ b \in Int
        OBVIOUS
    <2>4. QED
        BY <2>1, <2>2, <2>3
<1>3. ranks \in Injection(numbers, 1..size)
    <2>1. \A n \in numbers : rank(n) \in Nat /\ rank(n) < size
        BY <1>1
    <2>2. \A a, b \in numbers : rank(a) = rank(b) => a = b
        BY <1>2
    <2> HIDE DEF rank, size
    <2>3. \A n \in numbers : rank(n) + 1 \in 1..size
        BY <1>0, <2>1
    <2>4. \A a, b \in numbers : rank(a) + 1 = rank(b) + 1 => a = b
        BY <2>1, <2>2
    <2>5. QED
        BY <2>3, <2>4 DEF Injection, IsInjective
<1>4. ranks \in Surjection(numbers, 1..size)
    <2>1. IsFiniteSet(1..size) /\ Cardinality(1..size) = size
        <3>1. IsFiniteSet(1..size) /\ Cardinality(1..size) = IF 1 > size THEN 0 ELSE size - 1 + 1
            BY <1>0, FS_Interval
        <3>2. QED
            BY <1>0, <3>1
    <2>2. QED
        BY <1>3, <2>1, FS_Injection
<1>5. ASSUME NEW k \in 1..size
      PROVE  /\ InOrder(numbers)[k] \in numbers
             /\ rank(InOrder(numbers)[k]) = k - 1
    <2>1. PICK n \in numbers : rank(n) + 1 = k
        BY <1>4 DEF Surjection
    <2>2. rank(n) = k - 1
        BY <1>1, <2>1
    <2>3. InOrder(numbers)[k] = CHOOSE m \in numbers : rank(m) = k - 1
        BY DEF InOrder, Below
    <2> HIDE DEF rank
    <2>4. QED
        BY <2>2, <2>3
<1>6. ASSUME NEW n \in numbers
      PROVE  \E k \in 1..size : InOrder(numbers)[k] = n
    <2>1. rank(n) + 1 \in 1..size
        BY <1>0, <1>1
    <2>2. rank(InOrder(numbers)[rank(n) + 1]) = rank(n) /\ InOrder(numbers)[rank(n) + 1] \in numbers
        BY <1>1, <1>5, <2>1
    <2>3. InOrder(numbers)[rank(n) + 1] = n
        BY <1>2, <2>2
    <2>4. QED
        BY <2>1, <2>3
<1>7. \A i, j \in 1..size : InOrder(numbers)[i] = InOrder(numbers)[j] => i = j
    <2>1. \A k \in 1..size : rank(InOrder(numbers)[k]) = k - 1
        BY <1>5
    <2> HIDE DEF rank
    <2>2. QED
        BY <1>0, <2>1
<1>8. InOrder(numbers) \in [1..size -> numbers]
    BY <1>5 DEF InOrder
<1>9. QED
    BY <1>0, <1>6, <1>7, <1>8

-----------------------------------------------------------------------------
(* Sums.  The sum of f over a set takes one element after the other.        *)

AnyOf(T) == CHOOSE x \in T : TRUE

IsSum(h, f, S) ==
    h = [T \in SUBSET S |-> IF T = {} THEN 0 ELSE f[AnyOf(T)] + h[T \ {AnyOf(T)}]]

\* Such sums exist: from those of the sets of n elements follow those of one more.
LEMMA SumExists ==
    ASSUME NEW S, IsFiniteSet(S), NEW f
    PROVE  \E h : IsSum(h, f, S)
<1> DEFINE Sets(n)     == {T \in SUBSET S : Cardinality(T) <= n}
           Next(h, T)  == IF T = {} THEN 0 ELSE f[AnyOf(T)] + h[T \ {AnyOf(T)}]
           Upto(h, n)  == h = [T \in Sets(n) |-> Next(h, T)]
           Missing     == {n \in Nat : ~ \E h : Upto(h, n)}
<1>1. \A T \in SUBSET S : IsFiniteSet(T) /\ Cardinality(T) \in Nat
    BY FS_Subset, FS_CardinalityType
<1>2. \A T \in SUBSET S : T # {} =>
          AnyOf(T) \in T /\ Cardinality(T \ {AnyOf(T)}) = Cardinality(T) - 1
    <2>1. \A T \in SUBSET S : T # {} => AnyOf(T) \in T
        BY DEF AnyOf
    <2>2. QED
        BY <1>1, <2>1, FS_RemoveElement
<1>3. \A T \in SUBSET S : Cardinality(T) = 0 <=> T = {}
    BY <1>1, FS_EmptySet
<1>4. Missing = {}
    <2> SUFFICES ASSUME Missing # {}
                 PROVE  FALSE
        OBVIOUS
    <2>1. PICK n \in Missing : \A m \in Missing : n <= m
        <3>1. Missing \in SUBSET Nat
            OBVIOUS
        <3> HIDE DEF Missing
        <3>2. QED
            BY <3>1, LeastOf
    <2>2. n # 0
        <3> SUFFICES ASSUME n = 0
                     PROVE  FALSE
            OBVIOUS
        <3>1. Sets(0) = {{}}
            BY <1>1, <1>3
        <3>2. Upto([T \in {{}} |-> 0], 0)
            BY <3>1
        <3>3. QED
            BY <2>1, <3>2
    <2>3. PICK h : Upto(h, n - 1)
        <3>1. n - 1 \in Nat /\ ~(n <= n - 1)
            BY <2>2
        <3>2. n - 1 \notin Missing
            BY <2>1, <3>1
        <3>3. QED
            BY <3>1, <3>2
    <2> DEFINE g == [T \in Sets(n) |-> Next(h, T)]
    <2>4. \A T \in Sets(n - 1) : T \in Sets(n) /\ g[T] = h[T]
        <3>1. \A T \in Sets(n - 1) : T \in Sets(n)
            BY <1>1
        <3>2. \A T \in Sets(n - 1) : h[T] = Next(h, T)
            BY <2>3
        <3> HIDE DEF Next
        <3>3. QED
            BY <3>1, <3>2
    <2>5. \A T \in Sets(n) : Next(g, T) = Next(h, T)
        <3> SUFFICES ASSUME NEW T \in Sets(n), T # {}
                     PROVE  Next(g, T) = Next(h, T)
            OBVIOUS
        <3>1. T \ {AnyOf(T)} \in Sets(n - 1)
            BY <1>1, <1>2
        <3>2. g[T \ {AnyOf(T)}] = h[T \ {AnyOf(T)}]
            BY <2>4, <3>1
        <3> HIDE DEF g
        <3>3. QED
            BY <3>2
    <2>6. Upto(g, n)
        <3> HIDE DEF Next
        <3>1. \A T \in Sets(n) : g[T] = Next(g, T)
            BY <2>5
        <3>2. QED
            BY <3>1
    <2>7. QED
        BY <2>1, <2>6
<1>5. Cardinality(S) \in Nat
    BY FS_CardinalityType
<1>6. PICK h : Upto(h, Cardinality(S))
    BY <1>4, <1>5
<1>7. Sets(Cardinality(S)) = SUBSET S
    BY FS_Subset
<1>8. QED
    BY <1>6, <1>7 DEF IsSum

\* One more at a single place makes the sum one more.
LEMMA SumOfOneMore ==
    ASSUME NEW S, IsFiniteSet(S), NEW f \in [S -> Nat], NEW v \in S, NEW h, NEW g,
           IsSum(h, f, S), IsSum(g, [f EXCEPT ![v] = @ + 1], S)
    PROVE  h[S] \in Nat /\ g[S] = h[S] + 1
<1> DEFINE more     == [f EXCEPT ![v] = @ + 1]
           Right(T) == h[T] \in Nat /\ g[T] = h[T] + (IF v \in T THEN 1 ELSE 0)
           Wrong    == {T \in SUBSET S : ~Right(T)}
           smaller  == StrictSubsetOrdering(S)
<1>1. IsWellFoundedOn(smaller, SUBSET S)
    BY FS_StrictSubsetOrderingWellFounded, FS_FiniteSubsetsOfFinite
<1>2. Wrong = {}
    <2> SUFFICES ASSUME Wrong # {}
                 PROVE  FALSE
        OBVIOUS
    <2>1. PICK T \in Wrong : \A U \in Wrong : <<U, T>> \notin smaller
        <3>1. Wrong \subseteq SUBSET S
            OBVIOUS
        <3> HIDE DEF Wrong, smaller
        <3>2. QED
            BY <1>1, <3>1, WFMin
    <2>2. T \in SUBSET S /\ ~Right(T)
        BY <2>1
    <2>3. CASE T = {}
        BY <2>2, <2>3 DEF IsSum
    <2>4. CASE T # {}
        <3> DEFINE x == AnyOf(T)
                   U == T \ {x}
        <3>1. x \in T /\ x \in S /\ U \in SUBSET S /\ U # T
            BY <2>2, <2>4 DEF AnyOf
        <3>2. <<U, T>> \in smaller
            BY <2>2, <3>1 DEF StrictSubsetOrdering
        <3>3. Right(U)
            BY <2>1, <3>1, <3>2
        <3>4. h[T] = f[x] + h[U] /\ g[T] = more[x] + g[U]
            BY <2>2, <2>4 DEF IsSum
        <3>5. f[x] \in Nat /\ more[x] = f[x] + (IF x = v THEN 1 ELSE 0)
            BY <3>1
        <3>6. v \in T <=> x = v \/ v \in U
            BY <3>1
        <3>7. x = v => v \notin U
            OBVIOUS
        <3> HIDE DEF x, U, more
        <3>8. Right(T)
            BY <3>3, <3>4, <3>5, <3>6, <3>7
        <3>9. QED
            BY <2>2, <3>8
    <2>5. QED
        BY <2>3, <2>4
<1>3. Right(S)
    BY <1>2
<1>4. QED
    BY <1>3

\* The sum of the values of a function is such a sum.
LEMMA SumFunctionIsSum ==
    ASSUME NEW S, IsFiniteSet(S), NEW f, DOMAIN f = S
    PROVE  \E h : IsSum(h, f, S) /\ SumFunction(f) = h[S]
<1> DEFINE sum == CHOOSE h : IsSum(h, f, S)
<1>1. IsSum(sum, f, S)
    BY SumExists
<1>2. SumFunction(f) = sum[S]
    BY DEF SumFunction, SumFunctionOnSet, FoldFunctionOnSet, MapThenFoldSet, IsSum, AnyOf
<1>3. QED
    BY <1>1, <1>2

\* Nothing sums up to nothing.
LEMMA SumOfNothing ==
    ASSUME NEW S, IsFiniteSet(S), NEW f, \A x \in S : f[x] = 0, NEW h, IsSum(h, f, S)
    PROVE  h[S] = 0
<1> DEFINE Wrong   == {T \in SUBSET S : h[T] # 0}
           smaller == StrictSubsetOrdering(S)
<1>1. IsWellFoundedOn(smaller, SUBSET S)
    BY FS_StrictSubsetOrderingWellFounded, FS_FiniteSubsetsOfFinite
<1>2. Wrong = {}
    <2> SUFFICES ASSUME Wrong # {}
                 PROVE  FALSE
        OBVIOUS
    <2>1. PICK T \in Wrong : \A U \in Wrong : <<U, T>> \notin smaller
        <3>1. Wrong \subseteq SUBSET S
            OBVIOUS
        <3> HIDE DEF Wrong, smaller
        <3>2. QED
            BY <1>1, <3>1, WFMin
    <2>2. T \in SUBSET S /\ h[T] # 0
        BY <2>1
    <2>3. T # {}
        BY <2>2 DEF IsSum
    <2> DEFINE x == AnyOf(T)
               U == T \ {x}
    <2>4. x \in S /\ U \in SUBSET S /\ U # T
        BY <2>2, <2>3 DEF AnyOf
    <2>5. <<U, T>> \in smaller
        BY <2>2, <2>4 DEF StrictSubsetOrdering
    <2>6. h[U] = 0
        BY <2>1, <2>4, <2>5
    <2>7. h[T] = f[x] + h[U]
        BY <2>2, <2>3 DEF IsSum
    <2>8. QED
        BY <2>2, <2>4, <2>6, <2>7
<1>3. QED
    BY <1>2

\* Which element is taken first makes no difference to a sum of integers.
LEMMA SumTakesAny ==
    ASSUME NEW S, IsFiniteSet(S), NEW f \in [S -> Int], NEW h, IsSum(h, f, S)
    PROVE  \A U \in SUBSET S : /\ h[U] \in Int
                               /\ \A x \in U : h[U] = f[x] + h[U \ {x}]
<1> DEFINE Right(U) == h[U] \in Int /\ \A x \in U : h[U] = f[x] + h[U \ {x}]
           Wrong    == {U \in SUBSET S : ~Right(U)}
           smaller  == StrictSubsetOrdering(S)
<1>1. IsWellFoundedOn(smaller, SUBSET S)
    BY FS_StrictSubsetOrderingWellFounded, FS_FiniteSubsetsOfFinite
<1>2. Wrong = {}
    <2> SUFFICES ASSUME Wrong # {}
                 PROVE  FALSE
        OBVIOUS
    <2>1. PICK U \in Wrong : \A V \in Wrong : <<V, U>> \notin smaller
        <3>1. Wrong \subseteq SUBSET S
            OBVIOUS
        <3> HIDE DEF Wrong, smaller
        <3>2. QED
            BY <1>1, <3>1, WFMin
    <2>2. U \in SUBSET S /\ ~Right(U)
        BY <2>1
    <2>3. \A V \in SUBSET S : V \subseteq U /\ V # U => Right(V)
        BY <2>1, <2>2 DEF StrictSubsetOrdering
    <2>4. CASE U = {}
        BY <2>2, <2>4 DEF IsSum
    <2>5. CASE U # {}
        <3> DEFINE a == AnyOf(U)
        <3>1. a \in U
            BY <2>5 DEF AnyOf
        <3>2. h[U] = f[a] + h[U \ {a}]
            BY <2>2, <2>5 DEF IsSum
        <3> HIDE DEF a
        <3>3. \A x \in U : f[x] \in Int /\ h[U \ {x}] \in Int
            BY <2>2, <2>3
        <3>4. ASSUME NEW x \in U, x # a
              PROVE  h[U] = f[x] + h[U \ {x}]
            <4>1. h[U \ {a}] = f[x] + h[(U \ {a}) \ {x}]
                BY <2>2, <2>3, <3>1, <3>4
            <4>2. h[U \ {x}] = f[a] + h[(U \ {x}) \ {a}]
                BY <2>2, <2>3, <3>1, <3>4
            <4>3. (U \ {a}) \ {x} = (U \ {x}) \ {a} /\ (U \ {a}) \ {x} \in SUBSET S
                BY <2>2
            <4>4. h[(U \ {a}) \ {x}] \in Int
                BY <2>3, <3>1, <4>3
            <4> DEFINE W == (U \ {a}) \ {x}
            <4>5. f[a] \in Int /\ f[x] \in Int /\ h[W] \in Int
                BY <2>2, <3>1, <4>4
            <4>6. h[U] = f[a] + (f[x] + h[W]) /\ h[U \ {x}] = f[a] + h[W]
                BY <3>2, <4>1, <4>2, <4>3
            <4> HIDE DEF W
            <4>7. QED
                BY <4>5, <4>6
        <3>5. h[U] \in Int
            <4>1. f[a] \in Int /\ h[U \ {a}] \in Int
                BY <3>1, <3>3
            <4>2. QED
                BY <3>2, <4>1
        <3>6. QED
            BY <2>2, <3>2, <3>4, <3>5
    <2>6. QED
        BY <2>4, <2>5
<1>3. QED
    BY <1>2

LEMMA SumFunctionType ==
    ASSUME NEW S, IsFiniteSet(S), NEW f \in [S -> Int]
    PROVE  SumFunction(f) \in Int
<1>1. PICK h : IsSum(h, f, S) /\ SumFunction(f) = h[S]
    BY SumFunctionIsSum
<1>2. h[S] \in Int
    BY <1>1, SumTakesAny
<1>3. QED
    BY <1>1, <1>2

\* p is a one-to-one renaming of T to S.
Renames(p, T, S) ==
    /\ p \in [T -> S]
    /\ \A i, j \in T : p[i] = p[j] => i = j
    /\ \A s \in S : \E t \in T : p[t] = s

\* A sum over renamed elements is the same sum.
LEMMA SumOfRenamed ==
    ASSUME NEW S, NEW T, IsFiniteSet(S), IsFiniteSet(T), NEW p, Renames(p, T, S),
           NEW f \in [S -> Int], NEW g \in [T -> Int], \A t \in T : g[t] = f[p[t]]
    PROVE  SumFunction(g) = SumFunction(f)
<1>1. PICK hf : IsSum(hf, f, S) /\ SumFunction(f) = hf[S]
    BY SumFunctionIsSum
<1>2. PICK hg : IsSum(hg, g, T) /\ SumFunction(g) = hg[T]
    BY SumFunctionIsSum
<1> DEFINE Named(U) == {p[t] : t \in U}
           Wrong    == {U \in SUBSET T : hg[U] # hf[Named(U)]}
           smaller  == StrictSubsetOrdering(T)
<1>3. IsWellFoundedOn(smaller, SUBSET T)
    BY FS_StrictSubsetOrderingWellFounded, FS_FiniteSubsetsOfFinite
<1>4. Wrong = {}
    <2> SUFFICES ASSUME Wrong # {}
                 PROVE  FALSE
        OBVIOUS
    <2>1. PICK U \in Wrong : \A V \in Wrong : <<V, U>> \notin smaller
        <3>1. Wrong \subseteq SUBSET T
            OBVIOUS
        <3> HIDE DEF Wrong, smaller
        <3>2. QED
            BY <1>3, <3>1, WFMin
    <2>2. U \in SUBSET T /\ hg[U] # hf[Named(U)]
        BY <2>1
    <2>3. CASE U = {}
        <3>1. Named(U) = {}
            BY <2>3
        <3>2. hg[U] = 0 /\ hf[{}] = 0
            BY <1>1, <1>2, <2>3 DEF IsSum
        <3>3. QED
            BY <2>2, <3>1, <3>2
    <2>4. ASSUME NEW x \in U
          PROVE  FALSE
        <3>1. U \ {x} \in SUBSET T /\ <<U \ {x}, U>> \in smaller
            BY <2>2, <2>4 DEF StrictSubsetOrdering
        <3>2. hg[U \ {x}] = hf[Named(U \ {x})]
            BY <2>1, <3>1
        <3>3. hg[U] = g[x] + hg[U \ {x}]
            BY <1>2, <2>2, SumTakesAny
        <3>4. Named(U) \in SUBSET S /\ p[x] \in Named(U)
            BY <2>2, <2>4 DEF Renames
        <3>5. Named(U) \ {p[x]} = Named(U \ {x})
            BY <2>2, <2>4 DEF Renames
        <3>6. hf[Named(U)] = f[p[x]] + hf[Named(U) \ {p[x]}]
            <4>1. PICK V, y : V = Named(U) /\ y = p[x]
                OBVIOUS
            <4>2. V \in SUBSET S /\ y \in V
                BY <3>4, <4>1
            <4>3. hf[V] = f[y] + hf[V \ {y}]
                BY <1>1, <4>2, SumTakesAny
            <4> HIDE DEF Named
            <4>4. QED
                BY <4>1, <4>3
        <3>7. QED
            BY <2>2, <3>2, <3>3, <3>5, <3>6
    <2>5. QED
        BY <2>3, <2>4
<1>5. Named(T) = S
    BY DEF Renames
<1>6. QED
    BY <1>1, <1>2, <1>4, <1>5

-----------------------------------------------------------------------------
(* Bounds on sums.                                                          *)

\* h takes the sums of f over the parts of S: of each in any order.
Adds(h, f, S) ==
    /\ h[{}] = 0
    /\ \A U \in SUBSET S : /\ h[U] \in Int
                           /\ \A x \in U : h[U] = f[x] + h[U \ {x}]

LEMMA SumFunctionAdds ==
    ASSUME NEW S, IsFiniteSet(S), NEW f \in [S -> Int]
    PROVE  \E h : Adds(h, f, S) /\ SumFunction(f) = h[S]
<1>1. PICK h : IsSum(h, f, S) /\ SumFunction(f) = h[S]
    BY SumFunctionIsSum
<1>2. IsSum(h, f, S)
    BY <1>1
<1>3. ASSUME NEW U \in SUBSET S
      PROVE  h[U] \in Int /\ \A x \in U : h[U] = f[x] + h[U \ {x}]
    <2>1. h[U] \in Int
        BY <1>2, SumTakesAny
    <2>2. ASSUME NEW x \in U
          PROVE  h[U] = f[x] + h[U \ {x}]
        BY <1>2, SumTakesAny
    <2>3. QED
        BY <2>1, <2>2
<1>4. h[{}] = 0
    BY <1>2 DEF IsSum
<1>5. QED
    BY <1>1, <1>3, <1>4 DEF Adds

\* What bounds each term bounds the sum.
LEMMA SumsCompared ==
    ASSUME NEW S, IsFiniteSet(S), NEW f \in [S -> Int], NEW g \in [S -> Int],
           NEW hf, Adds(hf, f, S), NEW hg, Adds(hg, g, S),
           NEW a \in Int, NEW b \in Int, NEW T \in SUBSET S,
           \A x \in T : f[x] <= a * g[x] + b
    PROVE  hf[T] <= a * hg[T] + b * Cardinality(T)
<1> DEFINE Right(U) == hf[U] <= a * hg[U] + b * Cardinality(U)
           Wrong    == {U \in SUBSET T : ~Right(U)}
           smaller  == StrictSubsetOrdering(T)
<1>0. IsFiniteSet(T)
    BY FS_Subset
<1>1. IsWellFoundedOn(smaller, SUBSET T)
    BY <1>0, FS_StrictSubsetOrderingWellFounded, FS_FiniteSubsetsOfFinite
<1>2. ASSUME Wrong # {}
      PROVE  FALSE
    <2>1. PICK U \in Wrong : \A V \in Wrong : <<V, U>> \notin smaller
        <3>1. Wrong \subseteq SUBSET T
            OBVIOUS
        <3> HIDE DEF Wrong, smaller
        <3>2. QED
            BY <1>1, <1>2, <3>1, WFMin
    <2>2. U \in SUBSET T /\ U \in SUBSET S /\ ~Right(U)
        BY <2>1
    <2>3. IsFiniteSet(U)
        BY <1>0, <2>2, FS_Subset
    <2>4. CASE U = {}
        <3>1. hf[U] = 0 /\ hg[U] = 0 /\ Cardinality(U) = 0
            BY <2>4, FS_EmptySet DEF Adds
        <3>2. QED
            BY <2>2, <3>1
    <2>5. ASSUME NEW x \in U
          PROVE  FALSE
        <3>1. PICK V : V = U \ {x}
            OBVIOUS
        <3>2. V \in SUBSET T /\ V \in SUBSET S /\ <<V, U>> \in smaller
            BY <2>2, <2>5, <3>1 DEF StrictSubsetOrdering
        <3>3. Right(V)
            BY <2>1, <3>2
        <3>4. hf[U] = f[x] + hf[V] /\ hg[U] = g[x] + hg[V] /\ hf[V] \in Int /\ hg[V] \in Int
            BY <2>2, <2>5, <3>1, <3>2 DEF Adds
        <3>5. Cardinality(U) = Cardinality(V) + 1 /\ Cardinality(V) \in Nat
            <4>1. IsFiniteSet(V) /\ Cardinality(V) \in Nat /\ Cardinality(U) \in Nat
                BY <2>3, <3>1, FS_Subset, FS_CardinalityType
            <4>2. Cardinality(V) = Cardinality(U) - 1
                BY <2>3, <2>5, <3>1, FS_RemoveElement
            <4>3. QED
                BY <4>1, <4>2
        <3>6. f[x] \in Int /\ g[x] \in Int /\ f[x] <= a * g[x] + b
            BY <2>2, <2>5
        <3>7. a * hg[U] + b * Cardinality(U) = (a * g[x] + b) + (a * hg[V] + b * Cardinality(V))
            <4>1. a * (g[x] + hg[V]) = a * g[x] + a * hg[V]
                BY <3>4, <3>6
            <4>2. b * (Cardinality(V) + 1) = b * Cardinality(V) + b
                BY <3>5
            <4>3. a * g[x] \in Int /\ a * hg[V] \in Int /\ b * Cardinality(V) \in Int
                BY <3>4, <3>5, <3>6
            <4>4. QED
                BY <3>4, <3>5, <4>1, <4>2, <4>3
        <3>8. a * g[x] + b \in Int /\ a * hg[V] + b * Cardinality(V) \in Int
            BY <3>4, <3>5, <3>6
        <3>9. hf[U] <= (a * g[x] + b) + (a * hg[V] + b * Cardinality(V))
            BY <3>3, <3>4, <3>6, <3>8
        <3>10. QED
            BY <2>2, <3>7, <3>9
    <2>6. QED
        BY <2>4, <2>5
<1>3. QED
    BY <1>2

LEMMA SumAtMost ==
    ASSUME NEW S, IsFiniteSet(S), NEW f \in [S -> Int], NEW g \in [S -> Int],
           NEW a \in Int, NEW b \in Int, \A x \in S : f[x] <= a * g[x] + b
    PROVE  SumFunction(f) <= a * SumFunction(g) + b * Cardinality(S)
<1>1. PICK hf : Adds(hf, f, S) /\ SumFunction(f) = hf[S]
    BY SumFunctionAdds
<1>2. PICK hg : Adds(hg, g, S) /\ SumFunction(g) = hg[S]
    BY SumFunctionAdds
<1>3. QED
    BY <1>1, <1>2, SumsCompared

\* What each term is at least bounds the sum from below.
LEMMA SumAtLeast ==
    ASSUME NEW S, IsFiniteSet(S), NEW f \in [S -> Int], NEW g \in [S -> Int],
           NEW a \in Int, NEW b \in Int, \A x \in S : a * g[x] + b <= f[x]
    PROVE  a * SumFunction(g) + b * Cardinality(S) <= SumFunction(f)
<1>1. PICK hf : Adds(hf, f, S) /\ SumFunction(f) = hf[S]
    BY SumFunctionAdds
<1>2. PICK hg : Adds(hg, g, S) /\ SumFunction(g) = hg[S]
    BY SumFunctionAdds
<1> DEFINE e  == [x \in S |-> -f[x]]
           he == [U \in SUBSET S |-> -hf[U]]
<1>3. e \in [S -> Int]
    OBVIOUS
<1>4. ASSUME NEW U \in SUBSET S
      PROVE  he[U] \in Int /\ \A x \in U : he[U] = e[x] + he[U \ {x}]
    <2>1. hf[U] \in Int
        BY <1>1 DEF Adds
    <2>2. ASSUME NEW x \in U
          PROVE  he[U] = e[x] + he[U \ {x}]
        <3>1. hf[U] = f[x] + hf[U \ {x}] /\ hf[U \ {x}] \in Int /\ f[x] \in Int
            BY <1>1 DEF Adds
        <3>2. he[U] = -hf[U] /\ e[x] = -f[x] /\ he[U \ {x}] = -hf[U \ {x}]
            OBVIOUS
        <3>3. QED
            BY <3>1, <3>2
    <2>3. he[U] \in Int
        BY <2>1
    <2> HIDE DEF e, he
    <2>4. QED
        BY <2>2, <2>3
<1>5. Adds(he, e, S)
    <2>1. he[{}] = 0
        BY <1>1 DEF Adds
    <2>2. QED
        BY <1>4, <2>1 DEF Adds
<1>6. \A x \in S : e[x] <= (-a) * g[x] + (-b)
    <2> SUFFICES ASSUME NEW x \in S
                 PROVE  -f[x] <= (-a) * g[x] + (-b)
        OBVIOUS
    <2>1. f[x] \in Int /\ g[x] \in Int /\ a * g[x] \in Int /\ (-a) * g[x] = -(a * g[x])
        OBVIOUS
    <2>2. QED
        BY <2>1
<1>7. PICK c, d \in Int : c = -a /\ d = -b
    OBVIOUS
<1> HIDE DEF e, he
<1>8. he[S] <= c * hg[S] + d * Cardinality(S)
    <2>1. \A x \in S : e[x] <= c * g[x] + d
        BY <1>6, <1>7
    <2>2. Adds(hg, g, S)
        BY <1>2
    <2>3. QED
        BY <1>3, <1>5, <2>1, <2>2, SumsCompared
<1>9. hf[S] \in Int /\ hg[S] \in Int /\ Cardinality(S) \in Nat
    BY <1>1, <1>2, FS_CardinalityType DEF Adds
<1>10. he[S] = -hf[S]
    BY DEF he
<1>11. c * hg[S] = -(a * hg[S]) /\ d * Cardinality(S) = -(b * Cardinality(S))
    BY <1>7, <1>9
<1>12. a * hg[S] \in Int /\ b * Cardinality(S) \in Int
    BY <1>9
<1>13. QED
    BY <1>1, <1>2, <1>8, <1>9, <1>10, <1>11, <1>12

\* A single place may be an exception.
LEMMA SumAtMostBut ==
    ASSUME NEW S, IsFiniteSet(S), NEW f \in [S -> Int], NEW g \in [S -> Int],
           NEW a \in Int, NEW b \in Int, NEW y \in S, \A x \in S \ {y} : f[x] <= a * g[x] + b
    PROVE  SumFunction(f) <= f[y] + a * (SumFunction(g) - g[y]) + b * (Cardinality(S) - 1)
<1>1. PICK hf : Adds(hf, f, S) /\ SumFunction(f) = hf[S]
    BY SumFunctionAdds
<1>2. PICK hg : Adds(hg, g, S) /\ SumFunction(g) = hg[S]
    BY SumFunctionAdds
<1>3. PICK T : T = S \ {y}
    OBVIOUS
<1>4. T \in SUBSET S /\ \A x \in T : f[x] <= a * g[x] + b
    BY <1>3
<1>5. hf[T] <= a * hg[T] + b * Cardinality(T)
    BY <1>1, <1>2, <1>4, SumsCompared
<1>6. /\ hf[S] = f[y] + hf[T] /\ hg[S] = g[y] + hg[T]
      /\ f[y] \in Int /\ g[y] \in Int /\ hf[T] \in Int /\ hg[T] \in Int
    BY <1>1, <1>2, <1>3 DEF Adds
<1>7. Cardinality(T) = Cardinality(S) - 1
    BY <1>3, FS_RemoveElement
<1>8. hg[T] = SumFunction(g) - g[y]
    BY <1>2, <1>6
<1>9. SumFunction(f) = f[y] + hf[T]
    BY <1>1, <1>6
<1> DEFINE rest == a * hg[T] + b * Cardinality(T)
<1>10. rest \in Int
    <2>1. Cardinality(T) \in Int
        <3>1. IsFiniteSet(T)
            BY <1>4, FS_Subset
        <3>2. QED
            BY <3>1, FS_CardinalityType
    <2>2. QED
        BY <1>6, <2>1
<1>11. SumFunction(f) <= f[y] + rest
    BY <1>5, <1>6, <1>9, <1>10
<1>12. rest = a * (SumFunction(g) - g[y]) + b * (Cardinality(S) - 1)
    BY <1>7, <1>8
<1>13. a * (SumFunction(g) - g[y]) \in Int /\ b * (Cardinality(S) - 1) \in Int
    <2>1. SumFunction(g) - g[y] \in Int /\ Cardinality(S) - 1 \in Int
        BY <1>2, <1>6, FS_CardinalityType DEF Adds
    <2>2. QED
        BY <2>1
<1> HIDE DEF rest
<1>14. QED
    BY <1>6, <1>11, <1>12, <1>13

\* A part of a sum of terms that are not negative is no more than the whole.
LEMMA SumOfPart ==
    ASSUME NEW S, IsFiniteSet(S), NEW f \in [S -> Nat], NEW T \in SUBSET S,
           NEW g \in [T -> Int], \A x \in T : g[x] = f[x]
    PROVE  SumFunction(g) <= SumFunction(f)
<1> DEFINE e == [x \in S |-> IF x \in T THEN f[x] ELSE 0]
<1>1. f \in [S -> Int] /\ e \in [S -> Int]
    OBVIOUS
<1>2. PICK a, b : a = 1 /\ b = 0
    OBVIOUS
<1>3. \A x \in T : e[x] = g[x]
    OBVIOUS
<1>4. \A x \in S : x \notin T => e[x] = 0
    OBVIOUS
<1>5a. \A x \in S : e[x] <= f[x]
    OBVIOUS
<1> HIDE DEF e
<1>5. IsFiniteSet(T)
    BY FS_Subset
<1>6. PICK he : Adds(he, e, S) /\ SumFunction(e) = he[S]
    BY <1>1, SumFunctionAdds
<1>7. PICK hg : Adds(hg, g, T) /\ SumFunction(g) = hg[T]
    BY <1>5, SumFunctionAdds
<1> DEFINE Right(U) == he[U] = hg[U \cap T]
           Wrong    == {U \in SUBSET S : ~Right(U)}
           smaller  == StrictSubsetOrdering(S)
<1>8. IsWellFoundedOn(smaller, SUBSET S)
    BY FS_StrictSubsetOrderingWellFounded, FS_FiniteSubsetsOfFinite
<1>9. ASSUME Wrong # {}
      PROVE  FALSE
    <2>1. PICK U \in Wrong : \A V \in Wrong : <<V, U>> \notin smaller
        <3>1. Wrong \subseteq SUBSET S
            OBVIOUS
        <3> HIDE DEF Wrong, smaller
        <3>2. QED
            BY <1>8, <1>9, <3>1, WFMin
    <2>2. U \in SUBSET S /\ ~Right(U)
        BY <2>1
    <2>3. CASE U = {}
        <3>1. U \cap T = {}
            BY <2>3
        <3>2. QED
            BY <1>6, <1>7, <2>2, <2>3, <3>1 DEF Adds
    <2>4. ASSUME NEW x \in U
          PROVE  FALSE
        <3>1. PICK V : V = U \ {x}
            OBVIOUS
        <3>2. V \in SUBSET S /\ <<V, U>> \in smaller
            BY <2>2, <2>4, <3>1 DEF StrictSubsetOrdering
        <3>3. he[V] = hg[V \cap T]
            BY <2>1, <3>2
        <3>4. he[U] = e[x] + he[V] /\ he[V] \in Int
            BY <1>6, <2>2, <2>4, <3>1, <3>2 DEF Adds
        <3>5. CASE x \notin T
            <4>1. U \cap T = V \cap T /\ e[x] = 0
                BY <1>4, <2>2, <2>4, <3>1, <3>5
            <4>2. QED
                BY <2>2, <3>3, <3>4, <4>1
        <3>6. CASE x \in T
            <4>1. PICK P, Q : P = U \cap T /\ Q = V \cap T
                OBVIOUS
            <4>2. Q = P \ {x} /\ x \in P /\ P \in SUBSET T
                BY <2>4, <3>1, <3>6, <4>1
            <4>3. hg[P] = g[x] + hg[Q]
                BY <1>7, <4>2 DEF Adds
            <4>4. QED
                BY <1>3, <2>2, <3>3, <3>4, <3>6, <4>1, <4>3
        <3>7. QED
            BY <3>5, <3>6
    <2>5. QED
        BY <2>3, <2>4
<1>10. SumFunction(e) = SumFunction(g)
    <2>1. S \cap T = T /\ Right(S)
        BY <1>9
    <2>2. QED
        BY <1>6, <1>7, <2>1
<1>11. \A x \in S : e[x] <= a * f[x] + b
    BY <1>1, <1>2, <1>5a
<1>12. SumFunction(e) <= a * SumFunction(f) + b * Cardinality(S)
    <2>1. \A i, j \in Int : (\A x \in S : e[x] <= i * f[x] + j) =>
             SumFunction(e) <= i * SumFunction(f) + j * Cardinality(S)
        BY <1>1, SumAtMost
    <2>2. QED
        BY <1>2, <1>11, <2>1
<1>13. SumFunction(f) \in Int /\ SumFunction(e) \in Int /\ Cardinality(S) \in Nat
    BY <1>1, SumFunctionType, FS_CardinalityType
<1>14. QED
    BY <1>2, <1>10, <1>12, <1>13

-----------------------------------------------------------------------------
(* Counting, and the greatest in an order.                                  *)

\* A set and its renamed elements are as many.
LEMMA CountOfRenamed ==
    ASSUME NEW S, NEW T, IsFiniteSet(S), NEW p, Renames(p, T, S)
    PROVE  IsFiniteSet(T) /\ Cardinality(T) = Cardinality(S)
<1>1. p \in Injection(T, S) /\ p \in Surjection(T, S)
    BY DEF Renames, Injection, Surjection, IsInjective
<1>2. QED
    BY <1>1, FS_Injection

\* So are the parts of them that correspond.
LEMMA CountOfParts ==
    ASSUME NEW S, NEW T, IsFiniteSet(S), NEW p, Renames(p, T, S),
           NEW A \in SUBSET T, NEW B \in SUBSET S, \A t \in T : t \in A <=> p[t] \in B
    PROVE  Cardinality(A) = Cardinality(B)
<1> DEFINE q == [t \in A |-> p[t]]
<1>1. Renames(q, A, B)
    BY DEF Renames
<1>2. IsFiniteSet(B)
    BY FS_Subset
<1>3. QED
    BY <1>1, <1>2, CountOfRenamed

\* And the sets of pairs.
LEMMA CountOfPairs ==
    ASSUME NEW S, NEW T, IsFiniteSet(S), NEW p, Renames(p, T, S),
           NEW A \in SUBSET (T \X T), NEW B \in SUBSET (S \X S),
           \A t, u \in T : <<t, u>> \in A <=> <<p[t], p[u]>> \in B
    PROVE  Cardinality(A) = Cardinality(B)
<1> DEFINE q == [z \in A |-> <<p[z[1]], p[z[2]]>>]
<1>1. \A z \in A : z = <<z[1], z[2]>> /\ z[1] \in T /\ z[2] \in T
    OBVIOUS
<1>2. \A z \in A : q[z] \in B
    BY <1>1
<1>3. ASSUME NEW y \in A, NEW z \in A, q[y] = q[z]
      PROVE  y = z
    <2>1. p[y[1]] = p[z[1]] /\ p[y[2]] = p[z[2]]
        BY <1>3
    <2>2. y[1] = z[1] /\ y[2] = z[2]
        BY <1>1, <2>1 DEF Renames
    <2>3. QED
        BY <1>1, <2>2
<1>4. ASSUME NEW b \in B
      PROVE  \E z \in A : q[z] = b
    <2>1. b = <<b[1], b[2]>> /\ b[1] \in S /\ b[2] \in S
        OBVIOUS
    <2>2. PICK t \in T : p[t] = b[1]
        BY <2>1 DEF Renames
    <2>3. PICK u \in T : p[u] = b[2]
        BY <2>1 DEF Renames
    <2>4. <<t, u>> \in A /\ q[<<t, u>>] = b
        BY <2>1, <2>2, <2>3
    <2>5. QED
        BY <2>4
<1>5. Renames(q, A, B)
    BY <1>2, <1>3, <1>4 DEF Renames
<1>6. IsFiniteSet(B)
    BY FS_Product, FS_Subset
<1>7. QED
    BY <1>5, <1>6, CountOfRenamed

\* Two different elements are two or more; so a set of two or more has another.
LEMMA CountOfTwo ==
    ASSUME NEW S, IsFiniteSet(S), NEW x \in S, NEW y \in S, x # y
    PROVE  Cardinality(S) >= 2
<1>1. PICK T : T = S \ {x}
    OBVIOUS
<1>2. IsFiniteSet(T) /\ Cardinality(T) = Cardinality(S) - 1
    BY <1>1, FS_RemoveElement
<1>3. y \in T
    BY <1>1
<1>4. Cardinality(T) \in Nat \ {0}
    BY <1>2, <1>3, FS_CardinalityType, FS_EmptySet
<1>5. Cardinality(S) \in Nat
    BY FS_CardinalityType
<1>6. QED
    BY <1>2, <1>4, <1>5

LEMMA AnotherOne ==
    ASSUME NEW S, IsFiniteSet(S), Cardinality(S) >= 2
    PROVE  \E x, y \in S : x # y
<1>1. S # {}
    BY FS_EmptySet
<1>2. PICK x \in S : TRUE
    BY <1>1
<1>3. PICK T : T = S \ {x}
    OBVIOUS
<1>4. IsFiniteSet(T) /\ Cardinality(T) = Cardinality(S) - 1
    BY <1>2, <1>3, FS_RemoveElement
<1>5. Cardinality(T) # 0
    BY <1>4, FS_CardinalityType
<1>6. PICK y \in T : TRUE
    BY <1>4, <1>5, FS_EmptySet
<1>7. QED
    BY <1>2, <1>3, <1>6

\* Of finitely many things one is the greatest in a total order.
LEMMA GreatestInOrder ==
    ASSUME NEW S, IsFiniteSet(S), S # {}, NEW R,
           \A x, y \in S : x # y => <<x, y>> \in R \/ <<y, x>> \in R,
           \A x, y, z \in S : <<x, y>> \in R /\ <<y, z>> \in R => <<x, z>> \in R
    PROVE  \E g \in S : \A x \in S \ {g} : <<x, g>> \in R
<1> DEFINE Has(U)  == \E g \in U : \A x \in U \ {g} : <<x, g>> \in R
           Wrong   == {U \in SUBSET S : U # {} /\ ~Has(U)}
           smaller == StrictSubsetOrdering(S)
<1>1. IsWellFoundedOn(smaller, SUBSET S)
    BY FS_StrictSubsetOrderingWellFounded, FS_FiniteSubsetsOfFinite
<1>2. Wrong = {}
    <2> SUFFICES ASSUME Wrong # {}
                 PROVE  FALSE
        OBVIOUS
    <2>1. PICK U \in Wrong : \A V \in Wrong : <<V, U>> \notin smaller
        <3>1. Wrong \subseteq SUBSET S
            OBVIOUS
        <3> HIDE DEF Wrong, smaller
        <3>2. QED
            BY <1>1, <3>1, WFMin
    <2>2. U \in SUBSET S /\ U # {} /\ ~Has(U)
        BY <2>1
    <2>3. PICK a \in U : TRUE
        BY <2>2
    <2>4. U \ {a} # {}
        BY <2>2, <2>3
    <2>5. Has(U \ {a})
        <3>1. U \ {a} \in SUBSET S /\ <<U \ {a}, U>> \in smaller
            BY <2>2, <2>3 DEF StrictSubsetOrdering
        <3>2. QED
            BY <2>1, <2>4, <3>1
    <2>6. PICK b \in U \ {a} : \A x \in (U \ {a}) \ {b} : <<x, b>> \in R
        BY <2>5
    <2>7. a \in S /\ b \in S /\ a # b
        BY <2>2, <2>3, <2>6
    <2>8. CASE <<a, b>> \in R
        BY <2>2, <2>6, <2>8
    <2>9. CASE <<b, a>> \in R
        <3>1. ASSUME NEW x \in U \ {a}
              PROVE  <<x, a>> \in R
            BY <2>2, <2>6, <2>7, <2>9
        <3>2. QED
            BY <2>2, <2>3, <3>1
    <2>10. QED
        BY <2>7, <2>8, <2>9
<1>3. QED
    BY <1>2
=============================================================================
