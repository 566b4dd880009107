----------------------------- MODULE FoldLemmas -----------------------------
(***************************************************************************)
(* What the provers need to reason about folds: induction over numbers and *)
(* finite sets in a form without operator parameters (a set holds what     *)
(* satisfies the induction hypothesis), and that the recursive functions   *)
(* behind FoldSet and FoldLeft exist.                                      *)
(***************************************************************************)
EXTENDS Integers, Sequences, FiniteSets, SequencesExt, FiniteSetTheorems,
        NaturalsInduction, WellFoundedInduction, TLAPS

-----------------------------------------------------------------------------
(* Induction *)

\* A set of numbers that is not empty has a least member.
LEMMA LeastNumber ==
    ASSUME NEW T \in SUBSET Nat, T # {}
    PROVE  \E n \in T : \A m \in T : n <= m
<1> DEFINE R == { p \in Nat \X Nat : p[1] < p[2] }
<1>1. IsWellFoundedOn(R, Nat)
  BY NatLessThanWellFounded DEF OpToRel
<1>2. \E n \in T : \A m \in T : <<m, n>> \notin R
  <2> HIDE DEF R
  <2> QED BY <1>1, WFMin
<1>3. \A m, n \in Nat : <<m, n>> \notin R => n <= m
  OBVIOUS
<1> QED
  <2> HIDE DEF R
  <2> QED BY <1>2, <1>3

\* A set with 0 and the successors of its members has all numbers.
LEMMA NumberInduction ==
    ASSUME NEW T, 0 \in T, \A n \in Nat : n \in T => n + 1 \in T
    PROVE  Nat \subseteq T
<1> SUFFICES ASSUME Nat \ T # {} PROVE FALSE
  OBVIOUS
<1>1. PICK n \in Nat \ T : \A m \in Nat \ T : n <= m
  BY LeastNumber
<1>2. n - 1 \in Nat /\ n - 1 \in T
  BY <1>1
<1> QED BY <1>1, <1>2

\* The same up to a bound.
LEMMA BoundedInduction ==
    ASSUME NEW k \in Nat, NEW T, 0 \in T, \A n \in 0 .. k - 1 : n \in T => n + 1 \in T
    PROVE  0 .. k \subseteq T
<1> DEFINE U == T \cup { n \in Nat : n > k }
<1>1. 0 \in U /\ \A n \in Nat : n \in U => n + 1 \in U
  OBVIOUS
<1>2. Nat \subseteq U
  <2> HIDE DEF U
  <2> QED BY <1>1, NumberInduction
<1> QED BY <1>2

\* A set that has a subset of a finite set whenever it has those with one
\* element less has every subset.
LEMMA SubsetInduction ==
    ASSUME NEW S, IsFiniteSet(S), NEW Q,
           \A T \in SUBSET S : (\A x \in T : T \ {x} \in Q) => T \in Q
    PROVE  SUBSET S \subseteq Q
<1> DEFINE Small == { n \in Nat : \A T \in SUBSET S : Cardinality(T) = n => T \in Q }
<1>1. \A T \in SUBSET S : IsFiniteSet(T) /\ Cardinality(T) \in Nat
  BY FS_Subset, FS_CardinalityType
<1>2. 0 \in Small
  BY <1>1, FS_EmptySet
<1>3. \A n \in Nat : n \in Small => n + 1 \in Small
  <2> SUFFICES ASSUME NEW n \in Nat, n \in Small,
                      NEW T \in SUBSET S, Cardinality(T) = n + 1
               PROVE  T \in Q
    OBVIOUS
  <2>1. ASSUME NEW x \in T
        PROVE  T \ {x} \in SUBSET S /\ Cardinality(T \ {x}) = n
    BY <1>1, FS_RemoveElement
  <2> QED BY <2>1
<1>4. Nat \subseteq Small
  <2> HIDE DEF Small
  <2> QED BY <1>2, <1>3, NumberInduction
<1> QED BY <1>1, <1>4

-----------------------------------------------------------------------------
(* Recursion *)

\* pick names one element of every set that has one.
Picks(pick, S) == \A T \in SUBSET S : T # {} => pick[T] \in T

\* g is the fold that adds the picked elements to base by step.
UnfoldsTo(g, S, base, pick, step) ==
    \A T \in SUBSET S :
       g[T] = IF T = {} THEN base ELSE step[<<pick[T], g[T \ {pick[T]}]>>]

\* The function a fold over subsets of a finite set is defined by: pick says
\* which element a set gives up, step what it adds to the rest.
LEMMA RecursionOverSubsets ==
    ASSUME NEW S, IsFiniteSet(S), NEW A, NEW base \in A,
           NEW pick, Picks(pick, S),
           NEW step \in [S \X A -> A]
    PROVE  \E g \in [SUBSET S -> A] : UnfoldsTo(g, S, base, pick, step)
<1> DEFINE Level(n) == { T \in SUBSET S : Cardinality(T) <= n }
           Solves(g, n) ==
              /\ g \in [Level(n) -> A]
              /\ \A T \in Level(n) :
                    g[T] = IF T = {} THEN base ELSE step[<<pick[T], g[T \ {pick[T]}]>>]
           Solved == { n \in Nat : \E g : Solves(g, n) }
<1>1. \A T \in SUBSET S : IsFiniteSet(T) /\ Cardinality(T) \in Nat
  BY FS_Subset, FS_CardinalityType
<1>2. \A T \in SUBSET S : \A x \in T : /\ T \ {x} \in SUBSET S
                                       /\ Cardinality(T \ {x}) = Cardinality(T) - 1
  BY <1>1, FS_RemoveElement
<1>3. 0 \in Solved
  <2>1. Level(0) = {{}}
    BY <1>1, FS_EmptySet
  <2>2. Solves([T \in Level(0) |-> base], 0)
    <3> HIDE DEF Level
    <3> QED BY <2>1
  <2> QED BY <2>2
<1>4. \A n \in Nat : n \in Solved => n + 1 \in Solved
  <2> SUFFICES ASSUME NEW n \in Nat, n \in Solved
               PROVE  n + 1 \in Solved
    <3> HIDE DEF Solved
    <3> QED OBVIOUS
  <2>0. PICK g : Solves(g, n)
    <3> HIDE DEF Solves
    <3> QED OBVIOUS
  <2> DEFINE h == [T \in Level(n + 1) |->
                     IF T \in Level(n) THEN g[T]
                     ELSE step[<<pick[T], g[T \ {pick[T]}]>>]]
  <2>1. Level(n) \subseteq Level(n + 1)
    BY <1>1
  <2>2. \A T \in Level(n + 1) : T # {} =>
           /\ pick[T] \in S
           /\ T \ {pick[T]} \in Level(n)
           /\ g[T \ {pick[T]}] \in A
           /\ step[<<pick[T], g[T \ {pick[T]}]>>] \in A
    BY <1>1, <1>2, <2>0 DEF Picks
  <2>3. {} \in Level(n)
    BY FS_EmptySet
  <2>4. \A T \in Level(n) : g[T] \in A
    BY <2>0
  <2>5. h \in [Level(n + 1) -> A]
    <3> HIDE DEF Level
    <3> QED BY <2>2, <2>3, <2>4
  <2>6. ASSUME NEW T \in Level(n + 1)
        PROVE  h[T] = IF T = {} THEN base ELSE step[<<pick[T], h[T \ {pick[T]}]>>]
    <3>1. CASE T = {}
      <4> HIDE DEF Level
      <4> QED BY <2>0, <2>1, <2>3, <3>1
    <3>2. CASE T # {} 
      <4> h[T \ {pick[T]}] = g[T \ {pick[T]}]
        <5> HIDE DEF Level
        <5> QED BY <2>1, <2>2, <3>2
      <4>2. T \in Level(n) => g[T] = step[<<pick[T], g[T \ {pick[T]}]>>]
        BY <2>0, <3>2
      <4> HIDE DEF Level
      <4> QED BY <3>2, <4>2
    <3> QED BY <3>1, <3>2
  <2>7. Solves(h, n + 1)
    <3> HIDE DEF h, Level
    <3> QED BY <2>5, <2>6
  <2> HIDE DEF Solves, h
  <2> QED BY <2>7
<1>5. Cardinality(S) \in Nat /\ Nat \subseteq Solved
  <2>1. Nat \subseteq Solved
    <3> HIDE DEF Solved
    <3> QED BY <1>3, <1>4, NumberInduction
  <2> QED BY <2>1, FS_CardinalityType
<1>6. Level(Cardinality(S)) = SUBSET S
  BY FS_Subset
<1>7. PICK g : Solves(g, Cardinality(S))
  BY <1>5
<1>8. /\ g \in [SUBSET S -> A]
      /\ \A T \in SUBSET S :
            g[T] = IF T = {} THEN base ELSE step[<<pick[T], g[T \ {pick[T]}]>>]
  <2> HIDE DEF Level
  <2> QED BY <1>6, <1>7
<1> QED BY <1>8 DEF UnfoldsTo

-----------------------------------------------------------------------------
(* Folds over sequences *)

\* FoldLeft gives up the largest index first.
LEMMA LargestIndex ==
    ASSUME NEW n \in Nat
    PROVE  /\ IsFiniteSet(1 .. n)
           /\ \A d \in SUBSET (1 .. n) : d # {} => Max(d) \in d
           /\ \A i \in 1 .. n : Max(1 .. i) = i /\ (1 .. i) \ {i} = 1 .. (i - 1)
<1>1. IsFiniteSet(1 .. n)
  BY FS_Interval
<1>2. ASSUME NEW d \in SUBSET (1 .. n), d # {}
      PROVE  \E x \in d : \A y \in d : x >= y
  <2> DEFINE Above == { n - x : x \in d }
  <2>1. Above \in SUBSET Nat /\ Above # {}
    <3>1. \A x \in d : n - x \in Nat
      OBVIOUS
    <3>2. Above # {}
      BY <1>2
    <3> QED BY <3>1, <3>2
  <2>2. PICK m \in Above : \A k \in Above : m <= k
    <3> HIDE DEF Above
    <3> QED BY <2>1, LeastNumber
  <2>3. PICK x \in d : m = n - x
    OBVIOUS
  <2>4. \A y \in d : n - x <= n - y
    BY <2>2, <2>3
  <2> QED BY <1>2, <2>4
<1>3. \A d \in SUBSET (1 .. n) : d # {} => Max(d) \in d /\ \A y \in d : Max(d) >= y
  BY <1>2 DEF Max
<1>4. ASSUME NEW i \in 1 .. n
      PROVE  Max(1 .. i) = i /\ (1 .. i) \ {i} = 1 .. (i - 1)
  <2>1. Max(1 .. i) \in 1 .. i /\ \A y \in 1 .. i : Max(1 .. i) >= y
    <3> 1 .. i \in SUBSET (1 .. n) /\ i \in 1 .. i
      OBVIOUS
    <3> QED BY <1>3
  <2> QED BY <2>1
<1> QED BY <1>1, <1>3, <1>4

\* g is what FoldLeft chooses to add up the values v: a sum for every set of
\* indices.
AddsUp(g, v, n) ==
    g = [d \in SUBSET (1 .. n) |-> IF d = {} THEN 0 ELSE g[d \ {Max(d)}] + v[Max(d)]]

\* p is the running sum of the values v.
RunsUp(p, v, n) ==
    /\ \A i \in 0 .. n : p[i] \in Nat
    /\ \A i \in 1 .. n : v[i] \in Nat
    /\ p[0] = 0
    /\ \A i \in 1 .. n : p[i] = p[i - 1] + v[i]

\* The function FoldLeft chooses when it adds up the values v exists.
LEMMA SumExists ==
    ASSUME NEW n \in Nat, NEW v \in [1 .. n -> Nat]
    PROVE  \E g : AddsUp(g, v, n)
<1> DEFINE D == 1 .. n
           N == Nat
           zero == 0
           pick == [d \in SUBSET D |-> Max(d)]
           step == [x \in D \X N |-> x[2] + v[x[1]]]
<1>1. IsFiniteSet(D) /\ Picks(pick, D)
  BY LargestIndex DEF Picks
<1>2. step \in [D \X N -> N] /\ zero \in N
  OBVIOUS
<1>3. PICK g \in [SUBSET D -> N] : UnfoldsTo(g, D, zero, pick, step)
  <2> HIDE DEF D, N, zero, pick, step
  <2> QED BY <1>1, <1>2, RecursionOverSubsets
<1>4. ASSUME NEW d \in SUBSET D, d # {}
      PROVE  step[<<pick[d], g[d \ {pick[d]}]>>] = g[d \ {Max(d)}] + v[Max(d)]
  <2>1. pick[d] = Max(d) /\ Max(d) \in D /\ g[d \ {Max(d)}] \in N
    <3> HIDE DEF D
    <3> QED BY <1>1, <1>4 DEF Picks
  <2> HIDE DEF D
  <2> QED BY <2>1
<1> DEFINE G == [d \in SUBSET D |->
                   IF d = {} THEN 0 ELSE g[d \ {Max(d)}] + v[Max(d)]]
<1>5. G \in [SUBSET D -> N] /\ \A d \in SUBSET D : g[d] = G[d]
  <2> HIDE DEF D, N, pick, step
  <2> QED BY <1>3, <1>4 DEF UnfoldsTo
<1>6. g = G
  <2> HIDE DEF G, D, N
  <2> QED BY <1>5
<1> QED BY <1>6 DEF AddsUp

\* It adds one value with each index.
LEMMA SumAlongPrefixes ==
    ASSUME NEW n \in Nat, NEW v \in [1 .. n -> Nat], NEW g, AddsUp(g, v, n)
    PROVE  \E p : RunsUp(p, v, n) /\ g[1 .. n] = p[n]
<1> DEFINE p == [i \in 0 .. n |-> g[1 .. i]]
           Good == { i \in 0 .. n : p[i] \in Nat }
<1>1. 1 .. 0 = {} /\ \A i \in 0 .. n : 1 .. i \in SUBSET (1 .. n)
  OBVIOUS
<1>2. p[0] = 0
  BY <1>1 DEF AddsUp
<1>3. ASSUME NEW i \in 1 .. n
      PROVE  p[i] = p[i - 1] + v[i]
  <2>1. Max(1 .. i) = i /\ (1 .. i) \ {i} = 1 .. (i - 1)
    BY LargestIndex
  <2>2. i \in 1 .. i /\ 1 .. i \in SUBSET (1 .. n)
    OBVIOUS
  <2>3. g[1 .. i] = g[1 .. (i - 1)] + v[i]
    BY <2>1, <2>2 DEF AddsUp
  <2>4. i \in 0 .. n /\ i - 1 \in 0 .. n
    OBVIOUS
  <2> QED BY <2>3, <2>4
<1>4. 0 .. n \subseteq Good
  <2>1. 0 \in Good
    BY <1>2
  <2>2. ASSUME NEW i \in 0 .. n - 1, i \in Good
        PROVE  i + 1 \in Good
    <3>1. i + 1 \in 1 .. n /\ (i + 1) - 1 = i
      OBVIOUS
    <3>2. p[i + 1] = p[i] + v[i + 1]
      <4> HIDE DEF p
      <4> QED BY <1>3, <3>1
    <3>3. v[i + 1] \in Nat /\ p[i] \in Nat
      BY <2>2, <3>1
    <3> HIDE DEF p
    <3> QED BY <3>1, <3>2, <3>3
  <2> HIDE DEF Good
  <2> QED BY <2>1, <2>2, BoundedInduction
<1>5. p \in [0 .. n -> Nat]
  BY <1>4
<1>6. g[1 .. n] = p[n]
  <2> n \in 0 .. n
    OBVIOUS
  <2> QED OBVIOUS
<1> HIDE DEF p
<1> QED BY <1>2, <1>3, <1>5, <1>6 DEF RunsUp

\* Running sums of the same values agree.
LEMMA SumsAgree ==
    ASSUME NEW n \in Nat, NEW p, NEW q, NEW v, NEW w,
           RunsUp(p, v, n), RunsUp(q, w, n), \A i \in 1 .. n : v[i] = w[i]
    PROVE  \A i \in 0 .. n : p[i] = q[i]
<1> DEFINE Good == { i \in 0 .. n : p[i] = q[i] }
<1>1. 0 \in Good
  BY DEF RunsUp
<1>2. ASSUME NEW i \in 0 .. n - 1, i \in Good
      PROVE  i + 1 \in Good
  <2>1. i + 1 \in 1 .. n /\ (i + 1) - 1 = i
    OBVIOUS
  <2> QED BY <1>2, <2>1 DEF RunsUp
<1>3. 0 .. n \subseteq Good
  <2> HIDE DEF Good
  <2> QED BY <1>1, <1>2, BoundedInduction
<1> QED BY <1>3

\* The values w are those of v that follow the first k.
Follows(w, v, k, m) == \A i \in 1 .. m : w[i] = v[k + i]

\* The running sum of what follows the first k values.
LEMMA SumOfRest ==
    ASSUME NEW n \in Nat, NEW k \in Nat, NEW m \in Nat, n = k + m,
           NEW p, NEW q, NEW v, NEW w,
           RunsUp(p, v, n), RunsUp(q, w, m), Follows(w, v, k, m)
    PROVE  \A i \in 0 .. m : q[i] = p[k + i] - p[k]
<1> DEFINE Good == { i \in 0 .. m : q[i] = p[k + i] - p[k] }
<1>1. \A i \in 0 .. m : k + i \in 0 .. n /\ p[k + i] \in Nat
  BY DEF RunsUp
<1>2. 0 \in Good
  <2> k + 0 = k
    OBVIOUS
  <2> QED BY <1>1 DEF RunsUp
<1>3. ASSUME NEW i \in 0 .. m - 1, i \in Good
      PROVE  i + 1 \in Good
  <2>1. /\ i + 1 \in 1 .. m /\ (i + 1) - 1 = i
        /\ k + (i + 1) \in 1 .. n /\ (k + (i + 1)) - 1 = k + i
    BY <1>3
  <2>2. q[i + 1] = q[i] + v[k + (i + 1)] /\ q[i] = p[k + i] - p[k]
    BY <1>3, <2>1 DEF RunsUp, Follows
  <2>3. p[k + (i + 1)] = p[k + i] + v[k + (i + 1)]
    BY <2>1 DEF RunsUp
  <2>4. /\ p[k + i] \in Nat /\ p[k + (i + 1)] \in Nat /\ p[k] \in Nat /\ q[i + 1] \in Nat
        /\ v[k + (i + 1)] \in Nat
    BY <1>1, <2>1 DEF RunsUp
  <2> QED BY <2>1, <2>2, <2>3, <2>4
<1>4. 0 .. m \subseteq Good
  <2> HIDE DEF Good
  <2> QED BY <1>1, <1>2, <1>3, BoundedInduction
<1> QED BY <1>4

-----------------------------------------------------------------------------
(* Sums of vectors over finite sets *)

\* The sum of the vectors v[x], x in S, each with a coordinate for every member
\* of R.
VectorSum(v, S, R) ==
    FoldSet(LAMBDA x, u : [r \in R |-> v[x][r] + u[r]], [r \in R |-> 0], S)

\* g has the sum for every subset of S, whatever the order it is added up in.
SumsTo(g, v, S, R) ==
    /\ g \in [SUBSET S -> [R -> Int]]
    /\ \A r \in R : g[{}][r] = 0
    /\ \A T \in SUBSET S : \A x \in T : \A r \in R :
          g[T][r] = v[x][r] + g[T \ {x}][r]

\* v has a vector for each member of S.
VectorsFor(v, S, R) == \A x \in S : v[x] \in [R -> Int]

\* g adds up in the order in which pick gives members up.
AddsInOrder(g, v, S, R, pick) ==
    /\ g \in [SUBSET S -> [R -> Int]]
    /\ \A r \in R : g[{}][r] = 0
    /\ \A T \in SUBSET S : T # {} =>
          \A r \in R : g[T][r] = v[pick[T]][r] + g[T \ {pick[T]}][r]

\* Adding up in one order makes the sum that any order makes.
LEMMA AnyOrder ==
    ASSUME NEW S, IsFiniteSet(S), NEW R, NEW v, VectorsFor(v, S, R),
           NEW g, NEW pick, Picks(pick, S), AddsInOrder(g, v, S, R, pick)
    PROVE  SumsTo(g, v, S, R)
<1> DEFINE Q == { T \in SUBSET S : \A x \in T : \A r \in R :
                     g[T][r] = v[x][r] + g[T \ {x}][r] }
<1>1. ASSUME NEW T \in SUBSET S, \A x \in T : T \ {x} \in Q, NEW x \in T, NEW r \in R
      PROVE  g[T][r] = v[x][r] + g[T \ {x}][r]
  <2> DEFINE y == pick[T]
  <2>1. y \in T /\ g[T][r] = v[y][r] + g[T \ {y}][r]
    BY <1>1 DEF Picks, AddsInOrder
  <2>2. CASE x = y
    BY <2>1, <2>2
  <2>3. CASE x # y
    <3>1. T \ {y} \in Q /\ x \in T \ {y} /\ T \ {x} \in Q /\ y \in T \ {x}
      BY <1>1, <2>1, <2>3
    <3>2. g[T \ {y}][r] = v[x][r] + g[(T \ {y}) \ {x}][r]
      BY <3>1
    <3>3. g[T \ {x}][r] = v[y][r] + g[(T \ {x}) \ {y}][r]
      BY <3>1
    <3>4. (T \ {y}) \ {x} = (T \ {x}) \ {y}
      OBVIOUS
    <3>5. /\ v[x][r] \in Int /\ v[y][r] \in Int
          /\ g[(T \ {x}) \ {y}][r] \in Int
      <4>1. x \in S /\ y \in S /\ (T \ {x}) \ {y} \in SUBSET S
        BY <1>1, <2>1
      <4>2. v[x] \in [R -> Int] /\ v[y] \in [R -> Int] /\ g[(T \ {x}) \ {y}] \in [R -> Int]
        BY <4>1 DEF VectorsFor, AddsInOrder
      <4> QED BY <4>2
    <3>6. g[(T \ {y}) \ {x}][r] = g[(T \ {x}) \ {y}][r]
      BY <3>4
    <3> HIDE DEF y, Q
    <3> QED BY <2>1, <3>2, <3>3, <3>5, <3>6
  <2> QED BY <2>2, <2>3
<1>2. \A T \in SUBSET S : (\A x \in T : T \ {x} \in Q) => T \in Q
  BY <1>1
<1>3. SUBSET S \subseteq Q
  <2> HIDE DEF Q
  <2> QED BY <1>2, SubsetInduction
<1> QED BY <1>3 DEF SumsTo, AddsInOrder

\* FoldSet adds up so.
LEMMA VectorSumUnfolds ==
    ASSUME NEW S, IsFiniteSet(S), NEW R, NEW v, VectorsFor(v, S, R)
    PROVE  \E g : SumsTo(g, v, S, R) /\ VectorSum(v, S, R) = g[S]
<1> DEFINE A == [R -> Int]
           zero == [r \in R |-> 0]
           pick == [T \in SUBSET S |-> CHOOSE x \in T : TRUE]
           step == [y \in S \X A |-> [r \in R |-> v[y[1]][r] + y[2][r]]]
           Body(g) == [T \in SUBSET S |->
                         IF T = {} THEN zero
                         ELSE [r \in R |-> v[CHOOSE x \in T : TRUE][r]
                                           + g[T \ {CHOOSE x \in T : TRUE}][r]]]
           iter == CHOOSE g : g = Body(g)
<1>1. Picks(pick, S)
  BY DEF Picks
<1>2. zero \in A /\ step \in [S \X A -> A]
  <2>1. ASSUME NEW y \in S \X A
        PROVE  [r \in R |-> v[y[1]][r] + y[2][r]] \in A
    <3>1. v[y[1]] \in [R -> Int] /\ y[2] \in [R -> Int]
      BY DEF VectorsFor
    <3> QED BY <3>1
  <2> QED BY <2>1
<1>3. PICK g : g \in [SUBSET S -> A] /\ UnfoldsTo(g, S, zero, pick, step)
  <2> HIDE DEF A, zero, pick, step
  <2> QED BY <1>1, <1>2, RecursionOverSubsets
<1>4. ASSUME NEW T \in SUBSET S
      PROVE  g[T] = Body(g)[T]
  <2>1. CASE T = {}
    <3> HIDE DEF A, zero, pick, step
    <3> QED BY <1>3, <2>1 DEF UnfoldsTo
  <2>2. CASE T # {}
    <3>1. pick[T] \in S /\ g[T \ {pick[T]}] \in A /\ pick[T] = CHOOSE x \in T : TRUE
      <4>1. pick[T] \in T
        BY <1>1, <2>2 DEF Picks
      <4>2. T \ {pick[T]} \in SUBSET S
        BY <4>1
      <4>3. g[T \ {pick[T]}] \in A
        <5> HIDE DEF A, pick
        <5> QED BY <1>3, <4>2
      <4> QED BY <4>1, <4>3
    <3>2. g[T] = step[<<pick[T], g[T \ {pick[T]}]>>]
      <4> HIDE DEF A, zero, pick, step
      <4> QED BY <1>3, <2>2 DEF UnfoldsTo
    <3>3. step[<<pick[T], g[T \ {pick[T]}]>>]
             = [r \in R |-> v[pick[T]][r] + g[T \ {pick[T]}][r]]
      <4> HIDE DEF A, pick
      <4> QED BY <3>1
    <3> HIDE DEF A, pick, step
    <3> QED BY <2>2, <3>1, <3>2, <3>3
  <2> QED BY <2>1, <2>2
<1>5. g = Body(g)
  <2>1. \A T \in SUBSET S : g[T] = Body(g)[T]
    BY <1>4
  <2>2. DOMAIN g = SUBSET S /\ g = [T \in SUBSET S |-> g[T]]
    BY <1>3
  <2>3. Body(g) = [T \in SUBSET S |-> Body(g)[T]]
    OBVIOUS
  <2> HIDE DEF Body
  <2> QED BY <2>1, <2>2, <2>3
<1>6. iter = Body(iter)
  <2> HIDE DEF Body
  <2> QED BY <1>5
<1>7. VectorSum(v, S, R) = iter[S]
  BY DEF VectorSum, FoldSet, MapThenFoldSet
<1> HIDE DEF iter
<1>8. \A T \in SUBSET S : iter[T] = Body(iter)[T]
  BY <1>6
<1>9. iter \in [SUBSET S -> A]
  <2> DEFINE Q == { T \in SUBSET S : iter[T] \in A }
  <2>1. ASSUME NEW T \in SUBSET S, \A x \in T : T \ {x} \in Q
        PROVE  iter[T] \in A
    <3>1. CASE T = {}
      <4>1. iter[T] = zero
        BY <1>8, <3>1
      <4> HIDE DEF A, zero
      <4> QED BY <1>2, <4>1
    <3>2. CASE T # {}
      <4>1. PICK x \in T : x = CHOOSE y \in T : TRUE
        BY <3>2
      <4>2. iter[T] = [r \in R |-> v[x][r] + iter[T \ {x}][r]]
        BY <1>8, <3>2, <4>1
      <4>3. iter[T \ {x}] \in A /\ v[x] \in A
        BY <2>1, <4>1 DEF VectorsFor
      <4>4. ASSUME NEW r \in R PROVE v[x][r] + iter[T \ {x}][r] \in Int
        <5>1. v[x][r] \in Int
          BY <4>3
        <5>2. iter[T \ {x}][r] \in Int
          BY <4>3
        <5> QED BY <5>1, <5>2
      <4> QED BY <4>2, <4>4
    <3> QED BY <3>1, <3>2
  <2>2. SUBSET S \subseteq Q
    <3>1. \A T \in SUBSET S : (\A x \in T : T \ {x} \in Q) => T \in Q
      BY <2>1
    <3> HIDE DEF Q
    <3> QED BY <3>1, SubsetInduction
  <2>3. DOMAIN iter = SUBSET S /\ iter = [T \in SUBSET S |-> iter[T]]
    BY <1>6
  <2> HIDE DEF A
  <2> QED BY <2>2, <2>3
<1>10. SumsTo(iter, v, S, R)
  <2>1. \A r \in R : iter[{}][r] = 0
    BY <1>8
  <2>2. ASSUME NEW T \in SUBSET S, T # {}, NEW r \in R
        PROVE  iter[T][r] = v[pick[T]][r] + iter[T \ {pick[T]}][r]
    <3>1. iter[T] = Body(iter)[T] /\ pick[T] = CHOOSE x \in T : TRUE
      BY <1>8
    <3> HIDE DEF pick
    <3> QED BY <2>2, <3>1
  <2> HIDE DEF pick
  <2>3. AddsInOrder(iter, v, S, R, pick)
    BY <1>9, <2>1, <2>2 DEF AddsInOrder
  <2> QED BY <1>1, <2>3, AnyOrder
<1> QED BY <1>7, <1>10

\* Sums of vectors that agree agree.
LEMMA VectorSumsAgree ==
    ASSUME NEW S, IsFiniteSet(S), NEW U, S \subseteq U, NEW R, NEW v, NEW w, NEW g, NEW h,
           SumsTo(g, v, S, R), SumsTo(h, w, U, R), \A x \in S : v[x] = w[x]
    PROVE  \A T \in SUBSET S : g[T] = h[T]
<1> DEFINE Q == { T \in SUBSET S : g[T] = h[T] }
<1>1. ASSUME NEW T \in SUBSET S, \A x \in T : T \ {x} \in Q
      PROVE  g[T] = h[T]
  <2>1. g[T] \in [R -> Int] /\ h[T] \in [R -> Int]
    BY DEF SumsTo
  <2>2. ASSUME NEW r \in R PROVE g[T][r] = h[T][r]
    <3>1. CASE T = {}
      BY <3>1 DEF SumsTo
    <3>2. CASE T # {}
      <4>1. PICK x \in T : TRUE
        BY <3>2
      <4>2. T \in SUBSET U
        OBVIOUS
      <4>3. g[T][r] = v[x][r] + g[T \ {x}][r] /\ h[T][r] = w[x][r] + h[T \ {x}][r]
        BY <4>1, <4>2 DEF SumsTo
      <4> QED BY <1>1, <4>1, <4>3
    <3> QED BY <3>1, <3>2
  <2> QED BY <2>1, <2>2
<1>2. SUBSET S \subseteq Q
  <2>1. \A T \in SUBSET S : (\A x \in T : T \ {x} \in Q) => T \in Q
    BY <1>1
  <2> HIDE DEF Q
  <2> QED BY <2>1, SubsetInduction
<1> QED BY <1>2

\* The function of all partial sums over U has VectorSum's values.
LEMMA PartialSums ==
    ASSUME NEW U, IsFiniteSet(U), NEW R, NEW v, VectorsFor(v, U, R)
    PROVE  \E g : /\ SumsTo(g, v, U, R)
                  /\ \A S \in SUBSET U : VectorSum(v, S, R) = g[S]
<1>1. PICK g : SumsTo(g, v, U, R)
  BY VectorSumUnfolds
<1>2. ASSUME NEW S \in SUBSET U PROVE VectorSum(v, S, R) = g[S]
  <2>1. IsFiniteSet(S) /\ VectorsFor(v, S, R)
    BY FS_Subset DEF VectorsFor
  <2>2. PICK h : SumsTo(h, v, S, R) /\ VectorSum(v, S, R) = h[S]
    BY <2>1, VectorSumUnfolds
  <2>3. \A T \in SUBSET S : h[T] = g[T]
    BY <1>1, <2>1, <2>2, VectorSumsAgree
  <2> QED BY <2>2, <2>3
<1> QED BY <1>1, <1>2

\* A sum depends on the vectors of its own set only.
LEMMA VectorSumOf ==
    ASSUME NEW S, IsFiniteSet(S), NEW R, NEW v, NEW w,
           VectorsFor(v, S, R), VectorsFor(w, S, R), \A x \in S : v[x] = w[x]
    PROVE  VectorSum(v, S, R) = VectorSum(w, S, R)
<1>1. PICK g : SumsTo(g, v, S, R) /\ VectorSum(v, S, R) = g[S]
  BY VectorSumUnfolds
<1>2. PICK h : SumsTo(h, w, S, R) /\ VectorSum(w, S, R) = h[S]
  BY VectorSumUnfolds
<1>3. \A T \in SUBSET S : g[T] = h[T]
  BY <1>1, <1>2, VectorSumsAgree
<1> QED BY <1>1, <1>2, <1>3

\* What is left of a sum without some members.
LEMMA SumWithout ==
    ASSUME NEW S, IsFiniteSet(S), NEW R, NEW v, VectorsFor(v, S, R),
           NEW g, SumsTo(g, v, S, R)
    PROVE  \A T \in SUBSET S : \A r \in R : g[S \ T][r] = g[S][r] - g[T][r]
<1> DEFINE Q == { T \in SUBSET S : \A r \in R : g[S \ T][r] = g[S][r] - g[T][r] }
<1>1. \A T \in SUBSET S : \A r \in R : g[T][r] \in Int
  BY DEF SumsTo
<1>2. ASSUME NEW T \in SUBSET S, \A x \in T : T \ {x} \in Q, NEW r \in R
      PROVE  g[S \ T][r] = g[S][r] - g[T][r]
  <2>1. CASE T = {}
    <3> g[{}][r] = 0 /\ S \ T = S /\ g[S][r] \in Int
      BY <1>1, <2>1 DEF SumsTo
    <3> QED BY <2>1
  <2>2. CASE T # {}
    <3>1. PICK x \in T : TRUE
      BY <2>2
    <3>2. g[T][r] = v[x][r] + g[T \ {x}][r]
      BY <3>1 DEF SumsTo
    <3>3. g[S \ (T \ {x})][r] = v[x][r] + g[S \ T][r]
      <4> DEFINE W == S \ (T \ {x})
      <4>1. W \in SUBSET S /\ x \in W /\ W \ {x} = S \ T
        BY <3>1
      <4>2. g[W][r] = v[x][r] + g[W \ {x}][r]
        <5> HIDE DEF W
        <5> QED BY <4>1 DEF SumsTo
      <4> QED BY <4>1, <4>2
    <3>4. g[S \ (T \ {x})][r] = g[S][r] - g[T \ {x}][r]
      BY <1>2, <3>1
    <3>5. v[x][r] \in Int
      BY <3>1 DEF VectorsFor
    <3>6. g[S][r] \in Int /\ g[T][r] \in Int /\ g[T \ {x}][r] \in Int /\ g[S \ T][r] \in Int
      BY <1>1
    <3> QED BY <3>2, <3>3, <3>4, <3>5, <3>6
  <2> QED BY <2>1, <2>2
<1>3. SUBSET S \subseteq Q
  <2>1. \A T \in SUBSET S : (\A x \in T : T \ {x} \in Q) => T \in Q
    BY <1>2
  <2> HIDE DEF Q
  <2> QED BY <2>1, SubsetInduction
<1> QED BY <1>3

-----------------------------------------------------------------------------
(* A finite set of numbers in ascending order *)

Ascending(s) == \A i, j \in DOMAIN s : i < j => s[i] < s[j]

\* A finite set of numbers that is not empty has a greatest member.
LEMMA GreatestNumber ==
    ASSUME NEW S \in SUBSET Nat, IsFiniteSet(S)
    PROVE  \A T \in SUBSET S : T # {} => \E x \in T : \A y \in T : y <= x
<1> DEFINE Q == { T \in SUBSET S : T # {} => \E x \in T : \A y \in T : y <= x }
<1>1. ASSUME NEW T \in SUBSET S, \A x \in T : T \ {x} \in Q, T # {}
      PROVE  \E x \in T : \A y \in T : y <= x
  <2>1. PICK x \in T : TRUE
    BY <1>1
  <2>2. CASE T \ {x} = {}
    <3>1. \A y \in T : y = x
      BY <2>2
    <3>2. x \in Nat
      OBVIOUS
    <3> QED BY <2>1, <3>1, <3>2
  <2>3. CASE T \ {x} # {}
    <3>1. PICK z \in T \ {x} : \A y \in T \ {x} : y <= z
      BY <1>1, <2>1, <2>3
    <3>2. x \in Nat /\ z \in Nat
      OBVIOUS
    <3>3. CASE x <= z
      BY <3>1, <3>3
    <3>4. CASE z < x
      <4>1. \A y \in T : y \in Nat
        OBVIOUS
      <4> QED BY <3>1, <3>2, <3>4, <4>1
    <3> QED BY <3>2, <3>3, <3>4
  <2> QED BY <2>2, <2>3
<1>2. SUBSET S \subseteq Q
  <2>1. \A T \in SUBSET S : (\A x \in T : T \ {x} \in Q) => T \in Q
    BY <1>1
  <2> HIDE DEF Q
  <2> QED BY <2>1, SubsetInduction
<1> QED BY <1>2

\* It can be listed in ascending order.
LEMMA AscendingExists ==
    ASSUME NEW S \in SUBSET Nat, IsFiniteSet(S)
    PROVE  \E s \in SetToSeqs(S) : Ascending(s)
<1> DEFINE Q == { T \in SUBSET S : \E s \in SetToSeqs(T) : Ascending(s) }
<1>1. ASSUME NEW T \in SUBSET S, \A x \in T : T \ {x} \in Q
      PROVE  \E s \in SetToSeqs(T) : Ascending(s)
  <2>1. CASE T = {}
    <3>1. Cardinality(T) = 0
      BY <2>1, FS_EmptySet
    <3> DEFINE e == [i \in {} |-> 0]
    <3>2. 1 .. 0 = {} /\ e \in [{} -> T] /\ DOMAIN e = {}
      OBVIOUS
    <3> HIDE DEF e
    <3>3. e \in SetToSeqs(T)
      BY <3>1, <3>2 DEF SetToSeqs
    <3>4. Ascending(e)
      BY <3>2 DEF Ascending
    <3> QED BY <3>3, <3>4
  <2>2. CASE T # {}
    <3>1. PICK x \in T : \A y \in T : y <= x
      BY <2>2, GreatestNumber
    <3> DEFINE k == Cardinality(T)
    <3>2. k \in Nat /\ k > 0 /\ Cardinality(T \ {x}) = k - 1
      <4>1. IsFiniteSet(T)
        BY FS_Subset
      <4>2. k \in Nat /\ k # 0
        BY <2>2, <4>1, FS_CardinalityType, FS_EmptySet
      <4>3. Cardinality(T \ {x}) = k - 1
        BY <3>1, <4>1, FS_RemoveElement
      <4> HIDE DEF k
      <4> QED BY <4>2, <4>3
    <3> HIDE DEF k
    <3>3. PICK s \in SetToSeqs(T \ {x}) : Ascending(s)
      BY <1>1
    <3>4. s \in [1 .. k - 1 -> T \ {x}] /\ \A i, j \in 1 .. k - 1 : i # j => s[i] # s[j]
      BY <3>2, <3>3 DEF SetToSeqs
    <3>5. \A i, j \in 1 .. k - 1 : i < j => s[i] < s[j]
      BY <3>3, <3>4 DEF Ascending
    <3> DEFINE t == [i \in 1 .. k |-> IF i = k THEN x ELSE s[i]]
    <3>6. ASSUME NEW i \in 1 .. k, i # k
          PROVE  i \in 1 .. k - 1 /\ t[i] = s[i] /\ s[i] \in T /\ s[i] # x /\ s[i] < x
      <4>1. i \in 1 .. k - 1
        BY <3>2, <3>6
      <4>2. s[i] \in T \ {x}
        BY <3>4, <4>1
      <4>3. s[i] <= x /\ s[i] \in Nat /\ x \in Nat
        BY <3>1, <4>2
      <4> QED BY <3>6, <4>1, <4>2, <4>3
    <3>7. t[k] = x
      BY <3>2
    <3>8. t \in [1 .. k -> T]
      BY <3>1, <3>6
    <3>9. \A i, j \in 1 .. k : i < j => t[i] < t[j]
      <4> SUFFICES ASSUME NEW i \in 1 .. k, NEW j \in 1 .. k, i < j PROVE t[i] < t[j]
        OBVIOUS
      <4>1. i # k
        BY <3>2
      <4>2. CASE j = k
        <5> HIDE DEF t
        <5> QED BY <3>6, <3>7, <4>1, <4>2
      <4>3. CASE j # k
        <5> HIDE DEF t
        <5> QED BY <3>5, <3>6, <4>1, <4>3
      <4> QED BY <4>2, <4>3
    <3>10. \A i, j \in 1 .. k : i # j => t[i] # t[j]
      <4>1. \A i \in 1 .. k : t[i] \in Nat
        BY <3>8
      <4> HIDE DEF t
      <4> QED BY <3>2, <3>9, <4>1
    <3>11. t \in SetToSeqs(T)
      <4> HIDE DEF t
      <4> QED BY <3>8, <3>10 DEF SetToSeqs, k
    <3>12. Ascending(t)
      BY <3>9 DEF Ascending
    <3> QED BY <3>11, <3>12
  <2> QED BY <2>1, <2>2
<1>2. SUBSET S \subseteq Q
  <2>1. \A T \in SUBSET S : (\A x \in T : T \ {x} \in Q) => T \in Q
    BY <1>1
  <2> HIDE DEF Q
  <2> QED BY <2>1, SubsetInduction
<1> QED BY <1>2

\* A list of a finite set names each member once.
LEMMA ListNamesAll ==
    ASSUME NEW S, IsFiniteSet(S), NEW s \in SetToSeqs(S)
    PROVE  /\ Cardinality(S) \in Nat
           /\ s \in [1 .. Cardinality(S) -> S]
           /\ \A i, j \in 1 .. Cardinality(S) : s[i] = s[j] => i = j
           /\ \A x \in S : \E i \in 1 .. Cardinality(S) : s[i] = x
<1> DEFINE k == Cardinality(S)
<1>1. k \in Nat
  BY FS_CardinalityType
<1>2. s \in [1 .. k -> S] /\ \A i, j \in 1 .. k : i # j => s[i] # s[j]
  BY DEF SetToSeqs
<1>3. IsFiniteSet(1 .. k) /\ Cardinality(1 .. k) = k
  <2> HIDE DEF k
  <2> QED BY <1>1, FS_Interval
<1>4. s \in Injection(1 .. k, S)
  <2> HIDE DEF k
  <2> QED BY <1>2 DEF Injection, IsInjective
<1>5. s \in Surjection(1 .. k, S)
  BY <1>3, <1>4, FS_Injection
<1>6. \A x \in S : \E i \in 1 .. k : s[i] = x
  <2> HIDE DEF k
  <2> QED BY <1>5 DEF Surjection
<1> QED BY <1>1, <1>2, <1>6
=============================================================================
