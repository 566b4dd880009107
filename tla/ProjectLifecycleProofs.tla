----------------------- MODULE ProjectLifecycleProofs -----------------------
(***************************************************************************)
(* Proofs about the composition of ledger, autosave session and quiescing  *)
(* thread, for any resources, holders, requests, bounds and faults.  First *)
(* the ledger alone: its counters are exact, what it admits fits, what it  *)
(* refuses would not, and it evicts nothing in vain.  Then the autosave    *)
(* session alone: what was reported as saved survives, and the recovery    *)
(* file only goes back after a failed save.  Then the whole: what a report *)
(* called durable survives and nothing is active after it; the invariants  *)
(* of ledger and session carry over.                                       *)
(***************************************************************************)
EXTENDS ProjectLifecycle, FoldLemmas, FiniteSetTheorems, TLAPS

-----------------------------------------------------------------------------
(* The ledger: amounts and sums *)

Amount == [Resource -> Int]

\* Reported allocations, each resident in some of the resources.
IsAllocations(al) ==
    /\ DOMAIN al \subseteq Allocation
    /\ \A a \in DOMAIN al : al[a].roles \in SUBSET Resource /\ al[a].held \in BOOLEAN

LedgerTypes ==
    /\ IsAllocations(allocations)
    /\ reserved \in Amount
    /\ active \in Int
    /\ callback \in BOOLEAN
    /\ reservation \in [Holder -> [Resource -> Nat] \cup {Vacant}]

\* The usage of every allocation in al, and its sum over ids.
UsagesIn(al) ==
    [a \in DOMAIN al |-> [r \in Resource |-> IF r \in al[a].roles THEN Bytes(a) ELSE 0]]

SumIn(al, ids) == Total(UsagesIn(al), ids)

\* Amounts are added up as vectors.
LEMMA TotalIsVectorSum ==
    ASSUME NEW v, NEW ids
    PROVE  Total(v, ids) = VectorSum(v, ids, Resource)
BY DEF Total, VectorSum, Plus, Nothing

\* The ledger's sums are of the allocations it has.
LEMMA SumOverIsSumIn ==
    /\ \A ids : SumOver(ids) = SumIn(allocations, ids)
    /\ Base = Plus(reserved, SumIn(allocations, DOMAIN allocations))
    /\ Base' = Plus(reserved', SumIn(allocations', DOMAIN allocations'))
BY DEF SumOver, SumIn, UsagesIn, Usage, Base

\* An allocation counts for a natural number of bytes in each resource.
LEMMA UsageTypes ==
    ASSUME NEW al, IsAllocations(al)
    PROVE  /\ IsFiniteSet(DOMAIN al)
           /\ \A a \in DOMAIN al : UsagesIn(al)[a] \in [Resource -> Nat]
           /\ \A S \in SUBSET DOMAIN al : VectorsFor(UsagesIn(al), S, Resource)
<1>1. IsFiniteSet(DOMAIN al)
  BY LedgerAssumption, FS_Subset DEF IsAllocations
<1>2. ASSUME NEW a \in DOMAIN al
      PROVE  UsagesIn(al)[a] \in [Resource -> Nat]
  <2>1. Bytes(a) \in Nat
    BY LedgerAssumption DEF IsAllocations
  <2> QED BY <2>1 DEF UsagesIn
<1>3. \A a \in DOMAIN al : UsagesIn(al)[a] \in [Resource -> Int]
  BY <1>2
<1> QED BY <1>1, <1>2, <1>3 DEF VectorsFor

\* All partial sums of the allocations' usage.
LEMMA UsageSums ==
    ASSUME NEW al, IsAllocations(al)
    PROVE  \E g : /\ SumsTo(g, UsagesIn(al), DOMAIN al, Resource)
                  /\ \A S \in SUBSET DOMAIN al : SumIn(al, S) = g[S]
<1>1. IsFiniteSet(DOMAIN al) /\ VectorsFor(UsagesIn(al), DOMAIN al, Resource)
  BY UsageTypes
<1>2. PICK g : /\ SumsTo(g, UsagesIn(al), DOMAIN al, Resource)
               /\ \A S \in SUBSET DOMAIN al : VectorSum(UsagesIn(al), S, Resource) = g[S]
  BY <1>1, PartialSums
<1> QED BY <1>2, TotalIsVectorSum DEF SumIn

\* Partial sums are amounts.
LEMMA SumTypes ==
    ASSUME NEW al, IsAllocations(al)
    PROVE  \A S \in SUBSET DOMAIN al : SumIn(al, S) \in Amount
<1>1. PICK g : /\ SumsTo(g, UsagesIn(al), DOMAIN al, Resource)
               /\ \A S \in SUBSET DOMAIN al : SumIn(al, S) = g[S]
  BY UsageSums
<1> QED BY <1>1 DEF SumsTo, Amount

\* Sums depend on the allocations summed up only.
LEMMA SumOfSame ==
    ASSUME NEW al, NEW left, NEW ids, IsFiniteSet(ids),
           VectorsFor(UsagesIn(al), ids, Resource), VectorsFor(UsagesIn(left), ids, Resource),
           \A a \in ids : UsagesIn(left)[a] = UsagesIn(al)[a]
    PROVE  SumIn(left, ids) = SumIn(al, ids)
<1>1. VectorSum(UsagesIn(left), ids, Resource) = VectorSum(UsagesIn(al), ids, Resource)
  BY VectorSumOf
<1> QED BY <1>1, TotalIsVectorSum DEF SumIn

\* What the ledger has without E.
LEMMA SumOfRemaining ==
    ASSUME NEW al, IsAllocations(al), NEW E \in SUBSET DOMAIN al,
           NEW left, DOMAIN left = DOMAIN al \ E, \A a \in DOMAIN left : left[a] = al[a]
    PROVE  /\ IsAllocations(left)
           /\ \A r \in Resource :
                 SumIn(left, DOMAIN left)[r] = SumIn(al, DOMAIN al)[r] - SumIn(al, E)[r]
<1>1. IsAllocations(left)
  BY DEF IsAllocations
<1>2. PICK g : /\ SumsTo(g, UsagesIn(al), DOMAIN al, Resource)
               /\ \A S \in SUBSET DOMAIN al : SumIn(al, S) = g[S]
  BY UsageSums
<1>3. \A a \in DOMAIN left : UsagesIn(left)[a] = UsagesIn(al)[a]
  BY DEF UsagesIn
<1>4. IsFiniteSet(DOMAIN al) /\ IsFiniteSet(DOMAIN left)
      /\ VectorsFor(UsagesIn(al), DOMAIN al, Resource)
      /\ VectorsFor(UsagesIn(al), DOMAIN left, Resource)
      /\ VectorsFor(UsagesIn(left), DOMAIN left, Resource)
  BY <1>1, UsageTypes
<1>5. SumIn(left, DOMAIN left) = SumIn(al, DOMAIN left)
  BY <1>3, <1>4, SumOfSame
<1>6. \A r \in Resource : g[DOMAIN al \ E][r] = g[DOMAIN al][r] - g[E][r]
  BY <1>2, <1>4, SumWithout
<1>7. /\ SumIn(left, DOMAIN left) = g[DOMAIN al \ E]
      /\ SumIn(al, DOMAIN al) = g[DOMAIN al] /\ SumIn(al, E) = g[E]
  BY <1>2, <1>5
<1> QED BY <1>1, <1>6, <1>7

-----------------------------------------------------------------------------
(* The ledger: choosing what to evict *)

\* One more allocation adds its own usage to a sum.
LEMMA SumOneMore ==
    ASSUME LedgerTypes, NEW S \in SUBSET DOMAIN allocations,
           NEW a \in DOMAIN allocations, a \notin S
    PROVE  /\ Usage(a) \in [Resource -> Nat]
           /\ SumOver(S) \in Amount /\ SumOver(S \cup {a}) \in Amount
           /\ \A r \in Resource : SumOver(S \cup {a})[r] = SumOver(S)[r] + Usage(a)[r]
<1>1. IsAllocations(allocations)
  BY DEF LedgerTypes
<1>2. PICK g : /\ SumsTo(g, UsagesIn(allocations), DOMAIN allocations, Resource)
               /\ \A T \in SUBSET DOMAIN allocations : SumIn(allocations, T) = g[T]
  BY <1>1, UsageSums
<1>3. UsagesIn(allocations)[a] = Usage(a)
  BY DEF UsagesIn, Usage
<1>4. Usage(a) \in [Resource -> Nat]
  BY <1>1, <1>3, UsageTypes
<1>5. S \cup {a} \in SUBSET DOMAIN allocations /\ a \in S \cup {a} /\ (S \cup {a}) \ {a} = S
  OBVIOUS
<1>6. SumOver(S) = g[S] /\ SumOver(S \cup {a}) = g[S \cup {a}]
  BY <1>2, <1>5, SumOverIsSumIn
<1>7. g[S] \in Amount /\ g[S \cup {a}] \in Amount
  BY <1>2, <1>5 DEF SumsTo, Amount
<1>8. ASSUME NEW r \in Resource
      PROVE  g[S \cup {a}][r] = g[S][r] + Usage(a)[r]
  <2>1. SumsTo(g, UsagesIn(allocations), DOMAIN allocations, Resource)
    BY <1>2
  <2>2. g[S \cup {a}][r] = UsagesIn(allocations)[a][r] + g[(S \cup {a}) \ {a}][r]
    BY <1>5, <2>1 DEF SumsTo
  <2>3. g[S][r] \in Int /\ Usage(a)[r] \in Int
    BY <1>4, <1>7 DEF Amount
  <2>4. g[(S \cup {a}) \ {a}] = g[S]
    BY <1>5
  <2>5. g[S \cup {a}][r] = Usage(a)[r] + g[S][r]
    BY <1>3, <2>2, <2>4
  <2> QED BY <2>3, <2>5
<1> QED BY <1>4, <1>6, <1>7, <1>8

\* The sum over nothing.
LEMMA SumOfNone ==
    ASSUME LedgerTypes
    PROVE  SumOver({}) \in Amount /\ \A r \in Resource : SumOver({})[r] = 0
<1>1. IsAllocations(allocations)
  BY DEF LedgerTypes
<1>2. PICK g : /\ SumsTo(g, UsagesIn(allocations), DOMAIN allocations, Resource)
               /\ \A T \in SUBSET DOMAIN allocations : SumIn(allocations, T) = g[T]
  BY <1>1, UsageSums
<1>3. SumOver({}) = g[{}]
  BY <1>2, SumOverIsSumIn
<1>4. g[{}] \in Amount /\ \A r \in Resource : g[{}][r] = 0
  BY <1>2 DEF SumsTo, Amount
<1> QED BY <1>3, <1>4

\* The candidates are the evictable allocations, each once.
LEMMA CandidatesAreAll ==
    ASSUME LedgerTypes
    PROVE  \E n \in Nat :
              /\ Candidates \in [1 .. n -> Evictable]
              /\ \A i, j \in 1 .. n : Candidates[i] = Candidates[j] => i = j
              /\ \A a \in Evictable : \E i \in 1 .. n : Candidates[i] = a
<1>1. Evictable \in SUBSET Nat /\ IsFiniteSet(Evictable)
  <2>1. Evictable \subseteq Allocation
    BY DEF Evictable, LedgerTypes, IsAllocations
  <2> QED BY <2>1, LedgerAssumption, FS_Subset
<1>2. Candidates = CHOOSE s \in SetToSeqs(Evictable) : Ascending(s)
  BY DEF Candidates, Ascending
<1>3. Candidates \in SetToSeqs(Evictable)
  BY <1>1, <1>2, AscendingExists
<1> QED BY <1>1, <1>3, ListNamesAll

\* What was given up so far, and what is taken without it.
Given == [base : Amount, evicted : Seq(Allocation)]

Start(base) == [base |-> base, evicted |-> <<>>]

\* After the candidates in seen: what is taken is what was taken without the
\* evictions; the last of them was needed; where it is still short nothing
\* that helps was passed over; and nothing is evicted that need not be.
AfterSeen(acc, seen, needed, limits) ==
    /\ acc \in Given
    /\ ToSet(acc.evicted) \subseteq seen
    /\ \A r \in Resource : acc.base[r] = Base[r] - SumOver(ToSet(acc.evicted))[r]
    /\ acc.evicted # <<>> =>
          ~Fits(Plus(BaseWithout(ToSet(acc.evicted) \ {Last(acc.evicted)}), needed), limits)
    /\ \A r \in Resource : acc.base[r] + needed[r] > limits[r] =>
          acc.base[r] = Base[r] - SumOver(seen)[r]
    /\ Fits(Plus(Base, needed), limits) => acc = Start(Base)

\* Amounts that do not fit are short in some resource.
LEMMA Short ==
    ASSUME NEW u, NEW needed, NEW limits
    PROVE  Fits(Plus(u, needed), limits)
              <=> \A r \in Resource : u[r] + needed[r] <= limits[r]
BY DEF Fits, Plus

\* Members of an appended sequence.
LEMMA AppendMembers ==
    ASSUME NEW S, NEW s \in Seq(S), NEW e \in S
    PROVE  /\ Append(s, e) \in Seq(S) /\ Append(s, e) # <<>>
           /\ ToSet(Append(s, e)) = ToSet(s) \cup {e}
           /\ Last(Append(s, e)) = e
<1>1. /\ Append(s, e) \in Seq(S) /\ Append(s, e) # <<>>
      /\ Len(Append(s, e)) = Len(s) + 1
      /\ DOMAIN Append(s, e) = DOMAIN s \cup {Len(s) + 1}
      /\ Append(s, e)[Len(s) + 1] = e
      /\ \A i \in DOMAIN s : Append(s, e)[i] = s[i]
  OBVIOUS
<1>2. Last(Append(s, e)) = e
  BY <1>1 DEF Last
<1>3. ToSet(Append(s, e)) = ToSet(s) \cup {e}
  <2>1. ASSUME NEW x \in ToSet(Append(s, e)) PROVE x \in ToSet(s) \cup {e}
    BY <1>1 DEF ToSet
  <2>2. ASSUME NEW x \in ToSet(s) PROVE x \in ToSet(Append(s, e))
    <3>1. PICK i \in DOMAIN s : x = s[i]
      BY DEF ToSet
    <3>2. i \in DOMAIN Append(s, e) /\ Append(s, e)[i] = x
      BY <1>1, <3>1
    <3> HIDE DEF ToSet
    <3> QED BY <3>2 DEF ToSet
  <2>3. e \in ToSet(Append(s, e))
    <3>1. Len(s) + 1 \in DOMAIN Append(s, e)
      BY <1>1
    <3> QED BY <1>1, <3>1 DEF ToSet
  <2> QED BY <2>1, <2>2, <2>3
<1> QED BY <1>1, <1>2, <1>3

\* What is taken is an amount.
LEMMA BaseTypes ==
    ASSUME LedgerTypes
    PROVE  /\ Base \in Amount
           /\ \A S \in SUBSET DOMAIN allocations : SumOver(S) \in Amount
<1>1. IsAllocations(allocations) /\ reserved \in Amount
  BY DEF LedgerTypes
<1>2. \A S \in SUBSET DOMAIN allocations : SumOver(S) \in Amount
  BY <1>1, SumTypes, SumOverIsSumIn
<1>3. SumOver(DOMAIN allocations) \in Amount
  BY <1>2
<1> QED BY <1>1, <1>2, <1>3 DEF Base, Plus, Amount

\* One more candidate keeps what holds after those before it.
LEMMA GiveUpKeeps ==
    ASSUME LedgerTypes, NEW needed \in Amount, NEW limits \in Amount,
           NEW seen \in SUBSET Evictable, NEW a \in Evictable, a \notin seen,
           NEW acc, AfterSeen(acc, seen, needed, limits)
    PROVE  AfterSeen(GiveUp(acc, a, needed, limits), seen \cup {a}, needed, limits)
<1> DEFINE taken == GiveUp(acc, a, needed, limits)
           gone == ToSet(acc.evicted)
<1>1. /\ acc \in Given /\ acc.base \in Amount /\ acc.evicted \in Seq(Allocation)
      /\ gone \subseteq seen
  BY DEF AfterSeen, Given
<1>2. /\ a \in DOMAIN allocations /\ a \in Allocation
      /\ seen \in SUBSET DOMAIN allocations /\ gone \in SUBSET DOMAIN allocations
      /\ a \notin gone
  BY <1>1 DEF Evictable, LedgerTypes, IsAllocations
<1>3. /\ Usage(a) \in [Resource -> Nat]
      /\ SumOver(seen) \in Amount /\ SumOver(seen \cup {a}) \in Amount
      /\ SumOver(gone) \in Amount /\ SumOver(gone \cup {a}) \in Amount
      /\ \A r \in Resource : SumOver(seen \cup {a})[r] = SumOver(seen)[r] + Usage(a)[r]
      /\ \A r \in Resource : SumOver(gone \cup {a})[r] = SumOver(gone)[r] + Usage(a)[r]
  BY <1>2, SumOneMore
<1>4. Base \in Amount
  BY BaseTypes
<1>5. ASSUME NEW r \in Resource
      PROVE  /\ acc.base[r] \in Int /\ needed[r] \in Int /\ limits[r] \in Int
             /\ Base[r] \in Int /\ SumOver(seen)[r] \in Int /\ SumOver(gone)[r] \in Int
             /\ Usage(a)[r] \in Nat
             /\ acc.base[r] = Base[r] - SumOver(gone)[r]
             /\ acc.base[r] + needed[r] > limits[r] => acc.base[r] = Base[r] - SumOver(seen)[r]
  <2>1. acc.base[r] \in Int /\ needed[r] \in Int /\ limits[r] \in Int
    BY <1>1 DEF Amount
  <2>2. Base[r] \in Int /\ SumOver(seen)[r] \in Int /\ SumOver(gone)[r] \in Int
        /\ Usage(a)[r] \in Nat
    BY <1>3, <1>4 DEF Amount
  <2>3. /\ acc.base[r] = Base[r] - SumOver(gone)[r]
        /\ acc.base[r] + needed[r] > limits[r] => acc.base[r] = Base[r] - SumOver(seen)[r]
    BY DEF AfterSeen
  <2> QED BY <2>1, <2>2, <2>3
<1>6. /\ acc.evicted # <<>> =>
            ~Fits(Plus(BaseWithout(gone \ {Last(acc.evicted)}), needed), limits)
      /\ Fits(Plus(Base, needed), limits) => acc = Start(Base)
  BY DEF AfterSeen
<1>7. CASE Fits(Plus(acc.base, needed), limits)
  <2>1. taken = acc
    BY <1>7 DEF GiveUp
  <2>2. \A r \in Resource : ~(acc.base[r] + needed[r] > limits[r])
    BY <1>5, <1>7, Short
  <2>3. AfterSeen(acc, seen \cup {a}, needed, limits)
    <3> HIDE DEF taken
    <3> QED BY <1>1, <1>5, <1>6, <2>2 DEF AfterSeen
  <2> QED BY <2>1, <2>3
<1>8. CASE ~Fits(Plus(acc.base, needed), limits) /\ ~Relieves(acc.base, needed, Usage(a), limits)
  <2>1. taken = acc
    BY <1>8 DEF GiveUp
  <2>2. ASSUME NEW r \in Resource, acc.base[r] + needed[r] > limits[r]
        PROVE  acc.base[r] = Base[r] - SumOver(seen \cup {a})[r]
    <3>1. Usage(a)[r] = 0
      BY <1>8, <2>2 DEF Relieves
    <3>2. SumOver(seen \cup {a})[r] = SumOver(seen)[r] + Usage(a)[r]
      BY <1>3
    <3> HIDE DEF taken, gone
    <3> QED BY <1>5, <2>2, <3>1, <3>2
  <2>3. AfterSeen(acc, seen \cup {a}, needed, limits)
    BY <1>1, <1>5, <1>6, <2>2 DEF AfterSeen
  <2> QED BY <2>1, <2>3
<1>9. CASE ~Fits(Plus(acc.base, needed), limits) /\ Relieves(acc.base, needed, Usage(a), limits)
  <2> DEFINE less == Minus(acc.base, Usage(a))
             more == Append(acc.evicted, a)
  <2>1. taken = [base |-> less, evicted |-> more]
    BY <1>9 DEF GiveUp
  <2>2. /\ more \in Seq(Allocation) /\ more # <<>>
        /\ ToSet(more) = gone \cup {a} /\ Last(more) = a
    BY <1>1, <1>2, AppendMembers
  <2>3. ASSUME NEW r \in Resource
        PROVE  less[r] = acc.base[r] - Usage(a)[r] /\ less[r] \in Int
    BY <1>5 DEF Minus
  <2>4. less \in Amount
    <3>1. less = [r \in Resource |-> acc.base[r] - Usage(a)[r]]
      BY DEF Minus
    <3>2. \A r \in Resource : acc.base[r] - Usage(a)[r] \in Int
      BY <1>5
    <3> HIDE DEF less
    <3> QED BY <3>1, <3>2 DEF Amount
  <2>5. /\ taken \in Given /\ taken.base = less /\ taken.evicted = more
    <3> HIDE DEF less, more, taken
    <3> QED BY <2>1, <2>2, <2>4 DEF Given
  <2>6. ASSUME NEW r \in Resource
        PROVE  less[r] = Base[r] - SumOver(gone \cup {a})[r]
    <3>1. SumOver(gone \cup {a})[r] = SumOver(gone)[r] + Usage(a)[r]
      BY <1>3
    <3> HIDE DEF less, gone
    <3> QED BY <1>5, <2>3, <3>1
  <2>7. ASSUME NEW r \in Resource, less[r] + needed[r] > limits[r]
        PROVE  less[r] = Base[r] - SumOver(seen \cup {a})[r]
    <3>1. SumOver(seen \cup {a})[r] = SumOver(seen)[r] + Usage(a)[r]
      BY <1>3
    <3>2. less[r] = acc.base[r] - Usage(a)[r]
      BY <2>3
    <3> HIDE DEF less, gone
    <3> QED BY <1>5, <2>7, <3>1, <3>2
  <2>8. ~Fits(Plus(BaseWithout((gone \cup {a}) \ {a}), needed), limits)
    <3>1. (gone \cup {a}) \ {a} = gone
      BY <1>2
    <3>2. \A r \in Resource : BaseWithout(gone)[r] = acc.base[r]
      BY <1>5 DEF BaseWithout, Minus
    <3>3. ~Fits(Plus(BaseWithout(gone), needed), limits)
      BY <1>9, <3>2, Short
    <3> HIDE DEF gone
    <3> QED BY <3>1, <3>3
  <2>9. ~Fits(Plus(Base, needed), limits)
    <3>1. ASSUME Fits(Plus(Base, needed), limits) PROVE FALSE
      <4>1. acc = Start(Base)
        BY <1>6, <3>1
      <4>2. acc.base = Base
        BY <4>1 DEF Start
      <4> QED BY <1>9, <3>1, <4>2
    <3> QED BY <3>1
  <2>10. /\ taken \in Given
         /\ ToSet(taken.evicted) \subseteq seen \cup {a}
         /\ \A r \in Resource : taken.base[r] = Base[r] - SumOver(ToSet(taken.evicted))[r]
         /\ ~Fits(Plus(BaseWithout(ToSet(taken.evicted) \ {Last(taken.evicted)}), needed), limits)
         /\ \A r \in Resource : taken.base[r] + needed[r] > limits[r] =>
               taken.base[r] = Base[r] - SumOver(seen \cup {a})[r]
    <3> HIDE DEF less, more, taken, gone
    <3>1. ToSet(taken.evicted) = gone \cup {a} /\ Last(taken.evicted) = a
      BY <2>2, <2>5
    <3>2. ToSet(taken.evicted) \ {Last(taken.evicted)} = (gone \cup {a}) \ {a}
      BY <3>1
    <3>3. ~Fits(Plus(BaseWithout(ToSet(taken.evicted) \ {Last(taken.evicted)}), needed), limits)
      BY <2>8, <3>2
    <3>4. \A r \in Resource : taken.base[r] = Base[r] - SumOver(ToSet(taken.evicted))[r]
      BY <2>5, <2>6, <3>1
    <3> QED BY <1>1, <2>5, <2>7, <3>1, <3>3, <3>4
  <2> HIDE DEF taken, gone, less, more
  <2>11. AfterSeen(taken, seen \cup {a}, needed, limits)
    BY <2>9, <2>10 DEF AfterSeen
  <2> QED BY <2>11 DEF taken
<1> HIDE DEF gone
<1> QED BY <1>7, <1>8, <1>9

\* p has what was given up after each of the n candidates.
Walks(p, n, needed, limits) ==
    /\ p[0] = Start(Base)
    /\ \A i \in 1 .. n : p[i] = GiveUp(p[i - 1], Candidates[i], needed, limits)

\* The fold over the candidates runs along them.
LEMMA WalkExists ==
    ASSUME LedgerTypes, NEW needed \in Amount, NEW limits \in Amount, NEW n \in Nat,
           Candidates \in [1 .. n -> Evictable]
    PROVE  \E p : Walks(p, n, needed, limits) /\ Evictions(Base, needed, limits) = p[n]
<1> DEFINE D == 1 .. n
           A == Given
           zero == Start(Base)
           pick == [d \in SUBSET D |-> Max(d)]
           step == [y \in D \X A |-> GiveUp(y[2], Candidates[y[1]], needed, limits)]
           Body(g) == [d \in SUBSET D |->
                         IF d = {} THEN zero
                         ELSE GiveUp(g[d \ {Max(d)}], Candidates[Max(d)], needed, limits)]
           iter == CHOOSE g : g = Body(g)
<1>1. IsFiniteSet(D) /\ Picks(pick, D)
  BY LargestIndex DEF Picks
<1>2. zero \in A
  BY BaseTypes DEF Start, Given
<1>3. ASSUME NEW i \in D, NEW acc \in Given
      PROVE  GiveUp(acc, Candidates[i], needed, limits) \in Given
  <2> DEFINE a == Candidates[i]
  <2>1. a \in DOMAIN allocations /\ a \in Allocation
    BY DEF Evictable, LedgerTypes, IsAllocations
  <2>2. Usage(a) \in [Resource -> Nat]
    <3>1. {} \in SUBSET DOMAIN allocations /\ a \notin {}
      OBVIOUS
    <3> HIDE DEF a
    <3> QED BY <2>1, <3>1, SumOneMore
  <2> HIDE DEF a
  <2>3. acc.base \in Amount /\ acc.evicted \in Seq(Allocation)
    BY <1>3 DEF Given
  <2>4. Minus(acc.base, Usage(a)) \in Amount
    <3>1. \A r \in Resource : acc.base[r] \in Int /\ Usage(a)[r] \in Int
      BY <2>2, <2>3 DEF Amount
    <3> QED BY <3>1 DEF Minus, Amount
  <2>5. Append(acc.evicted, a) \in Seq(Allocation)
    BY <2>1, <2>3
  <2>6. GiveUp(acc, a, needed, limits) \in Given
    BY <1>3, <2>4, <2>5 DEF GiveUp, Given
  <2> QED BY <2>6 DEF a
<1>4. step \in [D \X A -> A]
  <2>1. ASSUME NEW y \in D \X A
        PROVE  GiveUp(y[2], Candidates[y[1]], needed, limits) \in A
    <3>1. y[1] \in D /\ y[2] \in Given
      OBVIOUS
    <3> HIDE DEF D
    <3> QED BY <1>3, <3>1
  <2> HIDE DEF D, A
  <2> QED BY <2>1
<1>5. PICK g : g \in [SUBSET D -> A] /\ UnfoldsTo(g, D, zero, pick, step)
  <2> HIDE DEF D, A, zero, pick, step
  <2> QED BY <1>1, <1>2, <1>4, RecursionOverSubsets
<1>6. ASSUME NEW d \in SUBSET D
      PROVE  g[d] = Body(g)[d]
  <2>1. CASE d = {}
    <3> HIDE DEF A, zero, pick, step, D
    <3> QED BY <1>5, <2>1 DEF UnfoldsTo
  <2>2. CASE d # {}
    <3>1. pick[d] \in D /\ g[d \ {pick[d]}] \in A /\ pick[d] = Max(d)
      <4>1. pick[d] \in d
        BY <1>1, <2>2 DEF Picks
      <4>2. d \ {pick[d]} \in SUBSET D
        BY <4>1
      <4>3. g[d \ {pick[d]}] \in A
        <5> HIDE DEF A, pick, D
        <5> QED BY <1>5, <4>2
      <4>4. pick[d] = Max(d)
        <5> HIDE DEF D
        <5> QED OBVIOUS
      <4> QED BY <4>1, <4>3, <4>4
    <3>2. g[d] = step[<<pick[d], g[d \ {pick[d]}]>>]
      <4> HIDE DEF A, zero, pick, step, D
      <4> QED BY <1>5, <2>2 DEF UnfoldsTo
    <3>3. step[<<pick[d], g[d \ {pick[d]}]>>]
             = GiveUp(g[d \ {pick[d]}], Candidates[pick[d]], needed, limits)
      <4> HIDE DEF A, pick, D
      <4> QED BY <3>1
    <3> HIDE DEF A, pick, step, D
    <3> QED BY <2>2, <3>1, <3>2, <3>3
  <2> QED BY <2>1, <2>2
<1>7. g = Body(g)
  <2>1. \A d \in SUBSET D : g[d] = Body(g)[d]
    BY <1>6
  <2>2. DOMAIN g = SUBSET D /\ g = [d \in SUBSET D |-> g[d]]
    <3> HIDE DEF A, D
    <3> QED BY <1>5
  <2>3. Body(g) = [d \in SUBSET D |-> Body(g)[d]]
    <3> HIDE DEF D
    <3> QED OBVIOUS
  <2> HIDE DEF Body, D
  <2> QED BY <2>1, <2>2, <2>3
<1>8. iter = Body(iter)
  <2> HIDE DEF Body
  <2> QED BY <1>7
<1>9. Evictions(Base, needed, limits) = iter[D]
  <2>1. DOMAIN Candidates = D
    OBVIOUS
  <2> QED BY <2>1 DEF Evictions, FoldLeft, MapThenFoldSet, Start
<1> DEFINE p == [i \in 0 .. n |-> iter[1 .. i]]
<1> HIDE DEF iter
<1>10. p[0] = Start(Base)
  <2>1. 1 .. 0 = {} /\ 0 \in 0 .. n /\ {} \in SUBSET D
    OBVIOUS
  <2>2. iter[{}] = Body(iter)[{}]
    BY <1>8
  <2>3. iter[{}] = zero
    <3> HIDE DEF zero, D
    <3> QED BY <2>1, <2>2
  <2> QED BY <2>1, <2>3
<1>11. ASSUME NEW i \in 1 .. n
       PROVE  p[i] = GiveUp(p[i - 1], Candidates[i], needed, limits)
  <2>1. Max(1 .. i) = i /\ (1 .. i) \ {i} = 1 .. (i - 1)
    BY LargestIndex
  <2>2. 1 .. i \in SUBSET D /\ 1 .. i # {} /\ i \in 0 .. n /\ i - 1 \in 0 .. n
    OBVIOUS
  <2>3. iter[1 .. i] = Body(iter)[1 .. i]
    BY <1>8
  <2>4. Body(iter)[1 .. i]
          = GiveUp(iter[(1 .. i) \ {Max(1 .. i)}], Candidates[Max(1 .. i)], needed, limits)
    <3> DEFINE u == 1 .. i
    <3>1. u \in SUBSET D /\ u # {}
      BY <2>2
    <3>2. Body(iter)[u] = GiveUp(iter[u \ {Max(u)}], Candidates[Max(u)], needed, limits)
      <4> HIDE DEF u, D, zero
      <4> QED BY <3>1
    <3> QED BY <3>2
  <2>5. p[i] = iter[1 .. i] /\ p[i - 1] = iter[1 .. (i - 1)]
    BY <2>2
  <2> HIDE DEF Body, p
  <2> QED BY <2>1, <2>3, <2>4, <2>5
<1>12. p[n] = iter[D]
  <2>1. n \in 0 .. n
    OBVIOUS
  <2> QED BY <2>1
<1> HIDE DEF p
<1>13. Walks(p, n, needed, limits)
  BY <1>10, <1>11 DEF Walks
<1> QED BY <1>9, <1>12, <1>13

\* What evictions make of what is taken: everything that is given up is
\* evictable and no longer counted, the last of it was needed, and what does
\* not fit even now does not fit without every evictable allocation.
Evicts(choice, needed, limits) ==
    /\ choice.base \in Amount /\ choice.evicted \in Seq(Allocation)
    /\ ToSet(choice.evicted) \subseteq Evictable
    /\ \A r \in Resource : choice.base[r] = Base[r] - SumOver(ToSet(choice.evicted))[r]
    /\ choice.evicted # <<>> =>
          ~Fits(Plus(BaseWithout(ToSet(choice.evicted) \ {Last(choice.evicted)}), needed), limits)
    /\ ~Fits(Plus(choice.base, needed), limits) =>
          ~Fits(Plus(BaseWithout(Evictable), needed), limits)
    /\ Fits(Plus(Base, needed), limits) =>
          choice.evicted = <<>> /\ Fits(Plus(choice.base, needed), limits)

LEMMA EvictionsAreExact ==
    ASSUME LedgerTypes, NEW needed \in Amount, NEW limits \in Amount
    PROVE  Evicts(Evictions(Base, needed, limits), needed, limits)
<1>1. PICK n \in Nat :
              /\ Candidates \in [1 .. n -> Evictable]
              /\ \A i, j \in 1 .. n : Candidates[i] = Candidates[j] => i = j
              /\ \A a \in Evictable : \E i \in 1 .. n : Candidates[i] = a
  BY CandidatesAreAll
<1>2. PICK p : Walks(p, n, needed, limits) /\ Evictions(Base, needed, limits) = p[n]
  BY <1>1, WalkExists
<1> DEFINE Seen(i) == { Candidates[j] : j \in 1 .. i }
           Good == { i \in 0 .. n : AfterSeen(p[i], Seen(i), needed, limits) }
<1>3. 0 \in Good
  <2>1. p[0] = Start(Base) /\ Seen(0) = {} /\ ToSet(<<>>) = {}
    BY <1>2 DEF Walks, ToSet
  <2>2. Base \in Amount /\ SumOver({}) \in Amount /\ \A r \in Resource : SumOver({})[r] = 0
    BY BaseTypes, SumOfNone
  <2>3. Start(Base) \in Given /\ Start(Base).base = Base /\ Start(Base).evicted = <<>>
    BY <2>2 DEF Start, Given
  <2>4. \A r \in Resource : Base[r] = Base[r] - SumOver({})[r]
    BY <2>2 DEF Amount
  <2>5. AfterSeen(Start(Base), {}, needed, limits)
    BY <2>1, <2>3, <2>4 DEF AfterSeen
  <2>6. 0 \in 0 .. n
    OBVIOUS
  <2> HIDE DEF Seen
  <2> QED BY <2>1, <2>5, <2>6
<1>4. ASSUME NEW i \in 0 .. n - 1, i \in Good
      PROVE  i + 1 \in Good
  <2>1. i + 1 \in 1 .. n /\ (i + 1) - 1 = i /\ i + 1 \in 0 .. n
    BY <1>4
  <2>2. p[i + 1] = GiveUp(p[i], Candidates[i + 1], needed, limits)
    BY <1>2, <2>1 DEF Walks
  <2>3. Seen(i) \in SUBSET Evictable /\ Candidates[i + 1] \in Evictable
    BY <1>1, <1>4, <2>1
  <2>4. Candidates[i + 1] \notin Seen(i)
    BY <1>1, <1>4, <2>1
  <2>5. Seen(i + 1) = Seen(i) \cup {Candidates[i + 1]}
    BY <1>4
  <2>6. AfterSeen(p[i], Seen(i), needed, limits)
    BY <1>4
  <2> HIDE DEF Seen
  <2>7. AfterSeen(p[i + 1], Seen(i + 1), needed, limits)
    BY <2>2, <2>3, <2>4, <2>5, <2>6, GiveUpKeeps
  <2> QED BY <2>1, <2>7
<1>5. 0 .. n \subseteq Good
  <2> HIDE DEF Good
  <2> QED BY <1>3, <1>4, BoundedInduction
<1>6. Seen(n) = Evictable
  BY <1>1
<1> DEFINE choice == Evictions(Base, needed, limits)
<1>7. AfterSeen(choice, Evictable, needed, limits)
  <2>1. n \in 0 .. n
    OBVIOUS
  <2>2. AfterSeen(p[n], Seen(n), needed, limits)
    BY <1>5, <2>1
  <2> HIDE DEF Seen, choice
  <2> QED BY <1>2, <1>6, <2>2 DEF choice
<1> HIDE DEF choice
<1>8. /\ choice.base \in Amount /\ choice.evicted \in Seq(Allocation)
      /\ ToSet(choice.evicted) \subseteq Evictable
  BY <1>7 DEF AfterSeen, Given
<1>9. ~Fits(Plus(choice.base, needed), limits) =>
          ~Fits(Plus(BaseWithout(Evictable), needed), limits)
  <2>1. SUFFICES ASSUME ~Fits(Plus(choice.base, needed), limits)
                 PROVE  ~Fits(Plus(BaseWithout(Evictable), needed), limits)
    OBVIOUS
  <2>2. PICK r \in Resource : ~(choice.base[r] + needed[r] <= limits[r])
    BY <2>1, Short
  <2>3. choice.base[r] \in Int /\ needed[r] \in Int /\ limits[r] \in Int
    BY <1>8 DEF Amount
  <2>4. choice.base[r] = Base[r] - SumOver(Evictable)[r]
    BY <1>7, <2>2, <2>3 DEF AfterSeen
  <2>5. BaseWithout(Evictable)[r] = choice.base[r]
    BY <2>4 DEF BaseWithout, Minus
  <2> QED BY <2>2, <2>5, Short
<1>10. Fits(Plus(Base, needed), limits) =>
          choice.evicted = <<>> /\ Fits(Plus(choice.base, needed), limits)
  <2>1. SUFFICES ASSUME Fits(Plus(Base, needed), limits)
                 PROVE  choice.evicted = <<>> /\ Fits(Plus(choice.base, needed), limits)
    OBVIOUS
  <2>2. choice = Start(Base)
    BY <1>7, <2>1 DEF AfterSeen
  <2>3. choice.base = Base /\ choice.evicted = <<>>
    BY <2>2 DEF Start
  <2> QED BY <2>1, <2>3
<1>11. /\ \A r \in Resource : choice.base[r] = Base[r] - SumOver(ToSet(choice.evicted))[r]
       /\ choice.evicted # <<>> =>
             ~Fits(Plus(BaseWithout(ToSet(choice.evicted) \ {Last(choice.evicted)}), needed),
                   limits)
  BY <1>7 DEF AfterSeen
<1>12. Evicts(choice, needed, limits)
  BY <1>8, <1>9, <1>10, <1>11 DEF Evicts
<1> QED BY <1>12 DEF choice

-----------------------------------------------------------------------------
(* The ledger: reservations *)

AgreeOn(v, w, S) == \A y \in S : v[y] = w[y]

\* One vector more in a sum of amounts.
LEMMA TotalOneMore ==
    ASSUME NEW S, IsFiniteSet(S), NEW x, x \notin S, NEW v, NEW w,
           VectorsFor(v, S, Resource), VectorsFor(w, S \cup {x}, Resource),
           AgreeOn(v, w, S)
    PROVE  /\ Total(v, S) \in Amount /\ Total(w, S \cup {x}) \in Amount
           /\ \A r \in Resource : Total(w, S \cup {x})[r] = Total(v, S)[r] + w[x][r]
<1> DEFINE U == S \cup {x}
<1>1. IsFiniteSet(U)
  BY FS_AddElement
<1>2. PICK g : SumsTo(g, v, S, Resource) /\ VectorSum(v, S, Resource) = g[S]
  BY VectorSumUnfolds
<1>3. PICK h : SumsTo(h, w, U, Resource) /\ VectorSum(w, U, Resource) = h[U]
  <2> HIDE DEF U
  <2>1. VectorsFor(w, U, Resource)
    BY DEF U
  <2> QED BY <1>1, <2>1, VectorSumUnfolds
<1>4. g[S] = h[S]
  <2>1. SumsTo(g, v, S, Resource) /\ SumsTo(h, w, U, Resource) /\ S \subseteq U
    BY <1>2, <1>3
  <2>2. \A T \in SUBSET S : g[T] = h[T]
    <3> HIDE DEF U
    <3> QED BY <2>1, VectorSumsAgree DEF AgreeOn
  <2> QED BY <2>2
<1>5. g[S] \in Amount /\ h[U] \in Amount
  BY <1>2, <1>3 DEF SumsTo, Amount
<1>6. ASSUME NEW r \in Resource
      PROVE  h[U][r] = w[x][r] + g[S][r]
  <2>1. U \in SUBSET U /\ x \in U /\ U \ {x} = S
    OBVIOUS
  <2>2. h[U][r] = w[x][r] + h[U \ {x}][r]
    <3> HIDE DEF U
    <3> QED BY <1>3, <2>1 DEF SumsTo
  <2>3. h[U \ {x}] = h[S]
    BY <2>1
  <2> HIDE DEF U
  <2> QED BY <1>4, <2>2, <2>3
<1>7. \A r \in Resource : w[x][r] \in Int /\ g[S][r] \in Int
  BY <1>5 DEF VectorsFor, Amount
<1>8. Total(v, S) = g[S] /\ Total(w, U) = h[U]
  BY <1>2, <1>3, TotalIsVectorSum
<1> HIDE DEF U
<1>9. \A r \in Resource : Total(w, U)[r] = Total(v, S)[r] + w[x][r]
  BY <1>6, <1>7, <1>8
<1> QED BY <1>5, <1>8, <1>9 DEF U

\* Holders are finitely many, and hold amounts.
LEMMA HoldingTypes ==
    ASSUME NEW held \in [Holder -> [Resource -> Nat] \cup {Vacant}],
           NEW S, S = { h \in Holder : held[h] # Vacant }
    PROVE  /\ IsFiniteSet(S) /\ Cardinality(S) \in Nat
           /\ VectorsFor(held, S, Resource)
           /\ \A h \in S : held[h] \in [Resource -> Nat]
<1>1. IsFiniteSet(S) /\ Cardinality(S) \in Nat
  BY LedgerAssumption, FS_Subset, FS_CardinalityType
<1>2. \A h \in S : held[h] \in [Resource -> Nat]
  OBVIOUS
<1>3. \A h \in S : held[h] \in [Resource -> Int]
  BY <1>2
<1> QED BY <1>1, <1>2, <1>3 DEF VectorsFor

\* What is required of each resource.
Requirement == [Resource -> Nat]

\* A reservation taken keeps the counters exact.
LEMMA ReserveKeeps ==
    ASSUME LedgerTypes, ReservedExact, NEW h \in Holder, reservation[h] = Vacant,
           NEW amount \in Requirement, Reserve(h, amount)
    PROVE  /\ reserved' \in Amount /\ active' \in Int
           /\ reservation' \in [Holder -> [Resource -> Nat] \cup {Vacant}]
           /\ ReservedExact'
<1>1. /\ reserved' = Plus(reserved, amount) /\ active' = active + 1
      /\ reservation' = [reservation EXCEPT ![h] = amount]
  BY DEF Reserve
<1>2. /\ reserved \in Amount /\ active \in Int
      /\ reservation \in [Holder -> [Resource -> Nat] \cup {Vacant}]
  BY DEF LedgerTypes
<1>3. amount # Vacant
  BY LedgerAssumption DEF Requirement
<1>4. reservation' \in [Holder -> [Resource -> Nat] \cup {Vacant}]
  BY <1>1, <1>2 DEF Requirement
<1>5. /\ Holding = { x \in Holder : reservation[x] # Vacant }
      /\ Holding' = { x \in Holder : reservation'[x] # Vacant }
  BY DEF Holding
<1>6. Holding' = Holding \cup {h} /\ h \notin Holding
  BY <1>1, <1>2, <1>3, <1>5
<1>7. /\ IsFiniteSet(Holding) /\ Cardinality(Holding) \in Nat
      /\ VectorsFor(reservation, Holding, Resource)
      /\ VectorsFor(reservation', Holding', Resource)
  BY <1>2, <1>4, <1>5, HoldingTypes
<1>8. AgreeOn(reservation, reservation', Holding)
  BY <1>1, <1>2, <1>6, <1>5 DEF AgreeOn
<1>9. /\ Total(reservation, Holding) \in Amount /\ Total(reservation', Holding') \in Amount
      /\ \A r \in Resource : Total(reservation', Holding')[r]
                               = Total(reservation, Holding)[r] + reservation'[h][r]
  <2>1. VectorsFor(reservation', Holding \cup {h}, Resource)
    BY <1>6, <1>7
  <2>2. /\ Total(reservation, Holding) \in Amount
        /\ Total(reservation', Holding \cup {h}) \in Amount
        /\ \A r \in Resource : Total(reservation', Holding \cup {h})[r]
                                 = Total(reservation, Holding)[r] + reservation'[h][r]
    <3>1. IsFiniteSet(Holding) /\ h \notin Holding
      BY <1>6, <1>7
    <3>2. VectorsFor(reservation, Holding, Resource)
      BY <1>7
    <3> QED BY <1>8, <2>1, <3>1, <3>2, TotalOneMore
  <2> QED BY <1>6, <2>2
<1>10. reservation'[h] = amount
  BY <1>1, <1>2
<1>11. reserved = Total(reservation, Holding) /\ active = Cardinality(Holding)
  BY DEF ReservedExact
<1>12. reserved' \in Amount /\ \A r \in Resource : reserved'[r] = reserved[r] + amount[r]
  <2>1. \A r \in Resource : reserved[r] \in Int /\ amount[r] \in Int
    BY <1>2 DEF Amount, Requirement
  <2> QED BY <1>1, <2>1 DEF Plus, Amount
<1>13. reserved' = Total(reservation', Holding')
  <2>1. \A r \in Resource : reserved'[r] = Total(reservation', Holding')[r]
    BY <1>9, <1>10, <1>11, <1>12
  <2> QED BY <1>9, <1>12, <2>1 DEF Amount
<1>14. active' = Cardinality(Holding')
  BY <1>1, <1>6, <1>7, <1>11, FS_AddElement
<1> QED BY <1>1, <1>2, <1>4, <1>12, <1>13, <1>14 DEF ReservedExact

\* A reservation returned keeps them exact.
LEMMA ReleaseKeeps ==
    ASSUME LedgerTypes, ReservedExact, NEW h \in Holder, Release(h)
    PROVE  /\ reserved' \in Amount /\ active' \in Int
           /\ reservation' \in [Holder -> [Resource -> Nat] \cup {Vacant}]
           /\ ReservedExact'
<1>1. /\ reservation[h] # Vacant
      /\ reserved' = Minus(reserved, reservation[h]) /\ active' = active - 1
      /\ reservation' = [reservation EXCEPT ![h] = Vacant]
  BY DEF Release
<1>2. /\ reserved \in Amount /\ active \in Int
      /\ reservation \in [Holder -> [Resource -> Nat] \cup {Vacant}]
  BY DEF LedgerTypes
<1>3. reservation[h] \in [Resource -> Nat]
  BY <1>1, <1>2
<1>4. reservation' \in [Holder -> [Resource -> Nat] \cup {Vacant}]
  BY <1>1, <1>2
<1>5. /\ Holding = { x \in Holder : reservation[x] # Vacant }
      /\ Holding' = { x \in Holder : reservation'[x] # Vacant }
  BY DEF Holding
<1>6. Holding = Holding' \cup {h} /\ h \notin Holding' /\ Holding' = Holding \ {h}
  BY <1>1, <1>2, <1>5
<1>7. /\ IsFiniteSet(Holding') /\ Cardinality(Holding') \in Nat
      /\ VectorsFor(reservation, Holding, Resource)
      /\ VectorsFor(reservation', Holding', Resource)
  BY <1>2, <1>4, <1>5, HoldingTypes
<1>8. AgreeOn(reservation', reservation, Holding')
  BY <1>1, <1>2, <1>6, <1>5 DEF AgreeOn
<1>9. /\ Total(reservation, Holding) \in Amount /\ Total(reservation', Holding') \in Amount
      /\ \A r \in Resource : Total(reservation, Holding)[r]
                               = Total(reservation', Holding')[r] + reservation[h][r]
  <2>1. VectorsFor(reservation, Holding' \cup {h}, Resource)
    BY <1>6, <1>7
  <2>2. /\ Total(reservation', Holding') \in Amount
        /\ Total(reservation, Holding' \cup {h}) \in Amount
        /\ \A r \in Resource : Total(reservation, Holding' \cup {h})[r]
                                 = Total(reservation', Holding')[r] + reservation[h][r]
    <3>1. IsFiniteSet(Holding') /\ h \notin Holding'
      BY <1>6, <1>7
    <3>2. VectorsFor(reservation', Holding', Resource)
      BY <1>7
    <3> QED BY <1>8, <2>1, <3>1, <3>2, TotalOneMore
  <2> QED BY <1>6, <2>2
<1>10. reserved = Total(reservation, Holding) /\ active = Cardinality(Holding)
  BY DEF ReservedExact
<1>11. /\ reserved' \in Amount
       /\ \A r \in Resource : reserved'[r] = reserved[r] - reservation[h][r]
       /\ \A r \in Resource : reserved[r] \in Int /\ reservation[h][r] \in Int
  <2>1. \A r \in Resource : reserved[r] \in Int /\ reservation[h][r] \in Int
    BY <1>2, <1>3 DEF Amount
  <2> QED BY <1>1, <2>1 DEF Minus, Amount
<1>12. reserved' = Total(reservation', Holding')
  <2>1. \A r \in Resource : Total(reservation', Holding')[r] \in Int
    BY <1>9 DEF Amount
  <2>2. \A r \in Resource : reserved'[r] = Total(reservation', Holding')[r]
    BY <1>9, <1>10, <1>11, <2>1
  <2> QED BY <1>9, <1>11, <2>2 DEF Amount
<1>13. active' = Cardinality(Holding')
  <2>1. Cardinality(Holding' \cup {h}) = Cardinality(Holding') + 1
    BY <1>6, <1>7, FS_AddElement
  <2>2. Cardinality(Holding) = Cardinality(Holding') + 1
    BY <1>6, <2>1
  <2> QED BY <1>1, <1>7, <1>10, <2>2
<1> QED BY <1>1, <1>2, <1>4, <1>11, <1>12, <1>13 DEF ReservedExact

-----------------------------------------------------------------------------
(* The ledger: how many items fit *)

\* Requests require amounts of storage, and are not preview requests.
LEMMA RequestTypes ==
    ASSUME NEW q \in Request
    PROVE  /\ q.limits \in Requirement /\ q.fixed \in Requirement
           /\ q.perItem \in Requirement /\ q.items \in Nat
           /\ q.limits \in Amount /\ Least(q) \in Requirement /\ Least(q) \in Amount
           /\ \A r \in Resource : Least(q)[r] = q.fixed[r] + q.perItem[r] * (IF q.items = 0 THEN 0 ELSE 1)
<1>1. /\ q.limits \in [Resource -> Nat] /\ q.fixed \in [Resource -> Nat]
      /\ q.perItem \in [Resource -> Nat] /\ q.items \in Nat
  BY LedgerAssumption
<1>2. Least(q) = [r \in Resource |-> q.fixed[r] + q.perItem[r] * (IF q.items = 0 THEN 0 ELSE 1)]
  BY DEF Least, Plus, Times
<1>3. ASSUME NEW r \in Resource
      PROVE  q.fixed[r] + q.perItem[r] * (IF q.items = 0 THEN 0 ELSE 1) \in Nat
  <2>1. q.fixed[r] \in Nat /\ q.perItem[r] \in Nat
    BY <1>1
  <2>2. q.perItem[r] * 0 = 0 /\ q.perItem[r] * 1 = q.perItem[r]
    BY <2>1
  <2> QED BY <2>1, <2>2
<1>4. Least(q) \in [Resource -> Nat]
  BY <1>2, <1>3
<1>5. q.limits \in [Resource -> Int] /\ Least(q) \in [Resource -> Int]
  BY <1>1, <1>4
<1> QED BY <1>1, <1>2, <1>4, <1>5 DEF Requirement, Amount

\* Division rounds down.
LEMMA DivisionRoundsDown ==
    ASSUME NEW m \in Nat, NEW k \in Nat, k > 0
    PROVE  /\ m \div k \in Nat
           /\ k * (m \div k) <= m
           /\ m < k * (m \div k) + k
<1>1. m \div k \in Int
  BY SMT
<1>2. k * (m \div k) <= m /\ m < k * (m \div k) + k
  BY SMT
<1>3. m \div k >= 0
  <2>1. ASSUME NEW d \in Int, d < 0, m < k * d + k PROVE FALSE
    <3>1. k * (d + 1) <= 0
      BY <2>1, SMT
    <3> QED BY <2>1, <3>1, SMT
  <2> QED BY <1>1, <1>2, <2>1
<1> QED BY <1>1, <1>2, <1>3

\* Fewer items take no more.
LEMMA FewerItems ==
    ASSUME NEW k \in Nat, NEW m \in Nat, NEW n \in Nat, m <= n
    PROVE  k * m <= k * n /\ k * m \in Nat
<1>1. k * (n - m) >= 0
  BY SMT
<1>2. k * n = k * m + k * (n - m)
  BY SMT
<1>3. k * m \in Nat /\ k * n \in Nat
  BY SMT
<1> QED BY <1>1, <1>2, <1>3

\* The amount reserved for a batch.
PartOf(q, n) == Plus(q.fixed, Times(q.perItem, n))

LEMMA PartTypes ==
    ASSUME NEW q \in Request, NEW n \in Nat
    PROVE  /\ PartOf(q, n) \in Requirement
           /\ \A r \in Resource : PartOf(q, n)[r] = q.fixed[r] + q.perItem[r] * n
<1>1. PartOf(q, n) = [r \in Resource |-> q.fixed[r] + q.perItem[r] * n]
  BY DEF PartOf, Plus, Times
<1>2. ASSUME NEW r \in Resource
      PROVE  q.fixed[r] + q.perItem[r] * n \in Nat
  <2>1. q.fixed[r] \in Nat /\ q.perItem[r] \in Nat
    BY RequestTypes DEF Requirement
  <2>2. q.perItem[r] * n \in Nat
    BY <2>1, FewerItems
  <2> QED BY <2>1, <2>2
<1> QED BY <1>1, <1>2 DEF Requirement

\* Where one item fits at all, the batch fits, and one item more does not
\* unless the batch is everything.
LEMMA BatchFits ==
    ASSUME NEW q \in Request, NEW base \in Amount, Fits(Plus(base, Least(q)), q.limits)
    PROVE  /\ Batch(base, q) \in Nat
           /\ \A r \in Resource : base[r] + PartOf(q, Batch(base, q))[r] <= q.limits[r]
           /\ Batch(base, q) # q.items =>
                 \E r \in Resource :
                    base[r] + PartOf(q, Batch(base, q))[r] + q.perItem[r] > q.limits[r]
<1> DEFINE caps == {q.items} \cup { Room(base, q, r) : r \in Resource }
           batch == Batch(base, q)
<1>1. ASSUME NEW r \in Resource
      PROVE  /\ base[r] \in Int /\ q.fixed[r] \in Nat /\ q.perItem[r] \in Nat
             /\ q.limits[r] \in Nat
             /\ base[r] + q.fixed[r] <= q.limits[r]
             /\ q.items # 0 => base[r] + q.fixed[r] + q.perItem[r] <= q.limits[r]
  <2>1. base[r] \in Int /\ q.fixed[r] \in Nat /\ q.perItem[r] \in Nat /\ q.limits[r] \in Nat
    BY RequestTypes DEF Amount, Requirement
  <2>2. base[r] + Least(q)[r] <= q.limits[r]
    BY Short
  <2>3. Least(q)[r] = q.fixed[r] + q.perItem[r] * (IF q.items = 0 THEN 0 ELSE 1)
    BY RequestTypes
  <2>4. q.perItem[r] * 0 = 0 /\ q.perItem[r] * 1 = q.perItem[r]
    BY <2>1
  <2>5. Least(q)[r] = IF q.items = 0 THEN q.fixed[r] ELSE q.fixed[r] + q.perItem[r]
    BY <2>1, <2>3, <2>4
  <2> QED BY <2>1, <2>2, <2>5
<1>2. ASSUME NEW r \in Resource, q.perItem[r] # 0
      PROVE  /\ Room(base, q, r) \in Nat
             /\ base[r] + q.fixed[r] + q.perItem[r] * Room(base, q, r) <= q.limits[r]
             /\ base[r] + q.fixed[r] + q.perItem[r] * Room(base, q, r) + q.perItem[r] > q.limits[r]
             /\ q.perItem[r] * Room(base, q, r) \in Nat
  <2> DEFINE m == q.limits[r] - base[r] - q.fixed[r]
             k == q.perItem[r]
  <2>1. m \in Nat /\ k \in Nat /\ k > 0
    BY <1>1, <1>2
  <2>2. Room(base, q, r) = m \div k
    BY <1>1, <1>2 DEF Room
  <2> HIDE DEF k
  <2>3. m \div k \in Nat /\ k * (m \div k) <= m /\ m < k * (m \div k) + k
    <3> HIDE DEF m
    <3> QED BY <2>1, DivisionRoundsDown
  <2>4. k * (m \div k) \in Nat
    <3> HIDE DEF m
    <3> QED BY <2>1, <2>3, FewerItems
  <2>5. /\ base[r] \in Int /\ q.fixed[r] \in Nat /\ q.limits[r] \in Nat
    BY <1>1
  <2>6. Room(base, q, r) \in Nat /\ k * Room(base, q, r) \in Nat
        /\ k * Room(base, q, r) <= m /\ m < k * Room(base, q, r) + k
    BY <2>2, <2>3, <2>4
  <2>7. m = q.limits[r] - base[r] - q.fixed[r]
    OBVIOUS
  <2> HIDE DEF m
  <2>8. /\ base[r] + q.fixed[r] + k * Room(base, q, r) <= q.limits[r]
        /\ base[r] + q.fixed[r] + k * Room(base, q, r) + k > q.limits[r]
    BY <2>1, <2>5, <2>6, <2>7
  <2> QED BY <2>6, <2>8 DEF k
<1>3. \A r \in Resource : q.perItem[r] = 0 => Room(base, q, r) = q.items
  BY DEF Room
<1>4. caps \in SUBSET Nat /\ q.items \in caps
  BY <1>2, <1>3, RequestTypes
<1>5. PICK least \in caps : \A m \in caps : least <= m
  <2> HIDE DEF caps
  <2> QED BY <1>4, LeastNumber
<1>6. batch = CHOOSE n \in caps : \A m \in caps : n <= m
  BY DEF Batch
<1>7. batch \in caps /\ \A m \in caps : batch <= m
  <2> HIDE DEF caps, batch
  <2> QED BY <1>5, <1>6
<1>8. batch \in Nat /\ batch <= q.items /\ \A r \in Resource : batch <= Room(base, q, r)
  <2>1. \A r \in Resource : Room(base, q, r) \in caps
    OBVIOUS
  <2> HIDE DEF caps, batch
  <2> QED BY <1>4, <1>7, <2>1
<1> HIDE DEF batch
<1>9. ASSUME NEW r \in Resource
      PROVE  base[r] + PartOf(q, batch)[r] <= q.limits[r]
  <2>1. PartOf(q, batch)[r] = q.fixed[r] + q.perItem[r] * batch
    BY <1>8, PartTypes
  <2>2. CASE q.perItem[r] = 0
    <3>1. q.perItem[r] * batch = 0
      BY <1>8, <2>2
    <3> QED BY <1>1, <2>1, <3>1
  <2>3. CASE q.perItem[r] # 0
    <3> DEFINE k == q.perItem[r]
    <3>1. k * batch <= k * Room(base, q, r) /\ k * batch \in Nat
      BY <1>1, <1>2, <1>8, <2>3, FewerItems
    <3>2. base[r] + q.fixed[r] + k * Room(base, q, r) <= q.limits[r] /\ k * Room(base, q, r) \in Nat
      BY <1>2, <2>3
    <3>3. PartOf(q, batch)[r] = q.fixed[r] + k * batch
      BY <2>1
    <3>4. base[r] \in Int /\ q.fixed[r] \in Nat /\ q.limits[r] \in Nat
      BY <1>1
    <3> HIDE DEF k
    <3> QED BY <3>1, <3>2, <3>3, <3>4
  <2> QED BY <2>2, <2>3
<1>10. ASSUME batch # q.items
       PROVE  \E r \in Resource : base[r] + PartOf(q, batch)[r] + q.perItem[r] > q.limits[r]
  <2>1. PICK r \in Resource : batch = Room(base, q, r)
    BY <1>7, <1>10
  <2>2. q.perItem[r] # 0
    BY <1>3, <1>10, <2>1
  <2>3. PartOf(q, batch)[r] = q.fixed[r] + q.perItem[r] * batch
    BY <1>8, PartTypes
  <2> DEFINE k == q.perItem[r]
  <2>4. base[r] + q.fixed[r] + k * batch + k > q.limits[r] /\ k * batch \in Nat
    BY <1>2, <2>1, <2>2
  <2>5. base[r] \in Int /\ q.fixed[r] \in Nat /\ q.limits[r] \in Nat /\ k \in Nat
    BY <1>1
  <2>6. PartOf(q, batch)[r] = q.fixed[r] + k * batch
    BY <2>3
  <2> HIDE DEF k
  <2>7. base[r] + PartOf(q, batch)[r] + k > q.limits[r]
    BY <2>4, <2>5, <2>6
  <2> QED BY <2>7 DEF k
<1> QED BY <1>8, <1>9, <1>10 DEF batch

-----------------------------------------------------------------------------
(* The ledger: its invariants are inductive *)

LedgerInv == LedgerTypes /\ ReservedExact /\ AdmissionFits /\ RefusalJustified

\* What every step has to do.
LedgerStepOK == LedgerInv' /\ EvictsAsNeeded

\* A step that leaves reservations alone and keeps the allocations' types.
LEMMA CountersStay ==
    ASSUME LedgerInv, IsAllocations(allocations'), callback' \in BOOLEAN,
           UNCHANGED <<reserved, active, reservation>>
    PROVE  LedgerTypes' /\ ReservedExact'
<1>1. Holding' = Holding
  BY DEF Holding
<1>2. ReservedExact'
  <2>1. reserved = Total(reservation, Holding) /\ active = Cardinality(Holding)
    BY DEF LedgerInv, ReservedExact
  <2>2. reserved' = Total(reservation', Holding') /\ active' = Cardinality(Holding')
    BY <1>1, <2>1
  <2> QED BY <2>2 DEF ReservedExact
<1>3. LedgerTypes'
  BY DEF LedgerInv, LedgerTypes
<1> QED BY <1>2, <1>3

\* A step without a report leaves nothing to justify.
LEMMA NoReport ==
    ASSUME report' = Vacant
    PROVE  AdmissionFits' /\ RefusalJustified' /\ EvictsAsNeeded
BY DEF AdmissionFits, Admitted, RefusalJustified, Refused, EvictsAsNeeded

\* Nothing is evicted by a step whose report names none.
LEMMA NothingEvicted ==
    ASSUME report'.evicted = <<>>
    PROVE  EvictsAsNeeded
BY DEF EvictsAsNeeded

\* What is taken after evicting E and reserving amount.
LEMMA AfterReserve ==
    ASSUME LedgerTypes, NEW E \in SUBSET DOMAIN allocations, NEW amount \in Requirement,
           DOMAIN allocations' = DOMAIN allocations \ E,
           \A a \in DOMAIN allocations' : allocations'[a] = allocations[a],
           reserved' = Plus(reserved, amount)
    PROVE  /\ IsAllocations(allocations')
           /\ \A r \in Resource : Base'[r] = Base[r] - SumOver(E)[r] + amount[r]
<1>1. IsAllocations(allocations) /\ reserved \in Amount
  BY DEF LedgerTypes
<1>2. /\ IsAllocations(allocations')
      /\ \A r \in Resource :
            SumIn(allocations', DOMAIN allocations')[r]
              = SumIn(allocations, DOMAIN allocations)[r] - SumIn(allocations, E)[r]
  BY <1>1, SumOfRemaining
<1>3. /\ Base = Plus(reserved, SumIn(allocations, DOMAIN allocations))
      /\ Base' = Plus(reserved', SumIn(allocations', DOMAIN allocations'))
      /\ SumOver(E) = SumIn(allocations, E)
  BY SumOverIsSumIn
<1>4. ASSUME NEW r \in Resource
      PROVE  Base'[r] = Base[r] - SumOver(E)[r] + amount[r]
  <2>1. /\ SumIn(allocations, DOMAIN allocations)[r] \in Int
        /\ SumIn(allocations, E)[r] \in Int
    <3>1. SumIn(allocations, DOMAIN allocations) \in Amount /\ SumIn(allocations, E) \in Amount
      BY <1>1, SumTypes
    <3> QED BY <3>1 DEF Amount
  <2>2. reserved[r] \in Int /\ amount[r] \in Int
    BY <1>1 DEF Amount, Requirement
  <2>3. reserved'[r] = reserved[r] + amount[r]
    BY DEF Plus
  <2>4. Base[r] = reserved[r] + SumIn(allocations, DOMAIN allocations)[r]
    BY <1>3 DEF Plus
  <2>5. Base'[r] = reserved'[r] + SumIn(allocations', DOMAIN allocations')[r]
    BY <1>3 DEF Plus
  <2>6. SumIn(allocations', DOMAIN allocations')[r]
          = SumIn(allocations, DOMAIN allocations)[r] - SumOver(E)[r]
        /\ SumOver(E)[r] \in Int
    BY <1>2, <1>3, <2>1
  <2> QED BY <2>1, <2>2, <2>3, <2>4, <2>5, <2>6
<1> QED BY <1>2, <1>4

\* Nothing evicted is the case without evictions.
LEMMA AfterReserveOnly ==
    ASSUME LedgerTypes, NEW amount \in Requirement, allocations' = allocations,
           reserved' = Plus(reserved, amount)
    PROVE  /\ IsAllocations(allocations')
           /\ \A r \in Resource : Base'[r] = Base[r] + amount[r]
<1>1. /\ {} \in SUBSET DOMAIN allocations
      /\ DOMAIN allocations' = DOMAIN allocations \ {}
      /\ \A a \in DOMAIN allocations' : allocations'[a] = allocations[a]
  OBVIOUS
<1>2. /\ IsAllocations(allocations')
      /\ \A r \in Resource : Base'[r] = Base[r] - SumOver({})[r] + amount[r]
  BY <1>1, AfterReserve
<1>3. \A r \in Resource : SumOver({})[r] = 0
  BY SumOfNone
<1>4. \A r \in Resource : Base[r] \in Int /\ amount[r] \in Int
  BY BaseTypes DEF Amount, Requirement
<1> QED BY <1>2, <1>3, <1>4

\* A step that admits work.
LEMMA AdmittedFits ==
    ASSUME NEW status, NEW q, NEW batch, NEW evicted, status # "over budget",
           report' = Report(status, q, batch, evicted),
           \A r \in Resource : Base'[r] <= q.limits[r],
           status = "tiled" =>
              \E r \in Resource : ~(Base'[r] + q.perItem[r] <= q.limits[r])
    PROVE  AdmissionFits' /\ RefusalJustified'
<1>1. report'.status = status /\ report'.request = q
  BY DEF Report
<1>2. Fits(Base', q.limits)
  BY DEF Fits
<1>3. status = "tiled" => ~Fits(Plus(Base', q.perItem), q.limits)
  BY Short
<1>4. AdmissionFits'
  BY <1>1, <1>2, <1>3 DEF AdmissionFits, Admitted, Fits, Plus
<1>5. RefusalJustified'
  BY <1>1 DEF RefusalJustified, Refused
<1> QED BY <1>4, <1>5

\* A refusal leaves what could be evicted and what is taken without it.
LEMMA RefusalLeaves ==
    ASSUME UNCHANGED <<allocations, reserved, callback>>
    PROVE  BaseWithout(Evictable)' = BaseWithout(Evictable)
<1>1. Evictable' = Evictable
  BY DEF Evictable
<1>2. Base' = Base
  BY SumOverIsSumIn
<1>3. BaseWithout(Evictable)' = Minus(Base', SumIn(allocations', Evictable'))
  BY DEF BaseWithout, SumOver, SumIn, UsagesIn, Usage
<1>4. BaseWithout(Evictable) = Minus(Base, SumIn(allocations, Evictable))
  BY SumOverIsSumIn DEF BaseWithout
<1> QED BY <1>1, <1>2, <1>3, <1>4

\* Evictions an admission with this choice makes are as needed.
LEMMA ChoiceEvictsAsNeeded ==
    ASSUME NEW status, NEW q, NEW batch, NEW choice, NEW need,
           report' = Report(status, q, batch, choice.evicted),
           Evicts(choice, need, q.limits),
           need = (IF q \in Request THEN Least(q) ELSE q.options[batch])
    PROVE  EvictsAsNeeded
<1>1. /\ report'.request = q /\ report'.batch = batch /\ report'.evicted = choice.evicted
  BY DEF Report
<1>2. ASSUME choice.evicted # <<>>
      PROVE  ~Fits(Plus(BaseWithout(ToSet(choice.evicted) \ {Last(choice.evicted)}), need),
                   q.limits)
  BY <1>2 DEF Evicts
<1>3. \A a \in ToSet(choice.evicted) : a \in Cache /\ ~allocations[a].held
  BY DEF Evicts, Evictable
<1> QED BY <1>1, <1>2, <1>3 DEF EvictsAsNeeded

\* Evicted allocations are gone, the others as they were.
LEMMA WithoutEffect ==
    ASSUME NEW E, allocations' = Without(E)
    PROVE  /\ DOMAIN allocations' = DOMAIN allocations \ E
           /\ \A a \in DOMAIN allocations' : allocations'[a] = allocations[a]
BY DEF Without

\* Work admitted with this choice of evictions fits.
LEMMA ChoiceAdmitted ==
    ASSUME LedgerTypes, ReservedExact, NEW h \in Holder, reservation[h] = Vacant,
           NEW need \in Amount, NEW limits \in Amount, NEW choice, Evicts(choice, need, limits),
           NEW amount \in Requirement, Reserve(h, amount),
           allocations' = Without(ToSet(choice.evicted)), callback' = callback
    PROVE  /\ LedgerTypes' /\ ReservedExact'
           /\ \A r \in Resource : Base'[r] = choice.base[r] + amount[r]
<1>1. ToSet(choice.evicted) \in SUBSET DOMAIN allocations
  BY DEF Evicts, Evictable
<1>2. reserved' = Plus(reserved, amount)
  BY DEF Reserve
<1>3. /\ DOMAIN allocations' = DOMAIN allocations \ ToSet(choice.evicted)
      /\ \A a \in DOMAIN allocations' : allocations'[a] = allocations[a]
  BY WithoutEffect
<1>4. /\ IsAllocations(allocations')
      /\ \A r \in Resource :
            Base'[r] = Base[r] - SumOver(ToSet(choice.evicted))[r] + amount[r]
  BY <1>1, <1>2, <1>3, AfterReserve
<1>5. \A r \in Resource : choice.base[r] = Base[r] - SumOver(ToSet(choice.evicted))[r]
  BY DEF Evicts
<1>6. /\ reserved' \in Amount /\ active' \in Int
      /\ reservation' \in [Holder -> [Resource -> Nat] \cup {Vacant}]
      /\ ReservedExact'
  BY ReserveKeeps
<1>7. callback' \in BOOLEAN
  BY DEF LedgerTypes
<1>8. LedgerTypes'
  BY <1>4, <1>6, <1>7 DEF LedgerTypes
<1> QED BY <1>4, <1>5, <1>6, <1>8

\* admit() of a request.
LEMMA AdmitKeeps ==
    ASSUME LedgerInv, NEW h \in Holder, NEW q \in Request, Admit(h, q)
    PROVE  LedgerStepOK
<1> DEFINE choice == Evictions(Base, Least(q), q.limits)
           batch == Batch(choice.base, q)
<1>1. /\ reservation[h] = Vacant /\ callback' = callback
      /\ LedgerTypes /\ ReservedExact /\ callback \in BOOLEAN /\ IsAllocations(allocations)
  BY DEF Admit, LedgerInv, LedgerTypes
<1>2. /\ q.limits \in Amount /\ Least(q) \in Amount /\ q.items \in Nat
  BY RequestTypes
<1>3. Evicts(choice, Least(q), q.limits)
  BY <1>1, <1>2, EvictionsAreExact
<1>4. \/ /\ report' = Refusal("quiescing", q)
         /\ UNCHANGED <<allocations, reserved, active, reservation>>
      \/ /\ Fits(Plus(Base, PartOf(q, q.items)), q.limits)
         /\ Reserve(h, PartOf(q, q.items))
         /\ report' = Report("whole", q, q.items, <<>>)
         /\ UNCHANGED allocations
      \/ /\ ~Fits(Plus(choice.base, Least(q)), q.limits)
         /\ report' = Refusal("over budget", q)
         /\ UNCHANGED <<allocations, reserved, active, reservation>>
      \/ /\ Fits(Plus(choice.base, Least(q)), q.limits)
         /\ allocations' = Without(ToSet(choice.evicted))
         /\ Reserve(h, PartOf(q, batch))
         /\ report' = Report(IF batch = q.items THEN "whole" ELSE "tiled",
                             q, batch, choice.evicted)
  BY DEF Admit, Least, PartOf
<1> HIDE DEF choice, batch
<1>5. CASE /\ report' = Refusal("quiescing", q)
           /\ UNCHANGED <<allocations, reserved, active, reservation>>
  <2>1. LedgerTypes' /\ ReservedExact'
    BY <1>1, <1>5, CountersStay
  <2>2. report'.status = "quiescing" /\ report'.evicted = <<>>
    BY <1>5 DEF Refusal, Report
  <2>3. AdmissionFits' /\ RefusalJustified'
    BY <2>2 DEF AdmissionFits, Admitted, RefusalJustified, Refused
  <2>4. EvictsAsNeeded
    BY <2>2, NothingEvicted
  <2> QED BY <2>1, <2>3, <2>4 DEF LedgerStepOK, LedgerInv
<1>6. CASE /\ Fits(Plus(Base, PartOf(q, q.items)), q.limits)
           /\ Reserve(h, PartOf(q, q.items))
           /\ report' = Report("whole", q, q.items, <<>>)
           /\ UNCHANGED allocations
  <2>1. PartOf(q, q.items) \in Requirement
    BY <1>2, PartTypes
  <2>2. reserved' = Plus(reserved, PartOf(q, q.items))
    BY <1>6 DEF Reserve
  <2>3. IsAllocations(allocations')
        /\ \A r \in Resource : Base'[r] = Base[r] + PartOf(q, q.items)[r]
    BY <1>1, <1>6, <2>1, <2>2, AfterReserveOnly
  <2>4. /\ reserved' \in Amount /\ active' \in Int
        /\ reservation' \in [Holder -> [Resource -> Nat] \cup {Vacant}]
        /\ ReservedExact'
    BY <1>1, <1>6, <2>1, ReserveKeeps
  <2>5. LedgerTypes'
    BY <1>1, <2>3, <2>4 DEF LedgerTypes
  <2>6. \A r \in Resource : Base'[r] <= q.limits[r]
    BY <1>6, <2>3, Short
  <2>7. "whole" # "over budget" /\ "whole" # "tiled"
    OBVIOUS
  <2>8. AdmissionFits' /\ RefusalJustified'
    BY <1>6, <2>6, <2>7, AdmittedFits
  <2>9. EvictsAsNeeded
    <3>1. report'.evicted = <<>>
      BY <1>6 DEF Report
    <3> QED BY <3>1, NothingEvicted
  <2> QED BY <2>4, <2>5, <2>8, <2>9 DEF LedgerStepOK, LedgerInv
<1>7. CASE /\ ~Fits(Plus(choice.base, Least(q)), q.limits)
           /\ report' = Refusal("over budget", q)
           /\ UNCHANGED <<allocations, reserved, active, reservation>>
  <2>1. LedgerTypes' /\ ReservedExact'
    BY <1>1, <1>7, CountersStay
  <2>2. /\ report'.status = "over budget" /\ report'.evicted = <<>>
        /\ report'.request = q
    BY <1>7 DEF Refusal, Report
  <2>3. ~Fits(Plus(BaseWithout(Evictable), Least(q)), q.limits)
    BY <1>3, <1>7 DEF Evicts
  <2>4. BaseWithout(Evictable)' = BaseWithout(Evictable)
    BY <1>1, <1>7, RefusalLeaves
  <2>5. ~Fits(Plus(BaseWithout(Evictable)', Least(q)), q.limits)
    BY <2>3, <2>4
  <2>6. RefusalJustified'
    BY <2>2, <2>5 DEF RefusalJustified, Refused
  <2>7. AdmissionFits'
    BY <2>2 DEF AdmissionFits, Admitted
  <2>8. EvictsAsNeeded
    BY <2>2, NothingEvicted
  <2> QED BY <2>1, <2>6, <2>7, <2>8 DEF LedgerStepOK, LedgerInv
<1>8. CASE /\ Fits(Plus(choice.base, Least(q)), q.limits)
           /\ allocations' = Without(ToSet(choice.evicted))
           /\ Reserve(h, PartOf(q, batch))
           /\ report' = Report(IF batch = q.items THEN "whole" ELSE "tiled",
                               q, batch, choice.evicted)
  <2>1. choice.base \in Amount
    BY <1>3 DEF Evicts
  <2>2. /\ batch \in Nat
        /\ \A r \in Resource : choice.base[r] + PartOf(q, batch)[r] <= q.limits[r]
        /\ batch # q.items =>
              \E r \in Resource :
                 choice.base[r] + PartOf(q, batch)[r] + q.perItem[r] > q.limits[r]
    BY <1>8, <2>1, BatchFits DEF batch
  <2>3. PartOf(q, batch) \in Requirement
    BY <2>2, PartTypes
  <2>4. /\ LedgerTypes' /\ ReservedExact'
        /\ \A r \in Resource : Base'[r] = choice.base[r] + PartOf(q, batch)[r]
    BY <1>1, <1>2, <1>3, <1>8, <2>3, ChoiceAdmitted
  <2> DEFINE status == IF batch = q.items THEN "whole" ELSE "tiled"
  <2>5. status # "over budget" /\ (status = "tiled" => batch # q.items)
    OBVIOUS
  <2>6. report' = Report(status, q, batch, choice.evicted)
    BY <1>8
  <2> HIDE DEF status
  <2>7. \A r \in Resource : Base'[r] <= q.limits[r]
    BY <2>2, <2>4
  <2>8. status = "tiled" => \E r \in Resource : ~(Base'[r] + q.perItem[r] <= q.limits[r])
    <3>1. SUFFICES ASSUME status = "tiled"
                   PROVE  \E r \in Resource : ~(Base'[r] + q.perItem[r] <= q.limits[r])
      OBVIOUS
    <3>2. PICK r \in Resource : choice.base[r] + PartOf(q, batch)[r] + q.perItem[r] > q.limits[r]
      BY <2>2, <2>5, <3>1
    <3>3. Base'[r] + q.perItem[r] > q.limits[r]
      BY <2>4, <3>2
    <3>4. Base'[r] \in Int /\ q.perItem[r] \in Int /\ q.limits[r] \in Int
      <4>1. choice.base[r] \in Int /\ PartOf(q, batch)[r] \in Int
        BY <2>1, <2>3 DEF Amount, Requirement
      <4>2. q.perItem[r] \in Int /\ q.limits[r] \in Int
        BY RequestTypes DEF Requirement
      <4> QED BY <2>4, <4>1, <4>2
    <3> QED BY <3>3, <3>4
  <2>9. AdmissionFits' /\ RefusalJustified'
    BY <2>5, <2>6, <2>7, <2>8, AdmittedFits
  <2>10. EvictsAsNeeded
    BY <1>3, <2>6, ChoiceEvictsAsNeeded
  <2> QED BY <2>4, <2>9, <2>10 DEF LedgerStepOK, LedgerInv
<1> QED BY <1>4, <1>5, <1>6, <1>7, <1>8

\* Preview requests offer requirements to choose from.
LEMMA PreviewTypes ==
    ASSUME NEW p \in Preview
    PROVE  /\ p \notin Request /\ p.limits \in Amount
           /\ DOMAIN p.options \in SUBSET Nat
           /\ \A i \in DOMAIN p.options :
                 p.options[i] \in Requirement /\ p.options[i] \in Amount
<1>1. /\ p.limits \in [Resource -> Nat] /\ p.options \in Seq([Resource -> Nat])
      /\ p \notin Request
  BY LedgerAssumption
<1>2. p.limits \in [Resource -> Int]
  BY <1>1
<1>3. ASSUME NEW i \in DOMAIN p.options
      PROVE  p.options[i] \in [Resource -> Nat] /\ p.options[i] \in [Resource -> Int]
  <2>1. p.options[i] \in [Resource -> Nat]
    BY <1>1
  <2> QED BY <2>1
<1>4. DOMAIN p.options \in SUBSET Nat
  <2>1. DOMAIN p.options = 1 .. Len(p.options) /\ Len(p.options) \in Nat
    BY <1>1
  <2> QED BY <2>1
<1> QED BY <1>1, <1>2, <1>3, <1>4 DEF Amount, Requirement

\* The first index of a set.
LEMMA FirstIsMember ==
    ASSUME NEW fitting \in SUBSET Nat, fitting # {}
    PROVE  FirstFitting(fitting) \in fitting
<1>1. \E i \in fitting : \A j \in fitting : i <= j
  BY LeastNumber
<1> QED BY <1>1 DEF FirstFitting

\* admit_preview_quality() of a request.
LEMMA AdmitPreviewKeeps ==
    ASSUME LedgerInv, NEW h \in Holder, NEW p \in Preview, AdmitPreview(h, p)
    PROVE  LedgerStepOK
<1> DEFINE choice(i) == Evictions(Base, p.options[i], p.limits)
           asIs == { i \in DOMAIN p.options : Fits(Plus(Base, p.options[i]), p.limits) }
           evicting == { i \in DOMAIN p.options :
                           Fits(Plus(choice(i).base, p.options[i]), p.limits) }
           taken == FirstFitting(IF asIs # {} THEN asIs ELSE evicting)
<1>1. /\ reservation[h] = Vacant /\ callback' = callback
      /\ LedgerTypes /\ ReservedExact /\ callback \in BOOLEAN /\ IsAllocations(allocations)
  BY DEF AdmitPreview, LedgerInv, LedgerTypes
<1>2. /\ p \notin Request /\ p.limits \in Amount
      /\ DOMAIN p.options \in SUBSET Nat
      /\ \A i \in DOMAIN p.options : p.options[i] \in Requirement /\ p.options[i] \in Amount
  BY PreviewTypes
<1>3. ASSUME NEW i \in DOMAIN p.options
      PROVE  Evicts(choice(i), p.options[i], p.limits)
  BY <1>1, <1>2, EvictionsAreExact
<1>4. \/ /\ report' = Refusal("quiescing", p)
         /\ UNCHANGED <<allocations, reserved, active, reservation>>
      \/ /\ evicting = {}
         /\ report' = Refusal("over budget", p)
         /\ UNCHANGED <<allocations, reserved, active, reservation>>
      \/ /\ evicting # {}
         /\ allocations' = Without(ToSet(choice(taken).evicted))
         /\ Reserve(h, p.options[taken])
         /\ report' = Report("preview", p, taken, choice(taken).evicted)
  BY DEF AdmitPreview
<1>5. \A i \in DOMAIN p.options : i \notin evicting =>
         ~Fits(Plus(choice(i).base, p.options[i]), p.limits)
  OBVIOUS
<1>6. asIs \subseteq evicting
  <2>1. ASSUME NEW i \in asIs PROVE Fits(Plus(choice(i).base, p.options[i]), p.limits)
    <3>1. i \in DOMAIN p.options /\ Fits(Plus(Base, p.options[i]), p.limits)
      OBVIOUS
    <3>2. Evicts(choice(i), p.options[i], p.limits)
      BY <1>3, <3>1
    <3> HIDE DEF choice
    <3> QED BY <3>1, <3>2 DEF Evicts
  <2> HIDE DEF choice
  <2> QED BY <2>1
<1>7. evicting # {} => taken \in evicting
  <2>1. asIs \in SUBSET Nat /\ evicting \in SUBSET Nat
    BY <1>2
  <2> HIDE DEF asIs, evicting
  <2>2. ASSUME evicting # {}
        PROVE  (IF asIs # {} THEN asIs ELSE evicting) \in SUBSET Nat
               /\ (IF asIs # {} THEN asIs ELSE evicting) # {}
    BY <2>1, <2>2
  <2>3. evicting # {} => taken \in (IF asIs # {} THEN asIs ELSE evicting)
    BY <2>2, FirstIsMember
  <2> QED BY <1>6, <2>3
<1> HIDE DEF taken, asIs
<1>8. CASE /\ report' = Refusal("quiescing", p)
           /\ UNCHANGED <<allocations, reserved, active, reservation>>
  <2>1. LedgerTypes' /\ ReservedExact'
    BY <1>1, <1>8, CountersStay
  <2>2. report'.status = "quiescing" /\ report'.evicted = <<>>
    BY <1>8 DEF Refusal, Report
  <2>3. AdmissionFits' /\ RefusalJustified'
    BY <2>2 DEF AdmissionFits, Admitted, RefusalJustified, Refused
  <2>4. EvictsAsNeeded
    BY <2>2, NothingEvicted
  <2> QED BY <2>1, <2>3, <2>4 DEF LedgerStepOK, LedgerInv
<1>9. CASE /\ evicting = {}
           /\ report' = Refusal("over budget", p)
           /\ UNCHANGED <<allocations, reserved, active, reservation>>
  <2>1. LedgerTypes' /\ ReservedExact'
    BY <1>1, <1>9, CountersStay
  <2>2. /\ report'.status = "over budget" /\ report'.evicted = <<>>
        /\ report'.request = p
    BY <1>9 DEF Refusal, Report
  <2>3. BaseWithout(Evictable)' = BaseWithout(Evictable)
    BY <1>1, <1>9, RefusalLeaves
  <2>4. ASSUME NEW i \in DOMAIN p.options
        PROVE  ~Fits(Plus(BaseWithout(Evictable)', p.options[i]), p.limits)
    <3>1. Evicts(choice(i), p.options[i], p.limits)
      BY <1>3
    <3>2. ~Fits(Plus(choice(i).base, p.options[i]), p.limits)
      BY <1>5, <1>9
    <3> HIDE DEF choice
    <3>3. ~Fits(Plus(BaseWithout(Evictable), p.options[i]), p.limits)
      BY <3>1, <3>2 DEF Evicts
    <3> QED BY <2>3, <3>3
  <2>5. RefusalJustified'
    BY <1>2, <2>2, <2>4 DEF RefusalJustified, Refused
  <2>6. AdmissionFits'
    BY <2>2 DEF AdmissionFits, Admitted
  <2>7. EvictsAsNeeded
    BY <2>2, NothingEvicted
  <2> QED BY <2>1, <2>5, <2>6, <2>7 DEF LedgerStepOK, LedgerInv
<1>10. CASE /\ evicting # {}
            /\ allocations' = Without(ToSet(choice(taken).evicted))
            /\ Reserve(h, p.options[taken])
            /\ report' = Report("preview", p, taken, choice(taken).evicted)
  <2>1. taken \in DOMAIN p.options
        /\ Fits(Plus(choice(taken).base, p.options[taken]), p.limits)
    BY <1>7, <1>10
  <2>2. Evicts(choice(taken), p.options[taken], p.limits)
    BY <1>3, <2>1
  <2> DEFINE chosen == choice(taken)
             amount == p.options[taken]
  <2>3. amount \in Requirement /\ amount \in Amount
    BY <1>2, <2>1
  <2> HIDE DEF choice, evicting
  <2>4. /\ Evicts(chosen, amount, p.limits) /\ Reserve(h, amount)
        /\ allocations' = Without(ToSet(chosen.evicted))
        /\ report' = Report("preview", p, taken, chosen.evicted)
        /\ Fits(Plus(chosen.base, amount), p.limits)
    BY <1>10, <2>1, <2>2
  <2>5. amount = (IF p \in Request THEN Least(p) ELSE p.options[taken])
    BY <1>2
  <2> HIDE DEF chosen, amount
  <2>6. /\ LedgerTypes' /\ ReservedExact'
        /\ \A r \in Resource : Base'[r] = chosen.base[r] + amount[r]
    BY <1>1, <1>2, <2>3, <2>4, ChoiceAdmitted
  <2>7. \A r \in Resource : Base'[r] <= p.limits[r]
    BY <2>4, <2>6, Short
  <2>8. "preview" # "over budget" /\ "preview" # "tiled"
    OBVIOUS
  <2>9. AdmissionFits' /\ RefusalJustified'
    BY <2>4, <2>7, <2>8, AdmittedFits
  <2>10. EvictsAsNeeded
    BY <2>4, <2>5, ChoiceEvictsAsNeeded
  <2> QED BY <2>6, <2>9, <2>10 DEF LedgerStepOK, LedgerInv
<1> QED BY <1>4, <1>8, <1>9, <1>10

\* Reports of allocations, removals, the gate and the callback.
LEMMA OtherLedgerStepKeeps ==
    ASSUME LedgerInv,
           \/ \E a \in Allocation, held \in BOOLEAN :
                 \E roles \in Residency(a) : Upsert(a, roles, held)
           \/ \E a \in Allocation : RemoveAllocation(a)
           \/ BeginQuiesce \/ ResumeAdmission \/ SetCallback
    PROVE  LedgerStepOK
<1>1. IsAllocations(allocations) /\ callback \in BOOLEAN
  BY DEF LedgerInv, LedgerTypes
<1>2. /\ report' = Vacant /\ callback' \in BOOLEAN
      /\ UNCHANGED <<reserved, active, reservation>>
  BY <1>1 DEF Upsert, RemoveAllocation, BeginQuiesce, ResumeAdmission, SetCallback
<1>3. IsAllocations(allocations')
  <2>1. ASSUME NEW a \in Allocation, NEW held \in BOOLEAN, NEW roles \in Residency(a),
               Upsert(a, roles, held)
        PROVE  IsAllocations(allocations')
    <3>1. roles \in SUBSET Resource
      BY LedgerAssumption
    <3>2. allocations' = [x \in DOMAIN allocations \cup {a} |->
                            IF x = a THEN [roles |-> roles, held |-> held]
                                     ELSE allocations[x]]
      BY <2>1 DEF Upsert
    <3>3. DOMAIN allocations' = DOMAIN allocations \cup {a}
      BY <3>2
    <3>4. ASSUME NEW x \in DOMAIN allocations'
          PROVE  allocations'[x].roles \in SUBSET Resource /\ allocations'[x].held \in BOOLEAN
      <4>1. CASE x = a
        <5>1. allocations'[x] = [roles |-> roles, held |-> held]
          BY <3>2, <3>3, <4>1
        <5> QED BY <3>1, <5>1
      <4>2. CASE x # a
        <5>1. allocations'[x] = allocations[x] /\ x \in DOMAIN allocations
          BY <3>2, <3>3, <4>2
        <5> QED BY <1>1, <5>1 DEF IsAllocations
      <4> QED BY <4>1, <4>2
    <3> QED BY <1>1, <3>3, <3>4 DEF IsAllocations
  <2>2. ASSUME NEW a \in Allocation, RemoveAllocation(a)
        PROVE  IsAllocations(allocations')
    <3>1. allocations' = Without({a})
      BY <2>2 DEF RemoveAllocation
    <3> QED BY <1>1, <3>1, WithoutEffect DEF IsAllocations
  <2>3. ASSUME BeginQuiesce \/ ResumeAdmission \/ SetCallback
        PROVE  IsAllocations(allocations')
    BY <1>1, <2>3 DEF BeginQuiesce, ResumeAdmission, SetCallback
  <2> QED BY <2>1, <2>2, <2>3
<1>4. LedgerTypes' /\ ReservedExact'
  BY <1>2, <1>3, CountersStay
<1>5. AdmissionFits' /\ RefusalJustified' /\ EvictsAsNeeded
  BY <1>2, NoReport
<1> QED BY <1>4, <1>5 DEF LedgerStepOK, LedgerInv

\* A reservation is returned.
LEMMA ReleaseStepKeeps ==
    ASSUME LedgerInv, NEW h \in Holder, Release(h)
    PROVE  LedgerStepOK
<1>1. LedgerTypes /\ ReservedExact
  BY DEF LedgerInv
<1>2. /\ reserved' \in Amount /\ active' \in Int
      /\ reservation' \in [Holder -> [Resource -> Nat] \cup {Vacant}]
      /\ ReservedExact'
  BY <1>1, ReleaseKeeps
<1>3. allocations' = allocations /\ callback' = callback /\ report' = Vacant
  BY DEF Release
<1>4. LedgerTypes'
  BY <1>1, <1>2, <1>3 DEF LedgerTypes
<1>5. AdmissionFits' /\ RefusalJustified' /\ EvictsAsNeeded
  BY <1>3, NoReport
<1> QED BY <1>2, <1>4, <1>5 DEF LedgerStepOK, LedgerInv

\* A ledger begins with nothing taken.
LEMMA LedgerInitInv == LedgerInit => LedgerInv
<1> SUFFICES ASSUME LedgerInit PROVE LedgerInv
  OBVIOUS
<1>1. /\ allocations = <<>> /\ reserved = Nothing /\ active = 0 /\ callback = FALSE
      /\ reservation = [h \in Holder |-> Vacant] /\ report = Vacant
  BY DEF LedgerInit
<1>2. LedgerTypes
  <2>1. IsAllocations(allocations)
    BY <1>1 DEF IsAllocations
  <2>2. reserved \in Amount
    BY <1>1 DEF Nothing, Amount
  <2>3. reservation \in [Holder -> [Resource -> Nat] \cup {Vacant}]
    BY <1>1
  <2>4. active \in Int
    BY <1>1
  <2>5. callback \in BOOLEAN
    BY <1>1, Zenon
  <2> QED BY <2>1, <2>2, <2>3, <2>4, <2>5 DEF LedgerTypes
<1>3. ReservedExact
  <2>1. Holding = {}
    BY <1>1 DEF Holding
  <2>2. IsFiniteSet({}) /\ Cardinality({}) = 0 /\ VectorsFor(reservation, {}, Resource)
    BY FS_EmptySet DEF VectorsFor
  <2>3. PICK g : SumsTo(g, reservation, {}, Resource) /\ VectorSum(reservation, {}, Resource) = g[{}]
    BY <2>2, VectorSumUnfolds
  <2>4. g[{}] \in [Resource -> Int] /\ \A r \in Resource : g[{}][r] = 0
    BY <2>3 DEF SumsTo
  <2>5. g[{}] = Nothing
    BY <2>4 DEF Nothing
  <2>6. Total(reservation, {}) = Nothing
    BY <2>3, <2>5, TotalIsVectorSum
  <2> QED BY <1>1, <2>1, <2>2, <2>6 DEF ReservedExact
<1>4. AdmissionFits /\ RefusalJustified
  BY <1>1 DEF AdmissionFits, Admitted, RefusalJustified, Refused
<1> QED BY <1>2, <1>3, <1>4 DEF LedgerInv

\* Every step keeps the invariant and evicts only what it needs.
LEMMA LedgerStep ==
    ASSUME LedgerInv, LedgerNext
    PROVE  LedgerStepOK
BY AdmitKeeps, AdmitPreviewKeeps, OtherLedgerStepKeeps, ReleaseStepKeeps DEF LedgerNext

\* So does a step that changes nothing.
LEMMA LedgerStutterKeeps ==
    ASSUME LedgerInv, UNCHANGED ledgerVars
    PROVE  LedgerInv'
<1>1. UNCHANGED <<allocations, reserved, active, callback, reservation, report>>
  BY DEF ledgerVars
<1>2. LedgerTypes' /\ ReservedExact'
  BY <1>1, CountersStay DEF LedgerInv, LedgerTypes
<1>3. Base' = Base
  BY <1>1, SumOverIsSumIn
<1>4. AdmissionFits'
  BY <1>1, <1>3 DEF LedgerInv, AdmissionFits, Admitted, Fits, Plus
<1>5. BaseWithout(Evictable)' = BaseWithout(Evictable)
  BY <1>1, RefusalLeaves
<1>6. RefusalJustified'
  BY <1>1, <1>5 DEF LedgerInv, RefusalJustified, Refused
<1> QED BY <1>2, <1>4, <1>6 DEF LedgerInv

\* The ledger's invariant, for any resources, holders, allocations, requests
\* and limits, and any order of the operations.
THEOREM LedgerInvariant == LedgerSpec => []LedgerInv
<1>1. LedgerInv /\ [LedgerNext]_ledgerVars => LedgerInv'
  BY LedgerStep, LedgerStutterKeeps DEF LedgerStepOK
<1> QED BY <1>1, LedgerInitInv, PTL DEF LedgerSpec

\* The running total and count of ResourceLedger are always those of the live
\* reservations.
THEOREM ReservationsAreCounted == LedgerSpec => []ReservedExact
<1>1. LedgerInv => ReservedExact
  BY DEF LedgerInv
<1> QED BY <1>1, LedgerInvariant, PTL

\* What admit() and admit_preview_quality() admit fits the limits it was
\* admitted with, together with everything taken before, and a tiled batch is
\* the largest that does.
THEOREM AdmittedWorkFits == LedgerSpec => []AdmissionFits
<1>1. LedgerInv => AdmissionFits
  BY DEF LedgerInv
<1> QED BY <1>1, LedgerInvariant, PTL

\* Work is refused for the budget only when it would not fit with every idle
\* cache evicted.
THEOREM RefusalsAreJustified == LedgerSpec => []RefusalJustified
<1>1. LedgerInv => RefusalJustified
  BY DEF LedgerInv
<1> QED BY <1>1, LedgerInvariant, PTL

\* Evictions take idle caches, and the last one was needed for the work to fit.
THEOREM NothingEvictedInVain == LedgerSpec => EvictionsNeeded
<1>1. LedgerInv /\ LedgerNext => EvictsAsNeeded
  BY LedgerStep DEF LedgerStepOK
<1>2. LedgerInv /\ [LedgerNext]_ledgerVars => [EvictsAsNeeded]_ledgerVars
  BY <1>1
<1> QED BY <1>2, LedgerInvariant, PTL DEF LedgerSpec, EvictionsNeeded

-----------------------------------------------------------------------------
(* The autosave session *)

Writing == {"write", "directory"}

\* The three snapshots of a session are distinct and in order: what is pending
\* is newer than what is being saved, and that newer than what was saved; none
\* is older than where the session began.
Ordered ==
    /\ session.saving # NoRevision <=> session.pc \in Writing
    /\ session.pc = "directory" => file = session.saving
    /\ session.pending # NoRevision =>
          /\ session.pending > session.saved
          /\ session.pending > session.saving
          /\ firstRevision <= session.pending
          /\ session.pending <= committed
    /\ session.saving # NoRevision =>
          /\ session.saving > session.saved
          /\ firstRevision <= session.saving
          /\ session.saving <= committed

\* What was reported as saved is no newer than what this session saved or began
\* with, and the recovery file is as new as either unless a save failed.
Bounded ==
    /\ file <= committed
    /\ reported <= committed
    /\ reported <= session.saved \/ reported <= firstRevision
    /\ ~session.error =>
          \/ file <= session.saved
          \/ file <= firstRevision
          \/ session.pc = "directory"

\* Where the snapshot accepted last is: at the back of what the session holds,
\* or, when it holds none, saved unless the last save failed.
Followed ==
    ~session.stopping =>
        /\ session.pending # NoRevision => session.accepted = session.pending
        /\ session.pending = NoRevision /\ session.saving # NoRevision
              => session.accepted = session.saving
        /\ session.pending = NoRevision /\ session.saving = NoRevision
              => session.error \/ session.accepted \in {NoRevision, session.saved}

\* The inductive invariant.
AutosaveInv ==
    AutosaveTypeOK /\ ReportedSurvives /\ Ordered /\ Bounded /\ Followed

-----------------------------------------------------------------------------
(* What the operations do to the members of a session *)

\* Revisions are natural numbers, the absent one among them.
LEMMA RevisionsAreNumbers ==
    /\ NoRevision \in Revision
    /\ \A r \in Revision : r \in Nat
    /\ MaxRevision \in Nat \ {0}
<1>1. MaxRevision \in Nat \ {0}
  BY AutosaveAssumption
<1>2. \A r \in 0 .. MaxRevision : r \in Nat
  BY <1>1
<1>3. 0 \in 0 .. MaxRevision
  BY <1>1
<1> QED BY <1>1, <1>2, <1>3 DEF Revision, NoRevision

\* Members of a session by type.
LEMMA SessionMembers ==
    ASSUME NEW s \in Session
    PROVE  /\ s.pending \in Nat /\ s.saving \in Nat /\ s.saved \in Nat
           /\ s.error \in BOOLEAN
<1>1. s.pending \in Revision /\ s.saving \in Revision /\ s.saved \in Revision
      /\ s.error \in BOOLEAN
  BY DEF Session
<1> QED BY <1>1, RevisionsAreNumbers

\* The head of the loop, entered with nothing being saved: the worker sleeps or
\* returns with the snapshots as they are, or takes the pending one.
LEMMA LoopHeadEffect ==
    ASSUME NEW s \in Session, s.saving = NoRevision
    PROVE  LET t == LoopHead(s) IN
           /\ t \in Session
           /\ t.saved = s.saved /\ t.error = s.error
           /\ t.stopping = s.stopping /\ t.accepted = s.accepted
           /\ \/ /\ t.pc \notin Writing
                 /\ t.pending = s.pending /\ t.saving = NoRevision
              \/ /\ t.pc = "write" /\ s.pending # NoRevision
                 /\ t.pending = NoRevision /\ t.saving = s.pending
  BY RevisionsAreNumbers DEF LoopHead, Taken, Sleeping, Session, Writing, Threads

\* A save that ended leaves what is pending, or has it taken at once.
LEMMA FinishedEffect ==
    ASSUME NEW s \in Session
    PROVE  LET t == FinishedWith(s) IN
           /\ t \in Session
           /\ t.saved = s.saved /\ t.error = s.error
           /\ t.stopping = s.stopping /\ t.accepted = s.accepted
           /\ \/ /\ t.pc \notin Writing
                 /\ t.pending = s.pending /\ t.saving = NoRevision
              \/ /\ t.pc = "write" /\ s.pending # NoRevision
                 /\ t.pending = NoRevision /\ t.saving = s.pending
<1> DEFINE u == Notify([s EXCEPT !.saving = NoRevision, !.due = FALSE])
<1>1. /\ u \in Session
      /\ u.saving = NoRevision /\ u.saved = s.saved /\ u.error = s.error
      /\ u.pending = s.pending
      /\ u.stopping = s.stopping /\ u.accepted = s.accepted
  BY RevisionsAreNumbers DEF Notify, Session, Threads
<1>2. FinishedWith(s) = LoopHead(u)
  BY DEF FinishedWith
<1> HIDE DEF u
<1> QED BY <1>1, <1>2, LoopHeadEffect

\* A snapshot that is not stale is newer than all three the session knows.
LEMMA NotStale ==
    ASSUME NEW s \in Session, NEW r \in Revision, ~Stale(s, r)
    PROVE  r > s.saved /\ r > s.saving /\ r > s.pending
<1> DEFINE known == {s.saved, s.saving, s.pending}
<1>1. /\ s.saved \in Int /\ s.saving \in Int /\ s.pending \in Int
      /\ r \in Int
  BY SessionMembers, RevisionsAreNumbers
<1>2. \E n \in known : \A m \in known : m <= n
  <2>1. ASSUME NEW a \in Int, NEW b \in Int, NEW c \in Int
        PROVE  \E n \in {a, b, c} : \A m \in {a, b, c} : m <= n
    <3>1. CASE a <= c /\ b <= c BY <3>1
    <3>2. CASE a <= b /\ c <= b BY <3>2
    <3>3. CASE b <= a /\ c <= a BY <3>3
    <3> QED BY <3>1, <3>2, <3>3
  <2> QED BY <1>1, <2>1
<1>3. /\ Newest(s) \in known
      /\ \A m \in known : m <= Newest(s)
  BY <1>2 DEF Newest
<1> QED BY <1>1, <1>3, SMT DEF Stale

-----------------------------------------------------------------------------
(* The invariant is inductive *)

LEMMA AutosaveInitInv == AutosaveInit => AutosaveInv
<1> SUFFICES ASSUME AutosaveInit PROVE AutosaveInv
  OBVIOUS
<1>1. /\ session.pending = 0 /\ session.saving = 0 /\ session.saved = 0
      /\ session.error = FALSE /\ session.pc = "loop" /\ session.accepted = 0
      /\ session \in Session
  BY RevisionsAreNumbers DEF AutosaveInit, NewSession, Session, NoRevision
<1>2. AutosaveTypeOK
  <2>1. 1 \in 1 .. MaxRevision /\ 1 \in 1 .. 1
    BY RevisionsAreNumbers
  <2> QED BY <1>1, <2>1, RevisionsAreNumbers DEF AutosaveInit, AutosaveTypeOK
<1>3. ReportedSurvives /\ Ordered /\ Bounded /\ Followed
  BY <1>1 DEF AutosaveInit, ReportedSurvives, Ordered, Bounded, Followed, NoRevision, Writing
<1> QED BY <1>2, <1>3 DEF AutosaveInv

\* Members of a session that changed none of those the invariant orders.
Same(s, t) ==
    /\ t \in Session
    /\ t.pending = s.pending /\ t.saving = s.saving /\ t.saved = s.saved
    /\ t.error = s.error /\ t.pc = s.pc
    /\ t.stopping = s.stopping /\ t.accepted = s.accepted

\* Such a change keeps the invariant if the rest stays.
LEMMA SameKeeps ==
    ASSUME AutosaveInv, Same(session, session'), flusher' \in {"away", "waiting"},
           UNCHANGED <<firstRevision, file, survivors, reported>>,
           committed' \in 1 .. MaxRevision, committed <= committed'
    PROVE  AutosaveInv'
<1>1. AutosaveTypeOK' /\ ReportedSurvives'
  BY DEF AutosaveInv, AutosaveTypeOK, ReportedSurvives, Same
<1>2. Ordered' /\ Bounded' /\ Followed'
  <2>1. /\ committed \in Nat /\ committed' \in Nat /\ file \in Nat /\ reported \in Nat
        /\ session.pending \in Nat /\ session.saving \in Nat
    BY SessionMembers, RevisionsAreNumbers DEF AutosaveInv, AutosaveTypeOK
  <2> QED BY <2>1 DEF AutosaveInv, Ordered, Bounded, Followed, Same
<1> QED BY <1>1, <1>2 DEF AutosaveInv

\* The revisions the invariant compares are numbers.
LEMMA InvNumbers ==
    ASSUME AutosaveInv
    PROVE  /\ committed \in Nat \ {0} /\ firstRevision \in Nat \ {0}
           /\ firstRevision <= committed
           /\ file \in Nat /\ reported \in Nat
           /\ session \in Session
           /\ session.pending \in Nat /\ session.saving \in Nat /\ session.saved \in Nat
           /\ file \in survivors /\ reported <= file
<1>1. MaxRevision \in Nat
  BY RevisionsAreNumbers
<1>2. /\ committed \in 1 .. MaxRevision /\ firstRevision \in 1 .. committed
      /\ file \in Nat /\ reported \in Nat /\ session \in Session
      /\ file \in survivors /\ reported <= file
  BY RevisionsAreNumbers DEF AutosaveInv, AutosaveTypeOK, ReportedSurvives
<1> QED BY <1>1, <1>2, SessionMembers

\* The worker at the head of its loop.
LEMMA WorkerRunsKeeps ==
    ASSUME AutosaveInv, WorkerRuns
    PROVE  AutosaveInv'
<1>1. session.saving = NoRevision
  BY DEF WorkerRuns, AutosaveInv, Ordered, Writing
<1>2. /\ session' = LoopHead(session)
      /\ UNCHANGED <<committed, firstRevision, flusher, file, survivors, reported>>
  BY DEF WorkerRuns
<1>3. /\ session' \in Session
      /\ session'.saved = session.saved /\ session'.error = session.error
      /\ session'.stopping = session.stopping /\ session'.accepted = session.accepted
      /\ \/ /\ session'.pc \notin Writing
            /\ session'.pending = session.pending /\ session'.saving = NoRevision
         \/ /\ session'.pc = "write" /\ session.pending # NoRevision
            /\ session'.pending = NoRevision /\ session'.saving = session.pending
  BY <1>1, <1>2, InvNumbers, LoopHeadEffect
<1>4. AutosaveTypeOK' /\ ReportedSurvives'
  BY <1>2, <1>3 DEF AutosaveInv, AutosaveTypeOK, ReportedSurvives
<1>5. Ordered'
  BY <1>1, <1>2, <1>3, InvNumbers DEF AutosaveInv, Ordered, Writing, NoRevision
<1>6. Bounded'
  <2>1. session.pc # "directory"
    BY DEF WorkerRuns
  <2> QED BY <1>2, <1>3, <2>1 DEF AutosaveInv, Bounded
<1>7. Followed'
  BY <1>1, <1>3 DEF AutosaveInv, Followed
<1> QED BY <1>4, <1>5, <1>6, <1>7 DEF AutosaveInv

\* Publishing: the snapshot being saved is as new as anything reported.
LEMMA PublishFileKeeps ==
    ASSUME AutosaveInv, PublishFile
    PROVE  AutosaveInv' /\ (file' < file => session.error)
<1>1. /\ session.saving # NoRevision /\ session.pc = "write"
      /\ session.saving > session.saved
      /\ firstRevision <= session.saving /\ session.saving <= committed
  BY DEF PublishFile, AutosaveInv, Ordered, Writing
<1>2. /\ file' = session.saving /\ survivors' = survivors \cup {session.saving}
      /\ session' = [session EXCEPT !.pc = "directory"]
      /\ UNCHANGED <<committed, firstRevision, flusher, reported>>
  BY DEF PublishFile, Renamed
<1>3. /\ session' \in Session /\ session'.pc = "directory"
      /\ session'.pending = session.pending /\ session'.saving = session.saving
      /\ session'.saved = session.saved /\ session'.error = session.error
      /\ session'.stopping = session.stopping /\ session'.accepted = session.accepted
      /\ session.saving \in Revision
  BY <1>2, InvNumbers DEF Session
<1>4. reported <= session.saving
  BY <1>1, InvNumbers DEF AutosaveInv, Bounded
<1>5. AutosaveTypeOK'
  BY <1>2, <1>3 DEF AutosaveInv, AutosaveTypeOK
<1>6. ReportedSurvives'
  BY <1>2, <1>4, InvNumbers DEF AutosaveInv, ReportedSurvives
<1>7. Ordered'
  BY <1>1, <1>2, <1>3 DEF AutosaveInv, Ordered, Writing
<1>8. Bounded'
  BY <1>1, <1>2, <1>3, InvNumbers DEF AutosaveInv, Bounded
<1>9. file' < file => session.error
  BY <1>1, <1>2, InvNumbers DEF AutosaveInv, Bounded
<1>10. Followed'
  BY <1>3 DEF AutosaveInv, Followed
<1> QED BY <1>5, <1>6, <1>7, <1>8, <1>9, <1>10 DEF AutosaveInv

\* A save that succeeds reports the very revision a power loss leaves.
LEMMA SaveSucceedsKeeps ==
    ASSUME AutosaveInv, SaveSucceeds
    PROVE  AutosaveInv'
<1> DEFINE u == [session EXCEPT !.saved = session.saving, !.error = FALSE]
<1>1. /\ session.saving # NoRevision /\ file = session.saving
      /\ session.saving > session.saved
      /\ firstRevision <= session.saving /\ session.saving <= committed
  BY DEF SaveSucceeds, AutosaveInv, Ordered, Writing
<1>2. /\ survivors' = {file} /\ reported' = session.saving
      /\ session' = FinishedWith(u)
      /\ UNCHANGED <<committed, firstRevision, flusher, file>>
  BY DEF SaveSucceeds, DirectorySynchronized
<1>3. /\ u \in Session /\ u.saved = session.saving /\ u.error = FALSE
      /\ u.pending = session.pending
      /\ u.stopping = session.stopping /\ u.accepted = session.accepted
  BY InvNumbers DEF Session
<1> HIDE DEF u
<1>4. /\ session' \in Session
      /\ session'.saved = session.saving /\ session'.error = FALSE
      /\ session'.stopping = session.stopping /\ session'.accepted = session.accepted
      /\ \/ /\ session'.pc \notin Writing
            /\ session'.pending = session.pending /\ session'.saving = NoRevision
         \/ /\ session'.pc = "write" /\ session.pending # NoRevision
            /\ session'.pending = NoRevision /\ session'.saving = session.pending
  BY <1>2, <1>3, FinishedEffect
<1>5. AutosaveTypeOK'
  BY <1>1, <1>2, <1>4 DEF AutosaveInv, AutosaveTypeOK
<1>6. ReportedSurvives'
  BY <1>1, <1>2, InvNumbers DEF ReportedSurvives
<1>7. Ordered'
  BY <1>1, <1>2, <1>4, InvNumbers DEF AutosaveInv, Ordered, Writing, NoRevision
<1>8. Bounded'
  BY <1>1, <1>2, <1>4, InvNumbers DEF Bounded
<1>9. Followed'
  BY <1>1, <1>4 DEF AutosaveInv, Followed
<1> QED BY <1>5, <1>6, <1>7, <1>8, <1>9 DEF AutosaveInv

\* A failed save loses its snapshot and nothing that was reported.
LEMMA SaveFailsKeeps ==
    ASSUME AutosaveInv, SaveFails
    PROVE  AutosaveInv'
<1> DEFINE u == [session EXCEPT !.error = TRUE]
<1>1. /\ session' = FinishedWith(u)
      /\ UNCHANGED <<committed, firstRevision, flusher, file, survivors, reported>>
  BY DEF SaveFails
<1>2. /\ u \in Session /\ u.saved = session.saved /\ u.error = TRUE
      /\ u.pending = session.pending
      /\ u.stopping = session.stopping /\ u.accepted = session.accepted
  BY InvNumbers DEF Session
<1> HIDE DEF u
<1>3. /\ session' \in Session
      /\ session'.saved = session.saved /\ session'.error = TRUE
      /\ session'.stopping = session.stopping /\ session'.accepted = session.accepted
      /\ \/ /\ session'.pc \notin Writing
            /\ session'.pending = session.pending /\ session'.saving = NoRevision
         \/ /\ session'.pc = "write" /\ session.pending # NoRevision
            /\ session'.pending = NoRevision /\ session'.saving = session.pending
  BY <1>1, <1>2, FinishedEffect
<1>4. AutosaveTypeOK' /\ ReportedSurvives'
  BY <1>1, <1>3 DEF AutosaveInv, AutosaveTypeOK, ReportedSurvives
<1>5. Ordered'
  BY <1>1, <1>3, InvNumbers DEF AutosaveInv, Ordered, Writing, NoRevision
<1>6. Bounded'
  BY <1>1, <1>3 DEF AutosaveInv, Bounded
<1>7. Followed'
  BY <1>3 DEF AutosaveInv, Followed
<1> QED BY <1>4, <1>5, <1>6, <1>7 DEF AutosaveInv

\* Accepting a snapshot keeps it newer than all the session knows.
LEMMA SubmitKeeps ==
    ASSUME AutosaveInv, NEW r \in firstRevision .. committed, Submit(r)
    PROVE  AutosaveInv'
<1>1. /\ r \in Revision /\ r \in Nat /\ firstRevision <= r /\ r <= committed
  <2>1. committed \in 1 .. MaxRevision /\ MaxRevision \in Nat
    BY RevisionsAreNumbers DEF AutosaveInv, AutosaveTypeOK
  <2> QED BY <2>1, InvNumbers DEF Revision, NoRevision
<1>2. r > session.saved /\ r > session.saving
  BY <1>1, InvNumbers, NotStale DEF Submit
<1>3. /\ session' \in Session /\ session'.pending = r /\ session'.accepted = r
      /\ session'.saving = session.saving /\ session'.saved = session.saved
      /\ session'.error = session.error /\ session'.pc = session.pc
      /\ UNCHANGED <<committed, firstRevision, flusher, file, survivors, reported>>
  BY <1>1, InvNumbers DEF Submit, Queued, Notify, Session, Threads
<1>4. AutosaveTypeOK' /\ ReportedSurvives'
  BY <1>3 DEF AutosaveInv, AutosaveTypeOK, ReportedSurvives
<1>5. Ordered' /\ Bounded'
  BY <1>1, <1>2, <1>3 DEF AutosaveInv, Ordered, Bounded
<1>6. Followed'
  <2>1. r # NoRevision
    BY <1>1, InvNumbers DEF NoRevision
  <2> QED BY <1>3, <2>1 DEF Followed
<1> QED BY <1>4, <1>5, <1>6 DEF AutosaveInv

\* Destruction drops what is pending.
LEMMA DestroyKeeps ==
    ASSUME AutosaveInv, Destroy
    PROVE  AutosaveInv'
<1>1. /\ session' \in Session /\ session'.pending = NoRevision /\ session'.stopping
      /\ session'.saving = session.saving /\ session'.saved = session.saved
      /\ session'.error = session.error /\ session'.pc = session.pc
      /\ UNCHANGED <<committed, firstRevision, flusher, file, survivors, reported>>
  BY InvNumbers, RevisionsAreNumbers DEF Destroy, Notify, Session, Threads
<1>2. AutosaveTypeOK' /\ ReportedSurvives'
  BY <1>1 DEF AutosaveInv, AutosaveTypeOK, ReportedSurvives
<1>3. Ordered' /\ Bounded' /\ Followed'
  BY <1>1 DEF AutosaveInv, Ordered, Bounded, Followed
<1> QED BY <1>2, <1>3 DEF AutosaveInv

\* A new session begins at a document no older than the recovery file.
LEMMA NewSessionKeeps ==
    ASSUME AutosaveInv, session' = NewSession,
           committed' \in 1 .. MaxRevision, firstRevision' = committed',
           flusher' \in {"away", "waiting"}, reported' = reported,
           file' \in survivors', survivors' \subseteq survivors, file' <= committed'
    PROVE  AutosaveInv'
<1>1. /\ session' \in Session
      /\ session'.pending = NoRevision /\ session'.saving = NoRevision
      /\ session'.saved = NoRevision /\ session'.error = FALSE /\ session'.pc = "loop"
      /\ session'.accepted = NoRevision
  BY RevisionsAreNumbers DEF NewSession, Session
<1>2. /\ survivors \subseteq Revision
      /\ \A r \in survivors : r >= reported
  BY DEF AutosaveInv, AutosaveTypeOK, ReportedSurvives
<1>3. /\ committed' \in Nat /\ committed' \in 1 .. committed'
      /\ file' \in Nat /\ reported <= file' /\ reported \in Nat
  BY <1>2, InvNumbers, RevisionsAreNumbers
<1>4. AutosaveTypeOK' /\ ReportedSurvives'
  BY <1>1, <1>2, <1>3 DEF AutosaveInv, AutosaveTypeOK, ReportedSurvives
<1>5. Ordered' /\ Followed'
  BY <1>1 DEF Ordered, Followed, Writing
<1>6. Bounded'
  BY <1>1, <1>3 DEF Bounded
<1> QED BY <1>4, <1>5, <1>6 DEF AutosaveInv

\* Restarting a session, or the process, keeps the invariant.
LEMMA RestartKeeps ==
    ASSUME AutosaveInv, Reopen \/ Crash \/ PowerLoss
    PROVE  AutosaveInv'
<1>1. /\ committed \in 1 .. MaxRevision /\ file \in survivors
      /\ survivors \subseteq Revision
      /\ flusher \in {"away", "waiting"} /\ file <= committed
  BY DEF AutosaveInv, AutosaveTypeOK, Bounded
<1>2. ASSUME NEW r \in Revision, committed' = IF r = NoRevision THEN 1 ELSE r
      PROVE  committed' \in 1 .. MaxRevision /\ r <= committed'
  <2>1. MaxRevision \in Nat \ {0} /\ r \in 0 .. MaxRevision
    BY RevisionsAreNumbers DEF Revision, NoRevision
  <2> QED BY <1>2, <2>1 DEF NoRevision
<1>3. CASE Reopen
  BY <1>1, <1>3, NewSessionKeeps DEF Reopen
<1>4. CASE Crash
  BY <1>1, <1>2, <1>4, NewSessionKeeps DEF Crash, RecoverFrom
<1>5. CASE PowerLoss
  <2>1. PICK r \in survivors : RecoverFrom(r) /\ file' = r /\ survivors' = {r}
    BY <1>5 DEF PowerLoss
  <2>2. reported' = reported
    BY <1>5 DEF PowerLoss
  <2> QED BY <1>1, <1>2, <2>1, <2>2, NewSessionKeeps DEF RecoverFrom
<1> QED BY <1>3, <1>4, <1>5

\* Steps that leave what the invariant orders alone: a flushing thread, time,
\* edits, and steps that change nothing here.
LEMMA QuietStepKeeps ==
    ASSUME AutosaveInv,
           IntervalPasses \/ Commit \/ FlushBegins \/ FlushWakes \/ UNCHANGED autosaveVars
    PROVE  AutosaveInv' /\ file' = file
<1>1. /\ committed \in 1 .. MaxRevision /\ committed <= committed
      /\ flusher \in {"away", "waiting"}
      /\ session \in Session /\ Same(session, session)
  BY InvNumbers DEF AutosaveInv, AutosaveTypeOK, Same
<1>2. CASE IntervalPasses
  <2>1. Same(session, session')
    BY <1>1, <1>2 DEF IntervalPasses, Same, Session
  <2> QED BY <1>1, <1>2, <2>1, SameKeeps DEF IntervalPasses
<1>3. CASE Commit
  <2>1. committed' \in 1 .. MaxRevision /\ committed <= committed'
    BY <1>1, <1>3, RevisionsAreNumbers DEF Commit
  <2> QED BY <1>1, <1>3, <2>1, SameKeeps DEF Commit
<1>4. ASSUME NEW s \in Session, Same(session, s), FlushWaits(s)
      PROVE  Same(session, session') /\ flusher' \in {"away", "waiting"}
  <2>1. CASE Idle(s)
    <3>1. session' = [s EXCEPT !.flush = FALSE, !.asleep = @ \ {"flusher"}]
          /\ flusher' = "away"
      BY <1>4, <2>1 DEF FlushWaits
    <3> QED BY <1>4, <3>1 DEF Same, Session
  <2>2. CASE ~Idle(s)
    <3>1. session' = [s EXCEPT !.asleep = @ \cup {"flusher"}] /\ flusher' = "waiting"
      BY <1>4, <2>2 DEF FlushWaits, Sleeping
    <3> QED BY <1>4, <3>1 DEF Same, Session, Threads
  <2> QED BY <2>1, <2>2
<1>5. CASE FlushBegins
  <2> DEFINE s == Notify([session EXCEPT !.flush = TRUE])
  <2>1. s \in Session /\ Same(session, s)
    BY <1>1 DEF Notify, Same, Session, Threads
  <2>2. FlushWaits(s) /\ UNCHANGED <<committed, firstRevision, file, survivors, reported>>
    BY <1>5 DEF FlushBegins
  <2> HIDE DEF s
  <2> QED BY <1>1, <1>4, <2>1, <2>2, SameKeeps
<1>6. CASE FlushWakes
  BY <1>1, <1>4, <1>6, SameKeeps DEF FlushWakes
<1>7. CASE UNCHANGED autosaveVars
  BY <1>1, <1>7, SameKeeps DEF autosaveVars
<1> QED BY <1>2, <1>3, <1>5, <1>6, <1>7

\* Every step keeps the invariant, and takes the recovery file back only after
\* a failed save or into a new session.
LEMMA AutosaveStep ==
    ASSUME AutosaveInv, [AutosaveNext]_autosaveVars
    PROVE  AutosaveInv' /\ (file' < file => session.error \/ session' = NewSession)
<1>0. file \in Nat
  BY InvNumbers
<1>1. CASE WorkerRuns
  <2>1. file' = file
    BY <1>1 DEF WorkerRuns
  <2> QED BY <1>0, <1>1, <2>1, WorkerRunsKeeps
<1>2. CASE PublishFile
  BY <1>2, PublishFileKeeps
<1>3. CASE SaveSucceeds
  BY <1>0, <1>3, SaveSucceedsKeeps DEF SaveSucceeds
<1>4. CASE SaveFails
  BY <1>0, <1>4, SaveFailsKeeps DEF SaveFails
<1>5. CASE \E revision \in firstRevision .. committed : Submit(revision)
  BY <1>0, <1>5, SubmitKeeps DEF Submit
<1>6. CASE Destroy
  BY <1>0, <1>6, DestroyKeeps DEF Destroy
<1>7. CASE Reopen \/ Crash \/ PowerLoss
  BY <1>7, RestartKeeps DEF Reopen, Crash, PowerLoss, RecoverFrom
<1>8. CASE IntervalPasses \/ Commit \/ FlushBegins \/ FlushWakes \/ UNCHANGED autosaveVars
  BY <1>0, <1>8, QuietStepKeeps
<1> QED BY <1>1, <1>2, <1>3, <1>4, <1>5, <1>6, <1>7, <1>8 DEF AutosaveNext, WorkerStep

-----------------------------------------------------------------------------
(* Theorems *)

\* The invariant holds of every reachable state of the autosave session.
THEOREM AutosaveInvariant == AutosaveSpec => []AutosaveInv
<1>1. AutosaveInit => AutosaveInv
  BY AutosaveInitInv
<1>2. AutosaveInv /\ [AutosaveNext]_autosaveVars => AutosaveInv'
  BY AutosaveStep
<1> QED BY <1>1, <1>2, PTL DEF AutosaveSpec

\* Whatever the session once reported as saved survives every later failed
\* save, crash, power loss and restart, for any bound and any set of faults.
THEOREM SavedRevisionsSurvive == AutosaveSpec => []ReportedSurvives
<1>1. AutosaveInv => ReportedSurvives
  BY DEF AutosaveInv
<1> QED BY <1>1, AutosaveInvariant, PTL

\* A live session accounts for the snapshot it accepted last: it is held or
\* saved, or the session shows a failed save.
THEOREM AcceptedIsAccounted == AutosaveSpec => []AcceptedAccounted
<1>1. AutosaveInv => AcceptedAccounted
  BY DEF AutosaveInv, Followed, AcceptedAccounted, Alive
<1> QED BY <1>1, AutosaveInvariant, PTL

\* The recovery file is replaced by an older revision only while the session
\* reports a failed save, or by a power loss.
THEOREM RecoveryFileGoesBackOnlyAfterFailure == AutosaveSpec => GoesBackOnlyAfterFailure
<1>1. AutosaveInv /\ [AutosaveNext]_autosaveVars
        => [file' < file => session.error \/ session' = NewSession]_autosaveVars
  BY AutosaveStep
<1> QED BY <1>1, AutosaveInvariant, PTL DEF AutosaveSpec, GoesBackOnlyAfterFailure

-----------------------------------------------------------------------------
(* The composition *)

\* The ledger counts at least the reservations that are held, so none is when
\* it counts none.
Counted ==
    /\ active \in Nat
    /\ DOMAIN reservation = Holder
    /\ Cardinality(Holding) <= active

\* What the call collected was true when it was, and stays so: reported saves
\* only get newer, and a closed gate admits nothing after the drain.
Collected ==
    /\ quiesce.saved => quiesce.revision <= reported
    /\ (quiesce.drained \/ quiesce.pc = "durable") /\ ~accepting => active = 0

QuiescePlace == {"away", "flush", "cancel", "drain", "draining", "save", "saving",
                 "report", "durable"}

\* The members of a call in progress.
Call == [ pc : QuiescePlace, revision : Revision, woken : BOOLEAN,
          drained : BOOLEAN, saved : BOOLEAN ]

\* The inductive invariant of the composition.
LifecycleInv ==
    /\ AutosaveInv
    /\ session.saved <= reported
    /\ promised \in Revision /\ promised <= reported
    /\ Counted
    /\ Collected
    /\ quiesce \in Call

-----------------------------------------------------------------------------
(* The ledger *)

\* Holders are finitely many.
LEMMA HoldersAreFinite == IsFiniteSet(Holder)
BY LedgerAssumption

\* Admitting work needs an open gate and counts it.
LEMMA WorkBeginsCounted ==
    ASSUME Counted, WorkBegins
    PROVE  accepting /\ accepting' = accepting /\ Counted'
<1>1. PICK h \in Holder, q \in Request : Admit(h, q)
  BY DEF WorkBegins
<1>2. active' > active /\ active \in Nat
  BY DEF WorkBegins, Counted
<1>3. /\ accepting /\ accepting' = accepting
      /\ \E amount : Reserve(h, amount)
  <2>1. active' # active
    BY <1>2
  <2>2. ~ UNCHANGED <<allocations, reserved, active, reservation>>
    BY <2>1
  <2> QED BY <1>1, <2>2, Zenon DEF Admit
<1>4. PICK amount : Reserve(h, amount)
  BY <1>3
<1>5. /\ active' = active + 1
      /\ reservation' = [reservation EXCEPT ![h] = amount]
  BY <1>4 DEF Reserve
<1>6. Holding' \subseteq Holding \cup {h} /\ IsFiniteSet(Holding)
  <2>1. Holding \subseteq Holder
    BY DEF Holding
  <2>2. \A g \in Holder : g # h => reservation'[g] = reservation[g]
    BY <1>5 DEF Counted
  <2>3. Holding' \subseteq Holding \cup {h}
    BY <2>2 DEF Holding
  <2> QED BY <2>1, <2>3, HoldersAreFinite, FS_Subset
<1>7. Cardinality(Holding') <= Cardinality(Holding) + 1
  <2>1. /\ IsFiniteSet(Holding \cup {h})
        /\ Cardinality(Holding \cup {h}) <= Cardinality(Holding) + 1
        /\ Cardinality(Holding) \in Nat
    <3>1. IsFiniteSet(Holding)
      BY <1>6
    <3>2. Cardinality(Holding) \in Nat
      BY <3>1, FS_CardinalityType
    <3>3. IsFiniteSet(Holding \cup {h})
      BY <3>1, FS_AddElement
    <3>4. \/ Cardinality(Holding \cup {h}) = Cardinality(Holding)
          \/ Cardinality(Holding \cup {h}) = Cardinality(Holding) + 1
      BY <3>1, FS_AddElement
    <3> QED BY <3>2, <3>3, <3>4
  <2>2. /\ IsFiniteSet(Holding')
        /\ Cardinality(Holding') <= Cardinality(Holding \cup {h})
    BY <1>6, <2>1, FS_Subset
  <2>3. Cardinality(Holding') \in Nat /\ Cardinality(Holding \cup {h}) \in Nat
    BY <2>1, <2>2, FS_CardinalityType
  <2> QED BY <2>1, <2>2, <2>3
<1>8. Cardinality(Holding) \in Nat /\ Cardinality(Holding') \in Nat
  BY <1>6, FS_CardinalityType, FS_AddElement, FS_Subset
<1> QED BY <1>3, <1>5, <1>7, <1>8 DEF Counted

\* Giving a reservation back is counted off, and needs one that is held.
LEMMA WorkEndsCounted ==
    ASSUME Counted, WorkEnds
    PROVE  active # 0 /\ accepting' = accepting /\ Counted'
<1>1. PICK h \in Holder : Release(h)
  BY DEF WorkEnds
<1>2. /\ reservation[h] # Vacant /\ active' = active - 1
      /\ reservation' = [reservation EXCEPT ![h] = Vacant]
      /\ accepting' = accepting
  BY <1>1 DEF Release
<1>3. Holding' = Holding \ {h} /\ h \in Holding
  BY <1>2 DEF Holding, Counted
<1>4. IsFiniteSet(Holding) /\ Cardinality(Holding) \in Nat
  <2>1. Holding \subseteq Holder
    BY DEF Holding
  <2> QED BY <2>1, HoldersAreFinite, FS_Subset, FS_CardinalityType
<1>5. Cardinality(Holding') = Cardinality(Holding) - 1 /\ Cardinality(Holding') \in Nat
  <2>1. IsFiniteSet(Holding \ {h}) /\ Cardinality(Holding \ {h}) = Cardinality(Holding) - 1
    BY <1>3, <1>4, FS_RemoveElement
  <2> QED BY <1>3, <2>1, FS_CardinalityType
<1> QED BY <1>2, <1>4, <1>5 DEF Counted

-----------------------------------------------------------------------------
(* The autosave session *)

\* Revisions compared below are numbers.
LEMMA LifecycleNumbers ==
    ASSUME LifecycleInv
    PROVE  /\ committed \in Revision /\ reported \in Nat /\ promised \in Nat
           /\ quiesce.revision \in Nat /\ session.saved \in Nat
<1>1. /\ reported \in Revision /\ committed \in 1 .. MaxRevision /\ session \in Session
      /\ promised \in Revision /\ quiesce.revision \in Revision
  BY DEF LifecycleInv, AutosaveInv, AutosaveTypeOK, Call
<1>2. committed \in Revision
  BY <1>1, RevisionsAreNumbers DEF Revision, NoRevision
<1> QED BY <1>1, <1>2, RevisionsAreNumbers, SessionMembers

\* Reported saves only get newer, and what a session says was saved was.
LEMMA ReportedGrows ==
    ASSUME AutosaveInv, session.saved <= reported, [AutosaveNext]_autosaveVars
    PROVE  reported <= reported' /\ session'.saved <= reported'
<1>0. /\ reported \in Nat /\ session.saved \in Nat /\ session \in Session
  BY InvNumbers
<1>1. CASE SaveSucceeds
  <2> DEFINE u == [session EXCEPT !.saved = session.saving, !.error = FALSE]
  <2>1. u \in Session /\ u.saved = session.saving
    BY <1>0 DEF Session
  <2>2. session' = FinishedWith(u) /\ reported' = session.saving
    BY <1>1 DEF SaveSucceeds
  <2> HIDE DEF u
  <2>3. session'.saved = session.saving
    BY <2>1, <2>2, FinishedEffect
  <2>4. /\ session.saving > session.saved /\ firstRevision <= session.saving
        /\ session.saving \in Nat /\ firstRevision \in Nat
        /\ reported <= session.saved \/ reported <= firstRevision
    BY <1>1, InvNumbers DEF SaveSucceeds, AutosaveInv, Ordered, Bounded, Writing
  <2> QED BY <1>0, <2>2, <2>3, <2>4
<1>2. ASSUME reported' = reported, session'.saved = session.saved \/ session'.saved = NoRevision
      PROVE  reported <= reported' /\ session'.saved <= reported'
  BY <1>0, <1>2 DEF NoRevision
<1>3. CASE WorkerRuns
  <2>1. session.saving = NoRevision
    BY <1>3 DEF WorkerRuns, AutosaveInv, Ordered, Writing
  <2> QED BY <1>0, <1>2, <1>3, <2>1, LoopHeadEffect DEF WorkerRuns
<1>4. CASE PublishFile
  <2>1. session'.saved = session.saved
    BY <1>0, <1>4 DEF PublishFile, Session
  <2> QED BY <1>2, <1>4, <2>1 DEF PublishFile
<1>5. CASE SaveFails
  <2> DEFINE u == [session EXCEPT !.error = TRUE]
  <2>1. u \in Session /\ u.saved = session.saved
    BY <1>0 DEF Session
  <2>2. session' = FinishedWith(u) /\ reported' = reported
    BY <1>5 DEF SaveFails
  <2> HIDE DEF u
  <2> QED BY <1>2, <2>1, <2>2, FinishedEffect
<1>6. CASE \E revision \in firstRevision .. committed : Submit(revision)
  <2>1. session'.saved = session.saved
    BY <1>0, <1>6 DEF Submit, Queued, Notify, Session
  <2> QED BY <1>2, <1>6, <2>1 DEF Submit
<1>7. CASE FlushBegins
  <2> DEFINE s == Notify([session EXCEPT !.flush = TRUE])
  <2>1. s \in Session /\ s.saved = session.saved
    BY <1>0 DEF Notify, Session
  <2>2. FlushWaits(s) /\ reported' = reported
    BY <1>7 DEF FlushBegins
  <2> HIDE DEF s
  <2>3. session'.saved = session.saved
    BY <2>1, <2>2 DEF FlushWaits, Sleeping, Session
  <2> QED BY <1>2, <2>2, <2>3
<1>8. CASE FlushWakes
  <2>1. session'.saved = session.saved
    BY <1>0, <1>8 DEF FlushWakes, FlushWaits, Sleeping, Session
  <2> QED BY <1>2, <1>8, <2>1 DEF FlushWakes
<1>9. CASE Destroy
  <2>1. session'.saved = session.saved
    BY <1>0, <1>9 DEF Destroy, Notify, Session
  <2> QED BY <1>2, <1>9, <2>1 DEF Destroy
<1>10. CASE Reopen \/ Crash \/ PowerLoss
  <2>1. session' = NewSession /\ reported' = reported
    BY <1>10 DEF Reopen, Crash, PowerLoss, RecoverFrom
  <2>2. session'.saved = NoRevision
    BY <2>1 DEF NewSession
  <2> QED BY <1>2, <2>1, <2>2
<1>11. CASE IntervalPasses
  <2>1. session'.saved = session.saved
    BY <1>0, <1>11 DEF IntervalPasses, Session
  <2> QED BY <1>2, <1>11, <2>1 DEF IntervalPasses
<1>12. CASE Commit \/ UNCHANGED autosaveVars
  BY <1>2, <1>12 DEF Commit, autosaveVars
<1> QED BY <1>1, <1>3, <1>4, <1>5, <1>6, <1>7, <1>8, <1>9, <1>10, <1>11, <1>12
        DEF AutosaveNext, WorkerStep

\* What the quiescing thread does to the session changes no snapshot.
LEMMA QuiescingTouchesNoSnapshot ==
    ASSUME AutosaveInv, session' = FlushRequested(session) \/ QuiesceSaves,
           UNCHANGED <<committed, firstRevision, flusher, file, survivors, reported>>
    PROVE  AutosaveInv' /\ session'.saved = session.saved
<1>1. session \in Session /\ committed \in 1 .. MaxRevision /\ committed <= committed
      /\ flusher \in {"away", "waiting"}
  BY InvNumbers DEF AutosaveInv, AutosaveTypeOK
<1>2. CASE session' = FlushRequested(session)
  <2>1. Same(session, session')
    BY <1>1, <1>2 DEF FlushRequested, Notify, Same, Session, Threads
  <2> QED BY <1>1, <2>1, SameKeeps DEF Same
<1>3. CASE QuiesceSaves
  <2>1. \/ session' = [session EXCEPT !.asleep = @ \ {"host"}]
        \/ session' = [session EXCEPT !.asleep = @ \cup {"host"}]
    BY <1>3 DEF QuiesceSaves, Sleeping
  <2>2. Same(session, session')
    BY <1>1, <2>1 DEF Same, Session, Threads
  <2> QED BY <1>1, <2>2, SameKeeps DEF Same
<1> QED BY <1>2, <1>3

-----------------------------------------------------------------------------
(* The invariant of the composition *)

\* Nothing is promised, counted or collected at first.
LEMMA LifecycleInitInv == Init => LifecycleInv
<1> SUFFICES ASSUME Init PROVE LifecycleInv
  OBVIOUS
<1>1. AutosaveInv /\ session.saved <= reported
  BY AutosaveInitInv DEF Init, AutosaveInit, NewSession, NoRevision
<1>2. promised \in Revision /\ promised <= reported
  BY RevisionsAreNumbers DEF Init, AutosaveInit, NoRevision
<1>3. Counted
  <2>1. active = 0 /\ DOMAIN reservation = Holder /\ Holding = {}
    BY DEF Init, LedgerInit, Holding
  <2> QED BY <2>1, FS_EmptySet DEF Counted
<1>4. /\ quiesce = NoQuiesce
      /\ NoQuiesce \in Call
      /\ ~NoQuiesce.saved /\ ~NoQuiesce.drained /\ NoQuiesce.pc = "away"
  BY RevisionsAreNumbers DEF Init, NoQuiesce, QuiescePlace, Call
<1>5. Collected
  BY <1>4 DEF Collected
<1> QED BY <1>1, <1>2, <1>3, <1>4, <1>5 DEF LifecycleInv

\* Steps of the quiescing thread.
LEMMA QuiesceStepKeeps ==
    ASSUME LifecycleInv, QuiesceBegins \/ QuiesceStep
    PROVE  LifecycleInv' /\ file' = file
<1>0. /\ committed \in Revision /\ reported \in Nat /\ promised \in Nat
      /\ quiesce.revision \in Nat /\ session.saved \in Nat
      /\ quiesce \in Call
  BY LifecycleNumbers DEF LifecycleInv
<1>1. ASSUME UNCHANGED <<committed, firstRevision, flusher, file, survivors, reported>>,
             AutosaveInv', session'.saved = session.saved, promised' = promised,
             UNCHANGED <<active, reservation>>,
             quiesce' \in Call, Collected'
      PROVE  LifecycleInv' /\ file' = file
  <2>1. Counted'
    BY <1>1 DEF LifecycleInv, Counted, Holding
  <2> QED BY <1>0, <1>1, <2>1 DEF LifecycleInv, Call
<1>2. UNCHANGED autosaveVars => /\ AutosaveInv' /\ session' = session
                                /\ UNCHANGED <<committed, firstRevision, flusher, file,
                                               survivors, reported>>
  BY QuietStepKeeps DEF LifecycleInv, autosaveVars
<1>3. CASE QuiesceBegins
  <2>1. /\ quiesce'.pc = "flush" /\ quiesce'.drained = FALSE /\ quiesce'.saved = FALSE
        /\ quiesce' \in Call
    BY <1>0, <1>3 DEF QuiesceBegins, NoQuiesce, Call, QuiescePlace
  <2>2. Collected'
    BY <2>1 DEF Collected
  <2> QED BY <1>1, <1>2, <1>3, <2>1, <2>2 DEF QuiesceBegins, BeginQuiesce
<1>4. CASE QuiesceFlushes
  <2>1. /\ quiesce' \in Call /\ quiesce'.pc = "cancel" /\ quiesce.pc = "flush"
        /\ quiesce'.drained = quiesce.drained /\ quiesce'.saved = quiesce.saved
        /\ quiesce'.revision = quiesce.revision
    BY <1>0, <1>4 DEF QuiesceFlushes, Call, QuiescePlace
  <2>2. Collected'
    BY <1>4, <2>1 DEF LifecycleInv, Collected, QuiesceFlushes, ledgerVars
  <2>3. AutosaveInv' /\ session'.saved = session.saved
    BY <1>4, QuiescingTouchesNoSnapshot DEF LifecycleInv, QuiesceFlushes
  <2> QED BY <1>1, <1>4, <2>1, <2>2, <2>3 DEF QuiesceFlushes, ledgerVars
<1>5. CASE QuiesceCancels
  <2>1. /\ quiesce' \in Call /\ quiesce'.pc = "drain" /\ quiesce.pc = "cancel"
        /\ quiesce'.drained = quiesce.drained /\ quiesce'.saved = quiesce.saved
        /\ quiesce'.revision = quiesce.revision
    BY <1>0, <1>5 DEF QuiesceCancels, Call, QuiescePlace
  <2>2. Collected'
    BY <1>2, <1>5, <2>1 DEF LifecycleInv, Collected, QuiesceCancels, ledgerVars
  <2> QED BY <1>1, <1>2, <1>5, <2>1, <2>2 DEF QuiesceCancels, ledgerVars
<1>6. CASE QuiesceDrains
  <2>1. /\ quiesce' \in Call /\ quiesce'.pc # "durable"
        /\ quiesce'.saved = quiesce.saved /\ quiesce'.revision = quiesce.revision
        /\ quiesce'.drained => active = 0 \/ quiesce.drained
    BY <1>0, <1>6 DEF QuiesceDrains, Call, QuiescePlace
  <2>2. Collected'
    BY <1>2, <1>6, <2>1 DEF LifecycleInv, Collected, QuiesceDrains, ledgerVars
  <2> QED BY <1>1, <1>2, <1>6, <2>1, <2>2 DEF QuiesceDrains, ledgerVars
<1>7. CASE QuiesceSaves
  <2>1. /\ quiesce' \in Call /\ quiesce'.pc # "durable"
        /\ quiesce'.drained = quiesce.drained /\ quiesce'.revision = quiesce.revision
        /\ quiesce'.saved => quiesce.saved \/ session.saved >= quiesce.revision
    <3>1. \/ quiesce' = [quiesce EXCEPT !.pc = "report",
                                        !.saved = SaveAnswer(session, quiesce.revision)]
          \/ quiesce' = [quiesce EXCEPT !.pc = "saving"]
      BY <1>7 DEF QuiesceSaves
    <3>2. SaveAnswer(session, quiesce.revision) \in BOOLEAN
      BY DEF SaveAnswer
    <3> QED BY <1>0, <3>1, <3>2 DEF Call, QuiescePlace, SaveAnswer
  <2>2. Collected'
    <3>1. quiesce'.saved => quiesce.revision <= reported
      BY <1>0, <2>1 DEF LifecycleInv, Collected
    <3> QED BY <1>7, <2>1, <3>1 DEF LifecycleInv, Collected, QuiesceSaves, ledgerVars
  <2>3. AutosaveInv' /\ session'.saved = session.saved
    BY <1>7, QuiescingTouchesNoSnapshot DEF LifecycleInv, QuiesceSaves
  <2> QED BY <1>1, <1>7, <2>1, <2>2, <2>3 DEF QuiesceSaves, ledgerVars
<1>8. CASE QuiesceReports
  <2> DEFINE durable == QuiesceStatus(quiesce, session) = "durable"
  <2>1. durable => quiesce.drained /\ quiesce.saved
    BY DEF QuiesceStatus
  <2>2. /\ quiesce' = [NoQuiesce EXCEPT !.pc = IF durable THEN "durable" ELSE "away"]
        /\ promised' = IF durable THEN quiesce.revision ELSE promised
        /\ UNCHANGED ledgerVars /\ UNCHANGED autosaveVars
    BY <1>8 DEF QuiesceReports
  <2> HIDE DEF durable
  <2>3. /\ quiesce' \in Call /\ quiesce'.drained = FALSE /\ quiesce'.saved = FALSE
        /\ quiesce'.pc = "durable" => durable
    BY <2>2, RevisionsAreNumbers DEF NoQuiesce, Call, QuiescePlace
  <2>4. Collected'
    BY <2>1, <2>2, <2>3 DEF LifecycleInv, Collected, ledgerVars
  <2>5. promised' \in Revision /\ promised' <= reported
    BY <1>0, <2>1, <2>2 DEF LifecycleInv, Collected, Call
  <2>6. Counted'
    BY <2>2 DEF LifecycleInv, Counted, Holding, ledgerVars
  <2> QED BY <1>2, <2>2, <2>3, <2>4, <2>5, <2>6 DEF LifecycleInv, Call
<1> QED BY <1>3, <1>4, <1>5, <1>6, <1>7, <1>8 DEF QuiesceStep

\* Steps of the session and edits of the document, during a call or not.
LEMMA SessionStepKeeps ==
    ASSUME LifecycleInv, [AutosaveNext]_autosaveVars,
           UNCHANGED <<promised, quiesce, accepting>>, Counted',
           active' = active \/ accepting
    PROVE  LifecycleInv' /\ (file' < file => session.error \/ session' = NewSession)
<1>0. /\ reported \in Nat /\ promised \in Nat /\ quiesce.revision \in Nat
      /\ session.saved \in Nat
  BY LifecycleNumbers
<1>1. AutosaveInv' /\ (file' < file => session.error \/ session' = NewSession)
  BY AutosaveStep DEF LifecycleInv
<1>2. reported <= reported' /\ session'.saved <= reported' /\ reported' \in Nat
  <2>1. reported <= reported' /\ session'.saved <= reported'
    BY ReportedGrows DEF LifecycleInv
  <2>2. reported' \in Revision
    BY <1>1 DEF AutosaveInv, AutosaveTypeOK
  <2> QED BY <2>1, <2>2, RevisionsAreNumbers
<1>3. promised' <= reported' /\ (quiesce.saved => quiesce.revision <= reported')
  BY <1>0, <1>2 DEF LifecycleInv, Collected
<1>4. (quiesce.drained \/ quiesce.pc = "durable") /\ ~accepting => active' = 0
  BY DEF LifecycleInv, Collected
<1>5. Collected'
  BY <1>3, <1>4 DEF Collected
<1> QED BY <1>1, <1>2, <1>3, <1>5 DEF LifecycleInv

\* Work of the host, admission resumed, time, and the end of the process.
LEMMA OtherStepKeeps ==
    ASSUME LifecycleInv,
           DeadlinePasses \/ WorkBegins \/ WorkEnds \/ Resume \/ ProcessDies
    PROVE  LifecycleInv' /\ (file' < file => session.error \/ session' = NewSession)
<1>1. CASE DeadlinePasses
  <2>1. Counted'
    BY <1>1 DEF DeadlinePasses, ledgerVars, LifecycleInv, Counted, Holding
  <2>2. UNCHANGED autosaveVars /\ UNCHANGED <<promised, quiesce, accepting, active>>
    BY <1>1 DEF DeadlinePasses, ledgerVars
  <2> QED BY <2>1, <2>2, SessionStepKeeps
<1>2. CASE WorkBegins
  <2>1. accepting /\ accepting' = accepting /\ Counted'
    BY <1>2, WorkBeginsCounted DEF LifecycleInv
  <2> QED BY <1>2, <2>1, SessionStepKeeps DEF WorkBegins, lifecycleVars
<1>3. CASE WorkEnds
  <2>1. active # 0 /\ accepting' = accepting /\ Counted'
    BY <1>3, WorkEndsCounted DEF LifecycleInv
  <2>2. /\ UNCHANGED autosaveVars /\ promised' = promised
        /\ quiesce' = [quiesce EXCEPT !.woken = (quiesce.pc = "draining")]
    BY <1>3 DEF WorkEnds, Woken
  <2>3. /\ quiesce' \in Call /\ quiesce'.pc = quiesce.pc
        /\ quiesce'.drained = quiesce.drained /\ quiesce'.saved = quiesce.saved
        /\ quiesce'.revision = quiesce.revision
    BY <2>2 DEF LifecycleInv, Call
  <2>4. AutosaveInv' /\ file' = file
    BY <2>2, QuietStepKeeps DEF LifecycleInv
  <2>5. Collected'
    BY <2>1, <2>2, <2>3 DEF LifecycleInv, Collected, autosaveVars
  <2>6. /\ session'.saved <= reported' /\ promised' \in Revision
        /\ promised' <= reported'
    BY <2>2 DEF LifecycleInv, autosaveVars
  <2> QED BY <2>1, <2>3, <2>4, <2>5, <2>6, InvNumbers DEF LifecycleInv
<1>4. CASE Resume
  <2>1. /\ accepting' = TRUE /\ UNCHANGED <<active, reservation>>
        /\ UNCHANGED autosaveVars /\ UNCHANGED lifecycleVars
    BY <1>4 DEF Resume, ResumeAdmission
  <2>2. Counted'
    BY <2>1 DEF LifecycleInv, Counted, Holding
  <2>3. AutosaveInv' /\ file' = file
    BY <2>1, QuietStepKeeps DEF LifecycleInv
  <2>4. Collected'
    BY <2>1 DEF LifecycleInv, Collected, autosaveVars, lifecycleVars
  <2>5. /\ session'.saved <= reported' /\ promised' \in Revision
        /\ promised' <= reported' /\ quiesce' \in Call
    BY <2>1 DEF LifecycleInv, autosaveVars, lifecycleVars
  <2> QED BY <2>2, <2>3, <2>4, <2>5, InvNumbers DEF LifecycleInv
<1>5. CASE ProcessDies
  <2>1. /\ Crash \/ PowerLoss
        /\ active' = 0 /\ accepting' = TRUE /\ quiesce' = NoQuiesce
        /\ reservation' = [h \in Holder |-> Vacant] /\ promised' = promised
    BY <1>5 DEF ProcessDies
  <2>2. AutosaveInv' /\ reported' = reported /\ session' = NewSession
    BY <2>1, RestartKeeps DEF LifecycleInv, Crash, PowerLoss, RecoverFrom
  <2>3. Counted'
    <3>1. Holding' = {} /\ DOMAIN reservation' = Holder
      BY <2>1 DEF Holding
    <3> QED BY <2>1, <3>1, FS_EmptySet DEF Counted
  <2>4. Collected' /\ quiesce' \in Call
    BY <2>1, RevisionsAreNumbers DEF Collected, NoQuiesce, Call, QuiescePlace
  <2>5. session'.saved <= reported'
    <3>1. session'.saved = 0
      BY <2>2 DEF NewSession, NoRevision
    <3> QED BY <2>2, <3>1, LifecycleNumbers
  <2>6. promised' \in Revision /\ promised' <= reported'
    BY <2>1, <2>2 DEF LifecycleInv
  <2> QED BY <2>2, <2>3, <2>4, <2>5, <2>6 DEF LifecycleInv
<1> QED BY <1>1, <1>2, <1>3, <1>4, <1>5

\* Every step of the composition keeps its invariant, and takes the recovery
\* file back only after a failed save or into a new session.
LEMMA LifecycleStep ==
    ASSUME LifecycleInv, [Next]_vars
    PROVE  LifecycleInv' /\ (file' < file => session.error \/ session' = NewSession)
<1>1. CASE QuiesceBegins \/ QuiesceStep
  <2>1. LifecycleInv' /\ file' = file
    BY <1>1, QuiesceStepKeeps
  <2> QED BY <2>1, InvNumbers DEF LifecycleInv
<1>2. CASE DeadlinePasses \/ WorkBegins \/ WorkEnds \/ Resume \/ ProcessDies
  BY <1>2, OtherStepKeeps
<1>3. CASE WorkCommits \/ SessionStep \/ UNCHANGED vars
  <2>1. /\ [AutosaveNext]_autosaveVars
        /\ UNCHANGED ledgerVars /\ UNCHANGED lifecycleVars
    BY <1>3 DEF WorkCommits, SessionStep, AutosaveNext, vars
  <2>2. Counted'
    BY <2>1 DEF LifecycleInv, Counted, Holding, ledgerVars
  <2>3. UNCHANGED <<promised, quiesce, accepting, active>>
    BY <2>1 DEF ledgerVars, lifecycleVars
  <2> QED BY <2>1, <2>2, <2>3, SessionStepKeeps
<1> QED BY <1>1, <1>2, <1>3 DEF Next

\* The invariant holds of every reachable state of the composition.
THEOREM LifecycleInvariant == Spec => []LifecycleInv
<1>1. Init => LifecycleInv
  BY LifecycleInitInv
<1>2. LifecycleInv /\ [Next]_vars => LifecycleInv'
  BY LifecycleStep
<1> QED BY <1>1, <1>2, PTL DEF Spec

\* A revision that a report called durable is recovered after every later crash
\* or power loss, or a newer one is.
THEOREM DurableSurvives == Spec => []DurableMeansDurable
<1>1. LifecycleInv => DurableMeansDurable
  <2> SUFFICES ASSUME LifecycleInv, NEW r \in survivors PROVE r >= promised
    BY DEF DurableMeansDurable
  <2>1. r >= reported /\ r \in Revision
    BY DEF LifecycleInv, AutosaveInv, AutosaveTypeOK, ReportedSurvives
  <2>2. r \in Nat /\ reported \in Nat /\ promised \in Nat /\ promised <= reported
    BY <2>1, LifecycleNumbers, RevisionsAreNumbers DEF LifecycleInv
  <2> QED BY <2>1, <2>2
<1> QED BY <1>1, LifecycleInvariant, PTL

\* After a report of durable, and until admission resumes, nothing is active.
THEOREM DurableIsQuiet == Spec => []QuietAfterDurable
<1>1. LifecycleInv => QuietAfterDurable
  BY DEF LifecycleInv, Collected, QuietAfterDurable
<1> QED BY <1>1, LifecycleInvariant, PTL

\* Under the composition, too, what was reported as saved survives.
THEOREM ReportedSurvivesQuiescing == Spec => []ReportedSurvives
<1>1. LifecycleInv => ReportedSurvives
  BY DEF LifecycleInv, AutosaveInv
<1> QED BY <1>1, LifecycleInvariant, PTL

\* Quiescing, whose flush request and waits run beside them, loses none either.
THEOREM AcceptedAccountedQuiescing == Spec => []AcceptedAccounted
<1>1. LifecycleInv => AcceptedAccounted
  BY DEF LifecycleInv, AutosaveInv, Followed, AcceptedAccounted, Alive
<1> QED BY <1>1, LifecycleInvariant, PTL

\* Nor does quiescing take the recovery file back: that takes a failed save or
\* a power loss.
THEOREM QuiescingKeepsTheFile == Spec => GoesBackOnlyAfterFailure
<1>1. LifecycleInv /\ [Next]_vars
        => [file' < file => session.error \/ session' = NewSession]_autosaveVars
  BY LifecycleStep
<1> QED BY <1>1, LifecycleInvariant, PTL DEF Spec, GoesBackOnlyAfterFailure

-----------------------------------------------------------------------------
(* The ledger under quiescing *)

\* A crash leaves a ledger that begins anew.
LEMMA NewLedger ==
    ASSUME allocations' = <<>>, reserved' = Nothing, active' = 0, accepting' = TRUE,
           callback' = FALSE, reservation' = [h \in Holder |-> Vacant], report' = Vacant
    PROVE  LedgerInit'
BY DEF LedgerInit

\* Every step of the composition is one of the ledger's, leaves it alone, or
\* is the death of the process.
LEMMA LedgerInComposition ==
    ASSUME [Next]_vars
    PROVE  LedgerNext \/ UNCHANGED ledgerVars \/ LedgerInit'
<1>1. CASE QuiesceBegins
  BY <1>1 DEF QuiesceBegins, LedgerNext
<1>2. CASE QuiesceStep
  BY <1>2 DEF QuiesceStep, QuiesceFlushes, QuiesceCancels, QuiesceDrains, QuiesceSaves,
              QuiesceReports
<1>3. CASE DeadlinePasses
  BY <1>3 DEF DeadlinePasses
<1>4. CASE WorkBegins
  BY <1>4 DEF WorkBegins, LedgerNext
<1>5. CASE WorkEnds
  BY <1>5 DEF WorkEnds, LedgerNext
<1>6. CASE WorkCommits
  BY <1>6 DEF WorkCommits
<1>7. CASE Resume
  BY <1>7 DEF Resume, LedgerNext
<1>8. CASE SessionStep
  BY <1>8 DEF SessionStep
<1>9. CASE ProcessDies
  BY <1>9, NewLedger DEF ProcessDies
<1>10. CASE UNCHANGED vars
  BY <1>10 DEF vars
<1> QED BY <1>1, <1>2, <1>3, <1>4, <1>5, <1>6, <1>7, <1>8, <1>9, <1>10 DEF Next

\* The ledger keeps its promises while a host quiesces it, edits, crashes and
\* restarts: what is admitted fits and what is released is what was taken.
THEOREM LedgerUnderQuiescing == Spec => []LedgerInv
<1>1. LedgerInit' => LedgerInv'
  BY LedgerInitInv, PTL
<1>2. LedgerInv /\ [Next]_vars => LedgerInv'
  BY <1>1, LedgerInComposition, LedgerStep, LedgerStutterKeeps DEF LedgerStepOK
<1>3. Init => LedgerInv
  BY LedgerInitInv DEF Init
<1> QED BY <1>2, <1>3, PTL DEF Spec
=============================================================================
