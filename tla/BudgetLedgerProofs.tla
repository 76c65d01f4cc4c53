------------------------- MODULE BudgetLedgerProofs -------------------------
(***************************************************************************)
(* Proofs about BudgetLedger, for any finite number of calls, any limits   *)
(* and any prices.                                                         *)
(*                                                                         *)
(* The ledger's promises are about sums over the calls, so the first part  *)
(* shows how a sum over a finite set changes when one term does.  It needs *)
(* an induction over the parts of a set, which is a least counterexample   *)
(* in the order of strict subsets (WFMin).  The rest classifies the steps: *)
(* a call keeps to itself, enters, starts to be billed, or ends and is     *)
(* charged (Moves).  Each property follows from a sum that every kind of   *)
(* step keeps: Counted, Bounded, Covered.                                  *)
(***************************************************************************)
EXTENDS BudgetLedger, FiniteSetTheorems, TLAPS

-----------------------------------------------------------------------------
(* Sums over the calls. *)

\* The member of a set that a fold takes first.
First(s) == CHOOSE x \in s : TRUE

\* The fold that a sum over S is, and its value.
Fold(f, S) == CHOOSE g : g = [s \in SUBSET S |->
                  IF s = {} THEN 0 ELSE f[First(s)] + g[s \ {First(s)}]]

Summed(f, S) == Fold(f, S)[S]

\* It is one of them.
LEMMA FirstIsIn == ASSUME NEW s, s # {} PROVE First(s) \in s
<1>1. PICK x : x \in s
  OBVIOUS
<1> QED
  BY <1>1, Zenon DEF First

\* What holds of the empty set, and of a set when it holds without its first
\* member, holds of every part of a finite set.
LEMMA SubsetsInduction ==
    ASSUME NEW S, IsFiniteSet(S), NEW Good \in SUBSET (SUBSET S), {} \in Good,
           \A s \in SUBSET S : s # {} /\ s \ {First(s)} \in Good => s \in Good
    PROVE  \A s \in SUBSET S : s \in Good
<1>1. SUFFICES ASSUME (SUBSET S) \ Good # {} PROVE FALSE
  OBVIOUS
<1> DEFINE Bad == (SUBSET S) \ Good
           R == StrictSubsetOrdering(S)
<1>2. IsWellFoundedOn(R, FiniteSubsetsOf(S))
  BY FS_StrictSubsetOrderingWellFounded
<1>3. \A s \in SUBSET S : IsFiniteSet(s)
  BY FS_Subset
<1>4. Bad \subseteq FiniteSubsetsOf(S)
  BY <1>3 DEF FiniteSubsetsOf
<1> HIDE DEF R, Bad
<1>5. PICK s \in Bad : \A t \in Bad : ~(<<t, s>> \in R)
  <2>1. IsWellFoundedOn(R, FiniteSubsetsOf(S)) /\ Bad # {}
    BY <1>1, <1>2 DEF R, Bad
  <2> QED
    BY <1>4, <2>1, WFMin
<1> USE DEF Bad
<1>6. s # {} /\ First(s) \in s
  BY <1>5, FirstIsIn
<1>7. <<s \ {First(s)}, s>> \in R
  BY <1>5, <1>6 DEF StrictSubsetOrdering, R
<1> QED
  BY <1>5, <1>6, <1>7

\* A set of naturals with zero and every successor is all of them.
LEMMA AllNaturals ==
    ASSUME NEW N \in SUBSET Nat, 0 \in N, \A n \in N : n + 1 \in N PROVE N = Nat
<1>1. SUFFICES ASSUME Nat \ N # {} PROVE FALSE
  OBVIOUS
<1> DEFINE Bad == Nat \ N
           R == OpToRel(<, Nat)
<1>2. IsWellFoundedOn(R, Nat)
  BY NatLessThanWellFounded
<1> HIDE DEF R
<1>3. Bad \subseteq Nat /\ Bad # {}
  BY <1>1
<1> HIDE DEF Bad
<1>4. PICK n \in Bad : \A m \in Bad : ~(<<m, n>> \in R)
  BY <1>2, <1>3, WFMin
<1>5. n \in Nat /\ n \notin N
  BY <1>4 DEF Bad
<1>6. n # 0 /\ n - 1 \in Nat /\ n - 1 < n /\ n - 1 + 1 = n
  BY <1>5
<1>7. <<n - 1, n>> \in R
  BY <1>5, <1>6 DEF R, OpToRel
<1>8. n - 1 \in N
  BY <1>4, <1>6, <1>7 DEF Bad
<1> QED
  BY <1>5, <1>6, <1>8

\* The fold of a finite set is what its equation says.
LEMMA FoldEquation ==
    ASSUME NEW S, IsFiniteSet(S), NEW f \in [S -> Nat]
    PROVE  Fold(f, S) = [s \in SUBSET S |->
               IF s = {} THEN 0 ELSE f[First(s)] + Fold(f, S)[s \ {First(s)}]]
<1> DEFINE Level(n) == {s \in SUBSET S : Cardinality(s) <= n}
           Fits(g, n) == \A s \in Level(n) :
               g[s] = IF s = {} THEN 0 ELSE f[First(s)] + g[s \ {First(s)}]
           N == {n \in Nat : \E g \in [Level(n) -> Nat] : Fits(g, n)}
<1>1. ASSUME NEW s \in SUBSET S
      PROVE  IsFiniteSet(s) /\ Cardinality(s) \in Nat /\ (Cardinality(s) = 0 <=> s = {})
             /\ Cardinality(s) <= Cardinality(S)
  BY FS_Subset, FS_CardinalityType, FS_EmptySet
<1>2. ASSUME NEW s \in SUBSET S, s # {}
      PROVE  /\ First(s) \in s /\ First(s) \in S /\ s \ {First(s)} \in SUBSET S
             /\ Cardinality(s \ {First(s)}) = Cardinality(s) - 1
  BY <1>1, <1>2, FirstIsIn, FS_RemoveElement
<1>3. 0 \in N
  <2> DEFINE g == [s \in Level(0) |-> 0]
  <2>1. \A s \in Level(0) : s = {}
    BY <1>1
  <2>2. g \in [Level(0) -> Nat] /\ Fits(g, 0)
    BY <2>1
  <2> QED
    BY <2>2
<1>4. ASSUME NEW n \in N PROVE n + 1 \in N
  <2>1. PICK g \in [Level(n) -> Nat] : Fits(g, n)
    BY <1>4
  <2> DEFINE h == [s \in Level(n + 1) |->
                     IF s = {} THEN 0 ELSE f[First(s)] + g[s \ {First(s)}]]
  <2>2. ASSUME NEW s \in Level(n + 1), s # {}
        PROVE  First(s) \in S /\ s \ {First(s)} \in Level(n)
    <3>1. s \in SUBSET S /\ Cardinality(s) \in Nat /\ Cardinality(s) <= n + 1 /\ n \in Nat
      BY <1>1, <1>4
    <3> QED
      BY <1>2, <2>2, <3>1
  <2>3. h \in [Level(n + 1) -> Nat]
    <3>1. \A s \in Level(n + 1) :
              (IF s = {} THEN 0 ELSE f[First(s)] + g[s \ {First(s)}]) \in Nat
      <4> HIDE DEF Level
      <4> QED
        BY <2>2
    <3> HIDE DEF Level
    <3> QED
      BY <3>1
  <2>4. \A s \in Level(n) : s \in Level(n + 1) /\ h[s] = g[s]
    <3>1. \A s \in Level(n) : s \in Level(n + 1)
      BY <1>1, <1>4
    <3> HIDE DEF Level
    <3> QED
      BY <2>1, <3>1
  <2>5. Fits(h, n + 1)
    <3> HIDE DEF Level
    <3> QED
      BY <2>2, <2>4
  <2>6. n \in Nat
    BY <1>4
  <2> HIDE DEF Level, Fits, h
  <2> QED
    BY <2>3, <2>5, <2>6
<1>5. N = Nat
  <2> HIDE DEF N
  <2>1. N \in SUBSET Nat
    BY DEF N
  <2> QED
    BY <1>3, <1>4, <2>1, AllNaturals
<1>6. Cardinality(S) \in Nat /\ Level(Cardinality(S)) = SUBSET S
  BY <1>1, FS_CardinalityType
<1>7. PICK g \in [SUBSET S -> Nat] : \A s \in SUBSET S :
          g[s] = IF s = {} THEN 0 ELSE f[First(s)] + g[s \ {First(s)}]
  <2>1. Cardinality(S) \in N
    BY <1>5, <1>6
  <2>2. PICK g \in [Level(Cardinality(S)) -> Nat] : Fits(g, Cardinality(S))
    BY <2>1
  <2>3. \A s \in SUBSET S : s \in Level(Cardinality(S))
    BY <1>6
  <2>4. g \in [SUBSET S -> Nat]
    BY <1>6, <2>2
  <2> HIDE DEF Level
  <2> QED
    BY <2>2, <2>3, <2>4
<1>8. g = [s \in SUBSET S |-> IF s = {} THEN 0 ELSE f[First(s)] + g[s \ {First(s)}]]
  BY <1>7
<1> QED
  BY <1>8, Zenon DEF Fold

\* How the sum of a part is that of a smaller one.
LEMMA FoldSteps ==
    ASSUME NEW S, IsFiniteSet(S), NEW f \in [S -> Nat]
    PROVE  /\ Fold(f, S)[{}] = 0
           /\ \A s \in SUBSET S : s # {} =>
                 /\ First(s) \in s
                 /\ Fold(f, S)[s] = f[First(s)] + Fold(f, S)[s \ {First(s)}]
           /\ \A s \in SUBSET S : Fold(f, S)[s] \in Nat
<1> DEFINE g == Fold(f, S)
<1>1. g = [s \in SUBSET S |-> IF s = {} THEN 0 ELSE f[First(s)] + g[s \ {First(s)}]]
  BY FoldEquation
<1> HIDE DEF g
<1>2. \A s \in SUBSET S : g[s] = IF s = {} THEN 0 ELSE f[First(s)] + g[s \ {First(s)}]
  BY <1>1
<1>3. g[{}] = 0 /\ \A s \in SUBSET S : s # {} =>
          First(s) \in s /\ g[s] = f[First(s)] + g[s \ {First(s)}]
  BY <1>2, FirstIsIn
<1> DEFINE Good == {s \in SUBSET S : g[s] \in Nat}
<1>4. \A s \in SUBSET S : s # {} /\ s \ {First(s)} \in Good => s \in Good
  BY <1>3
<1>5. Good \in SUBSET (SUBSET S) /\ {} \in Good
  BY <1>3
<1> HIDE DEF Good
<1>6. \A s \in SUBSET S : s \in Good
  BY <1>4, <1>5, SubsetsInduction
<1> QED
  BY <1>3, <1>6 DEF g, Good

\* A sum of naturals is one; of zeros it is zero.
LEMMA SumOfZeros ==
    ASSUME NEW S, IsFiniteSet(S), NEW f \in [S -> Nat]
    PROVE  Summed(f, S) \in Nat /\ ((\A c \in S : f[c] = 0) => Summed(f, S) = 0)
<1> DEFINE g == Fold(f, S)
<1>1. /\ g[{}] = 0 /\ \A s \in SUBSET S : g[s] \in Nat
      /\ \A s \in SUBSET S : s # {} =>
            First(s) \in s /\ g[s] = f[First(s)] + g[s \ {First(s)}]
  BY FoldSteps
<1> HIDE DEF g
<1>2. ASSUME \A c \in S : f[c] = 0 PROVE g[S] = 0
  <2> DEFINE Good == {s \in SUBSET S : g[s] = 0}
  <2>1. ASSUME NEW s \in SUBSET S, s # {}, s \ {First(s)} \in Good PROVE s \in Good
    <3>1. g[s] = f[First(s)] + g[s \ {First(s)}] /\ g[s \ {First(s)}] = 0
      BY <1>1, <2>1
    <3>2. f[First(s)] = 0
      BY <1>1, <1>2, <2>1
    <3> QED
      BY <3>1, <3>2
  <2>2. Good \in SUBSET (SUBSET S) /\ {} \in Good
    BY <1>1
  <2> HIDE DEF Good
  <2>3. \A s \in SUBSET S : s \in Good
    BY <2>1, <2>2, SubsetsInduction
  <2> QED
    BY <2>3 DEF Good
<1> QED
  BY <1>1, <1>2 DEF Summed, g

\* A sum changes by what one of its terms does.
LEMMA SumChanges ==
    ASSUME NEW S, IsFiniteSet(S), NEW f \in [S -> Nat], NEW h \in [S -> Nat],
           NEW c \in S, \A x \in S \ {c} : f[x] = h[x]
    PROVE  Summed(h, S) + f[c] = Summed(f, S) + h[c]
<1> DEFINE F == Fold(f, S)
           H == Fold(h, S)
<1>1. /\ F[{}] = 0 /\ \A s \in SUBSET S : F[s] \in Nat
      /\ \A s \in SUBSET S : s # {} =>
            First(s) \in s /\ F[s] = f[First(s)] + F[s \ {First(s)}]
  BY FoldSteps
<1>2. /\ H[{}] = 0 /\ \A s \in SUBSET S : H[s] \in Nat
      /\ \A s \in SUBSET S : s # {} =>
            First(s) \in s /\ H[s] = h[First(s)] + H[s \ {First(s)}]
  BY FoldSteps
<1> HIDE DEF F, H
<1> DEFINE Good == {s \in SUBSET S :
               H[s] + (IF c \in s THEN f[c] ELSE 0) = F[s] + (IF c \in s THEN h[c] ELSE 0)}
<1>3. ASSUME NEW s \in SUBSET S, s # {}, s \ {First(s)} \in Good PROVE s \in Good
  <2> DEFINE x == First(s)
             t == s \ {x}
  <2>1. /\ x \in s /\ F[s] = f[x] + F[t] /\ H[s] = h[x] + H[t]
        /\ t \in SUBSET S /\ F[t] \in Nat /\ H[t] \in Nat /\ F[s] \in Nat /\ H[s] \in Nat
        /\ f[x] \in Nat /\ h[x] \in Nat /\ f[c] \in Nat /\ h[c] \in Nat
    BY <1>1, <1>2, <1>3
  <2>2. H[t] + (IF c \in t THEN f[c] ELSE 0) = F[t] + (IF c \in t THEN h[c] ELSE 0)
    BY <1>3
  <2>3. c \in t <=> c \in s /\ c # x
    OBVIOUS
  <2> HIDE DEF x, t
  <2>4. CASE c = x
    BY <2>1, <2>2, <2>3, <2>4
  <2>5. CASE c # x
    <3>1. f[x] = h[x]
      BY <2>1, <2>5
    <3> QED
      BY <2>1, <2>2, <2>3, <2>5, <3>1
  <2> QED
    BY <2>4, <2>5
<1>4. Good \in SUBSET (SUBSET S) /\ {} \in Good
  BY <1>1, <1>2
<1> HIDE DEF Good
<1>5. \A s \in SUBSET S : s \in Good
  BY <1>3, <1>4, SubsetsInduction
<1> QED
  BY <1>5 DEF Good, Summed, F, H

\* A sum grows with its terms.
LEMMA SumGrows ==
    ASSUME NEW S, IsFiniteSet(S), NEW f \in [S -> Nat], NEW h \in [S -> Nat],
           \A x \in S : f[x] <= h[x]
    PROVE  Summed(f, S) <= Summed(h, S)
<1> DEFINE F == Fold(f, S)
           H == Fold(h, S)
<1>1. /\ F[{}] = 0 /\ \A s \in SUBSET S : F[s] \in Nat
      /\ \A s \in SUBSET S : s # {} =>
            First(s) \in s /\ F[s] = f[First(s)] + F[s \ {First(s)}]
  BY FoldSteps
<1>2. /\ H[{}] = 0 /\ \A s \in SUBSET S : H[s] \in Nat
      /\ \A s \in SUBSET S : s # {} =>
            First(s) \in s /\ H[s] = h[First(s)] + H[s \ {First(s)}]
  BY FoldSteps
<1> HIDE DEF F, H
<1> DEFINE Good == {s \in SUBSET S : F[s] <= H[s]}
<1>3. ASSUME NEW s \in SUBSET S, s # {}, s \ {First(s)} \in Good PROVE s \in Good
  <2> DEFINE x == First(s)
             t == s \ {x}
  <2>1. /\ x \in s /\ F[s] = f[x] + F[t] /\ H[s] = h[x] + H[t]
        /\ t \in SUBSET S /\ F[t] \in Nat /\ H[t] \in Nat
        /\ f[x] \in Nat /\ h[x] \in Nat /\ f[x] <= h[x] /\ F[t] <= H[t]
    BY <1>1, <1>2, <1>3
  <2> HIDE DEF x, t
  <2> QED
    BY <2>1
<1>4. Good \in SUBSET (SUBSET S) /\ {} \in Good
  BY <1>1, <1>2
<1> HIDE DEF Good
<1>5. \A s \in SUBSET S : s \in Good
  BY <1>3, <1>4, SubsetsInduction
<1> QED
  BY <1>5 DEF Good, Summed, F, H

-----------------------------------------------------------------------------
(* Costs. *)

\* Products grow with their factors.
LEMMA ProductGrows ==
    ASSUME NEW a \in Nat, NEW b \in Nat, NEW p \in Nat, a <= b
    PROVE  a * p \in Nat /\ b * p \in Nat /\ a * p <= b * p
<1>1. PICK k \in Nat : b = a + k
  <2>1. b - a \in Nat /\ b = a + (b - a)
    OBVIOUS
  <2> QED
    BY <2>1
<1>2. k * p \in Nat /\ a * p \in Nat
  OBVIOUS
<1>3. b * p = a * p + k * p
  BY <1>1
<1> QED
  BY <1>2, <1>3

\* A quotient grows with what is divided.
LEMMA QuotientGrows ==
    ASSUME NEW a \in Nat, NEW b \in Nat, NEW n \in Nat \ {0}, a <= b
    PROVE  a \div n \in Nat /\ b \div n \in Nat /\ a \div n <= b \div n
<1>1. /\ a \div n \in Int /\ b \div n \in Int
      /\ n * (a \div n) <= a /\ a < n * (a \div n) + n
      /\ n * (b \div n) <= b /\ b < n * (b \div n) + n
  OBVIOUS
<1>2. \A q \in Int : q < 0 => n * q + n <= 0
  OBVIOUS
<1> QED
  OBVIOUS

\* What the constants are.
LEMMA BudgetFacts ==
    ASSUME ConstantsFit
    PROVE
    /\ Top \in Nat /\ PriceScale \in Nat /\ PriceScale # 0
    /\ InputPrice \in Nat /\ OutputPrice \in Nat /\ CacheReadPrice \in Nat
    /\ CacheWritePrice \in Nat /\ EstimatedInput \in Nat /\ MaxTokens \in Nat
    /\ MaxCacheWrites \in Nat /\ MaxExcess \in Nat
    /\ None \notin Usage /\ None \notin [Resource -> Nat]
    /\ None \notin [values: [Resource -> Nat], started: BOOLEAN]
    /\ \A r \in Resource : Limit[r] = None \/ Limit[r] \in 0..Top
BY DEF ConstantsFit

\* u has no token of a kind that v does not have.
Less(u, v) == /\ u.input <= v.input /\ u.output <= v.output
              /\ u.read <= v.read /\ u.write <= v.write
              /\ u.input - u.read <= v.input - v.read \/ u.input <= u.read

\* The tokens that are paid in full.
Uncached(u) == IF u.input > u.read THEN u.input - u.read ELSE 0

\* What u costs before it is rounded.
Price(u) == Uncached(u) * InputPrice + u.output * OutputPrice
            + u.read * CacheReadPrice + u.write * CacheWritePrice

\* The cost is the quotient.
LEMMA CostIsQuotient ==
    ASSUME NEW u \in Usage
    PROVE  CostMicroUsd(u) = (Price(u) + PriceScale - 1) \div PriceScale
BY Zenon DEF CostMicroUsd, Price, Uncached

\* Less usage costs no more.
LEMMA CostGrows ==
    ASSUME ConstantsFit, NEW u \in Usage, NEW v \in Usage, Less(u, v)
    PROVE  CostMicroUsd(u) \in Nat /\ CostMicroUsd(v) \in Nat
           /\ CostMicroUsd(u) <= CostMicroUsd(v)
<1>1. /\ Uncached(u) \in Nat /\ Uncached(v) \in Nat /\ Uncached(u) <= Uncached(v)
      /\ u.output \in Nat /\ v.output \in Nat /\ u.output <= v.output
      /\ u.read \in Nat /\ v.read \in Nat /\ u.read <= v.read
      /\ u.write \in Nat /\ v.write \in Nat /\ u.write <= v.write
  BY DEF Usage, Less, Uncached
<1>2. /\ Uncached(u) * InputPrice \in Nat /\ Uncached(v) * InputPrice \in Nat
      /\ Uncached(u) * InputPrice <= Uncached(v) * InputPrice
  BY <1>1, BudgetFacts, ProductGrows
<1>3. /\ u.output * OutputPrice \in Nat /\ v.output * OutputPrice \in Nat
      /\ u.output * OutputPrice <= v.output * OutputPrice
  BY <1>1, BudgetFacts, ProductGrows
<1>4. /\ u.read * CacheReadPrice \in Nat /\ v.read * CacheReadPrice \in Nat
      /\ u.read * CacheReadPrice <= v.read * CacheReadPrice
  BY <1>1, BudgetFacts, ProductGrows
<1>5. /\ u.write * CacheWritePrice \in Nat /\ v.write * CacheWritePrice \in Nat
      /\ u.write * CacheWritePrice <= v.write * CacheWritePrice
  BY <1>1, BudgetFacts, ProductGrows
<1>6. Price(u) \in Nat /\ Price(v) \in Nat /\ Price(u) <= Price(v)
  BY <1>2, <1>3, <1>4, <1>5 DEF Price
<1>7. /\ Price(u) + PriceScale - 1 \in Nat /\ Price(v) + PriceScale - 1 \in Nat
      /\ Price(u) + PriceScale - 1 <= Price(v) + PriceScale - 1
  BY <1>6, BudgetFacts
<1> QED
  BY <1>7, BudgetFacts, QuotientGrows, CostIsQuotient

\* Nothing costs less than no usage.
LEMMA NoUsageIsLeast == NoUsage \in Usage /\ \A u \in Usage : Less(NoUsage, u)
BY DEF NoUsage, Usage, Less

\* Less usage takes no more of any resource.
LEMMA AmountsGrow ==
    ASSUME ConstantsFit, NEW u \in Usage, NEW v \in Usage, Less(u, v)
    PROVE  /\ Amounts(u) \in [Resource -> Nat] /\ Amounts(u)["calls"] = 1
           /\ \A r \in Resource : Amounts(u)[r] <= Amounts(v)[r]
<1>1. CostMicroUsd(u) \in Nat /\ CostMicroUsd(v) \in Nat
      /\ CostMicroUsd(u) <= CostMicroUsd(v)
  BY CostGrows
<1> DEFINE cu == IF Priced THEN CostMicroUsd(u) ELSE 0
           cv == IF Priced THEN CostMicroUsd(v) ELSE 0
<1>2. cu \in Nat /\ cv \in Nat /\ cu <= cv
  BY <1>1
<1>3. /\ Amounts(u) = [calls |-> 1, input |-> u.input, output |-> u.output, cost |-> cu]
      /\ Amounts(v) = [calls |-> 1, input |-> v.input, output |-> v.output, cost |-> cv]
  BY DEF Amounts
<1> HIDE DEF cu, cv
<1>4. /\ u.input \in Nat /\ v.input \in Nat /\ u.input <= v.input
      /\ u.output \in Nat /\ v.output \in Nat /\ u.output <= v.output
  BY DEF Usage, Less
<1> QED
  BY <1>2, <1>3, <1>4 DEF Resource

\* What a call with some usage takes is a number of each resource.
LEMMA AmountsAreNaturals ==
    ASSUME ConstantsFit, NEW u \in Usage
    PROVE  Amounts(u) \in [Resource -> Nat] /\ Amounts(u)["calls"] = 1
<1>1. Less(u, u)
  BY DEF Less, Usage
<1> QED
  BY <1>1, AmountsGrow

\* What is reserved for a call.
LEMMA WorstCaseIsUsage ==
    ASSUME ConstantsFit
    PROVE  /\ WorstCase \in Usage /\ Amounts(WorstCase) \in [Resource -> Nat]
           /\ Amounts(WorstCase)["calls"] = 1
<1>1. WorstCase \in Usage
  BY BudgetFacts DEF WorstCase, NoUsage, Usage
<1> QED
  BY <1>1, AmountsAreNaturals

\* A counter holds what it holds.
LEMMA SaturatedIsLess ==
    ASSUME ConstantsFit, NEW n \in Nat
    PROVE  Saturated(n) \in 0..Top /\ Saturated(n) \in Nat /\ Saturated(n) <= n
BY BudgetFacts DEF Saturated

\* A stream reports no more than is billed.
LEMMA ReportsNoMore ==
    ASSUME ConstantsFit, NEW u \in Usage, NEW v \in {u, [u EXCEPT !.output = 0]}
    PROVE  AddUsage(NoUsage, v) \in Usage /\ Less(AddUsage(NoUsage, v), u)
<1>1. v \in Usage /\ v.input = u.input /\ v.output <= u.output /\ v.read = u.read
      /\ v.write = u.write
  BY DEF Usage
<1> DEFINE w == AddUsage(NoUsage, v)
<1>2. w = [input |-> Saturated(v.input), output |-> Saturated(v.output),
           read |-> Saturated(v.read), write |-> Saturated(v.write)]
  <2>1. DOMAIN NoUsage = {"input", "output", "read", "write"}
    BY DEF NoUsage
  <2>2. v.input \in Nat /\ v.output \in Nat /\ v.read \in Nat /\ v.write \in Nat
    BY <1>1 DEF Usage
  <2>3. w = [k \in {"input", "output", "read", "write"} |-> Saturated(NoUsage[k] + v[k])]
    BY <2>1, Zenon DEF AddUsage
  <2>4. \A k \in {"input", "output", "read", "write"} : NoUsage[k] + v[k] = v[k]
    BY <2>2 DEF NoUsage
  <2>5. w = [k \in {"input", "output", "read", "write"} |-> Saturated(v[k])]
    BY <2>3, <2>4
  <2> HIDE DEF w
  <2> QED
    BY <2>5
<1> HIDE DEF w
<1>3. /\ u.input \in Nat /\ u.output \in Nat /\ u.read \in Nat /\ u.write \in Nat
      /\ v.input \in Nat /\ v.output \in Nat /\ v.read \in Nat /\ v.write \in Nat
  BY <1>1 DEF Usage
<1>4. w.input = Saturated(v.input) /\ w.output = Saturated(v.output)
      /\ w.read = Saturated(v.read) /\ w.write = Saturated(v.write) /\ w \in Usage
  BY <1>2, <1>3, SaturatedIsLess DEF Usage
<1>5. Less(w, u)
  BY <1>1, <1>3, <1>4, BudgetFacts DEF Less, Saturated
<1> QED
  BY <1>4, <1>5 DEF w

-----------------------------------------------------------------------------
(* Where the calls are. *)

\* The calls that hold a reservation.
Busy == {"reserved", "started", "streaming"}

\* What is known of a call from where it is: its reservation, whether it was
\* billed, and that its stream told no more than the bill.
CallFits(v, h, u) ==
    /\ IF v.pc \in Busy
       THEN /\ h \in [values: [Resource -> Nat], started: BOOLEAN]
            /\ h.values = Amounts(WorstCase)
            /\ h.started <=> v.pc # "reserved"
       ELSE h = None
    /\ v.pc \in {"started", "streaming"} => u # None
    /\ v.pc \in {"idle", "checked", "refused", "reserved"} => u = None
    /\ u # None => \A r \in Resource : Amounts(v.usage)[r] <= Amounts(u)[r]
    /\ v.pc \notin {"streaming", "over"} => v.usage = NoUsage

\* Of the counters this says their type only.
CallsFit ==
    /\ committed \in [Resource -> 0..Top]
    /\ call \in [Call -> [pc: Pc, usage: Usage]]
    /\ used \in [Call -> Usage \cup {None}]
    /\ held \in [Call -> [values: [Resource -> Nat], started: BOOLEAN] \cup {None}]
    /\ \A c \in Call : CallFits(call[c], held[c], used[c])

\* A commit leaves counters.
LEMMA CommitsCount ==
    ASSUME ConstantsFit, CallsFit, NEW amounts \in [Resource -> Nat], Commit(amounts)
    PROVE  /\ committed' \in [Resource -> 0..Top]
           /\ \A r \in Resource : committed'[r] = Saturated(committed[r] + amounts[r])
BY SaturatedIsLess, BudgetFacts DEF Commit, CallsFit

\* One call moves.
LEMMA CallMoves ==
    ASSUME ConstantsFit, CallsFit, committed' \in [Resource -> 0..Top], NEW c \in Call,
           NEW v \in [pc: Pc, usage: Usage],
           NEW h \in [values: [Resource -> Nat], started: BOOLEAN] \cup {None},
           NEW u \in Usage \cup {None},
           call' = [call EXCEPT ![c] = v], held' = [held EXCEPT ![c] = h],
           used' = [used EXCEPT ![c] = u], CallFits(v, h, u)
    PROVE  CallsFit'
BY DEF CallsFit

\* What a step is, for what the budget counts: a call that keeps to itself, ...
Quiet(c) ==
    /\ UNCHANGED <<committed, held, used>>
    /\ \E v \in [pc: Pc, usage: Usage] :
          /\ call' = [call EXCEPT ![c] = v]
          /\ call[c].pc \in {"idle", "checked", "started", "streaming"}
          /\ v.pc \in Busy <=> call[c].pc \in Busy
          /\ v.pc # "over"

\* ... one that is admitted, ...
Enters(c) ==
    /\ Admitted /\ call[c].pc = "checked" /\ UNCHANGED <<committed, used>>
    /\ call' = [call EXCEPT ![c] = [pc |-> "reserved", usage |-> NoUsage]]

\* ... one that is billed from here on, ...
Starts(c) ==
    /\ call[c].pc = "reserved" /\ UNCHANGED committed
    /\ call' = [call EXCEPT ![c] = [pc |-> "started", usage |-> NoUsage]]
    /\ \E u \in Usage : used' = [used EXCEPT ![c] = u]

\* ... and one that ends and is charged.
Charged(c, amounts) ==
    /\ call[c].pc \in Busy /\ UNCHANGED used
    /\ call' = [call EXCEPT ![c] = [pc |-> "over", usage |-> call[c].usage]]
    /\ \A r \in Resource : committed'[r] = Saturated(committed[r] + amounts[r])
    /\ IF used[c] = None THEN \A r \in Resource : amounts[r] = 0
       ELSE \/ amounts = Amounts(WorstCase)
            \/ amounts = Amounts(call[c].usage) /\ call[c].usage # NoUsage

Moves == \/ \E c \in Call : Quiet(c) \/ Enters(c) \/ Starts(c)
         \/ \E c \in Call : \E amounts \in [Resource -> Nat] : Charged(c, amounts)
         \/ UNCHANGED <<committed, held, call, used>>

\* A call that is reserved for is admitted.
LEMMA ReserveMoves ==
    ASSUME ConstantsFit, CallsFit, NEW c \in Call, ReserveModelCall(c)
    PROVE  CallsFit' /\ Moves
<1> DEFINE pc == IF Admitted THEN "reserved" ELSE "refused"
           v == [call[c] EXCEPT !.pc = pc]
<1>1. /\ call[c].pc = "checked" /\ UNCHANGED <<committed, used>>
      /\ call[c] \in [pc: Pc, usage: Usage] /\ CallFits(call[c], held[c], used[c])
      /\ call' = [call EXCEPT ![c] = v]
  BY Zenon DEF ReserveModelCall, Goto, CallsFit
<1>2. pc \in Pc
  BY DEF Pc
<1>3. v \in [pc: Pc, usage: Usage] /\ v.pc = pc /\ v.usage = NoUsage
  BY <1>1, <1>2 DEF CallFits
<1>4. CASE Admitted
  <2> DEFINE h == [values |-> Amounts(WorstCase), started |-> FALSE]
  <2>1. held' = [held EXCEPT ![c] = h] /\ pc = "reserved"
    BY <1>4 DEF ReserveModelCall
  <2>2. /\ h \in [values: [Resource -> Nat], started: BOOLEAN]
        /\ h.values = Amounts(WorstCase) /\ ~h.started
    BY WorstCaseIsUsage
  <2> HIDE DEF h
  <2>3. CallFits(v, h, used[c])
    BY <1>1, <1>3, <2>1, <2>2 DEF CallFits, Busy
  <2>4. v = [pc |-> "reserved", usage |-> NoUsage]
    BY <1>3, <2>1
  <2> HIDE DEF v, pc
  <2>5. used' = [used EXCEPT ![c] = used[c]] /\ used[c] \in Usage \cup {None}
        /\ committed' \in [Resource -> 0..Top]
    BY <1>1 DEF CallsFit
  <2>6. CallsFit'
    BY <1>1, <1>3, <2>1, <2>2, <2>3, <2>5, CallMoves
  <2>7. Enters(c)
    BY <1>1, <1>4, <2>4 DEF Enters
  <2> QED
    BY <2>6, <2>7 DEF Moves
<1>5. CASE ~Admitted
  <2>1. held' = held /\ pc = "refused"
    BY <1>5 DEF ReserveModelCall
  <2>2. CallFits(v, held[c], used[c])
    BY <1>1, <1>3, <2>1 DEF CallFits, Busy
  <2> HIDE DEF v, pc
  <2>3. /\ used' = [used EXCEPT ![c] = used[c]] /\ used[c] \in Usage \cup {None}
        /\ held' = [held EXCEPT ![c] = held[c]]
        /\ held[c] \in [values: [Resource -> Nat], started: BOOLEAN] \cup {None}
        /\ committed' \in [Resource -> 0..Top]
    BY <1>1, <2>1 DEF CallsFit
  <2>4. CallsFit'
    BY <1>1, <1>3, <2>1, <2>2, <2>3, CallMoves
  <2>5. Quiet(c)
    BY <1>1, <1>3, <2>1 DEF Quiet, Busy
  <2> QED
    BY <2>4, <2>5 DEF Moves
<1> QED
  BY <1>4, <1>5

\* A call that reads the deadline, opens its stream or hears of its usage keeps
\* to itself.
LEMMA QuietMoves ==
    ASSUME ConstantsFit, CallsFit, NEW c \in Call,
           CheckWallTime(c) \/ Open(c) \/ ReceiveUsage(c)
    PROVE  CallsFit' /\ Moves
<1>1. /\ UNCHANGED <<committed, held, used>> /\ call[c] \in [pc: Pc, usage: Usage]
      /\ CallFits(call[c], held[c], used[c])
  BY DEF CheckWallTime, Open, ReceiveUsage, CallsFit
<1>2. PICK v \in [pc: Pc, usage: Usage] :
          /\ call' = [call EXCEPT ![c] = v] /\ CallFits(v, held[c], used[c])
          /\ call[c].pc \in {"idle", "checked", "started", "streaming"}
          /\ v.pc \in Busy <=> call[c].pc \in Busy
          /\ v.pc # "over"
  <2>1. ASSUME NEW pc \in {"refused", "checked"}, call[c].pc = "idle", Goto(c, pc)
        PROVE  /\ [call[c] EXCEPT !.pc = pc] \in [pc: Pc, usage: Usage]
               /\ call' = [call EXCEPT ![c] = [call[c] EXCEPT !.pc = pc]]
               /\ CallFits([call[c] EXCEPT !.pc = pc], held[c], used[c])
               /\ [call[c] EXCEPT !.pc = pc].pc = pc
    BY <1>1, <2>1 DEF Goto, Pc, CallFits, Busy
  <2>2. ASSUME Open(c)
        PROVE  /\ [call[c] EXCEPT !.pc = "streaming"] \in [pc: Pc, usage: Usage]
               /\ call' = [call EXCEPT ![c] = [call[c] EXCEPT !.pc = "streaming"]]
               /\ CallFits([call[c] EXCEPT !.pc = "streaming"], held[c], used[c])
               /\ [call[c] EXCEPT !.pc = "streaming"].pc = "streaming"
    BY <1>1, <2>2 DEF Open, Goto, Pc, CallFits, Busy
  <2>3. CASE CheckWallTime(c)
    <3>1. PICK pc \in {"refused", "checked"} : Goto(c, pc)
      BY <2>3 DEF CheckWallTime
    <3> QED
      BY <2>1, <2>3, <3>1 DEF CheckWallTime, Busy
  <2>4. CASE Open(c)
    BY <2>2, <2>4 DEF Open, Busy
  <2>5. CASE ReceiveUsage(c)
    <3>1. PICK u \in {used[c], [used[c] EXCEPT !.output = 0]} :
              call' = [call EXCEPT ![c].usage = AddUsage(@, u)]
      BY <2>5 DEF ReceiveUsage
    <3>2. call[c].pc = "streaming" /\ call[c].usage = NoUsage /\ used[c] \in Usage
      BY <1>1, <2>5 DEF ReceiveUsage, CallsFit, CallFits
    <3> DEFINE w == AddUsage(NoUsage, u)
               n == [call[c] EXCEPT !.usage = w]
    <3>3. w \in Usage /\ Less(w, used[c])
      BY <3>2, ReportsNoMore
    <3> HIDE DEF w
    <3>4. n \in [pc: Pc, usage: Usage] /\ n.pc = "streaming" /\ n.usage = w
      BY <1>1, <3>2, <3>3
    <3>5. call' = [call EXCEPT ![c] = n]
      BY <3>1, <3>2 DEF w, CallsFit
    <3> HIDE DEF n
    <3>6. \A r \in Resource : Amounts(w)[r] <= Amounts(used[c])[r]
      BY <3>2, <3>3, AmountsGrow
    <3>7. CallFits(n, held[c], used[c])
      BY <1>1, <3>2, <3>4, <3>6 DEF CallFits, Busy
    <3> QED
      BY <3>2, <3>4, <3>5, <3>7 DEF Busy
  <2> QED
    BY <2>3, <2>4, <2>5
<1>3. /\ used' = [used EXCEPT ![c] = used[c]] /\ used[c] \in Usage \cup {None}
      /\ held' = [held EXCEPT ![c] = held[c]]
      /\ held[c] \in [values: [Resource -> Nat], started: BOOLEAN] \cup {None}
      /\ committed' \in [Resource -> 0..Top]
  BY <1>1 DEF CallsFit
<1>4. CallsFit'
  BY <1>2, <1>3, CallMoves
<1>5. Quiet(c)
  BY <1>1, <1>2 DEF Quiet
<1> QED
  BY <1>4, <1>5 DEF Moves

\* A call that is started may be billed.
LEMMA StartMoves ==
    ASSUME ConstantsFit, CallsFit, NEW c \in Call, MarkStarted(c) PROVE CallsFit' /\ Moves
<1> DEFINE v == [pc |-> "started", usage |-> NoUsage]
           h == [held[c] EXCEPT !.started = TRUE]
<1>1. /\ call[c].pc = "reserved" /\ UNCHANGED committed
      /\ call[c] \in [pc: Pc, usage: Usage] /\ CallFits(call[c], held[c], used[c])
      /\ call[c].usage = NoUsage
  BY DEF MarkStarted, CallsFit, CallFits
<1>2. call' = [call EXCEPT ![c] = v]
  <2>1. [call[c] EXCEPT !.pc = "started"] = v
    BY <1>1
  <2> QED
    BY <2>1, Zenon DEF MarkStarted, Goto
<1>3. /\ held' = [held EXCEPT ![c] = h]
      /\ h \in [values: [Resource -> Nat], started: BOOLEAN]
      /\ h.values = Amounts(WorstCase) /\ h.started
  <2>1. /\ held[c] \in [values: [Resource -> Nat], started: BOOLEAN]
        /\ held[c].values = Amounts(WorstCase)
    BY <1>1 DEF CallFits, Busy
  <2>2. h \in [values: [Resource -> Nat], started: BOOLEAN] /\ h.started
    BY <2>1
  <2>3. h.values = Amounts(WorstCase)
    BY <2>1
  <2>4. held' = [held EXCEPT ![c] = h]
    BY Zenon DEF MarkStarted
  <2> QED
    BY <2>2, <2>3, <2>4
<1>4. PICK u \in Usage : used' = [used EXCEPT ![c] = u]
  <2>1. Billable \subseteq Usage
    BY BudgetFacts DEF Billable, Usage
  <2> QED
    BY <2>1 DEF MarkStarted
<1>5. v \in [pc: Pc, usage: Usage]
  BY NoUsageIsLeast DEF Pc
<1> HIDE DEF h
<1>6. CallFits(v, h, u)
  <2>1. \A r \in Resource : Amounts(NoUsage)[r] <= Amounts(u)[r]
    BY NoUsageIsLeast, AmountsGrow
  <2> QED
    BY <1>3, <2>1, BudgetFacts DEF CallFits, Busy
<1>7. committed' \in [Resource -> 0..Top]
  BY <1>1 DEF CallsFit
<1>8. CallsFit'
  <2> HIDE DEF v
  <2> QED
    BY <1>2, <1>3, <1>4, <1>5, <1>6, <1>7, CallMoves
<1>9. Starts(c)
  BY <1>1, <1>2, <1>4 DEF Starts
<1> QED
  BY <1>8, <1>9 DEF Moves

\* A call that ends is charged for what it told or for its reservation.
LEMMA EndMoves ==
    ASSUME ConstantsFit, CallsFit, NEW c \in Call, Abandon(c) \/ EndStream(c)
    PROVE  CallsFit' /\ Moves
<1> DEFINE v == [pc |-> "over", usage |-> call[c].usage]
           none == [r \in Resource |-> 0]
<1>1. /\ call[c].pc \in Busy /\ UNCHANGED used /\ held' = [held EXCEPT ![c] = None]
      /\ call[c] \in [pc: Pc, usage: Usage] /\ CallFits(call[c], held[c], used[c])
  BY DEF Abandon, EndStream, Reconcile, DropReservation, CallsFit, Busy
<1>2. call' = [call EXCEPT ![c] = v]
  <2>1. [call[c] EXCEPT !.pc = "over"] = v
    BY <1>1
  <2> QED
    BY <2>1, Zenon DEF Abandon, EndStream, Goto
<1>3. held[c].values = Amounts(WorstCase) /\ (held[c].started <=> call[c].pc # "reserved")
  BY <1>1 DEF CallFits
<1>4. \/ call[c].pc = "reserved" /\ committed' = committed /\ used[c] = None
      \/ used[c] # None /\ Commit(Amounts(WorstCase))
      \/ used[c] # None /\ Commit(Amounts(call[c].usage)) /\ call[c].usage # NoUsage
  <2>1. call[c].pc = "reserved" => used[c] = None
    BY <1>1 DEF CallFits
  <2>2. call[c].pc # "reserved" => used[c] # None
    BY <1>1 DEF CallFits, Busy
  <2>3. DropReservation(c) =>
            IF call[c].pc = "reserved" THEN committed' = committed
            ELSE Commit(Amounts(WorstCase))
    BY <1>3 DEF DropReservation
  <2> QED
    BY <2>1, <2>2, <2>3 DEF Abandon, EndStream, Reconcile
<1>5. PICK amounts \in [Resource -> Nat] :
          /\ committed' \in [Resource -> 0..Top]
          /\ \A r \in Resource : committed'[r] = Saturated(committed[r] + amounts[r])
          /\ IF used[c] = None THEN \A r \in Resource : amounts[r] = 0
             ELSE \/ amounts = Amounts(WorstCase)
                  \/ amounts = Amounts(call[c].usage) /\ call[c].usage # NoUsage
  <2>1. CASE call[c].pc = "reserved" /\ committed' = committed /\ used[c] = None
    <3>1. none \in [Resource -> Nat] /\ \A r \in Resource : none[r] = 0
      OBVIOUS
    <3>2. \A r \in Resource : committed[r] \in 0..Top
      BY DEF CallsFit
    <3>3. \A r \in Resource : Saturated(committed[r] + none[r]) = committed[r]
      BY <3>1, <3>2, BudgetFacts DEF Saturated
    <3>4. committed' \in [Resource -> 0..Top]
      BY <2>1 DEF CallsFit
    <3> HIDE DEF none
    <3> QED
      BY <2>1, <3>1, <3>3, <3>4
  <2>2. CASE used[c] # None /\ Commit(Amounts(WorstCase))
    BY <2>2, WorstCaseIsUsage, CommitsCount
  <2>3. CASE used[c] # None /\ Commit(Amounts(call[c].usage)) /\ call[c].usage # NoUsage
    <3>1. Amounts(call[c].usage) \in [Resource -> Nat]
      BY <1>1, AmountsAreNaturals
    <3> QED
      BY <2>3, <3>1, CommitsCount
  <2> QED
    BY <1>4, <2>1, <2>2, <2>3
<1>6. v \in [pc: Pc, usage: Usage] /\ CallFits(v, None, used[c])
  BY <1>1 DEF Pc, CallFits, Busy
<1>7. used' = [used EXCEPT ![c] = used[c]] /\ used[c] \in Usage \cup {None}
  BY <1>1 DEF CallsFit
<1>8. CallsFit'
  <2> HIDE DEF v
  <2> QED
    BY <1>1, <1>2, <1>5, <1>6, <1>7, CallMoves
<1>9. Charged(c, amounts)
  BY <1>1, <1>2, <1>5 DEF Charged
<1> QED
  BY <1>8, <1>9 DEF Moves

\* Every step keeps the calls in order.
LEMMA BudgetMoves == ASSUME ConstantsFit, CallsFit, [Next]_vars PROVE CallsFit' /\ Moves
<1>1. ASSUME NEW c \in Call, CheckWallTime(c) \/ ReserveModelCall(c) \/ MarkStarted(c)
                             \/ Open(c) \/ ReceiveUsage(c) \/ Abandon(c) \/ EndStream(c)
      PROVE  CallsFit' /\ Moves
  BY <1>1, QuietMoves, ReserveMoves, StartMoves, EndMoves
<1>2. CASE Expire \/ UNCHANGED vars
  <2>1. UNCHANGED <<committed, held, call, used>>
    BY <1>2 DEF Expire, vars
  <2> QED
    BY <2>1 DEF Moves, CallsFit
<1> QED
  BY <1>1, <1>2 DEF Next

-----------------------------------------------------------------------------
(* Every call is counted once. *)

\* The calls of a process are few enough to be counted.
CallsAreCountable == IsFiniteSet(Call) /\ Cardinality(Call) <= Top

\* The calls that hold a started reservation, and those that may have been billed.
Started == {c \in Call : held[c] # None /\ held[c].started}

Billed == {c \in Call : used[c] # None}

\* Where they are.
LEMMA StartedIs ==
    ASSUME ConstantsFit, NEW v, NEW h, NEW u, CallFits(v, h, u)
    PROVE  /\ h # None /\ h.started <=> v.pc \in {"started", "streaming"}
           /\ h # None /\ h.started => u # None
<1>1. CASE v.pc \in Busy
  BY <1>1, BudgetFacts DEF CallFits, Busy
<1>2. CASE v.pc \notin Busy
  BY <1>2 DEF CallFits, Busy
<1> QED
  BY <1>1, <1>2

\* Parts of the calls have a size.
LEMMA PartsAreSmall ==
    ASSUME ConstantsFit, CallsAreCountable, NEW S \in SUBSET Call
    PROVE  /\ IsFiniteSet(S) /\ Cardinality(S) \in Nat /\ Cardinality(S) <= Top
           /\ \A c \in Call \ S : Cardinality(S \cup {c}) = Cardinality(S) + 1
           /\ \A c \in S : Cardinality(S \ {c}) = Cardinality(S) - 1
<1>1. IsFiniteSet(S) /\ Cardinality(S) <= Cardinality(Call)
  BY FS_Subset DEF CallsAreCountable
<1>2. Cardinality(S) \in Nat /\ Cardinality(Call) \in Nat
  BY <1>1, FS_CardinalityType DEF CallsAreCountable
<1>3. \A c \in Call \ S : Cardinality(S \cup {c}) = Cardinality(S) + 1
  BY <1>1, FS_AddElement
<1>4. \A c \in S : Cardinality(S \ {c}) = Cardinality(S) - 1
  BY <1>1, FS_RemoveElement
<1> QED
  BY <1>1, <1>2, <1>3, <1>4, BudgetFacts DEF CallsAreCountable

\* What is committed and what is started are the calls that were billed.
Counted == committed["calls"] + Cardinality(Started) = Cardinality(Billed)

\* A step counts a call when it ends, and only then.
LEMMA MovesCount ==
    ASSUME ConstantsFit, CallsAreCountable, CallsFit, CallsFit', Moves, Counted
    PROVE  Counted'
<1>1. /\ Started \in SUBSET Call /\ Billed \in SUBSET Call
      /\ committed["calls"] \in 0..Top
      /\ \A c \in Call : c \in Started <=> call[c].pc \in {"started", "streaming"}
      /\ \A c \in Call : c \in Started' <=> call'[c].pc \in {"started", "streaming"}
      /\ call \in [Call -> [pc: Pc, usage: Usage]]
  BY StartedIs DEF Started, Billed, CallsFit, Resource
<1>2. ASSUME UNCHANGED <<committed, held, used>> PROVE Counted'
  BY <1>2 DEF Counted, Started, Billed
<1>3. ASSUME NEW c \in Call, Enters(c) PROVE Counted'
  <2>1. Billed' = Billed /\ committed' = committed
    BY <1>3 DEF Enters, Billed
  <2>2. Started' = Started
    <3>1. \A x \in Call : x \in Started' <=> x \in Started
      BY <1>1, <1>3 DEF Enters
    <3> QED
      BY <3>1 DEF Started
  <2> QED
    BY <2>1, <2>2 DEF Counted
<1>4. ASSUME NEW c \in Call, Starts(c) PROVE Counted'
  <2>1. PICK u \in Usage : used' = [used EXCEPT ![c] = u]
    BY <1>4 DEF Starts
  <2>2. used[c] = None /\ call[c].pc = "reserved" /\ c \notin Started /\ c \notin Billed
    BY <1>1, <1>4 DEF Starts, CallsFit, CallFits, Billed
  <2>3. Billed' = Billed \cup {c}
    BY <2>1, BudgetFacts DEF Billed, CallsFit
  <2>4. Started' = Started \cup {c}
    <3>1. \A x \in Call : x \in Started' <=> x \in Started \/ x = c
      BY <1>1, <1>4 DEF Starts
    <3>2. Started' \in SUBSET Call
      BY DEF Started
    <3> QED
      BY <1>1, <3>1, <3>2
  <2>5. committed' = committed
    BY <1>4 DEF Starts
  <2>6. /\ Cardinality(Started \cup {c}) = Cardinality(Started) + 1
        /\ Cardinality(Billed \cup {c}) = Cardinality(Billed) + 1
        /\ Cardinality(Started) \in Nat /\ Cardinality(Billed) \in Nat
    BY <1>1, <2>2, PartsAreSmall
  <2> QED
    BY <1>1, <2>3, <2>4, <2>5, <2>6 DEF Counted
<1>5. ASSUME NEW c \in Call, NEW amounts \in [Resource -> Nat], Charged(c, amounts)
      PROVE  Counted'
  <2>1. /\ Billed' = Billed /\ call[c].pc \in Busy /\ "calls" \in Resource
        /\ committed'["calls"] = Saturated(committed["calls"] + amounts["calls"])
        /\ \A x \in Call : x \in Started' <=> x \in Started /\ x # c
        /\ CallFits(call[c], held[c], used[c]) /\ call[c].usage \in Usage
    BY <1>1, <1>5 DEF Charged, Billed, Resource, CallsFit
  <2>2. Started' = Started \ {c}
    BY <2>1 DEF Started
  <2>3. /\ Cardinality(Started) \in Nat /\ Cardinality(Billed) \in Nat
        /\ Cardinality(Billed) <= Top
    BY <1>1, PartsAreSmall
  <2>4. CASE used[c] = None
    <3>1. amounts["calls"] = 0
      BY <1>5, <2>1, <2>4 DEF Charged
    <3>2. c \notin Started
      BY <1>1, <2>1, <2>4 DEF CallFits
    <3>3. Started' = Started /\ committed'["calls"] = committed["calls"]
      BY <1>1, <2>1, <2>2, <3>1, <3>2, BudgetFacts DEF Saturated
    <3> QED
      BY <2>1, <3>3 DEF Counted
  <2>5. CASE used[c] # None
    <3>1. amounts["calls"] = 1
      BY <1>5, <2>1, <2>5, WorstCaseIsUsage, AmountsAreNaturals DEF Charged
    <3>2. c \in Started
      BY <1>1, <2>1, <2>5 DEF CallFits, Busy
    <3>3. Cardinality(Started \ {c}) = Cardinality(Started) - 1
          /\ Cardinality(Started \ {c}) \in Nat
      BY <1>1, <3>2, PartsAreSmall
    <3>4. committed["calls"] + 1 <= Top
      BY <1>1, <2>3, <3>3, BudgetFacts DEF Counted
    <3>5. committed'["calls"] = committed["calls"] + 1
      BY <1>1, <2>1, <3>1, <3>4, BudgetFacts DEF Saturated
    <3> QED
      BY <1>1, <2>1, <2>2, <2>3, <3>3, <3>5 DEF Counted
  <2> QED
    BY <2>4, <2>5
<1> QED
  BY <1>2, <1>3, <1>4, <1>5 DEF Moves, Quiet

-----------------------------------------------------------------------------
(* What is spent and reserved. *)

\* A limit of Top refuses nothing, since the sums are saturated.
LimitsRefuse == \A r \in Resource : Limit[r] # Top

\* What the calls hold of r, by where they are.
Share(v, r) == IF v.pc \in Busy THEN Amounts(WorstCase)[r] ELSE 0

Shares(w, r) == [c \in Call |-> Share(w[c], r)]

\* The amount beyond the reservation that a bill of u has, and what the calls
\* were charged of it.
Beyond(u, r) == IF u # None /\ Amounts(u)[r] > Amounts(WorstCase)[r]
                THEN Amounts(u)[r] - Amounts(WorstCase)[r] ELSE 0

Beyonds(u, r) == [c \in Call |-> Beyond(u[c], r)]

Overspent(w, u, r) == [c \in Call |-> IF w[c].pc = "over" THEN Beyond(u[c], r) ELSE 0]

\* A total is a sum.
LEMMA TotalIsSum ==
    ASSUME NEW amounts, NEW r
    PROVE  Total(amounts, r)
           = Summed([c \in Call |-> IF amounts[c] = None THEN 0 ELSE amounts[c][r]], Call)
BY Zenon DEF Total, MapThenSumSet, MapThenFoldSet, Summed, Fold, First

\* So is what the calls bill beyond their reservations.
LEMMA ExcessIsSum ==
    ASSUME NEW r
    PROVE  MapThenSumSet(LAMBDA c : Excess(c, r), Call) = Summed(Beyonds(used, r), Call)
<1>1. MapThenSumSet(LAMBDA c : Excess(c, r), Call)
      = Summed([c \in Call |-> Excess(c, r)], Call)
  BY Zenon DEF MapThenSumSet, MapThenFoldSet, Summed, Fold, First
<1>2. \A c \in Call : Excess(c, r) = Beyond(used[c], r)
  BY Zenon DEF Excess, Beyond
<1>3. [c \in Call |-> Excess(c, r)] = Beyonds(used, r)
  BY <1>2, Zenon DEF Beyonds
<1> QED
  BY <1>1, <1>3

\* The reservations are the sum of what the calls hold.
LEMMA HeldIsSum ==
    ASSUME ConstantsFit, CallsFit, NEW r \in Resource
    PROVE  Held(r) = Saturated(Summed(Shares(call, r), Call))
<1> DEFINE amounts == [c \in Call |-> IF held[c] = None THEN None ELSE held[c].values]
           f == [c \in Call |-> IF amounts[c] = None THEN 0 ELSE amounts[c][r]]
<1>1. Held(r) = Saturated(Total(amounts, r))
  BY Zenon DEF Held
<1>2. \A c \in Call : held[c] # None => held[c].values \in [Resource -> Nat]
  BY DEF CallsFit
<1>3. ASSUME NEW c \in Call PROVE f[c] = Share(call[c], r)
  <2>1. f[c] = IF held[c] = None THEN 0 ELSE held[c].values[r]
    BY <1>2, BudgetFacts
  <2>2. CallFits(call[c], held[c], used[c])
    BY DEF CallsFit
  <2> HIDE DEF f
  <2> QED
    BY <2>1, <2>2, BudgetFacts DEF CallFits, Share
<1>4. f = Shares(call, r)
  BY <1>3 DEF Shares
<1>5. Total(amounts, r) = Summed(f, Call)
  BY TotalIsSum
<1> QED
  BY <1>1, <1>4, <1>5

\* It is a number.
LEMMA BeyondIsNatural ==
    ASSUME ConstantsFit, NEW u \in Usage \cup {None}, NEW r \in Resource
    PROVE  /\ Beyond(u, r) \in Nat /\ Amounts(WorstCase)[r] \in Nat
           /\ u # None => Amounts(u)[r] \in Nat
                          /\ Amounts(u)[r] <= Amounts(WorstCase)[r] + Beyond(u, r)
<1>1. Amounts(WorstCase)[r] \in Nat
  BY WorstCaseIsUsage
<1>2. u # None => Amounts(u)[r] \in Nat
  BY AmountsAreNaturals
<1> QED
  BY <1>1, <1>2 DEF Beyond

\* The terms of the sums.
LEMMA TermsAre ==
    ASSUME ConstantsFit, NEW u \in [Call -> Usage \cup {None}], NEW w, NEW r \in Resource
    PROVE  /\ Shares(w, r) \in [Call -> Nat] /\ Beyonds(u, r) \in [Call -> Nat]
           /\ Overspent(w, u, r) \in [Call -> Nat]
           /\ \A c \in Call :
                 /\ Shares(w, r)[c] = Share(w[c], r)
                 /\ Beyonds(u, r)[c] = Beyond(u[c], r)
                 /\ Overspent(w, u, r)[c] = IF w[c].pc = "over" THEN Beyond(u[c], r) ELSE 0
<1>1. \A c \in Call : Share(w[c], r) \in Nat
  BY WorstCaseIsUsage DEF Share
<1>2. \A c \in Call : Beyond(u[c], r) \in Nat
  BY BeyondIsNatural
<1> QED
  BY <1>1, <1>2 DEF Shares, Beyonds, Overspent

\* What was committed and is reserved is within the limit, but for what the
\* calls that are over were charged beyond their reservations.
Bounded(r) ==
    Limit[r] = None \/
    committed[r] + Summed(Shares(call, r), Call)
        <= Limit[r] + Summed(Overspent(call, used, r), Call)

\* A step keeps the limits so.
LEMMA MovesAreBounded ==
    ASSUME ConstantsFit, IsFiniteSet(Call), LimitsRefuse, CallsFit, CallsFit', Moves,
           NEW r \in Resource, Bounded(r)
    PROVE  Bounded(r)'
<1> SUFFICES ASSUME Limit[r] # None
             PROVE  committed'[r] + Summed(Shares(call', r), Call)
                        <= Limit[r] + Summed(Overspent(call', used', r), Call)
  BY DEF Bounded
<1> DEFINE H == Summed(Shares(call, r), Call)
           I == Summed(Shares(call', r), Call)
           E == Summed(Overspent(call, used, r), Call)
           F == Summed(Overspent(call', used', r), Call)
           W == Amounts(WorstCase)[r]
<1>1. /\ H \in Nat /\ I \in Nat /\ E \in Nat /\ F \in Nat /\ W \in Nat
      /\ committed[r] \in 0..Top /\ committed'[r] \in 0..Top /\ Limit[r] \in 0..Top
      /\ Limit[r] # Top /\ Top \in Nat
      /\ committed[r] + H <= Limit[r] + E
  <2>1. used \in [Call -> Usage \cup {None}] /\ used' \in [Call -> Usage \cup {None}]
    BY DEF CallsFit
  <2>2. /\ Shares(call, r) \in [Call -> Nat] /\ Shares(call', r) \in [Call -> Nat]
        /\ Overspent(call, used, r) \in [Call -> Nat]
        /\ Overspent(call', used', r) \in [Call -> Nat]
    BY <2>1, TermsAre
  <2>3. H \in Nat /\ I \in Nat /\ E \in Nat /\ F \in Nat
    BY <2>2, SumOfZeros
  <2> QED
    BY <2>3, WorstCaseIsUsage, BudgetFacts DEF Bounded, CallsFit, LimitsRefuse
<1>2. ASSUME NEW c \in Call, \A x \in Call \ {c} : call'[x] = call[x] /\ used'[x] = used[x]
      PROVE  /\ I + Share(call[c], r) = H + Share(call'[c], r)
             /\ F + (IF call[c].pc = "over" THEN Beyond(used[c], r) ELSE 0)
                = E + (IF call'[c].pc = "over" THEN Beyond(used'[c], r) ELSE 0)
             /\ Beyond(used[c], r) \in Nat /\ Beyond(used'[c], r) \in Nat
  <2>1. used \in [Call -> Usage \cup {None}] /\ used' \in [Call -> Usage \cup {None}]
    BY DEF CallsFit
  <2>2. /\ Shares(call, r) \in [Call -> Nat] /\ Shares(call', r) \in [Call -> Nat]
        /\ \A x \in Call : Shares(call, r)[x] = Share(call[x], r)
                            /\ Shares(call', r)[x] = Share(call'[x], r)
    BY <2>1, TermsAre
  <2>3. /\ Overspent(call, used, r) \in [Call -> Nat]
        /\ Overspent(call', used', r) \in [Call -> Nat]
        /\ \A x \in Call :
              /\ Overspent(call, used, r)[x]
                 = IF call[x].pc = "over" THEN Beyond(used[x], r) ELSE 0
              /\ Overspent(call', used', r)[x]
                 = IF call'[x].pc = "over" THEN Beyond(used'[x], r) ELSE 0
    BY <2>1, TermsAre
  <2>4. I + Share(call[c], r) = H + Share(call'[c], r)
    <3>1. \A x \in Call \ {c} : Shares(call, r)[x] = Shares(call', r)[x]
      BY <1>2, <2>2
    <3>2. I + Shares(call, r)[c] = H + Shares(call', r)[c]
      BY <2>2, <3>1, SumChanges
    <3> QED
      BY <2>2, <3>2
  <2>5. F + Overspent(call, used, r)[c] = E + Overspent(call', used', r)[c]
    <3>1. \A x \in Call \ {c} : Overspent(call, used, r)[x] = Overspent(call', used', r)[x]
      BY <1>2, <2>3
    <3> QED
      BY <2>3, <3>1, SumChanges
  <2> QED
    BY <2>1, <2>3, <2>4, <2>5, BeyondIsNatural
<1>3. call \in [Call -> [pc: Pc, usage: Usage]]
  BY DEF CallsFit
<1> HIDE DEF H, I, E, F, W
<1>4. ASSUME NEW c \in Call, Quiet(c) PROVE committed'[r] + I <= Limit[r] + F
  <2>1. /\ \A x \in Call \ {c} : call'[x] = call[x] /\ used'[x] = used[x]
        /\ committed' = committed /\ (call'[c].pc \in Busy <=> call[c].pc \in Busy)
        /\ call[c].pc # "over" /\ call'[c].pc # "over"
    BY <1>3, <1>4 DEF Quiet
  <2>2. Share(call'[c], r) = Share(call[c], r) /\ Share(call[c], r) \in Nat
    BY <1>1, <2>1 DEF Share, W
  <2> QED
    BY <1>1, <1>2, <2>1, <2>2
<1>5. ASSUME NEW c \in Call, Enters(c) PROVE committed'[r] + I <= Limit[r] + F
  <2>1. /\ \A x \in Call \ {c} : call'[x] = call[x] /\ used'[x] = used[x]
        /\ committed' = committed /\ call'[c].pc = "reserved" /\ call[c].pc = "checked"
    BY <1>3, <1>5 DEF Enters
  <2>2. Share(call'[c], r) = W /\ Share(call[c], r) = 0
    BY <2>1 DEF Share, W, Busy
  <2>3. Saturated(committed[r] + Saturated(H) + W) <= Limit[r]
    <3>1. Requested(r) = Saturated(committed[r] + Held(r) + W)
      BY Zenon DEF Requested, W
    <3>2. Within(r, Requested(r))
      BY <1>5 DEF Enters, Admitted
    <3>3. Held(r) = Saturated(H)
      BY HeldIsSum DEF H
    <3> QED
      BY <3>1, <3>2, <3>3 DEF Within
  <2>4. committed[r] + H + W <= Limit[r]
    BY <1>1, <2>3 DEF Saturated
  <2> QED
    BY <1>1, <1>2, <2>1, <2>2, <2>4
<1>6. ASSUME NEW c \in Call, Starts(c) PROVE committed'[r] + I <= Limit[r] + F
  <2>1. /\ \A x \in Call \ {c} : call'[x] = call[x] /\ used'[x] = used[x]
        /\ committed' = committed /\ call'[c].pc = "started" /\ call[c].pc = "reserved"
    BY <1>3, <1>6 DEF Starts, CallsFit
  <2>2. Share(call'[c], r) = W /\ Share(call[c], r) = W
    BY <2>1 DEF Share, W, Busy
  <2> QED
    BY <1>1, <1>2, <2>1, <2>2
<1>7. ASSUME NEW c \in Call, NEW amounts \in [Resource -> Nat], Charged(c, amounts)
      PROVE  committed'[r] + I <= Limit[r] + F
  <2>1. /\ \A x \in Call \ {c} : call'[x] = call[x] /\ used'[x] = used[x]
        /\ used' = used /\ call'[c].pc = "over" /\ call[c].pc # "over"
        /\ call[c].pc \in Busy
        /\ committed'[r] = Saturated(committed[r] + amounts[r]) /\ amounts[r] \in Nat
    BY <1>3, <1>7 DEF Charged, Busy
  <2>2. Share(call'[c], r) = 0 /\ Share(call[c], r) = W
    BY <2>1 DEF Share, W, Busy
  <2>3. Beyond(used[c], r) \in Nat
    BY <1>2, <2>1
  <2>4. amounts[r] <= W + Beyond(used[c], r)
    <3>1. used[c] = None => amounts[r] = 0
      BY <1>7 DEF Charged
    <3>2. used[c] # None => Amounts(call[c].usage)[r] <= Amounts(used[c])[r]
      BY DEF CallsFit, CallFits
    <3>3. used[c] # None => amounts[r] = W \/ amounts[r] = Amounts(call[c].usage)[r]
      BY <1>7 DEF Charged, W
    <3>4. used[c] \in Usage \cup {None} /\ call[c].usage \in Usage
      BY <1>3 DEF CallsFit
    <3>5. used[c] # None => Amounts(used[c])[r] \in Nat
                            /\ Amounts(used[c])[r] <= W + Beyond(used[c], r)
      BY <3>4, BeyondIsNatural DEF W
    <3> QED
      BY <1>1, <2>1, <2>3, <3>1, <3>2, <3>3, <3>5
  <2>5. committed'[r] <= committed[r] + amounts[r]
    BY <1>1, <2>1, SaturatedIsLess
  <2>6. I + W = H /\ F = E + Beyond(used[c], r)
    BY <1>1, <1>2, <2>1, <2>2, <2>3
  <2> QED
    BY <1>1, <2>1, <2>3, <2>4, <2>5, <2>6
<1>8. ASSUME UNCHANGED <<committed, held, call, used>>
      PROVE  committed'[r] + I <= Limit[r] + F
  BY <1>1, <1>8 DEF H, I, E, F
<1> QED
  BY <1>4, <1>5, <1>6, <1>7, <1>8 DEF Moves, I, F

-----------------------------------------------------------------------------
(* What is due for the calls. *)

\* The smaller of what a call told, or was billed, and what was reserved for it.
DueFor(v, u, r) ==
    IF v.pc # "over" \/ u = None THEN 0
    ELSE IF Amounts(IF v.usage = NoUsage THEN u ELSE v.usage)[r] < Amounts(WorstCase)[r]
         THEN Amounts(IF v.usage = NoUsage THEN u ELSE v.usage)[r]
         ELSE Amounts(WorstCase)[r]

DuesOf(w, u, r) == [c \in Call |-> DueFor(w[c], u[c], r)]

\* It is a number.
LEMMA DueIsNatural ==
    ASSUME ConstantsFit, NEW u \in [Call -> Usage \cup {None}],
           NEW w \in [Call -> [pc: Pc, usage: Usage]],
           NEW r \in Resource
    PROVE  /\ DuesOf(w, u, r) \in [Call -> Nat]
           /\ \A c \in Call :
                 /\ DuesOf(w, u, r)[c] = DueFor(w[c], u[c], r)
                 /\ DueFor(w[c], u[c], r) <= Amounts(WorstCase)[r]
<1>1. ASSUME NEW c \in Call
      PROVE  DueFor(w[c], u[c], r) \in Nat /\ DueFor(w[c], u[c], r) <= Amounts(WorstCase)[r]
  <2>1. Amounts(WorstCase)[r] \in Nat
    BY WorstCaseIsUsage
  <2>2. CASE w[c].pc # "over" \/ u[c] = None
    BY <2>1, <2>2 DEF DueFor
  <2>3. CASE ~(w[c].pc # "over" \/ u[c] = None)
    <3>1. (IF w[c].usage = NoUsage THEN u[c] ELSE w[c].usage) \in Usage
      BY <2>3
    <3>2. Amounts(IF w[c].usage = NoUsage THEN u[c] ELSE w[c].usage)[r] \in Nat
      BY <3>1, AmountsAreNaturals
    <3> QED
      BY <2>1, <2>3, <3>2 DEF DueFor
  <2> QED
    BY <2>2, <2>3
<1> QED
  BY <1>1 DEF DuesOf

\* What the property adds up.
LEMMA DueIsSum ==
    ASSUME ConstantsFit, CallsFit, NEW r \in Resource
    PROVE  Total([c \in Call |-> Due(c)], r) = Summed(DuesOf(call, used, r), Call)
<1> DEFINE amounts == [c \in Call |-> Due(c)]
           f == [c \in Call |-> IF amounts[c] = None THEN 0 ELSE amounts[c][r]]
<1>1. ASSUME NEW c \in Call PROVE f[c] = DueFor(call[c], used[c], r)
  <2>1. f[c] = IF Due(c) = None THEN 0 ELSE Due(c)[r]
    OBVIOUS
  <2> HIDE DEF f, amounts
  <2>2. CASE call[c].pc # "over" \/ used[c] = None
    BY <2>1, <2>2 DEF Due, DueFor
  <2>3. CASE ~(call[c].pc # "over" \/ used[c] = None)
    <3> DEFINE told == Amounts(IF call[c].usage = NoUsage THEN used[c] ELSE call[c].usage)
               kept == Amounts(WorstCase)
    <3>1. Due(c) = [x \in Resource |-> IF told[x] < kept[x] THEN told[x] ELSE kept[x]]
      BY <2>3, Zenon DEF Due
    <3>2. told \in [Resource -> Nat] /\ kept \in [Resource -> Nat]
      <4>1. (IF call[c].usage = NoUsage THEN used[c] ELSE call[c].usage) \in Usage
        BY <2>3 DEF CallsFit
      <4> QED
        BY <4>1, AmountsAreNaturals, WorstCaseIsUsage
    <3> HIDE DEF told, kept
    <3>3. Due(c) \in [Resource -> Nat]
      BY <3>1, <3>2
    <3>4. Due(c) # None
      BY <3>3, BudgetFacts
    <3>5. Due(c)[r] = IF told[r] < kept[r] THEN told[r] ELSE kept[r]
      BY <3>1
    <3>6. DueFor(call[c], used[c], r) = IF told[r] < kept[r] THEN told[r] ELSE kept[r]
      BY <2>3, Zenon DEF DueFor, told, kept
    <3> QED
      BY <2>1, <3>4, <3>5, <3>6
  <2> QED
    BY <2>2, <2>3
<1>2. f = DuesOf(call, used, r)
  BY <1>1 DEF DuesOf
<1>3. Total(amounts, r) = Summed(f, Call)
  BY TotalIsSum
<1> QED
  BY <1>2, <1>3

\* The ledger has at least what is due.
Covered(r) == committed[r] >= Saturated(Summed(DuesOf(call, used, r), Call))

\* A call that ends is charged what is due for it.
LEMMA MovesCover ==
    ASSUME ConstantsFit, IsFiniteSet(Call), CallsFit, CallsFit', Moves, NEW r \in Resource,
           Covered(r)
    PROVE  Covered(r)'
<1> SUFFICES committed'[r] >= Saturated(Summed(DuesOf(call', used', r), Call))
  BY DEF Covered
<1> DEFINE D == Summed(DuesOf(call, used, r), Call)
           E == Summed(DuesOf(call', used', r), Call)
           W == Amounts(WorstCase)[r]
<1>1. /\ call \in [Call -> [pc: Pc, usage: Usage]]
      /\ call' \in [Call -> [pc: Pc, usage: Usage]]
      /\ used \in [Call -> Usage \cup {None}] /\ used' \in [Call -> Usage \cup {None}]
  BY DEF CallsFit
<1>2. /\ DuesOf(call, used, r) \in [Call -> Nat]
      /\ DuesOf(call', used', r) \in [Call -> Nat]
      /\ \A x \in Call : /\ DuesOf(call, used, r)[x] = DueFor(call[x], used[x], r)
                         /\ DuesOf(call', used', r)[x] = DueFor(call'[x], used'[x], r)
                         /\ DueFor(call'[x], used'[x], r) <= W
  BY <1>1, DueIsNatural
<1>3. /\ D \in Nat /\ E \in Nat /\ W \in Nat /\ Top \in Nat
      /\ committed[r] \in 0..Top /\ committed'[r] \in 0..Top
      /\ committed[r] >= Saturated(D)
  BY <1>2, SumOfZeros, WorstCaseIsUsage, BudgetFacts DEF Covered, CallsFit
<1>4. ASSUME NEW c \in Call, \A x \in Call \ {c} : call'[x] = call[x] /\ used'[x] = used[x]
      PROVE  /\ E + DueFor(call[c], used[c], r) = D + DueFor(call'[c], used'[c], r)
             /\ DueFor(call[c], used[c], r) \in Nat /\ DueFor(call'[c], used'[c], r) \in Nat
  <2>1. \A x \in Call \ {c} : DuesOf(call, used, r)[x] = DuesOf(call', used', r)[x]
    BY <1>2, <1>4
  <2> QED
    BY <1>2, <2>1, SumChanges
<1> HIDE DEF D, E, W
<1>5. ASSUME NEW c \in Call, Quiet(c) \/ Enters(c) \/ Starts(c)
      PROVE  committed'[r] >= Saturated(E)
  <2>1. /\ \A x \in Call \ {c} : call'[x] = call[x] /\ used'[x] = used[x]
        /\ committed' = committed /\ call[c].pc # "over" /\ call'[c].pc # "over"
    BY <1>1, <1>5 DEF Quiet, Enters, Starts
  <2>2. DueFor(call'[c], used'[c], r) = 0 /\ DueFor(call[c], used[c], r) = 0
    BY <2>1 DEF DueFor
  <2>3. E = D
    BY <1>3, <1>4, <2>1, <2>2
  <2> QED
    BY <1>3, <2>1, <2>3
<1>6. ASSUME NEW c \in Call, NEW amounts \in [Resource -> Nat], Charged(c, amounts)
      PROVE  committed'[r] >= Saturated(E)
  <2>1. /\ \A x \in Call \ {c} : call'[x] = call[x] /\ used'[x] = used[x]
        /\ used' = used /\ call'[c].pc = "over" /\ call[c].pc # "over"
        /\ call'[c].usage = call[c].usage
        /\ committed'[r] = Saturated(committed[r] + amounts[r]) /\ amounts[r] \in Nat
    BY <1>1, <1>6 DEF Charged, Busy
  <2>2. DueFor(call[c], used[c], r) = 0
    BY <2>1 DEF DueFor
  <2>3. DueFor(call'[c], used'[c], r) <= amounts[r]
    <3>1. CASE used[c] = None
      <4>1. DueFor(call'[c], used'[c], r) = 0
        BY <2>1, <3>1 DEF DueFor
      <4> QED
        BY <2>1, <4>1
    <3>2. CASE used[c] # None /\ amounts = Amounts(WorstCase)
      BY <1>2, <3>2 DEF W
    <3>3. CASE used[c] # None /\ amounts = Amounts(call[c].usage) /\ call[c].usage # NoUsage
      <4>1. (IF call'[c].usage = NoUsage THEN used'[c] ELSE call'[c].usage) = call[c].usage
        BY <2>1, <3>3
      <4>2. DueFor(call'[c], used'[c], r)
            = IF Amounts(call[c].usage)[r] < W THEN Amounts(call[c].usage)[r] ELSE W
        BY <2>1, <3>3, <4>1 DEF DueFor, W
      <4> QED
        BY <1>3, <2>1, <3>3, <4>2
    <3> QED
      BY <1>6, <3>1, <3>2, <3>3 DEF Charged
  <2>4. E = D + DueFor(call'[c], used'[c], r) /\ DueFor(call'[c], used'[c], r) \in Nat
    BY <1>3, <1>4, <2>1, <2>2
  <2> QED
    BY <1>3, <2>1, <2>3, <2>4 DEF Saturated
<1>7. ASSUME UNCHANGED <<committed, held, call, used>> PROVE committed'[r] >= Saturated(E)
  BY <1>3, <1>7 DEF D, E
<1> QED
  BY <1>5, <1>6, <1>7 DEF Moves, E

-----------------------------------------------------------------------------
(* The invariants of the budget. *)

\* At the start nothing is reserved.
LEMMA BudgetBegins == ASSUME ConstantsFit, Init PROVE CallsFit
<1>1. /\ \A r \in Resource : 0 \in 0..Top
      /\ "idle" \in Pc /\ NoUsage \in Usage
  BY BudgetFacts, NoUsageIsLeast DEF Pc
<1> QED
  BY <1>1 DEF Init, CallsFit, CallFits, Busy

\* The calls are in order in every state.
LEMMA CallsFitHolds == ASSUME ConstantsFit PROVE Spec => []CallsFit
<1>1. CallsFit /\ [Next]_vars => CallsFit'
  BY BudgetMoves
<1> QED
  BY <1>1, BudgetBegins, PTL DEF Spec

\* The counters are what the calls make them.
LEMMA CountedHolds == ASSUME ConstantsFit, CallsAreCountable PROVE Spec => []Counted
<1>1. Init => Counted
  <2>1. ASSUME Init PROVE Started = {} /\ Billed = {} /\ committed["calls"] = 0
    BY <2>1 DEF Init, Started, Billed, Resource
  <2> QED
    BY <2>1, FS_EmptySet DEF Counted
<1>2. CallsFit /\ CallsFit' /\ Counted /\ [Next]_vars => Counted'
  BY BudgetMoves, MovesCount
<1> QED
  BY <1>1, <1>2, CallsFitHolds, PTL DEF Spec

\* Nothing is spent or reserved over a limit but what was billed over it.
LEMMA BoundedHolds ==
    ASSUME ConstantsFit, IsFiniteSet(Call), LimitsRefuse
    PROVE  Spec => [](\A r \in Resource : Bounded(r))
<1>1. Init => \A r \in Resource : Bounded(r)
  <2> SUFFICES ASSUME Init, NEW r \in Resource, Limit[r] # None
               PROVE  committed[r] + Summed(Shares(call, r), Call)
                          <= Limit[r] + Summed(Overspent(call, used, r), Call)
    BY DEF Bounded
  <2>1. used \in [Call -> Usage \cup {None}] /\ committed[r] = 0 /\ Limit[r] \in Nat
        /\ \A c \in Call : call[c].pc = "idle"
    BY BudgetFacts DEF Init
  <2>2. /\ Shares(call, r) \in [Call -> Nat] /\ Overspent(call, used, r) \in [Call -> Nat]
        /\ \A c \in Call : Shares(call, r)[c] = Share(call[c], r)
    BY <2>1, TermsAre
  <2>3. \A c \in Call : Shares(call, r)[c] = 0
    BY <2>1, <2>2 DEF Share, Busy
  <2>4. Summed(Shares(call, r), Call) = 0 /\ Summed(Overspent(call, used, r), Call) \in Nat
    BY <2>2, <2>3, SumOfZeros
  <2> QED
    BY <2>1, <2>4
<1>2. CallsFit /\ CallsFit' /\ (\A r \in Resource : Bounded(r)) /\ [Next]_vars
          => (\A r \in Resource : Bounded(r))'
  BY BudgetMoves, MovesAreBounded
<1> QED
  BY <1>1, <1>2, CallsFitHolds, PTL DEF Spec

\* What is due is charged.
LEMMA CoveredHolds ==
    ASSUME ConstantsFit, IsFiniteSet(Call) PROVE Spec => [](\A r \in Resource : Covered(r))
<1>1. Init => \A r \in Resource : Covered(r)
  <2> SUFFICES ASSUME Init, NEW r \in Resource PROVE Covered(r)
    OBVIOUS
  <2>1. /\ used \in [Call -> Usage \cup {None}] /\ call \in [Call -> [pc: Pc, usage: Usage]]
        /\ committed[r] = 0
    BY BudgetBegins DEF Init, CallsFit
  <2>2. /\ DuesOf(call, used, r) \in [Call -> Nat]
        /\ \A c \in Call : DuesOf(call, used, r)[c] = DueFor(call[c], used[c], r)
    BY <2>1, DueIsNatural
  <2>3. \A c \in Call : DuesOf(call, used, r)[c] = 0
    BY <2>2 DEF Init, DueFor
  <2>4. Summed(DuesOf(call, used, r), Call) = 0
    BY <2>2, <2>3, SumOfZeros
  <2> QED
    BY <2>1, <2>4, BudgetFacts DEF Covered, Saturated
<1>2. CallsFit /\ CallsFit' /\ (\A r \in Resource : Covered(r)) /\ [Next]_vars
          => (\A r \in Resource : Covered(r))'
  BY BudgetMoves, MovesCover
<1> QED
  BY <1>1, <1>2, CallsFitHolds, PTL DEF Spec

\* What the invariants say of the properties.
LEMMA CountedIsOnce == ASSUME Counted PROVE CallsCountedOnce
BY DEF Counted, CallsCountedOnce, Started, Billed

\* Of the overspending: those that are over are some of those that were billed.
LEMMA BoundedIsExcess ==
    ASSUME ConstantsFit, IsFiniteSet(Call), CallsFit, \A r \in Resource : Bounded(r)
    PROVE  OverspendIsExcess
<1> SUFFICES ASSUME NEW r \in Resource, Limit[r] # None
             PROVE  committed[r] + Held(r)
                        <= Limit[r] + MapThenSumSet(LAMBDA c : Excess(c, r), Call)
  BY Zenon DEF OverspendIsExcess
<1>1. used \in [Call -> Usage \cup {None}] /\ committed[r] \in Nat /\ Limit[r] \in Nat
  BY BudgetFacts DEF CallsFit
<1>2. /\ Shares(call, r) \in [Call -> Nat] /\ Beyonds(used, r) \in [Call -> Nat]
      /\ Overspent(call, used, r) \in [Call -> Nat]
      /\ \A c \in Call : Overspent(call, used, r)[c] <= Beyonds(used, r)[c]
  <2>1. /\ Shares(call, r) \in [Call -> Nat] /\ Beyonds(used, r) \in [Call -> Nat]
        /\ Overspent(call, used, r) \in [Call -> Nat]
        /\ \A c \in Call :
              /\ Beyonds(used, r)[c] = Beyond(used[c], r)
              /\ Overspent(call, used, r)[c]
                 = IF call[c].pc = "over" THEN Beyond(used[c], r) ELSE 0
    BY <1>1, TermsAre
  <2> QED
    BY <2>1
<1>3. /\ Summed(Overspent(call, used, r), Call) <= Summed(Beyonds(used, r), Call)
      /\ Summed(Overspent(call, used, r), Call) \in Nat
      /\ Summed(Beyonds(used, r), Call) \in Nat /\ Summed(Shares(call, r), Call) \in Nat
  BY <1>2, SumGrows, SumOfZeros
<1>4. Held(r) \in Nat /\ Held(r) <= Summed(Shares(call, r), Call)
  BY <1>3, HeldIsSum, SaturatedIsLess
<1>5. committed[r] + Summed(Shares(call, r), Call)
          <= Limit[r] + Summed(Overspent(call, used, r), Call)
  BY DEF Bounded
<1>6. committed[r] + Held(r) <= Limit[r] + Summed(Beyonds(used, r), Call)
  BY <1>1, <1>3, <1>4, <1>5
<1> QED
  BY <1>6, ExcessIsSum, Zenon

\* Of the charges.
LEMMA CoveredIsCharged ==
    ASSUME ConstantsFit, CallsFit, \A r \in Resource : Covered(r) PROVE ChargeCoversBill
<1>1. \A r \in Resource :
          Total([c \in Call |-> Due(c)], r) = Summed(DuesOf(call, used, r), Call)
  BY DueIsSum
<1> QED
  BY <1>1 DEF Covered, ChargeCoversBill

-----------------------------------------------------------------------------
(* The theorems. *)

\* Every model call that reached the provider is counted exactly once, however
\* it ended (mark_started, reconcile, the Drop of its handle), and no other is,
\* as long as there are not more calls than a counter can hold.
THEOREM CallsAreCountedOnce ==
    ConstantsFit /\ CallsAreCountable /\ Spec => []CallsCountedOnce
<1> SUFFICES ASSUME ConstantsFit, CallsAreCountable PROVE Spec => []CallsCountedOnce
  OBVIOUS
<1>1. Counted => CallsCountedOnce
  BY CountedIsOnce
<1> QED
  BY <1>1, CountedHolds, PTL

\* What a provider bills beyond its reservation is all that the ledger can be
\* over a limit: reserve_model_call checks spent, reserved and requested under
\* one lock.  A limit of u64::MAX is none, as a saturated sum never exceeds it.
THEOREM OverspendingIsExcess ==
    ConstantsFit /\ IsFiniteSet(Call) /\ LimitsRefuse /\ Spec => []OverspendIsExcess
<1> SUFFICES ASSUME ConstantsFit, IsFiniteSet(Call), LimitsRefuse
             PROVE  Spec => []OverspendIsExcess
  OBVIOUS
<1>1. CallsFit /\ (\A r \in Resource : Bounded(r)) => OverspendIsExcess
  BY BoundedIsExcess
<1> QED
  BY <1>1, CallsFitHolds, BoundedHolds, PTL

\* The ledger never holds less than what is due for the calls that ended, in
\* whatever way they did: told usage, no usage, cancelled, failed.
THEOREM ChargesCoverBills == ConstantsFit /\ IsFiniteSet(Call) /\ Spec => []ChargeCoversBill
<1> SUFFICES ASSUME ConstantsFit, IsFiniteSet(Call) PROVE Spec => []ChargeCoversBill
  OBVIOUS
<1>1. CallsFit /\ (\A r \in Resource : Covered(r)) => ChargeCoversBill
  BY CoveredIsCharged
<1> QED
  BY <1>1, CallsFitHolds, CoveredHolds, PTL

=============================================================================
