------------------------------- MODULE Indices -------------------------------
(***************************************************************************)
(* Facts about sets of positions, for the proofs about loops that look for *)
(* the next, the last or the n-th element of a sequence.                   *)
(***************************************************************************)
EXTENDS Integers, FiniteSets, FiniteSetTheorems, WellFoundedInduction, TLAPS

\* A set of numbers has a least element: a loop that counts up and looks for one
\* of them finds it first.
LEMMA LeastNumber ==
  ASSUME NEW S \in SUBSET Nat, S # {}
  PROVE  \E k \in S : \A j \in S : k <= j
<1>1. PICK k \in S : \A j \in S : ~(<<j, k>> \in OpToRel(<, Nat))
  BY NatLessThanWellFounded, WFMin, Zenon
<1>2. \A j \in S : ~(j < k)
  BY <1>1, Zenon DEF OpToRel
<1>. QED
  BY <1>2

\* A set of positions has a least element.
LEMMA LeastIndex ==
  ASSUME NEW n \in Nat, NEW S \in SUBSET (1..n), S # {}
  PROVE  \E k \in S : \A j \in S : k <= j
<1>1. S \in SUBSET Nat
  OBVIOUS
<1>. QED
  BY <1>1, LeastNumber

\* A bounded set of numbers has a greatest element.
LEMMA GreatestNumber ==
  ASSUME NEW n \in Nat, NEW S \in SUBSET (0..n), S # {}
  PROVE  \E k \in S : \A j \in S : j <= k
<1>. DEFINE T == {n - k : k \in S}
<1>1. T \in SUBSET Nat /\ T # {}
  <2>1. \A k \in S : n - k \in Nat
    OBVIOUS
  <2>2. PICK k \in S : TRUE
    BY Zenon
  <2>3. n - k \in T
    BY <2>2
  <2>. QED
    BY <2>1, <2>3
<1>2. PICK m \in T : \A j \in T : m <= j
  BY <1>1, LeastNumber, Zenon
<1>3. PICK k \in S : m = n - k
  BY <1>2
<1>4. \A j \in S : n - k <= n - j
  BY <1>2, <1>3, Zenon
<1>. QED
  BY <1>3, <1>4

\* A set of positions has a greatest element (the last attribute that
\* pathcomp_next reaches, the last character of a word).
LEMMA GreatestIndex ==
  ASSUME NEW n \in Nat, NEW S \in SUBSET (1..n), S # {}
  PROVE  \E k \in S : \A j \in S : j <= k
<1>1. S \in SUBSET (0..n)
  OBVIOUS
<1>. QED
  BY <1>1, GreatestNumber, Zenon

-----------------------------------------------------------------------------
(* The rank of a position in a set *)

Rank(K, k) == Cardinality({j \in K : j <= k})

\* Ranks are numbers, up to the size of the set.
LEMMA RankType ==
  ASSUME NEW n \in Nat, NEW K \in SUBSET (1..n), NEW k \in Nat
  PROVE  /\ IsFiniteSet(K) /\ IsFiniteSet({j \in K : j <= k})
         /\ Cardinality(K) \in Nat
         /\ Rank(K, k) \in 0..Cardinality(K)
         /\ k >= n => Rank(K, k) = Cardinality(K)
<1>1. IsFiniteSet(K)
  <2>1. K \in SUBSET Nat /\ \A s \in K : s <= n
    OBVIOUS
  <2>. QED
    BY <2>1, FS_BoundedSetOfNaturals
<1>2. {j \in K : j <= k} \in SUBSET K
  OBVIOUS
<1>3. Cardinality(K) \in Nat
  BY <1>1, FS_CardinalityType
<1>4. IsFiniteSet({j \in K : j <= k}) /\ Cardinality({j \in K : j <= k}) <= Cardinality(K)
  BY <1>1, <1>2, FS_Subset
<1>5. Cardinality({j \in K : j <= k}) \in Nat
  BY <1>4, FS_CardinalityType
<1>6. k >= n => {j \in K : j <= k} = K
  <2>1. \A j \in K : j \in Nat /\ j <= n
    OBVIOUS
  <2>2. k >= n => \A j \in K : j <= k
    BY <2>1
  <2>. QED
    BY <2>2, Zenon
<1>. QED
  BY <1>1, <1>3, <1>4, <1>5, <1>6 DEF Rank

\* The rank grows by one at every element, and nowhere else.
LEMMA RankStep ==
  ASSUME NEW n \in Nat, NEW K \in SUBSET (1..n), NEW k \in Nat
  PROVE  Rank(K, k + 1) = IF k + 1 \in K THEN Rank(K, k) + 1 ELSE Rank(K, k)
<1>1. IsFiniteSet({j \in K : j <= k})
  BY RankType
<1>0. \A j \in K : j <= k + 1 <=> j <= k \/ j = k + 1
  <2>1. \A j \in K : j \in Nat
    OBVIOUS
  <2>. QED
    BY <2>1
<1>2. CASE k + 1 \in K
  <2>1. {j \in K : j <= k + 1} = {j \in K : j <= k} \cup {k + 1}
    <3>1. k + 1 <= k + 1
      OBVIOUS
    <3>. QED
      BY <1>0, <1>2, <3>1, Zenon
  <2>2. k + 1 \notin {j \in K : j <= k}
    OBVIOUS
  <2>. QED
    BY <1>1, <1>2, <2>1, <2>2, FS_AddElement DEF Rank
<1>3. CASE k + 1 \notin K
  <2>1. {j \in K : j <= k + 1} = {j \in K : j <= k}
    BY <1>0, <1>3, Zenon
  <2>. QED
    BY <1>3, <2>1 DEF Rank
<1>. QED
  BY <1>2, <1>3

\* An element has a greater rank than every number below it.
LEMMA RankLess ==
  ASSUME NEW n \in Nat, NEW K \in SUBSET (1..n), NEW k \in Nat, NEW m \in K, k < m
  PROVE  Rank(K, k) < Rank(K, m)
<1>. DEFINE A == {j \in K : j <= k}
            B == {j \in K : j <= m}
<1>1. m \in Nat
  OBVIOUS
<1>2. IsFiniteSet(B) /\ Rank(K, k) \in Nat /\ Rank(K, m) \in Nat
  <2>1. /\ IsFiniteSet(B)
        /\ Rank(K, m) \in 0..Cardinality(K)
        /\ Cardinality(K) \in Nat
    BY <1>1, RankType
  <2>2. Rank(K, k) \in 0..Cardinality(K)
    BY RankType, Zenon
  <2>. QED
    BY <2>1, <2>2
<1>3. A \in SUBSET B /\ A # B
  <2>1. \A j \in K : j <= k => j <= m
    OBVIOUS
  <2>2. A \in SUBSET B
    BY <2>1, Zenon
  <2>3. m \in B /\ m \notin A
    BY <1>1
  <2>. QED
    BY <2>2, <2>3
<1>4. Cardinality(A) <= Cardinality(B) /\ (Cardinality(B) = Cardinality(A) => B = A)
  BY <1>2, <1>3, FS_Subset
<1>. QED
  BY <1>2, <1>3, <1>4 DEF Rank

\* Every number up to the size of the set is the rank of an element.
LEMMA RankOnto ==
  ASSUME NEW n \in Nat, NEW K \in SUBSET (1..n), NEW i \in 1..Cardinality(K)
  PROVE  \E k \in K : Rank(K, k) = i
<1>0. Cardinality(K) \in Nat /\ \A k \in Nat : Rank(K, k) \in Nat
  <2>1. n \in Nat
    OBVIOUS
  <2>2. Cardinality(K) \in Nat
    BY <2>1, RankType, Zenon
  <2>3. ASSUME NEW k \in Nat PROVE Rank(K, k) \in 0..Cardinality(K)
    BY RankType, Zenon
  <2>. QED
    BY <2>2, <2>3
<1>. DEFINE S == {k \in Nat : Rank(K, k) >= i}
<1>1. n \in S
  <2>1. n >= n
    OBVIOUS
  <2>2. Rank(K, n) = Cardinality(K)
    BY <2>1, RankType, Zenon
  <2>. QED
    BY <1>0, <2>2
<1>2. PICK k \in S : \A j \in S : k <= j
  <2>1. S \in SUBSET Nat
    OBVIOUS
  <2>. QED
    BY <1>1, <2>1, LeastNumber, Zenon
<1>3. k # 0
  <2>1. {j \in K : j <= 0} = {}
    <3>1. \A j \in K : ~(j <= 0)
      OBVIOUS
    <3>. QED
      BY <3>1, Zenon
  <2>2. Rank(K, 0) = 0
    BY <2>1, FS_EmptySet DEF Rank
  <2>. QED
    BY <2>2, <1>0
<1>4. k - 1 \in Nat /\ ~(Rank(K, k - 1) >= i)
  BY <1>2, <1>3
<1>5. Rank(K, k) = IF k \in K THEN Rank(K, k - 1) + 1 ELSE Rank(K, k - 1)
  <2>1. (k - 1) + 1 = k
    BY <1>4
  <2>2. Rank(K, (k - 1) + 1) = IF (k - 1) + 1 \in K THEN Rank(K, k - 1) + 1 ELSE Rank(K, k - 1)
    BY <1>4, RankStep, Zenon
  <2>. QED
    BY <2>1, <2>2
<1>. QED
  BY <1>0, <1>2, <1>4, <1>5
-----------------------------------------------------------------------------
(* Functions defined by recursion on numbers *)

\* f begins with a, and each further value up to m comes from the one before.
Computes(f, m, S, a, step) ==
  /\ f \in [0..m -> S]
  /\ f[0] = a
  /\ \A k \in 1..m : f[k] = step[k][f[k - 1]]

\* A recursion whose steps stay in a set defines a function into that set.
LEMMA RecursionExists ==
  ASSUME NEW n \in Nat, NEW S, NEW a \in S, NEW step \in [1..n -> [S -> S]]
  PROVE  \E f : Computes(f, n, S, a, step)
<1>. DEFINE B == {m \in 0..n : ~\E f : Computes(f, m, S, a, step)}
<1>1. SUFFICES ASSUME n \in B PROVE FALSE
  OBVIOUS
<1>2. B \in SUBSET Nat
  OBVIOUS
<1>3. PICK m \in B : \A j \in B : m <= j
  BY <1>1, <1>2, LeastNumber, Zenon
<1>4. m \in 0..n /\ ~\E f : Computes(f, m, S, a, step)
  BY <1>3
<1>5. m # 0
  <2>1. SUFFICES ASSUME m = 0 PROVE Computes([k \in 0..0 |-> a], 0, S, a, step)
    BY <1>4
  <2>. QED
    BY DEF Computes
<1>6. m - 1 \in 0..n /\ m - 1 \notin B
  BY <1>3, <1>4, <1>5
<1>7. PICK f : Computes(f, m - 1, S, a, step)
  BY <1>6
<1>. DEFINE g == [k \in 0..m |-> IF k = m THEN step[m][f[m - 1]] ELSE f[k]]
<1>8. f \in [0..(m - 1) -> S] /\ f[m - 1] \in S /\ m \in 1..n
  BY <1>4, <1>5, <1>7 DEF Computes
<1>9. step[m][f[m - 1]] \in S
  BY <1>8
<1>10. Computes(g, m, S, a, step)
  <2>1. g \in [0..m -> S]
    BY <1>8, <1>9
  <2>2. g[0] = a
    BY <1>5, <1>7, <1>8 DEF Computes
  <2>3. ASSUME NEW k \in 1..m PROVE g[k] = step[k][g[k - 1]]
    <3>1. k - 1 \in 0..m /\ k - 1 # m /\ g[k - 1] = f[k - 1]
      BY <1>8
    <3>2. CASE k = m
      BY <3>1, <3>2
    <3>3. CASE k # m
      <4>1. k \in 1..(m - 1) /\ k \in 0..m
        BY <3>3, <1>8
      <4>. QED
        BY <3>1, <3>3, <4>1, <1>7 DEF Computes
    <3>. QED
      BY <3>2, <3>3
  <2>. HIDE DEF g
  <2>. QED
    BY <2>1, <2>2, <2>3 DEF Computes
<1>. QED
  BY <1>4, <1>10

\* Values that begin in a set, and do not leave it from one to the next, are in it.
LEMMA RecursionStays ==
  ASSUME NEW n \in Nat, NEW S, NEW f, f[0] \in S,
         \A k \in 1..n : f[k - 1] \in S => f[k] \in S
  PROVE  f[n] \in S
<1>. DEFINE B == {m \in 0..n : f[m] \notin S}
<1>1. SUFFICES ASSUME n \in B PROVE FALSE
  OBVIOUS
<1>2. B \in SUBSET Nat
  OBVIOUS
<1>3. PICK m \in B : \A j \in B : m <= j
  BY <1>1, <1>2, LeastNumber, Zenon
<1>4. m \in 0..n /\ f[m] \notin S /\ m # 0
  BY <1>3
<1>5. m - 1 \in 0..n /\ m - 1 \notin B /\ m \in 1..n
  BY <1>3, <1>4
<1>. QED
  BY <1>4, <1>5
=============================================================================
