------------------------------ MODULE Induction ------------------------------
(***************************************************************************)
(* Induction told with sets, and what it takes to reason about a recursive *)
(* function: that one which satisfies its equation exists.                 *)
(***************************************************************************)
EXTENDS Integers, FiniteSets, WellFoundedInduction, FiniteSetTheorems, TLAPS

-----------------------------------------------------------------------------
(* Numbers *)

(* Numbers are well ordered.                                                *)
LEMMA LeastNat ==
    ASSUME NEW T, T \subseteq Nat, T # {}
    PROVE  \E n \in T : \A m \in T : n <= m
<1> DEFINE R == OpToRel(<, Nat)
<1>1. IsWellFoundedOn(R, Nat)
  BY NatLessThanWellFounded
<1>2. \A x, y \in Nat : x < y => <<x, y>> \in R
  BY DEF OpToRel
<1> HIDE DEF R
<1>3. PICK n \in T : \A m \in T : ~(<<m, n>> \in R)
  BY <1>1, WFMin
<1>4. ASSUME NEW m \in T
      PROVE  n <= m
  <2>1. m \in Nat /\ n \in Nat
    OBVIOUS
  <2>2. ~(m < n)
    BY <1>2, <1>3, <2>1
  <2>3. QED
    BY <2>1, <2>2
<1>5. QED
  BY <1>4

(* A set that has 0, and with every number the next, has all numbers.       *)
LEMMA NumbersByInduction ==
    ASSUME NEW S, 0 \in S, \A n \in Nat : n \in S => n + 1 \in S
    PROVE  Nat \subseteq S
<1> DEFINE T == Nat \ S
<1>1. SUFFICES ASSUME T # {}
               PROVE  FALSE
  OBVIOUS
<1>2. PICK n \in T : \A m \in T : n <= m
  BY <1>1, LeastNat
<1>3. n \in Nat /\ n # 0 /\ n \notin S
  OBVIOUS
<1>4. n - 1 \in Nat /\ n - 1 \notin T
  BY <1>2, <1>3
<1>5. (n - 1) + 1 = n
  BY <1>3
<1>6. QED
  BY <1>3, <1>4, <1>5

(* The same for the numbers up to a bound.                                  *)
LEMMA UpToByInduction ==
    ASSUME NEW n \in Nat, NEW S, 0 \in S,
           \A i \in 0..n : i \in S /\ i + 1 \in 0..n => i + 1 \in S
    PROVE  0..n \subseteq S
<1> DEFINE T == {i \in Nat : i \in 0..n => i \in S}
<1>1. 0 \in T
  OBVIOUS
<1>2. \A i \in Nat : i \in T => i + 1 \in T
  OBVIOUS
<1> HIDE DEF T
<1>3. Nat \subseteq T
  BY <1>1, <1>2, NumbersByInduction
<1>4. QED
  BY <1>3 DEF T

(* f comes from base in n steps of g.                                       *)
Unfolds(f, n, V, base, g) ==
    /\ f \in [0..n -> V]
    /\ f[0] = base
    /\ \A i \in 1..n : f[i] = g[<<i, f[i - 1]>>]

(* A function on the numbers up to n, told by its value at 0 and by how each *)
(* of the others comes from the one before it, exists.                      *)
LEMMA RecursionUpTo ==
    ASSUME NEW n \in Nat, NEW V, NEW base \in V, NEW g \in [(1..n) \X V -> V]
    PROVE  \E f : Unfolds(f, n, V, base, g)
<1> DEFINE S == {m \in Nat : m \in 0..n => \E f : Unfolds(f, m, V, base, g)}
<1>1. 0 \in S
  <2>1. Unfolds([i \in 0..0 |-> base], 0, V, base, g)
    BY DEF Unfolds
  <2>2. QED
    BY <2>1
<1>2. ASSUME NEW m \in Nat, m \in S, m + 1 \in 0..n
      PROVE  \E f : Unfolds(f, m + 1, V, base, g)
  <2>1. m \in 0..n
    BY <1>2
  <2>2. PICK f : Unfolds(f, m, V, base, g)
    BY <1>2, <2>1
  <2>0. /\ f \in [0..m -> V] /\ f[0] = base
        /\ \A i \in 1..m : f[i] = g[<<i, f[i - 1]>>]
    BY <2>2 DEF Unfolds
  <2> DEFINE h == [i \in 0..m + 1 |-> IF i = m + 1 THEN g[<<m + 1, f[m]>>] ELSE f[i]]
  <2>3. m + 1 \in 1..n /\ f[m] \in V
    BY <1>2, <2>0
  <2>4. h \in [0..m + 1 -> V]
    BY <1>2, <2>0, <2>3
  <2>5. h[0] = base
    BY <1>2, <2>0
  <2>6. ASSUME NEW i \in 1..m + 1
        PROVE  h[i] = g[<<i, h[i - 1]>>]
    <3>1. CASE i = m + 1
      <4>1. i \in 0..m + 1 /\ i - 1 = m /\ m \in 0..m + 1 /\ m # m + 1
        BY <3>1
      <4>2. h[i] = g[<<i, f[m]>>] /\ h[i - 1] = f[m]
        BY <3>1, <4>1
      <4>3. QED
        BY <4>2
    <3>2. CASE i \in 1..m
      <4>1. /\ i \in 0..m + 1 /\ i # m + 1
            /\ i - 1 \in 0..m + 1 /\ i - 1 # m + 1
        BY <1>2, <3>2
      <4>2. h[i] = f[i] /\ h[i - 1] = f[i - 1]
        BY <4>1
      <4>3. QED
        BY <2>0, <3>2, <4>2
    <3>3. i = m + 1 \/ i \in 1..m
      <4> HIDE DEF h
      <4>1. QED
        OBVIOUS
    <3>4. QED
      BY <3>1, <3>2, <3>3
  <2> HIDE DEF h
  <2>7. Unfolds(h, m + 1, V, base, g)
    BY <2>4, <2>5, <2>6 DEF Unfolds
  <2>8. QED
    BY <2>7
<1>3. \A m \in Nat : m \in S => m + 1 \in S
  BY <1>2
<1> HIDE DEF S
<1>4. n \in S
  BY <1>1, <1>3, NumbersByInduction
<1>5. QED
  BY <1>4 DEF S

(* ... and all its values are of the kind its equation makes them.          *)
LEMMA RecursionTyped ==
    ASSUME NEW n \in Nat, NEW V, NEW f, f[0] \in V,
           \A i \in 1..n : f[i - 1] \in V => f[i] \in V
    PROVE  \A i \in 0..n : f[i] \in V
<1> DEFINE S == {i \in 0..n : f[i] \in V}
<1>1. 0 \in S
  OBVIOUS
<1>2. ASSUME NEW i \in 0..n, i \in S, i + 1 \in 0..n
      PROVE  i + 1 \in S
  <2>1. i + 1 \in 1..n /\ (i + 1) - 1 = i
    BY <1>2
  <2>2. f[i] \in V
    BY <1>2
  <2>3. QED
    BY <2>1, <2>2
<1> HIDE DEF S
<1>3. 0..n \subseteq S
  BY <1>1, <1>2, UpToByInduction
<1>4. QED
  BY <1>3 DEF S

-----------------------------------------------------------------------------
(* Finite sets *)

(* Among subsets of a finite set one has none of the others below it.       *)
LEMMA SmallestSubset ==
    ASSUME NEW D, IsFiniteSet(D), NEW T, T \subseteq SUBSET D, T # {}
    PROVE  \E s \in T : \A r \in T : r \subseteq s => r = s
<1> DEFINE R == StrictSubsetOrdering(D)
<1>1. IsWellFoundedOn(R, SUBSET D)
  BY FS_StrictSubsetOrderingWellFounded, FS_FiniteSubsetsOfFinite
<1>2. \A r, s \in SUBSET D : r \subseteq s /\ r # s => <<r, s>> \in R
  BY DEF StrictSubsetOrdering
<1> HIDE DEF R
<1>3. PICK s \in T : \A r \in T : ~(<<r, s>> \in R)
  BY <1>1, WFMin
<1>4. QED
  BY <1>2, <1>3

(* A set that has every subset whose own proper subsets it has, has all.    *)
LEMMA SubsetsByInduction ==
    ASSUME NEW D, IsFiniteSet(D), NEW S,
           \A s \in SUBSET D :
              (\A r \in SUBSET s : r # s => r \in S) => s \in S
    PROVE  SUBSET D \subseteq S
<1> DEFINE T == (SUBSET D) \ S
<1>1. SUFFICES ASSUME T # {}
               PROVE  FALSE
  OBVIOUS
<1>2. T \subseteq SUBSET D
  OBVIOUS
<1> HIDE DEF T
<1>3. PICK s \in T : \A r \in T : r \subseteq s => r = s
  BY <1>1, <1>2, SmallestSubset
<1>4. s \in SUBSET D /\ s \notin S
  BY <1>3 DEF T
<1>5. ASSUME NEW r \in SUBSET s, r # s
      PROVE  r \in S
  BY <1>3, <1>4, <1>5 DEF T
<1>6. QED
  BY <1>4, <1>5

(* f folds the subsets of D by g, which takes out one element after another. *)
Folds(f, D, V, base, g, pick) ==
    /\ f \in [SUBSET D -> V]
    /\ \A s \in SUBSET D :
          f[s] = IF s = {} THEN base ELSE g[<<pick[s], f[s \ {pick[s]}]>>]

(* Such a function exists.                                                  *)
LEMMA FoldExists ==
    ASSUME NEW D, IsFiniteSet(D), NEW V, NEW base \in V, NEW g \in [D \X V -> V],
           NEW pick, \A s \in SUBSET D : s # {} => pick[s] \in s
    PROVE  \E f : Folds(f, D, V, base, g, pick)
<1> DEFINE Upto(n) == {s \in SUBSET D : Cardinality(s) <= n}
           Start(f, n) ==
              /\ f \in [Upto(n) -> V]
              /\ \A s \in Upto(n) :
                    f[s] = IF s = {} THEN base ELSE g[<<pick[s], f[s \ {pick[s]}]>>]
           N == {n \in Nat : \E f : Start(f, n)}
<1>1. \A s \in SUBSET D : IsFiniteSet(s) /\ Cardinality(s) \in Nat
  BY FS_Subset, FS_CardinalityType
<1>2. 0 \in N
  <2>1. \A s \in Upto(0) : s = {}
    BY <1>1, FS_EmptySet
  <2>2. Start([s \in Upto(0) |-> base], 0)
    BY <2>1
  <2>3. QED
    BY <2>2
<1>3. ASSUME NEW n \in Nat, n \in N
      PROVE  \E f : Start(f, n + 1)
  <2>1. PICK f : Start(f, n)
    BY <1>3
  <2>2. ASSUME NEW s \in Upto(n + 1), s # {}
        PROVE  s \ {pick[s]} \in Upto(n) /\ pick[s] \in D
    <3>1. pick[s] \in s /\ IsFiniteSet(s) /\ Cardinality(s) \in Nat
      BY <1>1, <2>2
    <3>2. Cardinality(s \ {pick[s]}) = Cardinality(s) - 1
      BY <3>1, FS_RemoveElement
    <3>3. QED
      BY <3>1, <3>2
  <2>3. \A s \in Upto(n) : s \in Upto(n + 1)
    BY <1>1
  <2> DEFINE h == [s \in Upto(n + 1) |->
                     IF s \in Upto(n) THEN f[s] ELSE g[<<pick[s], f[s \ {pick[s]}]>>]]
  <2>4. ASSUME NEW s \in Upto(n + 1)
        PROVE  /\ h[s] \in V
               /\ h[s] = IF s = {} THEN base ELSE g[<<pick[s], f[s \ {pick[s]}]>>]
    <3> HIDE DEF Upto
    <3>1. CASE s \in Upto(n)
      BY <2>1, <3>1
    <3>2. CASE s \notin Upto(n)
      <4>1. s # {}
        <5>1. Cardinality({}) <= n /\ {} \in SUBSET D
          BY FS_EmptySet
        <5>2. QED
          BY <3>2, <5>1 DEF Upto
      <4>2. g[<<pick[s], f[s \ {pick[s]}]>>] \in V
        BY <2>1, <2>2, <4>1
      <4>3. QED
        BY <3>2, <4>1, <4>2
    <3>3. QED
      BY <3>1, <3>2
  <2>5. ASSUME NEW s \in Upto(n + 1), s # {}
        PROVE  h[s \ {pick[s]}] = f[s \ {pick[s]}]
    <3> HIDE DEF Upto
    <3>1. QED
      BY <2>2, <2>3, <2>5
  <2>6. DOMAIN h = Upto(n + 1) /\ h \in [Upto(n + 1) -> V]
    <3> HIDE DEF Upto
    <3>1. QED
      BY <2>4
  <2> HIDE DEF h, Upto
  <2>7. Start(h, n + 1)
    BY <2>4, <2>5, <2>6
  <2>8. QED
    BY <2>7
<1> HIDE DEF Start
<1>4. \A n \in Nat : n \in N => n + 1 \in N
  BY <1>3
<1>5. PICK n \in Nat : n = Cardinality(D)
  BY FS_CardinalityType
<1>6. n \in N
  <2> HIDE DEF N
  <2>1. QED
    BY <1>2, <1>4, NumbersByInduction
<1>7. Upto(n) = SUBSET D
  BY <1>5, FS_Subset
<1>8. QED
  BY <1>6, <1>7 DEF Start, Folds
=============================================================================
