----------------------------- MODULE DataLemmas -----------------------------
(***************************************************************************)
(* Facts about data that the proofs of several components need: induction  *)
(* over the naturals and over finite sets, stated with a set in place of a *)
(* predicate, and the sequences that list a set.                           *)
(***************************************************************************)
EXTENDS Integers, SequencesExt, FiniteSetTheorems, FunctionTheorems, WellFoundedInduction, TLAPS

\* A set of naturals has a least element.
LEMMA Least ==
  ASSUME NEW T, T \subseteq Nat, T # {}
  PROVE  \E n \in T : \A m \in T : n <= m
  <1>. DEFINE R == OpToRel(<, Nat)
  <1>1. IsWellFoundedOn(R, Nat)
    BY NatLessThanWellFounded
  <1>2. \A m, n \in Nat : m < n => <<m, n>> \in R
    <2>1. R = {ss \in Nat \X Nat : ss[1] < ss[2]}
      BY DEF OpToRel
    <2>. HIDE DEF R
    <2>2. QED
      BY <2>1
  <1>. HIDE DEF R
  <1>3. PICK n \in T : \A m \in T : ~(<<m, n>> \in R)
    BY <1>1, WFMin
  <1>4. \A m \in T : ~(m < n)
    <2>. TAKE m \in T
    <2>1. m \in Nat /\ n \in Nat
      OBVIOUS
    <2>2. QED
      BY <1>2, <1>3, <2>1
  <1>5. QED
    BY <1>4

\* A set that holds 0 and with every natural its successor holds them all.
LEMMA SetOfNaturals ==
  ASSUME NEW T, 0 \in T, \A n \in Nat : n \in T => n + 1 \in T
  PROVE  Nat \subseteq T
  <1>. SUFFICES ASSUME Nat \ T # {} PROVE FALSE
    OBVIOUS
  <1>1. PICK n \in Nat \ T : \A m \in Nat \ T : n <= m
    BY Least
  <1>2. n # 0 /\ n - 1 \in Nat /\ n - 1 \in T
    BY <1>1
  <1>3. QED
    BY <1>1, <1>2

\* A set of subsets of a finite set that holds each subset whose strict
\* subsets it holds, holds them all.
LEMMA SetOfSubsets ==
  ASSUME NEW S, IsFiniteSet(S), NEW T,
         \A U \in SUBSET S : (\A V \in SUBSET U : V # U => V \in T) => U \in T
  PROVE  SUBSET S \subseteq T
  <1>. SUFFICES ASSUME (SUBSET S) \ T # {} PROVE FALSE
    OBVIOUS
  <1>. DEFINE R == StrictSubsetOrdering(S)
              P == SUBSET S
              bad == P \ T
  <1>1. IsWellFoundedOn(R, P)
    <2>1. IsWellFoundedOn(R, FiniteSubsetsOf(S))
      BY FS_StrictSubsetOrderingWellFounded
    <2>2. FiniteSubsetsOf(S) = P
      BY FS_FiniteSubsetsOfFinite
    <2>3. QED
      BY <2>1, <2>2
  <1>2. \A V, U \in P : V \subseteq U /\ V # U => <<V, U>> \in R
    BY DEF StrictSubsetOrdering
  <1>3. bad \subseteq P /\ bad # {}
    OBVIOUS
  <1>4. \E U \in bad : \A V \in bad : ~(<<V, U>> \in R)
    <2>. HIDE DEF R, P, bad
    <2>1. QED
      BY <1>1, <1>3, WFMin
  <1>5. PICK U \in bad : \A V \in bad : ~(<<V, U>> \in R)
    BY <1>4
  <1>6. ASSUME NEW V \in SUBSET U, V # U PROVE V \in T
    <2>1. U \in P /\ V \in P /\ V \subseteq U
      OBVIOUS
    <2>2. <<V, U>> \in R
      <3>. HIDE DEF R, P
      <3>1. QED
        BY <1>2, <1>6, <2>1
    <2>3. V \notin bad
      BY <1>5, <2>2
    <2>4. QED
      BY <2>1, <2>3
  <1>7. QED
    BY <1>5, <1>6

\* A listing of a finite set has each of its elements once.
LEMMA ListingOfSet ==
  ASSUME NEW S, IsFiniteSet(S), NEW s \in SetToSeqs(S)
  PROVE  /\ s \in Seq(S) /\ ToSet(s) = S
         /\ Len(s) = Cardinality(S) /\ DOMAIN s = 1 .. Len(s)
         /\ \A i, j \in DOMAIN s : i # j => s[i] # s[j]
  <1>. DEFINE n == Cardinality(S)
  <1>1. n \in Nat
    BY FS_CardinalityType
  <1>2. s \in [1 .. n -> S] /\ \A i, j \in 1 .. n : i # j => s[i] # s[j]
    BY DEF SetToSeqs
  <1>. HIDE DEF n
  <1>3. s \in Seq(S) /\ Len(s) = n /\ DOMAIN s = 1 .. n
    BY <1>1, <1>2
  <1>4. s \in Injection(1 .. n, S)
    BY <1>2, Fun_IsInj
  <1>5. IsFiniteSet(1 .. n) /\ Cardinality(1 .. n) = n
    BY <1>1, FS_Interval
  <1>6. s \in Surjection(1 .. n, S)
    BY <1>4, <1>5, FS_Injection DEF n
  <1>7. \A x \in S : \E i \in 1 .. n : s[i] = x
    BY <1>6 DEF Surjection
  <1>8. ToSet(s) = S
    BY <1>2, <1>3, <1>7 DEF ToSet
  <1>9. QED
    BY <1>2, <1>3, <1>8 DEF n

\* A set of numbers up to k has a greatest one.
LEMMA Greatest ==
  ASSUME NEW k \in Nat, NEW s \in SUBSET (1 .. k), s # {}
  PROVE  Max(s) \in s /\ \A i \in s : Max(s) >= i
  <1>. DEFINE T == {k - i : i \in s}
  <1>1. T \subseteq Nat /\ T # {}
    <2>1. \A i \in s : k - i \in Nat
      OBVIOUS
    <2>2. QED
      BY <2>1
  <1>2. PICK m \in T : \A l \in T : m <= l
    <2>. HIDE DEF T
    <2>. QED
      BY <1>1, Least
  <1>3. PICK i \in s : m = k - i
    BY <1>2
  <1>4. \A j \in s : i >= j
    <2>. TAKE j \in s
    <2>1. k - i <= k - j
      BY <1>2, <1>3
    <2>2. QED
      BY <2>1
  <1>5. QED
    BY <1>3, <1>4 DEF Max

\* What f makes of the first indices is a fold over a sequence of n elements:
\* one step is taken for the last index, from what f makes of the others.
Folding(f, b, n, step) ==
  \A s \in SUBSET (1 .. n) :
    f[s] = IF s = {} THEN b ELSE step[<<f[s \ {Max(s)}], Max(s)>>]

\* Such a function exists.
LEMMA FoldExists ==
  ASSUME NEW V, NEW b \in V, NEW n \in Nat, NEW step \in [V \X (1 .. n) -> V]
  PROVE  \E f \in [SUBSET (1 .. n) -> V] : Folding(f, b, n, step)
  <1>. DEFINE folded(f, s) == IF s = {} THEN b ELSE step[<<f[s \ {Max(s)}], Max(s)>>]
              known(k) == \E f \in [SUBSET (1 .. k) -> V] :
                            \A s \in SUBSET (1 .. k) : f[s] = folded(f, s)
              T == {k \in Nat : k <= n => known(k)}
  <1>1. 0 \in T
    <2>. DEFINE f == [s \in SUBSET (1 .. 0) |-> b]
    <2>1. f \in [SUBSET (1 .. 0) -> V]
      OBVIOUS
    <2>2. \A s \in SUBSET (1 .. 0) : s = {} /\ f[s] = b
      OBVIOUS
    <2>. HIDE DEF f
    <2>3. known(0)
      BY <2>1, <2>2
    <2>. HIDE DEF known
    <2>4. QED
      BY <2>3
  <1>2. ASSUME NEW k \in Nat, known(k), k + 1 <= n PROVE known(k + 1)
    <2>1. PICK f \in [SUBSET (1 .. k) -> V] : \A s \in SUBSET (1 .. k) : f[s] = folded(f, s)
      BY <1>2
    <2>. DEFINE g == [s \in SUBSET (1 .. k + 1) |->
                        IF k + 1 \in s THEN step[<<f[s \ {k + 1}], k + 1>>] ELSE f[s]]
    <2>2. \A s \in SUBSET (1 .. k + 1) : k + 1 \notin s => s \in SUBSET (1 .. k)
      OBVIOUS
    <2>3. \A s \in SUBSET (1 .. k + 1) : s \ {k + 1} \in SUBSET (1 .. k)
      OBVIOUS
    <2>4. g \in [SUBSET (1 .. k + 1) -> V]
      <3>1. ASSUME NEW s \in SUBSET (1 .. k + 1), k + 1 \in s
            PROVE  step[<<f[s \ {k + 1}], k + 1>>] \in V
        <4>1. f[s \ {k + 1}] \in V /\ k + 1 \in 1 .. n
          BY <1>2, <2>3
        <4>2. QED
          BY <4>1
      <3>2. QED
        BY <2>2, <3>1
    <2>5. ASSUME NEW s \in SUBSET (1 .. k + 1) PROVE g[s] = folded(g, s)
      <3>1. CASE s = {}
        <4>1. s \in SUBSET (1 .. k) /\ g[s] = f[s]
          BY <3>1
        <4>2. QED
          BY <2>1, <3>1, <4>1
      <3>2. CASE s # {} /\ k + 1 \in s
        <4>1. Max(s) \in s /\ \A i \in s : Max(s) >= i
          <5>1. k + 1 \in Nat
            OBVIOUS
          <5>. HIDE DEF g, T
          <5>2. QED
            BY <3>2, <5>1, Greatest
        <4>2. Max(s) = k + 1
          <5>1. Max(s) \in 1 .. k + 1 /\ Max(s) >= k + 1
            BY <3>2, <4>1
          <5>2. QED
            BY <5>1
        <4>3. g[s \ {k + 1}] = f[s \ {k + 1}]
          OBVIOUS
        <4>4. QED
          BY <3>2, <4>2, <4>3
      <3>3. CASE s # {} /\ k + 1 \notin s
        <4>1. s \in SUBSET (1 .. k) /\ Max(s) \in s
          BY <2>2, <3>3, Greatest
        <4>2. g[s] = f[s] /\ g[s \ {Max(s)}] = f[s \ {Max(s)}]
          BY <3>3
        <4>3. QED
          BY <2>1, <4>1, <4>2
      <3>4. QED
        BY <3>1, <3>2, <3>3
    <2>. HIDE DEF g
    <2>6. QED
      BY <2>4, <2>5
  <1>3. Nat \subseteq T
    <2>. HIDE DEF known
    <2>1. \A k \in Nat : k \in T => k + 1 \in T
      BY <1>2
    <2>. HIDE DEF T
    <2>2. QED
      BY <1>1, <2>1, SetOfNaturals
  <1>4. known(n)
    <2>. HIDE DEF known
    <2>. QED
      BY <1>3
  <1>5. QED
    BY <1>4 DEF Folding

\* Along the prefixes of the indices the fold goes up by one step.
LEMMA LastIndex ==
  ASSUME NEW n \in Nat, NEW i \in 1 .. n
  PROVE  /\ (1 .. i) \in SUBSET (1 .. n)
         /\ (1 .. i) # {}
         /\ Max(1 .. i) = i
         /\ (1 .. i) \ {i} = 1 .. (i - 1)
  <1>. DEFINE s == 1 .. i
  <1>1. s \in SUBSET (1 .. n)
    OBVIOUS
  <1>2. i \in s
    OBVIOUS
  <1>3. Max(s) \in s /\ \A j \in s : Max(s) >= j
    <2>. HIDE DEF s
    <2>. QED
      BY <1>1, <1>2, Greatest
  <1>4. Max(s) = i
    BY <1>2, <1>3
  <1>5. s \ {i} = 1 .. (i - 1)
    OBVIOUS
  <1>6. QED
    BY <1>1, <1>2, <1>4, <1>5

\* What a function makes of a finite set is finite.
LEMMA ImageFinite ==
  ASSUME NEW S, IsFiniteSet(S), NEW f, f \in [S -> {f[x] : x \in S}]
  PROVE  IsFiniteSet({f[x] : x \in S})
  <1>. DEFINE T == {f[x] : x \in S}
  <1>1. f \in Surjection(S, T)
    BY DEF Surjection
  <1>2. QED
    BY <1>1, FS_Surjection
=============================================================================
