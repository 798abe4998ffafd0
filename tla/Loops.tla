------------------------------- MODULE Loops --------------------------------
(***************************************************************************)
(* What the proofs use in the place of induction: the least number, loops  *)
(* (functions that are computed step by step), and the sum over a finite   *)
(* set as MapThenSumSet defines it, for a summand given as a function.     *)
(***************************************************************************)
EXTENDS Integers, FiniteSets, FiniteSetsExt, FiniteSetTheorems, WellFoundedInduction, TLAPS

(* Every nonempty set of numbers has a least one: a statement about all of  *)
(* them is proved from the least that it would fail for.                    *)
LEMMA LeastNumber ==
  ASSUME NEW T \in SUBSET Nat, T # {}
  PROVE  \E n \in T : \A m \in T : n <= m
<1> DEFINE R == OpToRel(<, Nat)
<1>1. IsWellFoundedOn(R, Nat)
  BY NatLessThanWellFounded
<1>2. \A x, y \in Nat : x < y => <<x, y>> \in R
  BY DEF OpToRel
<1> HIDE DEF R
<1>3. PICK n \in T : \A m \in T : ~(<<m, n>> \in R)
  BY <1>1, WFMin
<1>4. n \in Nat /\ \A m \in T : m \in Nat /\ ~(m < n)
  BY <1>2, <1>3
<1>5. \A m \in T : n <= m
  BY <1>4
<1> QED
  BY <1>5

(* Induction up to a bound, from the least number that is not reached.     *)
LEMMA UpTo ==
  ASSUME NEW n \in Nat, NEW T, 0 \in T, \A i \in 1..n : i - 1 \in T => i \in T
  PROVE  \A i \in 0..n : i \in T
  <1> DEFINE Missed == {i \in 0..n : i \notin T}
             R == OpToRel(<, Nat)
  <1> SUFFICES ASSUME Missed # {} PROVE FALSE
    OBVIOUS
  <1>1. IsWellFoundedOn(R, Nat)
    BY NatLessThanWellFounded
  <1>2. \A x, y \in Nat : x < y => <<x, y>> \in R
    BY DEF OpToRel
  <1>3. Missed \subseteq Nat
    OBVIOUS
  <1> HIDE DEF R, Missed
  <1>4. PICK m \in Missed : \A k \in Missed : ~(<<k, m>> \in R)
    BY <1>1, <1>3, WFMin
  <1>5. m \in 1..n /\ m - 1 \in 0..n /\ m \notin T
    BY <1>4 DEF Missed
  <1>6. m - 1 \in Nat /\ m - 1 < m /\ m \in Nat
    BY <1>5
  <1>7. m - 1 \notin Missed
    BY <1>2, <1>4, <1>6
  <1> QED
    BY <1>5, <1>7 DEF Missed

(* The values a loop of n turns goes through.                              *)
IsLoop(f, S, base, n, step) ==
  /\ f \in [0..n -> S]
  /\ f[0] = base
  /\ \A i \in 1..n : f[i] = step[<<f[i - 1], i>>]

LEMMA LoopExists ==
  ASSUME NEW S, NEW base \in S, NEW n \in Nat, NEW step \in [S \X (1..n) -> S]
  PROVE  \E f : IsLoop(f, S, base, n, step)
  <1> DEFINE Loop(f, m) == f[0] = base /\ \A i \in 1..m : f[i] = step[<<f[i - 1], i>>]
             Made == {m \in 0..n : \E f \in [0..m -> S] : Loop(f, m)}
  <1>1. 0 \in Made
    <2> DEFINE f == [i \in 0..0 |-> base]
    <2>1. f \in [0..0 -> S] /\ f[0] = base /\ 1..0 = {} /\ 0 \in 0..n
      OBVIOUS
    <2> QED
      BY <2>1
  <1>2. ASSUME NEW m \in 1..n, m - 1 \in Made PROVE m \in Made
    <2>1. PICK g \in [0..(m - 1) -> S] : Loop(g, m - 1)
      BY <1>2
    <2> DEFINE f == [i \in 0..m |-> IF i = m THEN step[<<g[m - 1], m>>] ELSE g[i]]
    <2>2. m - 1 \in 0..(m - 1) /\ m \in Nat /\ m \in 0..n /\ \A i \in 0..m : i = m \/ i \in 0..(m - 1)
      OBVIOUS
    <2>3. g[m - 1] \in S /\ step[<<g[m - 1], m>>] \in S
      BY <2>2
    <2>4. f \in [0..m -> S]
      BY <2>2, <2>3
    <2>5. \A i \in 0..(m - 1) : f[i] = g[i]
      BY <2>2
    <2>6. f[0] = base
      BY <2>1, <2>2, <2>5
    <2>7. ASSUME NEW i \in 1..m PROVE f[i] = step[<<f[i - 1], i>>]
      <3>1. CASE i = m
        BY <2>2, <2>5, <3>1
      <3>2. CASE i # m
        <4>1. i \in 1..(m - 1) /\ i \in 0..(m - 1) /\ i - 1 \in 0..(m - 1)
          BY <2>2, <3>2
        <4> QED
          BY <2>1, <2>5, <4>1
      <3> QED
        BY <3>1, <3>2
    <2> HIDE DEF f
    <2> QED
      BY <2>2, <2>4, <2>6, <2>7
  <1> HIDE DEF Made
  <1>3. \A m \in 0..n : m \in Made
    BY <1>1, <1>2, UpTo
  <1>4. n \in Made
    BY <1>3
  <1> QED
    BY <1>4 DEF Made, IsLoop

-----------------------------------------------------------------------------
(* Induction over the subsets of a finite set, from the smaller ones.      *)
LEMMA OverSubsets ==
  ASSUME NEW S, IsFiniteSet(S), NEW T, {} \in T,
         \A s \in SUBSET S : s # {} /\ (\A x \in s : s \ {x} \in T) => s \in T
  PROVE  \A s \in SUBSET S : s \in T
  <1> DEFINE Reached == {n \in Nat : \A s \in SUBSET S : Cardinality(s) = n => s \in T}
  <1>1. \A s \in SUBSET S : IsFiniteSet(s) /\ Cardinality(s) \in Nat /\ Cardinality(s) <= Cardinality(S)
    BY FS_Subset, FS_CardinalityType
  <1>2. Cardinality(S) \in Nat
    BY FS_CardinalityType
  <1>3. 0 \in Reached
    BY <1>1, FS_EmptySet
  <1>4. ASSUME NEW n \in 1 .. Cardinality(S), n - 1 \in Reached PROVE n \in Reached
    <2>1. ASSUME NEW s \in SUBSET S, Cardinality(s) = n PROVE s \in T
      <3>1. s # {}
        BY <2>1, FS_EmptySet
      <3>2. ASSUME NEW x \in s PROVE s \ {x} \in T
        <4>1. Cardinality(s \ {x}) = n - 1
          BY <1>1, <2>1, FS_RemoveElement
        <4> QED
          BY <1>4, <4>1
      <3> QED
        BY <3>1, <3>2
    <2> QED
      BY <2>1
  <1> HIDE DEF Reached
  <1>5. \A n \in 0 .. Cardinality(S) : n \in Reached
    BY <1>2, <1>3, <1>4, UpTo
  <1>6. ASSUME NEW s \in SUBSET S PROVE s \in T
    <2>1. Cardinality(s) \in 0 .. Cardinality(S)
      BY <1>1, <1>2
    <2> QED
      BY <1>5, <2>1 DEF Reached
  <1> QED
    BY <1>6

-----------------------------------------------------------------------------
(* MapThenSumSet takes one element after the other, by CHOOSE.             *)
Pick(s) == CHOOSE x \in s : TRUE

(* The sums of the summands g over the subsets of S.                       *)
IsSum(sum, g, S) ==
  sum = [s \in SUBSET S |-> IF s = {} THEN 0 ELSE g[Pick(s)] + sum[s \ {Pick(s)}]]

LEMMA PickIsIn ==
  ASSUME NEW s, s # {} PROVE Pick(s) \in s
  BY DEF Pick

LEMMA SumExists ==
  ASSUME NEW S, IsFiniteSet(S), NEW g \in [S -> Nat]
  PROVE  \E sum : IsSum(sum, g, S)
  <1> DEFINE Small(n) == {s \in SUBSET S : Cardinality(s) <= n}
             Sums(f, n) == \A s \in Small(n) :
                             f[s] = IF s = {} THEN 0 ELSE g[Pick(s)] + f[s \ {Pick(s)}]
             Made == {n \in Nat : \E f \in [Small(n) -> Nat] : Sums(f, n)}
  <1>1. \A s \in SUBSET S : IsFiniteSet(s) /\ Cardinality(s) \in Nat /\ Cardinality(s) <= Cardinality(S)
    BY FS_Subset, FS_CardinalityType
  <1>2. Cardinality(S) \in Nat
    BY FS_CardinalityType
  <1>3. \A s \in SUBSET S : s # {} =>
          /\ Pick(s) \in s /\ Pick(s) \in S /\ s \ {Pick(s)} \in SUBSET S
          /\ Cardinality(s \ {Pick(s)}) = Cardinality(s) - 1
    BY <1>1, PickIsIn, FS_RemoveElement
  <1>4. \A s \in SUBSET S : Cardinality(s) = 0 <=> s = {}
    BY <1>1, FS_EmptySet
  <1>5. 0 \in Made
    <2> DEFINE f == [s \in Small(0) |-> 0]
    <2>1. \A s \in Small(0) : s = {}
      BY <1>1, <1>4
    <2>2. f \in [Small(0) -> Nat] /\ Sums(f, 0)
      BY <2>1
    <2> QED
      BY <2>2
  <1>6. ASSUME NEW n \in 1 .. Cardinality(S), n - 1 \in Made PROVE n \in Made
    <2>1. PICK h \in [Small(n - 1) -> Nat] : Sums(h, n - 1)
      BY <1>6
    <2> DEFINE f == [s \in Small(n) |-> IF s = {} THEN 0 ELSE g[Pick(s)] + h[s \ {Pick(s)}]]
    <2>2. \A s \in Small(n) : s # {} => s \ {Pick(s)} \in Small(n - 1)
      BY <1>1, <1>3
    <2>3. \A s \in Small(n - 1) : s \in Small(n)
      BY <1>1
    <2>4. f \in [Small(n) -> Nat]
      <3>1. \A s \in Small(n) : s # {} => g[Pick(s)] \in Nat /\ h[s \ {Pick(s)}] \in Nat
        BY <1>3, <2>2
      <3>2. \A s \in Small(n) : (IF s = {} THEN 0 ELSE g[Pick(s)] + h[s \ {Pick(s)}]) \in Nat
        BY <3>1
      <3> HIDE DEF Small
      <3> QED
        BY <3>2
    <2>5. \A s \in Small(n - 1) : f[s] = h[s]
      <3> HIDE DEF Small
      <3> QED
        BY <2>1, <2>3
    <2>6. Sums(f, n)
      <3> HIDE DEF Small
      <3> QED
        BY <2>2, <2>5
    <2> HIDE DEF f, Small, Sums
    <2> QED
      BY <2>4, <2>6
  <1>7. Cardinality(S) \in Made
    <2> HIDE DEF Made
    <2>1. \A n \in 0 .. Cardinality(S) : n \in Made
      BY <1>2, <1>5, <1>6, UpTo
    <2> QED
      BY <1>2, <2>1
  <1>8. PICK f \in [Small(Cardinality(S)) -> Nat] : Sums(f, Cardinality(S))
    BY <1>7
  <1>9. Small(Cardinality(S)) = SUBSET S
    BY <1>1
  <1>10. f = [s \in SUBSET S |-> IF s = {} THEN 0 ELSE g[Pick(s)] + f[s \ {Pick(s)}]]
    <2> HIDE DEF Small
    <2>1. f = [s \in SUBSET S |-> f[s]]
      BY <1>9
    <2> QED
      BY <1>8, <1>9, <2>1
  <1> QED
    BY <1>10 DEF IsSum

(* Each sum is a number, from which any element may be taken out.          *)
LEMMA SumTakesOut ==
  ASSUME NEW S, IsFiniteSet(S), NEW g \in [S -> Nat], NEW sum, IsSum(sum, g, S)
  PROVE  /\ sum[{}] = 0
         /\ \A s \in SUBSET S : sum[s] \in Nat
         /\ \A s \in SUBSET S : \A x \in s : sum[s] = g[x] + sum[s \ {x}]
  <1> DEFINE Numbers == {s \in SUBSET S : sum[s] \in Nat}
             Good == {s \in SUBSET S : \A x \in s : sum[s] = g[x] + sum[s \ {x}]}
  <1>1. \A s \in SUBSET S : sum[s] = IF s = {} THEN 0 ELSE g[Pick(s)] + sum[s \ {Pick(s)}]
    BY DEF IsSum
  <1>2. sum[{}] = 0
    BY <1>1
  <1>3. ASSUME NEW s \in SUBSET S, s # {}
        PROVE  /\ Pick(s) \in s /\ g[Pick(s)] \in Nat
               /\ sum[s] = g[Pick(s)] + sum[s \ {Pick(s)}]
    <2>1. Pick(s) \in s
      BY <1>3, PickIsIn
    <2> QED
      BY <1>1, <1>3, <2>1
  <1>4. \A s \in SUBSET S : s \in Numbers
    <2>1. {} \in Numbers
      BY <1>2
    <2>2. ASSUME NEW s \in SUBSET S, s # {}, \A x \in s : s \ {x} \in Numbers PROVE s \in Numbers
      <3>1. sum[s \ {Pick(s)}] \in Nat
        BY <1>3, <2>2
      <3> QED
        BY <1>3, <2>2, <3>1
    <2> HIDE DEF Numbers
    <2> QED
      BY <2>1, <2>2, OverSubsets
  <1>5. \A s \in SUBSET S : sum[s] \in Nat
    BY <1>4
  <1>6. \A s \in SUBSET S : s \in Good
    <2>1. {} \in Good
      OBVIOUS
    <2>2. ASSUME NEW s \in SUBSET S, s # {}, \A x \in s : s \ {x} \in Good PROVE s \in Good
      <3> DEFINE c == Pick(s)
      <3>1. c \in s /\ g[c] \in Nat /\ sum[s] = g[c] + sum[s \ {c}]
        BY <1>3, <2>2
      <3> HIDE DEF c
      <3>2. ASSUME NEW x \in s PROVE sum[s] = g[x] + sum[s \ {x}]
        <4>1. CASE x = c
          BY <3>1, <4>1
        <4>2. CASE x # c
          <5>1. x \in s \ {c} /\ c \in s \ {x} /\ (s \ {c}) \ {x} = (s \ {x}) \ {c}
            BY <3>1, <4>2
          <5>2. sum[s \ {c}] = g[x] + sum[(s \ {c}) \ {x}] /\ sum[s \ {x}] = g[c] + sum[(s \ {x}) \ {c}]
            BY <2>2, <3>1, <5>1
          <5>3. g[x] \in Nat /\ sum[(s \ {c}) \ {x}] \in Nat
            BY <1>5
          <5> QED
            BY <3>1, <5>1, <5>2, <5>3
        <4> QED
          BY <4>1, <4>2
      <3> QED
        BY <3>2
    <2> HIDE DEF Good
    <2> QED
      BY <2>1, <2>2, OverSubsets
  <1> QED
    BY <1>2, <1>5, <1>6

(* A sum over smaller summands is no larger.                               *)
LEMMA SumMonotone ==
  ASSUME NEW S, IsFiniteSet(S), NEW f \in [S -> Nat], NEW g \in [S -> Nat],
         \A x \in S : f[x] <= g[x],
         NEW low, IsSum(low, f, S), NEW high, IsSum(high, g, S)
  PROVE  \A s \in SUBSET S : low[s] <= high[s]
  <1> DEFINE Less == {s \in SUBSET S : low[s] <= high[s]}
  <1>1. /\ low[{}] = 0
        /\ \A s \in SUBSET S : low[s] \in Nat
        /\ \A s \in SUBSET S : \A x \in s : low[s] = f[x] + low[s \ {x}]
    <2>1. IsFiniteSet(S) /\ f \in [S -> Nat] /\ IsSum(low, f, S)
      OBVIOUS
    <2> QED
      BY ONLY <2>1, SumTakesOut
  <1>2. /\ high[{}] = 0
        /\ \A s \in SUBSET S : high[s] \in Nat
        /\ \A s \in SUBSET S : \A x \in s : high[s] = g[x] + high[s \ {x}]
    BY SumTakesOut
  <1>3. {} \in Less
    BY <1>1, <1>2
  <1>4. ASSUME NEW s \in SUBSET S, s # {}, \A x \in s : s \ {x} \in Less PROVE s \in Less
    <2>1. PICK x \in s : TRUE
      BY <1>4
    <2>2. /\ low[s \ {x}] \in Nat /\ high[s \ {x}] \in Nat /\ low[s \ {x}] <= high[s \ {x}]
          /\ f[x] \in Nat /\ g[x] \in Nat /\ f[x] <= g[x]
          /\ low[s] = f[x] + low[s \ {x}] /\ high[s] = g[x] + high[s \ {x}]
      BY <1>1, <1>2, <1>4, <2>1
    <2> QED
      BY <2>2
  <1> HIDE DEF Less
  <1>5. \A s \in SUBSET S : s \in Less
    BY <1>3, <1>4, OverSubsets
  <1> QED
    BY <1>5 DEF Less

(* What MapThenSumSet is, for a summand given as a function.               *)
LEMMA SumOfFunction ==
  ASSUME NEW S, IsFiniteSet(S), NEW g \in [S -> Nat]
  PROVE  \E sum : IsSum(sum, g, S) /\ MapThenSumSet(LAMBDA x : g[x], S) = sum[S]
  <1> DEFINE total == CHOOSE sum : IsSum(sum, g, S)
  <1>1. IsSum(total, g, S)
    BY SumExists
  <1>2. MapThenSumSet(LAMBDA x : g[x], S) = total[S]
    BY Zenon DEF MapThenSumSet, MapThenFoldSet, IsSum, Pick
  <1> QED
    BY <1>1, <1>2

=============================================================================
