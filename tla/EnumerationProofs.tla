------------------------- MODULE EnumerationProofs -------------------------
(***************************************************************************)
(* Facts about natural numbers and positions that other proofs need.       *)
(* Induction appears as the existence of a least counterexample.           *)
(***************************************************************************)
EXTENDS Enumeration, Sequences, FiniteSetTheorems, WellFoundedInduction, TLAPS

\* A set of numbers has a least element.
LEMMA LeastNumber ==
  ASSUME NEW T \in SUBSET Nat, T # {}
  PROVE  \E x \in T : \A y \in T : x <= y
<1> DEFINE R == OpToRel(<, Nat)
<1>1. IsWellFoundedOn(R, Nat)
  BY NatLessThanWellFounded
<1> HIDE DEF R
<1>2. PICK x \in T : \A y \in T : ~(<<y, x>> \in R)
  BY <1>1, WFMin
<1>3. \A a, b \in Nat : b < a => <<b, a>> \in R
  BY DEF R, OpToRel
<1>4. \A y \in T : y \in Nat
  OBVIOUS
<1>5. ASSUME NEW y \in T PROVE x <= y
  <2>1. ~(y < x)
    BY <1>2, <1>3, <1>4
  <2>2. QED
    BY <1>4, <2>1
<1>6. QED
  BY <1>5

\* A set of numbers up to n has a greatest element.
LEMMA GreatestNumber ==
  ASSUME NEW n \in Nat, NEW T \in SUBSET (0..n), T # {}
  PROVE  \E x \in T : \A y \in T : y <= x
<1> DEFINE U == {n - x : x \in T}
<1>1. U \in SUBSET Nat /\ U # {}
  <2>1. \A x \in T : x \in 0..n /\ n - x \in Nat
    OBVIOUS
  <2>2. QED
    BY <2>1
<1>2. PICK u \in U : \A v \in U : u <= v
  BY <1>1, LeastNumber
<1>3. PICK x \in T : u = n - x
  OBVIOUS
<1>4. ASSUME NEW y \in T PROVE y <= x
  <2>1. u <= n - y
    BY <1>2
  <2>2. QED
    BY <1>3, <2>1
<1>5. QED
  BY <1>4

\* Every finite set of numbers has an enumeration in ascending order.
LEMMA AscendingExists ==
  ASSUME NEW S \in SUBSET Nat, IsFiniteSet(S)
  PROVE  \E f \in [1..Cardinality(S) -> S] : \A i, j \in DOMAIN f : i < j => f[i] < f[j]
<1> DEFINE Enumerated(U) == \E f \in [1..Cardinality(U) -> U] : \A i, j \in DOMAIN f : i < j => f[i] < f[j]
           Wrong == {n \in Nat : \E U \in SUBSET Nat :
                       IsFiniteSet(U) /\ Cardinality(U) = n /\ ~Enumerated(U)}
<1>1. SUFFICES ASSUME Wrong # {} PROVE FALSE
  <2>1. Cardinality(S) \in Nat
    BY FS_CardinalityType
  <2>2. QED
    BY <1>1, <2>1
<1> HIDE DEF Enumerated
<1>2. PICK n \in Wrong : \A m \in Wrong : n <= m
  <2>1. Wrong \in SUBSET Nat
    OBVIOUS
  <2>2. QED
    BY <1>1, <2>1, LeastNumber
<1>3. PICK U \in SUBSET Nat : IsFiniteSet(U) /\ Cardinality(U) = n /\ ~Enumerated(U)
  BY <1>2
<1>4. U # {}
  <2>1. SUFFICES ASSUME U = {} PROVE Enumerated(U)
    BY <1>3
  <2>2. Cardinality(U) = 0
    BY <2>1, FS_EmptySet
  <2>3. << >> \in [1..0 -> U] /\ DOMAIN << >> = {}
    OBVIOUS
  <2>4. QED
    BY <2>2, <2>3 DEF Enumerated
<1>5. PICK x \in U : \A y \in U : x <= y
  BY <1>4, LeastNumber
<1> DEFINE V == U \ {x}
<1>6. IsFiniteSet(V) /\ Cardinality(V) = n - 1
  BY <1>3, FS_RemoveElement
<1>7. n \in Nat /\ Cardinality(V) \in Nat
  BY <1>6, FS_CardinalityType
<1>8. PICK m \in Nat : m = Cardinality(V) /\ n = m + 1 /\ m \notin Wrong
  <2>1. Cardinality(V) < n
    BY <1>6, <1>7
  <2>2. Cardinality(V) \notin Wrong
    BY <1>2, <1>7, <2>1
  <2> HIDE DEF Wrong, V
  <2>3. QED
    BY <1>6, <1>7, <2>2
<1>9. Enumerated(V)
  <2>1. V \in SUBSET Nat
    OBVIOUS
  <2>2. QED
    BY <1>6, <1>8, <2>1
<1>10. PICK f \in [1..m -> V] : \A i, j \in 1..m : i < j => f[i] < f[j]
  BY <1>8, <1>9 DEF Enumerated
<1> DEFINE g == [i \in 1..n |-> IF i = 1 THEN x ELSE f[i - 1]]
<1>11. \A i \in 2..n : i - 1 \in 1..m
  BY <1>8
<1>12. g \in [1..n -> U]
  <2>1. ASSUME NEW i \in 1..n PROVE (IF i = 1 THEN x ELSE f[i - 1]) \in U
    <3>1. CASE i = 1
      BY <3>1
    <3>2. CASE i # 1
      <4>1. i - 1 \in 1..m
        BY <1>7, <1>11, <3>2
      <4>2. QED
        BY <1>10, <3>2, <4>1
    <3>3. QED
      BY <3>1, <3>2
  <2>2. QED
    BY <2>1
<1>13. ASSUME NEW i \in 1..n, NEW j \in 1..n, i < j
       PROVE  g[i] < g[j]
  <2>1. j - 1 \in 1..m /\ j # 1
    BY <1>7, <1>8, <1>13
  <2>2. g[j] = f[j - 1] /\ f[j - 1] \in V
    BY <1>10, <2>1
  <2>3. CASE i = 1
    <3>1. x <= f[j - 1] /\ x # f[j - 1] /\ x \in Nat /\ f[j - 1] \in Nat
      BY <1>5, <2>2
    <3>2. g[i] = x
      BY <2>3
    <3>3. QED
      BY <2>2, <3>1, <3>2
  <2>4. CASE i # 1
    <3>1. i - 1 \in 1..m /\ i - 1 < j - 1
      BY <1>7, <1>8, <1>13, <2>4
    <3>2. g[i] = f[i - 1]
      BY <2>4
    <3>3. QED
      BY <1>10, <2>1, <2>2, <3>1, <3>2
  <2>5. QED
    BY <2>3, <2>4
<1>14. Enumerated(U)
  <2>1. DOMAIN g = 1..n
    OBVIOUS
  <2> HIDE DEF g
  <2>2. QED
    BY <1>3, <1>12, <1>13, <2>1 DEF Enumerated
<1>15. QED
  BY <1>3, <1>14

\* The enumeration names each number of a finite set once.
LEMMA AscendingNumbers ==
  ASSUME NEW S \in SUBSET Nat, IsFiniteSet(S)
  PROVE  \E m \in Nat :
           /\ m = Cardinality(S)
           /\ DOMAIN Ascending(S) = 1..m /\ Len(Ascending(S)) = m /\ Ascending(S) \in [1..m -> S]
           /\ \A s \in S : \E k \in 1..m : Ascending(S)[k] = s
           /\ \A k \in 1..m : Ascending(S)[k] \in S
           /\ \A k, l \in 1..m : k < l => Ascending(S)[k] < Ascending(S)[l]
<1>1. PICK m \in Nat : m = Cardinality(S)
  BY FS_CardinalityType
<1>2. PICK f : f = Ascending(S)
  OBVIOUS
<1>3. f \in [1..m -> S] /\ \A i, j \in 1..m : i < j => f[i] < f[j]
  <2>1. \E h \in [1..m -> S] : \A i, j \in DOMAIN h : i < j => h[i] < h[j]
    BY <1>1, AscendingExists
  <2>2. f \in [1..m -> S] /\ \A i, j \in DOMAIN f : i < j => f[i] < f[j]
    BY <1>1, <1>2, <2>1 DEF Ascending
  <2>3. QED
    BY <2>2
<1>4. IsInjective(f)
  <2>1. ASSUME NEW i \in 1..m, NEW j \in 1..m, f[i] = f[j]
        PROVE  i = j
    <3>1. f[i] \in Nat /\ f[j] \in Nat
      BY <1>3
    <3>2. ~(f[i] < f[j]) /\ ~(f[j] < f[i])
      BY <2>1, <3>1
    <3>3. ~(i < j) /\ ~(j < i)
      BY <1>3, <3>2
    <3>4. QED
      BY <3>3
  <2>2. QED
    BY <1>3, <2>1 DEF IsInjective
<1>5. f \in Surjection(1..m, S)
  <2>1. f \in Injection(1..m, S)
    BY <1>3, <1>4 DEF Injection
  <2>2. Cardinality(1..m) = m
    BY FS_Interval
  <2>3. QED
    BY <1>1, <2>1, <2>2, FS_Injection
<1>6. Len(f) = m
  BY <1>3
<1>7. QED
  BY <1>1, <1>2, <1>3, <1>5, <1>6 DEF Surjection

\* The same for positions of a list.
LEMMA AscendingPositions ==
  ASSUME NEW n \in Nat, NEW S \in SUBSET (1..n)
  PROVE  \E m \in Nat :
           /\ m = Cardinality(S) /\ m <= n
           /\ DOMAIN Ascending(S) = 1..m /\ Len(Ascending(S)) = m /\ Ascending(S) \in [1..m -> S]
           /\ \A s \in S : \E k \in 1..m : Ascending(S)[k] = s
           /\ \A k \in 1..m : Ascending(S)[k] \in S /\ Ascending(S)[k] \in 1..n
           /\ \A k, l \in 1..m : k < l => Ascending(S)[k] < Ascending(S)[l]
<1>1. IsFiniteSet(1..n) /\ Cardinality(1..n) = n
  BY FS_Interval
<1>2. IsFiniteSet(S) /\ Cardinality(S) <= n
  BY <1>1, FS_Subset
<1>3. S \in SUBSET Nat
  OBVIOUS
<1>4. QED
  BY <1>2, <1>3, AscendingNumbers

=============================================================================
