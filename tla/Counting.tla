------------------------------- MODULE Counting -------------------------------
(***************************************************************************)
(* Facts about natural numbers and finite sets that the proofs of this     *)
(* project share.  An induction is stated with the set of the numbers that *)
(* have the property, for want of provers that take a property as a        *)
(* parameter.                                                              *)
(***************************************************************************)
EXTENDS Integers, FiniteSetTheorems, TLAPS

\* A set of natural numbers that is not empty has a least member.
LEMMA LeastNumber ==
    ASSUME NEW T \in SUBSET Nat, T # {}
    PROVE  \E x \in T : \A y \in T : x <= y
  <1> DEFINE U == {0..n : n \in T}
  <1>1. IsWellFoundedOn(StrictSubsetOrdering(Nat), FiniteSubsetsOf(Nat))
    BY FS_StrictSubsetOrderingWellFounded
  <1>2. U \subseteq FiniteSubsetsOf(Nat) /\ U # {}
    <2>1. ASSUME NEW n \in T PROVE 0..n \in FiniteSubsetsOf(Nat)
      BY FS_Interval DEF FiniteSubsetsOf
    <2>. QED  BY <2>1
  <1>3. \E a \in U : \A b \in U : ~(<<b, a>> \in StrictSubsetOrdering(Nat))
    BY <1>1, <1>2, WFMin
  <1>4. PICK x \in T : \A b \in U : ~(<<b, 0..x>> \in StrictSubsetOrdering(Nat))
    BY <1>3
  <1>5. ASSUME NEW y \in T, ~(x <= y) PROVE FALSE
    <2>1. 0..y \in U
      OBVIOUS
    <2>2. 0..y \subseteq 0..x /\ x \in 0..x /\ ~(x \in 0..y)
      BY <1>5
    <2>3. <<0..y, 0..x>> \in StrictSubsetOrdering(Nat)
      BY <2>2 DEF StrictSubsetOrdering
    <2>. QED  BY <1>4, <2>1, <2>3
  <1>. QED  BY <1>5

\* Induction: a set that holds 0 and with a number the next one holds them all.
LEMMA NumberInduction ==
    ASSUME NEW S, 0 \in S, \A n \in Nat : n \in S => n + 1 \in S
    PROVE  Nat \subseteq S
  <1> SUFFICES ASSUME NEW k \in Nat, k \notin S PROVE FALSE
    OBVIOUS
  <1> DEFINE T == Nat \ S
  <1>1. PICK x \in T : \A y \in T : x <= y
    BY LeastNumber
  <1>. QED  BY <1>1

\* A set of numbers below a bound that is not empty has a greatest member.
LEMMA GreatestNumber ==
    ASSUME NEW n \in Nat, NEW S \in SUBSET (0..n), S # {}
    PROVE  \E x \in S : \A y \in S : y <= x
  <1> DEFINE T == {n - x : x \in S}
  <1>1. T \subseteq Nat /\ T # {}
    <2>1. ASSUME NEW x \in S PROVE n - x \in Nat
      <3>1. x \in 0..n
        OBVIOUS
      <3>. QED  BY <3>1
    <2>2. \E x : x \in S
      OBVIOUS
    <2>. QED  BY <2>1, <2>2
  <1>2. PICK t \in T : \A u \in T : t <= u
    BY <1>1, LeastNumber
  <1>3. PICK x \in S : t = n - x
    OBVIOUS
  <1>4. ASSUME NEW y \in S PROVE y <= x
    <2>1. n - x <= n - y
      BY <1>2, <1>3
    <2>. QED  BY <2>1
  <1>. QED  BY <1>4

\* What two finite sets cover has no more members than both together.
LEMMA CoverBound ==
    ASSUME NEW A, NEW B, IsFiniteSet(A), IsFiniteSet(B), NEW C \in SUBSET (A \cup B)
    PROVE  IsFiniteSet(C) /\ Cardinality(C) <= Cardinality(A) + Cardinality(B)
  <1>1. /\ IsFiniteSet(A \cup B)
        /\ Cardinality(A \cup B) = Cardinality(A) + Cardinality(B) - Cardinality(A \cap B)
    BY FS_Union
  <1>2. Cardinality(A) \in Nat /\ Cardinality(B) \in Nat /\ Cardinality(A \cap B) \in Nat
    BY FS_CardinalityType, FS_Subset
  <1>3. IsFiniteSet(C) /\ Cardinality(C) <= Cardinality(A \cup B) /\ Cardinality(C) \in Nat
    BY <1>1, FS_Subset, FS_CardinalityType
  <1>. QED  BY <1>1, <1>2, <1>3

\* A function has no more values on a finite set than the set has members, and
\* as many when it takes no value twice.
LEMMA ImageBound ==
    ASSUME NEW A, IsFiniteSet(A), NEW f
    PROVE  LET T == {f[x] : x \in A} IN
           /\ IsFiniteSet(T) /\ Cardinality(T) \in Nat /\ Cardinality(A) \in Nat
           /\ Cardinality(T) <= Cardinality(A)
           /\ (\A x, y \in A : f[x] = f[y] => x = y) => Cardinality(T) = Cardinality(A)
  <1> DEFINE T == {f[x] : x \in A}
             g == [x \in A |-> f[x]]
  <1>1. g \in Surjection(A, T)
    BY DEF Surjection
  <1>2. /\ IsFiniteSet(T) /\ Cardinality(T) <= Cardinality(A)
        /\ Cardinality(T) = Cardinality(A) <=> g \in Injection(A, T)
    BY <1>1, FS_Surjection
  <1>3. (\A x, y \in A : f[x] = f[y] => x = y) => g \in Injection(A, T)
    BY DEF Injection, IsInjective
  <1>4. Cardinality(T) \in Nat /\ Cardinality(A) \in Nat
    BY <1>2, FS_CardinalityType
  <1>. QED  BY <1>2, <1>3, <1>4

\* A function whose values up to N are found one from the other.
Stepwise(f, V, start, N, step) ==
    /\ f \in [0..N -> V] /\ f[0] = start
    /\ \A n \in 1..N : f[n] = step[<<f[n - 1], n>>]

\* A function may be defined step by step on an initial part of the numbers.
LEMMA StepByStep ==
    ASSUME NEW V, NEW start \in V, NEW N \in Nat, NEW step \in [V \X (1..N) -> V]
    PROVE  \E f : Stepwise(f, V, start, N, step)
  <1> DEFINE Defined(k, f) == /\ f \in [0..k -> V] /\ f[0] = start
                              /\ \A n \in 1..k : f[n] = step[<<f[n - 1], n>>]
             S == {k \in Nat : k <= N => \E f : Defined(k, f)}
  <1>1. 0 \in S
    <2> DEFINE g == [n \in 0..0 |-> start]
    <2>1. Defined(0, g)
      OBVIOUS
    <2> HIDE DEF Defined, g
    <2>. QED  BY <2>1
  <1>2. ASSUME NEW k \in Nat, k \in S PROVE k + 1 \in S
    <2> SUFFICES ASSUME k + 1 <= N PROVE \E f : Defined(k + 1, f)
      OBVIOUS
    <2>1. PICK f : Defined(k, f)
      BY <1>2
    <2>2. /\ f \in [0..k -> V] /\ f[0] = start
          /\ \A n \in 1..k : f[n] = step[<<f[n - 1], n>>]
      BY <2>1
    <2> DEFINE v == step[<<f[k], k + 1>>]
               g == [n \in 0..(k + 1) |-> IF n = k + 1 THEN v ELSE f[n]]
    <2>3. v \in V
      BY <2>2
    <2> HIDE DEF Defined
    <2>4. g \in [0..(k + 1) -> V] /\ g[k + 1] = v /\ \A n \in 0..k : g[n] = f[n]
      <3> HIDE DEF v
      <3>. QED  BY <2>2, <2>3
    <2> HIDE DEF g
    <2>5. g[0] = start
      BY <2>2, <2>4
    <2>6. ASSUME NEW n \in 1..(k + 1) PROVE g[n] = step[<<g[n - 1], n>>]
      <3>1. n - 1 \in 0..k /\ g[n - 1] = f[n - 1]
        BY <2>4
      <3>2. CASE n = k + 1
        <4>1. n - 1 = k
          BY <3>2
        <4>. QED  BY <2>4, <3>1, <3>2, <4>1
      <3>3. CASE n # k + 1
        <4>1. n \in 1..k /\ n \in 0..k
          BY <3>3
        <4>2. g[n] = f[n] /\ f[n] = step[<<f[n - 1], n>>]
          BY <2>2, <2>4, <4>1
        <4>. QED  BY <3>1, <4>2
      <3>. QED  BY <3>2, <3>3
    <2>7. Defined(k + 1, g)
      BY <2>4, <2>5, <2>6 DEF Defined
    <2>. QED  BY <2>7
  <1> HIDE DEF S
  <1>3. N \in S
    BY <1>1, <1>2, NumberInduction
  <1>4. \E f : Defined(N, f)
    BY <1>3 DEF S
  <1>. QED  BY <1>4 DEF Stepwise
==============================================================================
