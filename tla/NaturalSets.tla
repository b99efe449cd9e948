---------------------------- MODULE NaturalSets ----------------------------
(***************************************************************************)
(* Induction over the natural numbers as a fact about sets, for the proofs *)
(* about definitions that recurse over a list.                             *)
(*                                                                         *)
(* The library states induction for a predicate; here the numbers that     *)
(* have the property are a set.  It follows from the counting of finite    *)
(* sets: if n were the first gap of A above 0, to add 1 would be an        *)
(* injection of the finite set of A's elements below n into itself without *)
(* 0, which has fewer elements.                                            *)
(***************************************************************************)
EXTENDS Naturals, FiniteSetTheorems, TLAPS

\* A set of numbers with 0, and with n + 1 for each n in it, has them all.
LEMMA InductionOverNat ==
    ASSUME NEW A, A \subseteq Nat, 0 \in A, \A n \in A : n + 1 \in A
    PROVE  A = Nat
<1> SUFFICES ASSUME NEW n \in Nat, n \notin A PROVE FALSE
  OBVIOUS
<1> DEFINE Below == {m \in A : m <= n}
           Above == Below \ {0}
<1>1. IsFiniteSet(0..n)
  BY FS_Interval
<1>2. Below \subseteq 0..n /\ 0 \in Below
  <2>1. 0 \in Below
    OBVIOUS
  <2>2. ASSUME NEW m \in Below PROVE m \in 0..n
    <3>1. m \in Nat /\ m <= n
      BY <2>2
    <3> HIDE DEF Below
    <3> QED BY <3>1
  <2> HIDE DEF Below
  <2> QED BY <2>1, <2>2
<1>3. \A m \in Below : m \in Nat /\ m + 1 \in Above
  OBVIOUS
<1> HIDE DEF Below
<1>4. IsFiniteSet(Below) /\ Cardinality(Below) \in Nat
  BY <1>1, <1>2, FS_Subset, FS_CardinalityType
<1>5. /\ IsFiniteSet(Above)
      /\ Cardinality(Above) = Cardinality(Below) - 1
  BY <1>2, <1>4, FS_RemoveElement
<1> HIDE DEF Above
<1> DEFINE next == [m \in Below |-> m + 1]
<1>6. next \in [Below -> Above]
  BY <1>3
<1>7. Cardinality(Above) < Cardinality(Below)
  BY <1>4, <1>5
<1> HIDE DEF next
<1>8. PICK x, y \in Below : x # y /\ next[x] = next[y]
  BY <1>4, <1>5, <1>6, <1>7, FS_PigeonHole
<1> QED BY <1>3, <1>8 DEF next

\* The same up to a bound.
LEMMA InductionUpTo ==
    ASSUME NEW L \in Nat, NEW A, 0 \in A, \A n \in A : n < L => n + 1 \in A
    PROVE  0..L \subseteq A
<1> DEFINE B == {n \in Nat : n <= L => n \in A}
<1>1. B = Nat
  <2>1. B \subseteq Nat /\ 0 \in B /\ \A n \in B : n + 1 \in B
    OBVIOUS
  <2> HIDE DEF B
  <2> QED BY <2>1, InductionOverNat
<1> QED BY <1>1

\* What the first value has and every step keeps, all values have.
LEMMA ValuesBySteps ==
    ASSUME NEW L \in Nat, NEW f, NEW S, f[0] \in S,
           \A n \in 0..L : n < L /\ f[n] \in S => f[n + 1] \in S
    PROVE  \A n \in 0..L : f[n] \in S
<1> DEFINE A == {n \in 0..L : f[n] \in S}
<1>1. 0 \in A
  OBVIOUS
<1>2. ASSUME NEW n \in A, n < L PROVE n + 1 \in A
  <2>1. n \in 0..L /\ n + 1 \in 0..L /\ f[n] \in S
    BY <1>2
  <2> QED BY <1>2, <2>1
<1>3. 0..L \subseteq A
  <2> HIDE DEF A
  <2> QED BY <1>1, <1>2, InductionUpTo
<1> QED BY <1>3

\* Numbers up to a bound have a greatest.
LEMMA GreatestNumber ==
    ASSUME NEW L \in Nat, NEW T, T \subseteq 0..L, T # {}
    PROVE  \E n \in T : \A m \in T : m <= n
<1> SUFFICES ASSUME \A n \in T : \E m \in T : n < m
             PROVE  FALSE
  OBVIOUS
<1> DEFINE A == {n \in Nat : \E m \in T : n <= m}
<1>1. A \subseteq Nat /\ 0 \in A
  <2>1. PICK m \in T : TRUE
    OBVIOUS
  <2>2. m \in Nat /\ 0 <= m
    BY <2>1
  <2> QED BY <2>2
<1>2. ASSUME NEW n \in A PROVE n + 1 \in A
  <2>1. PICK m \in T : n <= m
    BY <1>2
  <2>2. PICK k \in T : m < k
    BY <2>1
  <2> QED BY <2>1, <2>2
<1>3. L + 1 \in A
  <2> HIDE DEF A
  <2> QED BY <1>1, <1>2, InductionOverNat
<1> QED BY <1>3

\* f is defined from its value for one number less.
FollowsSteps(f, L, first, step) ==
    f[0] = first /\ \A n \in 1..L : f[n] = step[n][f[n - 1]]

\* A function may be defined so.
LEMMA FunctionByRecursion ==
    ASSUME NEW L \in Nat, NEW S, NEW first \in S, NEW step \in [1..L -> [S -> S]]
    PROVE  \E f \in [0..L -> S] : FollowsSteps(f, L, first, step)
<1> DEFINE Defined(n, f) == /\ f[0] = first
                            /\ \A m \in 1..n : f[m] = step[m][f[m - 1]]
           A == {n \in 0..L : \E f \in [0..n -> S] : Defined(n, f)}
<1>1. 0 \in A
  <2> DEFINE f == [m \in 0..0 |-> first]
  <2>1. f \in [0..0 -> S] /\ Defined(0, f)
    OBVIOUS
  <2> HIDE DEF f, Defined
  <2> QED BY <2>1
<1>2. ASSUME NEW n \in A, n < L PROVE n + 1 \in A
  <2>1. n \in 0..L /\ n + 1 \in 1..L
    BY <1>2
  <2>2. PICK f \in [0..n -> S] : Defined(n, f)
    BY <1>2
  <2>3. f[n] \in S /\ step[n + 1][f[n]] \in S
    BY <2>1, <2>2
  <2> DEFINE g == [m \in 0..(n + 1) |-> IF m = n + 1 THEN step[n + 1][f[n]] ELSE f[m]]
  <2>4. /\ g \in [0..(n + 1) -> S]
        /\ g[n + 1] = step[n + 1][f[n]]
        /\ \A m \in 0..n : g[m] = f[m]
    BY <2>1, <2>3
  <2> HIDE DEF g
  <2>5. g[0] = first
    BY <2>1, <2>2, <2>4
  <2>6. ASSUME NEW m \in 1..(n + 1) PROVE g[m] = step[m][g[m - 1]]
    <3>1. CASE m = n + 1
      BY <2>1, <2>4, <3>1
    <3>2. CASE m # n + 1
      <4>1. m \in 1..n /\ m \in 0..n /\ m - 1 \in 0..n
        BY <2>1, <3>2
      <4> QED BY <2>2, <2>4, <4>1
    <3> QED BY <3>1, <3>2
  <2>7. n + 1 \in 0..L /\ Defined(n + 1, g)
    BY <2>1, <2>5, <2>6
  <2> QED BY <2>4, <2>7
<1> HIDE DEF A
<1>3. L \in A
  BY <1>1, <1>2, InductionUpTo
<1> QED BY <1>3 DEF A, FollowsSteps
=============================================================================
