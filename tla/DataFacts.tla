----------------------------- MODULE DataFacts -----------------------------
(***************************************************************************)
(* Induction and recursion over the natural numbers in a form the provers  *)
(* can instantiate, which is with sets and functions for the operators of  *)
(* the library's theorems; and what follows of powers of two.              *)
(***************************************************************************)
EXTENDS Integers, FiniteSetTheorems, FunctionTheorems, WellFoundedInduction, TLAPS

\* Induction: a set with 0 and the successor of each of its members has all.
LEMMA Induction ==
  ASSUME NEW S, 0 \in S, \A n \in Nat : n \in S => n + 1 \in S
  PROVE  \A n \in Nat : n \in S
<1> SUFFICES ASSUME NEW n \in Nat, n \notin S
             PROVE  FALSE
  OBVIOUS
<1> DEFINE T == {m \in Nat : m \notin S}
<1>1. T \subseteq Nat /\ T # {}
  OBVIOUS
<1> HIDE DEF T
<1>2. PICK m \in T : \A j \in T : <<j, m>> \notin OpToRel(<, Nat)
  BY <1>1, NatLessThanWellFounded, WFMin
<1>3. \A j \in T : ~(j < m)
  BY <1>1, <1>2 DEF OpToRel
<1>4. m \in Nat /\ m \notin S
  BY DEF T
<1>5. m - 1 \in Nat /\ m - 1 \notin T /\ (m - 1) + 1 = m
  BY <1>1, <1>3, <1>4
<1>6. m - 1 \in S
  BY <1>5 DEF T
<1> QED
  BY <1>4, <1>5, <1>6

\* The function into V with a first value and a value for every next one.
Recursive(f, V, g, h) == /\ f \in [Nat -> V]
                         /\ f[0] = g
                         /\ \A n \in Nat : f[n + 1] = h[n][f[n]]

\* Recursion: a first value and a step function determine a function.
LEMMA Recursion ==
  ASSUME NEW V, NEW g \in V, NEW h \in [Nat -> [V -> V]]
  PROVE  \E f : Recursive(f, V, g, h)
<1> DEFINE Begins(p, n) == /\ p \in [0..n -> V]
                           /\ p[0] = g
                           /\ \A i \in 0..(n - 1) : p[i + 1] = h[i][p[i]]
<1>1. \A n \in Nat : \E p : Begins(p, n)
  <2> DEFINE S == {n \in Nat : \E p : Begins(p, n)}
  <2>1. 0 \in S
    <3>1. Begins([i \in 0..0 |-> g], 0)
      OBVIOUS
    <3> QED
      BY <3>1
  <2>2. ASSUME NEW n \in Nat, n \in S
        PROVE  n + 1 \in S
    <3>1. PICK p : Begins(p, n)
      BY <2>2
    <3> DEFINE q == [i \in 0..(n + 1) |-> IF i = n + 1 THEN h[n][p[n]] ELSE p[i]]
    <3>2. q \in [0..(n + 1) -> V]
      BY <3>1
    <3>3. Begins(q, n + 1)
      <4>1. q[0] = g
        BY <3>1
      <4>2. ASSUME NEW i \in 0..n
            PROVE  q[i + 1] = h[i][q[i]]
        <5>1. CASE i = n
          BY <5>1
        <5>2. CASE i # n
          <6>1. i \in 0..(n - 1) /\ i + 1 \in 0..n
            BY <5>2
          <6>2. p[i + 1] = h[i][p[i]]
            BY <3>1, <6>1
          <6>3. q[i] = p[i] /\ q[i + 1] = p[i + 1]
            BY <6>1
          <6> QED
            BY <6>2, <6>3
        <5> QED
          BY <5>1, <5>2
      <4>3. (n + 1) - 1 = n
        OBVIOUS
      <4> HIDE DEF q
      <4> QED
        BY <3>2, <4>1, <4>2, <4>3
    <3> HIDE DEF Begins
    <3> QED
      BY <3>3
  <2> HIDE DEF S
  <2>3. \A n \in Nat : n \in S
    BY <2>1, <2>2, Induction
  <2> QED
    BY <2>3 DEF S
<1>2. \A i \in Nat : \A m, n \in Nat : \A p, q :
        i <= m /\ i <= n /\ Begins(p, m) /\ Begins(q, n) => p[i] = q[i]
  <2> DEFINE Same(i) == \A m, n \in Nat : \A p, q :
                i <= m /\ i <= n /\ Begins(p, m) /\ Begins(q, n) => p[i] = q[i]
             S == {i \in Nat : Same(i)}
  <2>1. 0 \in S
    OBVIOUS
  <2>2. ASSUME NEW i \in Nat, i \in S
        PROVE  i + 1 \in S
    <3> SUFFICES ASSUME NEW m \in Nat, NEW n \in Nat, NEW p, NEW q,
                        i + 1 <= m, i + 1 <= n, Begins(p, m), Begins(q, n)
                 PROVE  p[i + 1] = q[i + 1]
      <4> HIDE DEF Begins
      <4> QED
        OBVIOUS
    <3>1. i \in 0..(m - 1) /\ i \in 0..(n - 1) /\ i <= m /\ i <= n
      OBVIOUS
    <3>2. p[i] = q[i]
      <4>1. Same(i)
        BY <2>2
      <4> HIDE DEF Begins
      <4> QED
        BY <3>1, <4>1
    <3>3. p[i + 1] = h[i][p[i]] /\ q[i + 1] = h[i][q[i]]
      BY <3>1
    <3> QED
      BY <3>2, <3>3
  <2> HIDE DEF S, Same
  <2>3. \A i \in Nat : i \in S
    BY <2>1, <2>2, Induction
  <2>4. \A i \in Nat : Same(i)
    BY <2>3 DEF S
  <2> QED
    BY <2>4 DEF Same
<1> DEFINE approx(n) == CHOOSE p : Begins(p, n)
           f == [n \in Nat |-> approx(n)[n]]
<1>3. \A n \in Nat : Begins(approx(n), n)
  <2> HIDE DEF Begins
  <2> QED
    BY <1>1
<1> HIDE DEF approx
<1>4. \A n \in Nat : f[n] \in V
  BY <1>3
<1>5. f[0] = g
  BY <1>3
<1>6. ASSUME NEW n \in Nat
      PROVE  f[n + 1] = h[n][f[n]]
  <2>1. n + 1 \in Nat /\ n \in 0..((n + 1) - 1) /\ n <= n /\ n <= n + 1
    OBVIOUS
  <2>2. approx(n + 1)[n + 1] = h[n][approx(n + 1)[n]]
    BY <1>3, <2>1
  <2>3. approx(n + 1)[n] = approx(n)[n]
    <3> HIDE DEF Begins
    <3> QED
      BY <1>2, <1>3, <2>1
  <2> QED
    BY <2>1, <2>2, <2>3
<1> HIDE DEF f
<1>7. f \in [Nat -> V]
  BY <1>4 DEF f
<1> QED
  BY <1>5, <1>6, <1>7 DEF Recursive

-----------------------------------------------------------------------------
(***************************************************************************)
(* Powers of two count subsets, which is what the provers know of them     *)
(***************************************************************************)

\* 2^n is the number of sets of numbers up to n.
LEMMA PowerCounts ==
  ASSUME NEW n \in Nat
  PROVE  /\ IsFiniteSet(1..n) /\ IsFiniteSet(SUBSET (1..n))
         /\ Cardinality(1..n) = n
         /\ Cardinality(SUBSET (1..n)) = 2^n
<1>1. IsFiniteSet(1..n) /\ Cardinality(1..n) = n
  BY FS_Interval
<1> QED
  BY <1>1, FS_SUBSET

\* A power of two is positive.
LEMMA PowerPositive ==
  ASSUME NEW n \in Nat
  PROVE  2^n \in Nat \ {0}
<1>1. {} \in SUBSET (1..n)
  OBVIOUS
<1>2. Cardinality(SUBSET (1..n)) # 0
  BY <1>1, PowerCounts, FS_EmptySet
<1> QED
  BY <1>2, PowerCounts, FS_CardinalityType

\* A higher power is no smaller.
LEMMA PowerGrows ==
  ASSUME NEW a \in Nat, NEW b \in Nat, a <= b
  PROVE  2^a <= 2^b
<1>1. SUBSET (1..a) \in SUBSET (SUBSET (1..b))
  OBVIOUS
<1>2. Cardinality(SUBSET (1..a)) = 2^a
  BY PowerCounts
<1>3. IsFiniteSet(SUBSET (1..b)) /\ Cardinality(SUBSET (1..b)) = 2^b
  BY PowerCounts
<1>4. Cardinality(SUBSET (1..a)) <= Cardinality(SUBSET (1..b))
  BY <1>1, <1>3, FS_Subset
<1> QED
  BY <1>2, <1>3, <1>4

\* The next power is the double: half of the sets up to n + 1 have n + 1 in them.
LEMMA PowerDoubles ==
  ASSUME NEW n \in Nat
  PROVE  2^(n + 1) = 2 * 2^n
<1> DEFINE Low == SUBSET (1..n)
           High == {s \in SUBSET (1..(n + 1)) : n + 1 \in s}
           add == [s \in Low |-> s \cup {n + 1}]
<1>1. IsFiniteSet(Low) /\ Cardinality(Low) = 2^n
  BY PowerCounts
<1>2. add \in [Low -> High]
  BY SMT
<1>3. \A s \in Low : n + 1 \notin s
  OBVIOUS
<1>4. \A s, t \in Low : add[s] = add[t] => s = t
  <2> SUFFICES ASSUME NEW s \in Low, NEW t \in Low, add[s] = add[t]
               PROVE  s = t
    OBVIOUS
  <2>1. s \cup {n + 1} = t \cup {n + 1} /\ n + 1 \notin s /\ n + 1 \notin t
    BY <1>3
  <2> QED
    BY <2>1
<1>5. \A h \in High : \E s \in Low : add[s] = h
  <2> SUFFICES ASSUME NEW h \in High
               PROVE  \E s \in Low : add[s] = h
    OBVIOUS
  <2>1. h \ {n + 1} \in Low
    BY SMT
  <2>2. add[h \ {n + 1}] = h
    BY <2>1
  <2> QED
    BY <2>1, <2>2
<1>6. add \in Bijection(Low, High)
  BY <1>2, <1>4, <1>5 DEF Bijection, Injection, Surjection, IsInjective
<1>7. IsFiniteSet(High) /\ Cardinality(High) = 2^n
  BY <1>1, <1>6, FS_Bijection DEF ExistsBijection
<1>8. SUBSET (1..(n + 1)) = Low \cup High
  <2>1. \A s \in SUBSET (1..(n + 1)) : n + 1 \notin s => s \in Low
    BY SMT
  <2>2. Low \subseteq SUBSET (1..(n + 1))
    BY SMT
  <2> QED
    BY <2>1, <2>2
<1>9. Low \cap High = {}
  BY <1>3
<1>10. 2^n \in Nat
  BY PowerPositive
<1> HIDE DEF Low, High
<1>11. Cardinality(Low \cup High)
         = Cardinality(Low) + Cardinality(High) - Cardinality(Low \cap High)
  BY <1>1, <1>7, FS_Union
<1>12. Cardinality(Low \cap High) = 0
  BY <1>9, FS_EmptySet
<1>13. Cardinality(SUBSET (1..(n + 1))) = 2^(n + 1)
  <2>1. n + 1 \in Nat
    OBVIOUS
  <2> QED
    BY <2>1, PowerCounts
<1>14. 2^(n + 1) = 2^n + 2^n - 0
  BY <1>1, <1>7, <1>8, <1>11, <1>12, <1>13
<1> QED
  BY <1>10, <1>14
=============================================================================
