------------------------- MODULE ProcessDataMapping -------------------------
(***************************************************************************)
(* From the configuration to the addresses, for every description, byte    *)
(* and resolution: the plugins, the slaves, the registrations and the      *)
(* offsets the driver builds are those of the configuration, by one        *)
(* inductive invariant.                                                    *)
(***************************************************************************)
EXTENDS ProcessData, DataFacts, SequenceTheorems

-----------------------------------------------------------------------------
(***************************************************************************)
(* Sums of weights                                                         *)
(***************************************************************************)

\* Totals are the values of one function of the number of weights.
LEMMA TotalFunction ==
  ASSUME NEW N \in Nat, NEW w, \A x \in 1..N : w[x] \in Int
  PROVE  \E f \in [Nat -> Int] :
           /\ f[0] = 0
           /\ \A n \in 0..(N - 1) : f[n + 1] = f[n] + w[n + 1]
           /\ \A n \in 0..N : Total(w, n) = f[n]
<1> DEFINE weight(n) == IF n + 1 <= N THEN w[n + 1] ELSE 0
           h == [n \in Nat |-> [v \in Int |-> v + weight(n)]]
<1>1. \A n \in Nat : weight(n) \in Int
  OBVIOUS
<1>2. h \in [Nat -> [Int -> Int]]
  <2> HIDE DEF weight
  <2> QED
    BY <1>1
<1>3. PICK f : Recursive(f, Int, 0, h)
  <2>1. 0 \in Int
    OBVIOUS
  <2> HIDE DEF h
  <2> QED
    BY <1>2, <2>1, Recursion
<1>4. f \in [Nat -> Int] /\ f[0] = 0
  BY <1>3 DEF Recursive
<1>5. ASSUME NEW n \in 0..(N - 1)
      PROVE  f[n + 1] = f[n] + w[n + 1]
  <2>1. f[n + 1] = h[n][f[n]] /\ f[n] \in Int
    <3> HIDE DEF h
    <3> QED
      BY <1>3 DEF Recursive
  <2>2. weight(n) = w[n + 1]
    OBVIOUS
  <2> HIDE DEF weight
  <2> QED
    BY <2>1, <2>2
<1>6. ASSUME NEW n \in 0..N
      PROVE  Total(w, n) = f[n]
  <2> DEFINE Sums(sum) == sum = [x \in 0..n |-> IF x = 0 THEN 0 ELSE sum[x - 1] + w[x]]
             s == CHOOSE sum : Sums(sum)
             first == [x \in 0..n |-> f[x]]
  <2>1. Sums(first)
    <3>1. ASSUME NEW x \in 0..n
          PROVE  first[x] = IF x = 0 THEN 0 ELSE first[x - 1] + w[x]
      <4>1. CASE x = 0
        BY <1>4, <4>1
      <4>2. CASE x # 0
        <5>1. x - 1 \in 0..(N - 1) /\ x - 1 \in 0..n /\ (x - 1) + 1 = x
          BY <4>2
        <5>2. f[x] = f[x - 1] + w[x]
          BY <1>5, <5>1
        <5> QED
          BY <4>2, <5>1, <5>2
      <4> QED
        BY <4>1, <4>2
    <3> QED
      BY <3>1
  <2>2. Sums(s)
    <3> HIDE DEF Sums, first
    <3> QED
      BY <2>1
  <2>3. Total(w, n) = s[n]
    BY DEF Total
  <2> HIDE DEF s
  <2> DEFINE S == {x \in Nat : x <= n => s[x] = f[x]}
  <2>4. 0 \in S
    BY <1>4, <2>2
  <2>5. ASSUME NEW x \in Nat, x \in S
        PROVE  x + 1 \in S
    <3> SUFFICES ASSUME x + 1 <= n
                 PROVE  s[x + 1] = f[x + 1]
      OBVIOUS
    <3>1. s[x + 1] = s[x] + w[x + 1]
      BY <2>2
    <3>2. s[x] = f[x] /\ x \in 0..(N - 1)
      BY <2>5
    <3> QED
      BY <1>5, <3>1, <3>2
  <2>6. \A x \in Nat : x \in S
    <3> HIDE DEF S
    <3> QED
      BY <2>4, <2>5, Induction
  <2> QED
    BY <2>3, <2>6
<1> QED
  BY <1>4, <1>5, <1>6

\* Totals of integers are integers, and each weight adds to the total before.
LEMMA TotalAdds ==
  ASSUME NEW N \in Nat, NEW w, \A x \in 1..N : w[x] \in Int
  PROVE  /\ Total(w, 0) = 0
         /\ \A n \in 0..N : Total(w, n) \in Int
         /\ \A n \in 1..N : Total(w, n) = Total(w, n - 1) + w[n]
<1>1. PICK f \in [Nat -> Int] :
        /\ f[0] = 0
        /\ \A n \in 0..(N - 1) : f[n + 1] = f[n] + w[n + 1]
        /\ \A n \in 0..N : Total(w, n) = f[n]
  BY TotalFunction
<1>2. Total(w, 0) = 0 /\ \A n \in 0..N : Total(w, n) \in Int
  BY <1>1
<1>3. ASSUME NEW n \in 1..N
      PROVE  Total(w, n) = Total(w, n - 1) + w[n]
  <2>1. n - 1 \in 0..(N - 1) /\ (n - 1) + 1 = n /\ n - 1 \in 0..N /\ n \in 0..N
    OBVIOUS
  <2> QED
    BY <1>1, <2>1
<1> QED
  BY <1>2, <1>3

\* Weights that are not negative: every weight lies between the totals before and
\* with it, and totals grow.
LEMMA TotalGrows ==
  ASSUME NEW N \in Nat, NEW w, \A x \in 1..N : w[x] \in Nat
  PROVE  /\ \A n \in 0..N : Total(w, n) \in Nat
         /\ \A n \in 0..N : \A m \in 0..n : Total(w, m) <= Total(w, n)
<1>1. /\ Total(w, 0) = 0
      /\ \A n \in 0..N : Total(w, n) \in Int
      /\ \A n \in 1..N : Total(w, n) = Total(w, n - 1) + w[n]
  <2>1. \A x \in 1..N : w[x] \in Int
    OBVIOUS
  <2> QED
    BY <2>1, TotalAdds
<1> DEFINE S == {n \in Nat : n <= N => \A m \in 0..n : Total(w, m) <= Total(w, n)}
<1>2. 0 \in S
  BY <1>1
<1>3. ASSUME NEW n \in Nat, n \in S
      PROVE  n + 1 \in S
  <2> SUFFICES ASSUME n + 1 <= N, NEW m \in 0..(n + 1)
               PROVE  Total(w, m) <= Total(w, n + 1)
    OBVIOUS
  <2>1. n + 1 \in 1..N /\ (n + 1) - 1 = n /\ n \in 0..N /\ m \in 0..N
    OBVIOUS
  <2>2. Total(w, n + 1) = Total(w, n) + w[n + 1] /\ w[n + 1] \in Nat
    BY <1>1, <2>1
  <2>3. Total(w, n) \in Int /\ Total(w, m) \in Int
    BY <1>1, <2>1
  <2>4. m = n + 1 \/ Total(w, m) <= Total(w, n)
    BY <1>3
  <2> QED
    BY <2>2, <2>3, <2>4
<1>4. \A n \in Nat : n \in S
  <2> HIDE DEF S
  <2> QED
    BY <1>2, <1>3, Induction
<1>5. \A n \in 0..N : \A m \in 0..n : Total(w, m) <= Total(w, n)
  BY <1>4
<1>6. ASSUME NEW n \in 0..N
      PROVE  Total(w, n) \in Nat
  <2>1. 0 \in 0..n
    OBVIOUS
  <2>2. Total(w, 0) <= Total(w, n)
    BY <1>5, <2>1
  <2> QED
    BY <1>1, <2>2
<1> QED
  BY <1>5, <1>6

\* Totals depend on the weights alone.
LEMMA TotalSame ==
  ASSUME NEW N \in Nat, NEW v, NEW w, \A x \in 1..N : v[x] \in Int /\ v[x] = w[x]
  PROVE  Total(v, N) = Total(w, N)
<1>1. /\ Total(v, 0) = 0
      /\ \A n \in 1..N : Total(v, n) = Total(v, n - 1) + v[n]
  BY TotalAdds
<1>2. /\ Total(w, 0) = 0
      /\ \A n \in 1..N : Total(w, n) = Total(w, n - 1) + w[n]
  <2>1. \A x \in 1..N : w[x] \in Int
    OBVIOUS
  <2> QED
    BY <2>1, TotalAdds
<1> DEFINE S == {n \in Nat : n <= N => Total(v, n) = Total(w, n)}
<1>3. 0 \in S
  BY <1>1, <1>2
<1>4. ASSUME NEW n \in Nat, n \in S
      PROVE  n + 1 \in S
  <2> SUFFICES ASSUME n + 1 <= N
               PROVE  Total(v, n + 1) = Total(w, n + 1)
    OBVIOUS
  <2>1. n + 1 \in 1..N /\ (n + 1) - 1 = n
    OBVIOUS
  <2>2. Total(v, n) = Total(w, n)
    BY <1>4
  <2>3. Total(v, n + 1) = Total(v, n) + v[n + 1]
    BY <1>1, <2>1
  <2>4. Total(w, n + 1) = Total(w, n) + w[n + 1]
    BY <1>2, <2>1
  <2> QED
    BY <2>1, <2>2, <2>3, <2>4
<1>5. \A n \in Nat : n \in S
  <2> HIDE DEF S
  <2> QED
    BY <1>3, <1>4, Induction
<1> QED
  BY <1>5

-----------------------------------------------------------------------------
(***************************************************************************)
(* Positions in their order, and lists cut into pieces                     *)
(***************************************************************************)

Rises(f) == \A x, y \in DOMAIN f : x < y => f[x] < f[y]

\* Every finite set of positions has an enumeration that rises.
LEMMA RisingExists ==
  ASSUME NEW N \in Nat, NEW S \in SUBSET (1..N)
  PROVE  /\ IsFiniteSet(S) /\ Cardinality(S) \in Nat
         /\ \E f \in [1..Cardinality(S) -> S] : Rises(f)
<1> DEFINE Enumerated(T) == /\ IsFiniteSet(T) /\ Cardinality(T) \in Nat
                            /\ \E f \in [1..Cardinality(T) -> T] : Rises(f)
           G == {n \in Nat : \A T \in SUBSET (1..n) : Enumerated(T)}
<1>1. 0 \in G
  <2> SUFFICES ASSUME NEW T \in SUBSET (1..0)
               PROVE  Enumerated(T)
    OBVIOUS
  <2>1. T = {}
    OBVIOUS
  <2>2. Cardinality(T) = 0 /\ IsFiniteSet(T)
    BY <2>1, FS_EmptySet
  <2> DEFINE f == [x \in 1..0 |-> 0]
  <2>3. f \in [1..0 -> T] /\ Rises(f)
    BY DEF Rises
  <2> HIDE DEF f
  <2>4. f \in [1..Cardinality(T) -> T]
    BY <2>2, <2>3
  <2>5. Cardinality(T) \in Nat
    BY <2>2
  <2> QED
    BY <2>2, <2>3, <2>4, <2>5
<1>2. ASSUME NEW n \in Nat, n \in G
      PROVE  n + 1 \in G
  <2> SUFFICES ASSUME NEW T \in SUBSET (1..(n + 1))
               PROVE  Enumerated(T)
    OBVIOUS
  <2>1. CASE n + 1 \notin T
    <3>1. T \in SUBSET (1..n)
      BY <2>1
    <3> QED
      BY <1>2, <3>1
  <2>2. CASE n + 1 \in T
    <3> DEFINE U == T \ {n + 1}
    <3>1. U \in SUBSET (1..n)
      OBVIOUS
    <3>2. Enumerated(U)
      BY <1>2, <3>1
    <3>3. T = U \cup {n + 1} /\ n + 1 \notin U
      BY <2>2
    <3>4. IsFiniteSet(T) /\ Cardinality(T) = Cardinality(U) + 1
      <4> HIDE DEF U
      <4> QED
        BY <3>2, <3>3, FS_AddElement
    <3> DEFINE k == Cardinality(U)
    <3>5. PICK f \in [1..k -> U] : Rises(f)
      BY <3>2
    <3> DEFINE g == [x \in 1..(k + 1) |-> IF x = k + 1 THEN n + 1 ELSE f[x]]
    <3>6. k \in Nat
      BY <3>2
    <3> HIDE DEF k
    <3>7. g \in [1..(k + 1) -> T]
      BY <2>2, <3>3, <3>5, <3>6
    <3>8. Rises(g)
      <4> SUFFICES ASSUME NEW x \in 1..(k + 1), NEW y \in 1..(k + 1), x < y
                   PROVE  g[x] < g[y]
        BY DEF Rises
      <4>1. x \in 1..k /\ g[x] = f[x] /\ f[x] \in U
        BY <3>5, <3>6
      <4>2. f[x] \in 1..n
        BY <3>1, <4>1
      <4>3. CASE y = k + 1
        <5>1. g[y] = n + 1
          BY <4>3
        <5> HIDE DEF g
        <5> QED
          BY <4>1, <4>2, <5>1
      <4>4. CASE y # k + 1
        <5>1. y \in 1..k /\ g[y] = f[y]
          BY <3>6, <4>4
        <5> QED
          BY <3>5, <4>1, <5>1 DEF Rises
      <4> QED
        BY <4>3, <4>4
    <3> HIDE DEF g
    <3>9. Cardinality(T) = k + 1
      BY <3>4 DEF k
    <3>10. g \in [1..Cardinality(T) -> T] /\ Cardinality(T) \in Nat
      BY <3>6, <3>7, <3>9
    <3> QED
      BY <3>4, <3>8, <3>10
  <2> QED
    BY <2>1, <2>2
<1>3. \A n \in Nat : n \in G
  <2> HIDE DEF G
  <2> QED
    BY <1>1, <1>2, Induction
<1> QED
  BY <1>3

\* Increasing enumerates all members of a set of positions, in their order.
LEMMA IncreasingEnumerates ==
  ASSUME NEW N \in Nat, NEW S \in SUBSET (1..N)
  PROVE  /\ Cardinality(S) \in Nat
         /\ Increasing(S) \in [1..Cardinality(S) -> S]
         /\ Rises(Increasing(S))
         /\ \A s \in S : \E x \in 1..Cardinality(S) : Increasing(S)[x] = s
<1> DEFINE k == Cardinality(S)
           f == Increasing(S)
<1>1. IsFiniteSet(S) /\ k \in Nat /\ \E g \in [1..k -> S] : Rises(g)
  BY RisingExists
<1>2. f \in [1..k -> S] /\ Rises(f)
  BY <1>1 DEF Increasing, Rises
<1> HIDE DEF f
<1>3. f \in Injection(1..k, S)
  <2> SUFFICES ASSUME NEW x \in 1..k, NEW y \in 1..k, f[x] = f[y]
               PROVE  x = y
    BY <1>2 DEF Injection, IsInjective
  <2>1. f[x] \in 1..N
    BY <1>2
  <2>2. ~(f[x] < f[x])
    BY <2>1
  <2>3. ~(x < y) /\ ~(y < x)
    BY <1>2, <2>2 DEF Rises
  <2> QED
    BY <1>1, <2>3
<1>4. Cardinality(1..k) = k
  BY <1>1, FS_Interval
<1>5. f \in Surjection(1..k, S)
  <2> HIDE DEF k
  <2> QED
    BY <1>1, <1>3, <1>4, FS_Injection DEF k
<1> QED
  BY <1>1, <1>2, <1>5 DEF Surjection, f

\* The PDOs together have the entries they divide among them.
LEMMA FlattenSizes ==
  ASSUME NEW E, NEW list \in Seq(E), NEW sizes \in Seq(Nat), NEW before \in Nat,
         before + Total(sizes, Len(sizes)) <= Len(list)
  PROVE  FlattenSeq([p \in DOMAIN sizes |->
                       SubSeq(list, before + Total(sizes, p - 1) + 1,
                                    before + Total(sizes, p - 1) + sizes[p])])
           = SubSeq(list, before + 1, before + Total(sizes, Len(sizes)))
<1> DEFINE n == Len(sizes)
           part(p) == SubSeq(list, before + Total(sizes, p - 1) + 1,
                                   before + Total(sizes, p - 1) + sizes[p])
           seqs == [p \in DOMAIN sizes |-> part(p)]
           whole(p) == SubSeq(list, before + 1, before + Total(sizes, p))
<1>1. n \in Nat /\ DOMAIN sizes = 1..n /\ \A x \in 1..n : sizes[x] \in Nat
  BY LenProperties
<1>2. /\ Total(sizes, 0) = 0
      /\ \A x \in 0..n : Total(sizes, x) \in Nat /\ Total(sizes, x) <= Total(sizes, n)
      /\ \A x \in 1..n : Total(sizes, x) = Total(sizes, x - 1) + sizes[x]
  <2>1. \A x \in 1..n : sizes[x] \in Int
    BY <1>1
  <2> HIDE DEF n
  <2>2. n \in 0..n /\ \A x \in 0..n : x \in 0..n
    BY <1>1
  <2> QED
    BY <1>1, <2>1, <2>2, TotalAdds, TotalGrows
<1>3. seqs = [p \in 1..n |-> part(p)] /\ Len(seqs) = n
  BY <1>1
<1>4. CASE n = 0
  <2>1. FlattenSeq(seqs) = seqs
    BY <1>3, <1>4 DEF FlattenSeq
  <2>2. seqs = << >>
    <3> HIDE DEF part
    <3> QED
      BY <1>3, <1>4
  <2>3. whole(n) = << >>
    <3>1. before + 1 \in Int /\ before + Total(sizes, n) \in Int
      BY <1>2, <1>4
    <3>2. before + Total(sizes, n) < before + 1
      BY <1>2, <1>4
    <3> QED
      BY <3>1, <3>2, SubSeqEmpty
  <2> QED
    BY <2>1, <2>2, <2>3
<1>5. CASE n # 0
  <2> DEFINE Flat(f) == f = [x \in 1..n |-> IF x = 1 THEN seqs[x] ELSE f[x - 1] \o seqs[x]]
             f == CHOOSE g : Flat(g)
             first == [x \in 1..n |-> whole(x)]
  <2>1. FlattenSeq(seqs) = f[n]
    <3> HIDE DEF seqs
    <3> QED
      BY <1>3, <1>5 DEF FlattenSeq
  <2>2. \A x \in 1..n : seqs[x] = part(x)
    BY <1>1
  <2>3. \A x \in 1..n : whole(x) = IF x = 1 THEN part(x) ELSE whole(x - 1) \o part(x)
    <3> SUFFICES ASSUME NEW x \in 1..n
                 PROVE  whole(x) = IF x = 1 THEN part(x) ELSE whole(x - 1) \o part(x)
      OBVIOUS
    <3>1. CASE x = 1
      <4>1. Total(sizes, x - 1) = 0 /\ Total(sizes, x) = 0 + sizes[x] /\ sizes[x] \in Nat
        BY <1>1, <1>2, <3>1
      <4>2. before + Total(sizes, x - 1) + 1 = before + 1
        BY <4>1
      <4>3. before + Total(sizes, x - 1) + sizes[x] = before + Total(sizes, x)
        BY <4>1
      <4> QED
        BY <3>1, <4>2, <4>3
    <3>2. CASE x # 1
      <4> DEFINE k == before + Total(sizes, x - 1)
      <4>1. x - 1 \in 0..n
        OBVIOUS
      <4>2. Total(sizes, x - 1) \in Nat /\ Total(sizes, x) \in Nat /\ sizes[x] \in Nat
        BY <1>1, <1>2, <4>1
      <4>3. Total(sizes, x) = Total(sizes, x - 1) + sizes[x]
        BY <1>2
      <4>4. Len(list) \in Nat /\ Total(sizes, x) <= Total(sizes, n)
        BY <1>2, LenProperties
      <4>5. /\ before + 1 \in 1..(Len(list) + 1)
            /\ k \in ((before + 1) - 1)..Len(list)
            /\ k + sizes[x] \in k..Len(list)
        <5>1. Total(sizes, n) \in Nat /\ before + Total(sizes, n) <= Len(list)
          BY <1>1, <1>2
        <5>2. ASSUME NEW a \in Nat, NEW b \in Nat, NEW c \in Nat, NEW d \in Nat, NEW l \in Nat,
                     b = a + c, b <= d, before + d <= l
              PROVE  /\ before + a \in Nat /\ before + a + c = before + b
                     /\ before <= before + a /\ before + a <= before + a + c
                     /\ before + a + c <= l
          BY <5>2
        <5>3. /\ k \in Nat /\ k + sizes[x] = before + Total(sizes, x)
              /\ before <= k /\ k <= k + sizes[x] /\ k + sizes[x] <= Len(list)
          BY <4>2, <4>3, <4>4, <5>1, <5>2
        <5> HIDE DEF k
        <5> QED
          BY <4>2, <4>4, <5>3
      <4>6. SubSeq(list, before + 1, k) \o SubSeq(list, k + 1, k + sizes[x])
              = SubSeq(list, before + 1, k + sizes[x])
        <5> HIDE DEF k
        <5> QED
          BY <4>5, ConcatAdjacentSubSeq
      <4>7. k + sizes[x] = before + Total(sizes, x)
        BY <4>2, <4>3
      <4> QED
        BY <3>2, <4>6, <4>7
    <3> QED
      BY <3>1, <3>2
  <2> HIDE DEF seqs, part, whole, n
  <2>4. Flat(first)
    <3>1. \A x \in 1..n : first[x] = IF x = 1 THEN seqs[x] ELSE first[x - 1] \o seqs[x]
      <4> SUFFICES ASSUME NEW x \in 1..n
                   PROVE  first[x] = IF x = 1 THEN seqs[x] ELSE first[x - 1] \o seqs[x]
        OBVIOUS
      <4>1. x = 1 \/ x - 1 \in 1..n
        BY <1>1
      <4> QED
        BY <2>2, <2>3, <4>1
    <3> QED
      BY <3>1
  <2>5. Flat(f)
    <3> HIDE DEF first, Flat
    <3> QED
      BY <2>4
  <2> HIDE DEF f
  <2> DEFINE S == {x \in Nat : x \in 1..n => f[x] = whole(x)}
  <2>6. 0 \in S
    OBVIOUS
  <2>7. ASSUME NEW x \in Nat, x \in S
        PROVE  x + 1 \in S
    <3> SUFFICES ASSUME x + 1 \in 1..n
                 PROVE  f[x + 1] = whole(x + 1)
      OBVIOUS
    <3>1. (x + 1) - 1 = x /\ (x + 1 # 1 => x \in 1..n)
      BY <1>1
    <3>2. f[x + 1] = IF x + 1 = 1 THEN seqs[x + 1] ELSE f[x] \o seqs[x + 1]
      BY <2>5, <3>1
    <3>3. whole(x + 1) = IF x + 1 = 1 THEN part(x + 1) ELSE whole(x) \o part(x + 1)
      BY <2>3, <3>1
    <3>4. seqs[x + 1] = part(x + 1)
      BY <2>2
    <3>5. x + 1 # 1 => f[x] = whole(x)
      BY <2>7, <3>1
    <3> QED
      BY <3>2, <3>3, <3>4, <3>5
  <2>8. \A x \in Nat : x \in S
    <3> HIDE DEF S
    <3> QED
      BY <2>6, <2>7, Induction
  <2>9. n \in 1..n
    BY <1>1, <1>5
  <2> QED
    BY <1>1, <2>1, <2>8, <2>9 DEF seqs, part, whole, n
<1> QED
  BY <1>1, <1>4, <1>5

-----------------------------------------------------------------------------
(***************************************************************************)
(* Bits and numbers                                                        *)
(***************************************************************************)

\* Quotient and remainder are determined by what they make up.
LEMMA QuotientAndRemainder ==
  ASSUME NEW n \in Int, NEW p \in Nat \ {0}
  PROVE  /\ n \div p \in Int /\ n % p \in 0..(p - 1)
         /\ n = p * (n \div p) + (n % p)
OBVIOUS

\* What has a quotient and a remainder has no others.
LEMMA RemainderOf ==
  ASSUME NEW n \in Int, NEW p \in Nat \ {0}, NEW q \in Int, NEW r \in 0..(p - 1),
         n = p * q + r
  PROVE  n % p = r /\ n \div p = q
OBVIOUS

\* The remainder of the double modulus has one more bit.
LEMMA NextBit ==
  ASSUME NEW n \in Int, NEW p \in Nat \ {0}
  PROVE  n % (2 * p) = (n % p) + (IF (n \div p) % 2 = 1 THEN p ELSE 0)
<1> DEFINE q == n \div p
           r == n % p
           a == q \div 2
           b == q % 2
<1>1. q \in Int /\ r \in 0..(p - 1) /\ n = p * q + r
  BY QuotientAndRemainder
<1>2. a \in Int /\ b \in 0..1 /\ q = 2 * a + b
  BY <1>1
<1> HIDE DEF q, r, a, b
<1>3. n = (2 * p) * a + (b * p + r)
  BY <1>1, <1>2
<1>4. b * p + r \in 0..(2 * p - 1) /\ 2 * p \in Nat \ {0}
  <2>1. b = 0 \/ b = 1
    BY <1>2
  <2> QED
    BY <1>1, <2>1
<1>5. n % (2 * p) = b * p + r
  BY <1>2, <1>3, <1>4, RemainderOf
<1>6. b * p = IF b = 1 THEN p ELSE 0
  BY <1>2
<1> QED
  BY <1>1, <1>5, <1>6 DEF q, r, b

\* The bits up to width of an integer are those of its remainder.
LEMMA PatternStandsFor ==
  ASSUME NEW n \in Int, NEW width \in Nat
  PROVE  Unsigned(Pattern(n, width), width) = n % 2^width
<1> DEFINE w == [b \in 1..width |-> IF b - 1 \in Pattern(n, width) THEN 2^(b - 1) ELSE 0]
<1>1. ASSUME NEW b \in 1..width
      PROVE  /\ b - 1 \in Nat /\ 2^(b - 1) \in Nat \ {0}
             /\ w[b] = IF (n \div 2^(b - 1)) % 2 = 1 THEN 2^(b - 1) ELSE 0
  <2>1. b - 1 \in 0..(width - 1) /\ b - 1 \in Nat
    OBVIOUS
  <2>2. 2^(b - 1) \in Nat \ {0}
    BY <2>1, PowerPositive
  <2>3. b - 1 \in Pattern(n, width) <=> (n \div 2^(b - 1)) % 2 = 1
    BY <2>1 DEF Pattern
  <2> QED
    BY <2>1, <2>2, <2>3
<1> HIDE DEF w
<1>2. /\ Total(w, 0) = 0
      /\ \A b \in 1..width : Total(w, b) = Total(w, b - 1) + w[b]
  <2>1. \A b \in 1..width : w[b] \in Int
    BY <1>1
  <2> QED
    BY <2>1, TotalAdds
<1> DEFINE S == {b \in Nat : b <= width => Total(w, b) = n % 2^b}
<1>3. 0 \in S
  <2>1. 2^0 = 1
    OBVIOUS
  <2>2. n % 1 = 0
    OBVIOUS
  <2> QED
    BY <1>2, <2>1, <2>2
<1>4. ASSUME NEW b \in Nat, b \in S
      PROVE  b + 1 \in S
  <2> SUFFICES ASSUME b + 1 <= width
               PROVE  Total(w, b + 1) = n % 2^(b + 1)
    OBVIOUS
  <2>1. b + 1 \in 1..width /\ (b + 1) - 1 = b
    OBVIOUS
  <2>2. Total(w, b) = n % 2^b
    BY <1>4
  <2>3. Total(w, b + 1) = Total(w, b) + w[b + 1]
    BY <1>2, <2>1
  <2>4. w[b + 1] = (IF (n \div 2^b) % 2 = 1 THEN 2^b ELSE 0) /\ 2^b \in Nat \ {0}
    BY <1>1, <2>1
  <2>5. n % (2 * 2^b) = (n % 2^b) + (IF (n \div 2^b) % 2 = 1 THEN 2^b ELSE 0)
    BY <2>4, NextBit
  <2>6. 2^(b + 1) = 2 * 2^b
    BY PowerDoubles
  <2> QED
    BY <2>2, <2>3, <2>4, <2>5, <2>6
<1>5. \A b \in Nat : b \in S
  <2> HIDE DEF S
  <2> QED
    BY <1>3, <1>4, Induction
<1> QED
  BY <1>5 DEF Unsigned, w

\* What bits stand for is a number.
LEMMA NumberType ==
  /\ \A bits : \A width \in Nat : Unsigned(bits, width) \in Nat
  /\ \A bits : \A type \in DataType : Number(bits, type) \in Int
<1>1. ASSUME NEW bits, NEW width \in Nat
      PROVE  Unsigned(bits, width) \in Nat
  <2> DEFINE w == [b \in 1..width |-> IF b - 1 \in bits THEN 2^(b - 1) ELSE 0]
  <2>1. \A b \in 1..width : w[b] \in Nat
    <3> SUFFICES ASSUME NEW b \in 1..width
                 PROVE  w[b] \in Nat
      OBVIOUS
    <3>1. b - 1 \in Nat
      OBVIOUS
    <3>2. 2^(b - 1) \in Nat
      BY <3>1, PowerPositive
    <3> QED
      BY <3>2
  <2> HIDE DEF w
  <2>2. width \in 0..width
    OBVIOUS
  <2> QED
    BY <2>1, <2>2, TotalGrows DEF Unsigned, w
<1>2. ASSUME NEW bits, NEW type \in DataType
      PROVE  Number(bits, type) \in Int
  <2>1. type.bits \in Nat
    BY DEF DataType
  <2>2. 2^type.bits \in Nat /\ Unsigned(bits, type.bits) \in Nat
    BY <1>1, <2>1, PowerPositive
  <2> QED
    BY <2>2 DEF Number
<1> QED
  BY <1>1, <1>2

\* The bits of a number of a type stand for it.
LEMMA NumberOfPattern ==
  ASSUME NEW n \in Int, NEW type \in DataType, IsInteger(type), InRange(n, type)
  PROVE  Number(Pattern(n, type.bits), type) = n
<1> DEFINE top == type.bits - 1
           h == 2^top
<1>1. type.bits \in Nat /\ top \in Nat /\ top + 1 = type.bits /\ top \in 0..(type.bits - 1)
  BY DEF DataType
<1>2. h \in Nat \ {0} /\ 2^type.bits = 2 * h
  <2>1. 2^(top + 1) = 2 * 2^top
    BY <1>1, PowerDoubles
  <2> QED
    BY <1>1, <2>1, PowerPositive
<1>3. Unsigned(Pattern(n, type.bits), type.bits) = n % (2 * h)
  BY <1>1, <1>2, PatternStandsFor
<1>4. top \in Pattern(n, type.bits) <=> (n \div h) % 2 = 1
  BY <1>1 DEF Pattern
<1>5. CASE type.kind = "int"
  <2>1. -h <= n /\ n < h
    <3>1. n \in (-h)..(h - 1)
      BY <1>5 DEF InRange
    <3> HIDE DEF h
    <3> QED
      BY <1>2, <3>1
  <2>2. Number(Pattern(n, type.bits), type)
          = (n % (2 * h)) - (IF (n \div h) % 2 = 1 THEN 2 * h ELSE 0)
    BY <1>2, <1>3, <1>4, <1>5 DEF Number
  <2> HIDE DEF h
  <2>3. CASE 0 <= n
    <3>1. n = h * 0 + n /\ n = (2 * h) * 0 + n /\ n \in 0..(h - 1) /\ n \in 0..(2 * h - 1)
      BY <1>2, <2>1, <2>3
    <3>2. n \div h = 0
      <4>1. \A p \in Nat \ {0} : \A m \in 0..(p - 1) : m \div p = 0
        OBVIOUS
      <4> QED
        BY <1>2, <3>1, <4>1
    <3>3. 2 * h \in Nat \ {0}
      BY <1>2
    <3>4. n % (2 * h) = n
      BY <3>1, <3>3, RemainderOf
    <3> QED
      BY <2>2, <3>2, <3>4
  <2>4. CASE n < 0
    <3>1. /\ n = h * (-1) + (n + h) /\ n = (2 * h) * (-1) + (n + 2 * h)
          /\ n + h \in 0..(h - 1) /\ n + 2 * h \in 0..(2 * h - 1)
      BY <1>2, <2>1, <2>4
    <3>2. n \div h = -1
      BY <1>2, <3>1, RemainderOf
    <3>3. 2 * h \in Nat \ {0} /\ n + 2 * h \in 0..(2 * h - 1) /\ -1 \in Int
      BY <1>2, <3>1
    <3>4. n % (2 * h) = n + 2 * h
      BY <3>1, <3>3, RemainderOf
    <3>5. (-1) % 2 = 1
      <4>1. -1 = 2 * (-1) + 1 /\ -1 \in Int /\ 1 \in 0..(2 - 1) /\ 2 \in Nat \ {0}
        OBVIOUS
      <4> QED
        BY <4>1, RemainderOf
    <3> QED
      BY <1>2, <2>2, <3>2, <3>4, <3>5
  <2> QED
    BY <2>3, <2>4
<1>6. CASE type.kind # "int"
  <2>1. 0 <= n /\ n < 2 * h
    <3>1. n \in 0..(2 * h - 1)
      BY <1>2, <1>6 DEF InRange
    <3> HIDE DEF h
    <3> QED
      BY <1>2, <3>1
  <2>2. Number(Pattern(n, type.bits), type) = n % (2 * h)
    <3>1. n % (2 * h) \in Int
      BY <1>2
    <3> QED
      BY <1>3, <1>6, <3>1 DEF Number
  <2> HIDE DEF h
  <2>3. n = (2 * h) * 0 + n /\ n \in 0..(2 * h - 1)
    BY <1>2, <2>1
  <2>4. n % (2 * h) = n
    BY <1>2, <2>3, RemainderOf
  <2> QED
    BY <2>2, <2>4
<1> QED
  BY <1>5, <1>6

-----------------------------------------------------------------------------
(***************************************************************************)
(* Sequences of any elements                                               *)
(***************************************************************************)

IsSequence(s) == s \in Seq(ToSet(s))

\* A sequence is a function on the numbers up to its length.
LEMMA SequenceShape ==
  ASSUME NEW s, IsSequence(s)
  PROVE  /\ Len(s) \in Nat /\ DOMAIN s = 1..Len(s)
         /\ s = <<>> <=> Len(s) = 0
<1>1. Len(s) \in Nat /\ DOMAIN s = 1..Len(s)
  BY LenProperties DEF IsSequence
<1>2. s = <<>> <=> Len(s) = 0
  BY EmptySeq DEF IsSequence
<1> QED
  BY <1>1, <1>2

\* A sequence over some set is a sequence.
LEMMA SequenceOver ==
  ASSUME NEW S, NEW s \in Seq(S)
  PROVE  IsSequence(s)
<1>1. Len(s) \in Nat /\ s \in [1..Len(s) -> S] /\ DOMAIN s = 1..Len(s)
  BY LenProperties
<1> DEFINE n == Len(s)
           e(x) == s[x]
<1>2. \A x \in 1..n : e(x) \in ToSet(s)
  BY <1>1 DEF ToSet
<1>3. [x \in 1..n |-> e(x)] \in Seq(ToSet(s))
  <2> HIDE DEF n, e
  <2>1. n \in Nat
    BY <1>1 DEF n
  <2> QED
    BY <1>2, <2>1, IsASeq
<1> QED
  BY <1>1, <1>3 DEF IsSequence

\* A function on the numbers up to n is a sequence of length n.
LEMMA SequenceFrom ==
  ASSUME NEW n \in Nat, NEW s, s = [x \in 1..n |-> s[x]]
  PROVE  IsSequence(s) /\ Len(s) = n
<1>1. DOMAIN s = 1..n
  OBVIOUS
<1> DEFINE e(x) == s[x]
<1>2. \A x \in 1..n : e(x) \in ToSet(s)
  BY <1>1 DEF ToSet
<1>3. [x \in 1..n |-> e(x)] \in Seq(ToSet(s))
  <2> HIDE DEF e
  <2> QED
    BY <1>2, IsASeq
<1>4. IsSequence(s)
  BY <1>3 DEF IsSequence
<1>5. 1..Len(s) = 1..n /\ Len(s) \in Nat
  BY <1>1, <1>4, SequenceShape
<1> QED
  BY <1>4, <1>5

\* What Append makes of a sequence.
LEMMA AppendTo ==
  ASSUME NEW s, IsSequence(s), NEW e
  PROVE  /\ IsSequence(Append(s, e))
         /\ Len(Append(s, e)) = Len(s) + 1
         /\ \A x \in 1..Len(s) : Append(s, e)[x] = s[x]
         /\ Append(s, e)[Len(s) + 1] = e
<1> DEFINE S == ToSet(s) \cup {e}
<1>1. s \in Seq(S) /\ e \in S
  <2>1. s \in Seq(ToSet(s)) /\ ToSet(s) \subseteq S
    BY DEF IsSequence
  <2> HIDE DEF S
  <2> QED
    BY <2>1, SeqMonotonic DEF S
<1> HIDE DEF S
<1>2. /\ Append(s, e) \in Seq(S)
      /\ Len(Append(s, e)) = Len(s) + 1
      /\ \A x \in 1..Len(s) : Append(s, e)[x] = s[x]
      /\ Append(s, e)[Len(s) + 1] = e
  BY <1>1, AppendProperties
<1>3. IsSequence(Append(s, e))
  BY <1>2, SequenceOver
<1> QED
  BY <1>2, <1>3

\* What concatenation makes of two sequences.
LEMMA ConcatOf ==
  ASSUME NEW s, IsSequence(s), NEW t, IsSequence(t)
  PROVE  /\ IsSequence(s \o t)
         /\ Len(s \o t) = Len(s) + Len(t)
         /\ \A x \in 1..Len(s) : (s \o t)[x] = s[x]
         /\ \A x \in 1..Len(t) : (s \o t)[Len(s) + x] = t[x]
<1> DEFINE S == ToSet(s) \cup ToSet(t)
<1>1. s \in Seq(S) /\ t \in Seq(S)
  <2>1. s \in Seq(ToSet(s)) /\ t \in Seq(ToSet(t)) /\ ToSet(s) \subseteq S /\ ToSet(t) \subseteq S
    BY DEF IsSequence
  <2> HIDE DEF S
  <2> QED
    BY <2>1, SeqMonotonic
<1> HIDE DEF S
<1>2. /\ s \o t \in Seq(S)
      /\ Len(s \o t) = Len(s) + Len(t)
      /\ \A x \in 1..(Len(s) + Len(t)) : (s \o t)[x] = IF x <= Len(s) THEN s[x] ELSE t[x - Len(s)]
  BY <1>1, ConcatProperties
<1>3. Len(s) \in Nat /\ Len(t) \in Nat
  BY SequenceShape
<1>4. \A x \in 1..Len(t) : (s \o t)[Len(s) + x] = t[x]
  <2> SUFFICES ASSUME NEW x \in 1..Len(t)
               PROVE  (s \o t)[Len(s) + x] = t[x]
    OBVIOUS
  <2>1. Len(s) + x \in 1..(Len(s) + Len(t)) /\ ~(Len(s) + x <= Len(s)) /\ (Len(s) + x) - Len(s) = x
    BY <1>3
  <2> QED
    BY <1>2, <2>1
<1>5. \A x \in 1..Len(s) : (s \o t)[x] = s[x]
  BY <1>2, <1>3
<1> QED
  BY <1>2, <1>4, <1>5, SequenceOver

\* The beginning of a sequence.
LEMMA PrefixOf ==
  ASSUME NEW s, IsSequence(s), NEW n \in 0..Len(s)
  PROVE  /\ IsSequence(SubSeq(s, 1, n))
         /\ Len(SubSeq(s, 1, n)) = n
         /\ \A x \in 1..n : SubSeq(s, 1, n)[x] = s[x]
<1>1. Len(s) \in Nat /\ DOMAIN s = 1..Len(s)
  BY SequenceShape
<1>2. \A x \in 1..n : s[x] \in ToSet(s)
  BY <1>1 DEF ToSet
<1>3. /\ SubSeq(s, 1, n) \in Seq(ToSet(s))
      /\ Len(SubSeq(s, 1, n)) = IF 1 <= n THEN n - 1 + 1 ELSE 0
      /\ \A x \in 1..(n - 1 + 1) : SubSeq(s, 1, n)[x] = s[1 + x - 1]
  <2>1. 1 \in Int /\ n \in Int
    OBVIOUS
  <2> QED
    BY <1>2, <2>1, SubSeqProperties
<1>4. IsSequence(SubSeq(s, 1, n))
  BY <1>3, SequenceOver
<1>5. n \in Nat /\ n - 1 + 1 = n /\ (IF 1 <= n THEN n - 1 + 1 ELSE 0) = n
  BY <1>1
<1>6. \A x \in 1..n : x \in 1..(n - 1 + 1) /\ 1 + x - 1 = x
  BY <1>5
<1> QED
  BY <1>3, <1>4, <1>5, <1>6

-----------------------------------------------------------------------------
(***************************************************************************)
(* Configurations and the plugins they make                                *)
(***************************************************************************)

\* What the configurations in scope are.
LEMMA Configured ==
  ASSUME NEW s \in Setups
  PROVE  /\ IsSequence(s.modules) /\ Len(s.modules) \in Nat \ {0}
         /\ DOMAIN s.modules = 1..Len(s.modules)
         /\ \E m \in DOMAIN s.modules : ~s.modules[m].refused
         /\ \A m \in DOMAIN s.modules :
              /\ s.modules[m].component \in DOMAIN s.components
              /\ WellConfigured(s.modules[m])
              /\ \A n \in DOMAIN s.modules : OneSource(s, m, n)
         /\ \A k \in DOMAIN s.components :
              /\ s.components[k] \in ComponentType
              /\ \A name \in ToSet(s.components[k].commands) : CommandValues[name] \subseteq Double
<1>1. WellFormed(s)
  BY SetupsAssumption
<1>2. IsSequence(s.modules) /\ s.modules # <<>>
  BY <1>1 DEF WellFormed, IsSequence
<1>3. Len(s.modules) \in Nat \ {0} /\ DOMAIN s.modules = 1..Len(s.modules)
  <2> DEFINE t == s.modules
  <2>1. IsSequence(t) /\ t # <<>>
    BY <1>2
  <2> HIDE DEF t
  <2>2. Len(t) \in Nat \ {0} /\ DOMAIN t = 1..Len(t)
    BY <2>1, SequenceShape
  <2> QED
    BY <2>2 DEF t
<1> QED
  BY <1>1, <1>2, <1>3 DEF WellFormed

\* The direction of a channel, and its place in the list of that direction.
DirectionOf(config, c) == IF c <= Len(config.rpdo) THEN "rpdo" ELSE "tpdo"

PlaceOf(config, c) == IF c <= Len(config.rpdo) THEN c ELSE c - Len(config.rpdo)

\* The channels of a configuration are those of its two lists.
LEMMA ChannelsOfLists ==
  ASSUME NEW config \in ConfigType
  PROVE  /\ \A pdo \in Directions :
              /\ config[pdo] \in Seq(EntryType) /\ Len(config[pdo]) \in Nat
              /\ DOMAIN config[pdo] = 1..Len(config[pdo])
         /\ config.rpdo = config["rpdo"] /\ config.tpdo = config["tpdo"]
         /\ AllChannels(config) \in Seq(EntryType)
         /\ Len(AllChannels(config)) = Len(config.rpdo) + Len(config.tpdo)
         /\ DOMAIN AllChannels(config) = 1..(Len(config.rpdo) + Len(config.tpdo))
         /\ \A c \in DOMAIN AllChannels(config) :
              /\ DirectionOf(config, c) \in Directions
              /\ PlaceOf(config, c) \in DOMAIN config[DirectionOf(config, c)]
              /\ AllChannels(config)[c] = config[DirectionOf(config, c)][PlaceOf(config, c)]
              /\ AllChannels(config)[c] \in EntryType
         /\ \A c \in DOMAIN config.rpdo : AllChannels(config)[c] = config.rpdo[c]
         /\ \A c \in DOMAIN config.tpdo :
              AllChannels(config)[Len(config.rpdo) + c] = config.tpdo[c]
<1> DEFINE out == config.rpdo
           in == config.tpdo
           all == out \o in
<1>1. out \in Seq(EntryType) /\ in \in Seq(EntryType) /\ AllChannels(config) = all
  BY DEF ConfigType, AllChannels
<1>2. config["rpdo"] = out /\ config["tpdo"] = in
  BY DEF ConfigType
<1> HIDE DEF out, in
<1>3. /\ Len(out) \in Nat /\ DOMAIN out = 1..Len(out)
      /\ Len(in) \in Nat /\ DOMAIN in = 1..Len(in)
  BY <1>1, LenProperties
<1>4. /\ all \in Seq(EntryType) /\ Len(all) = Len(out) + Len(in)
      /\ DOMAIN all = 1..(Len(out) + Len(in))
  BY <1>1, <1>3, ConcatProperties, LenProperties
<1>5. \A c \in 1..(Len(out) + Len(in)) :
        all[c] = IF c <= Len(out) THEN out[c] ELSE in[c - Len(out)]
  BY <1>1, <1>3, ConcatProperties
<1>6. \A c \in 1..(Len(out) + Len(in)) : all[c] \in EntryType
  <2> SUFFICES ASSUME NEW c \in 1..(Len(out) + Len(in))
               PROVE  all[c] \in EntryType
    OBVIOUS
  <2>1. c \in 1..Len(all)
    BY <1>4
  <2> HIDE DEF all
  <2> QED
    BY <1>4, <2>1, ElementOfSeq
<1> HIDE DEF all
<1>7. ASSUME NEW c \in 1..(Len(out) + Len(in))
      PROVE  /\ DirectionOf(config, c) \in Directions
             /\ PlaceOf(config, c) \in DOMAIN config[DirectionOf(config, c)]
             /\ all[c] = config[DirectionOf(config, c)][PlaceOf(config, c)]
  <2>1. CASE c <= Len(out)
    <3>1. DirectionOf(config, c) = "rpdo" /\ PlaceOf(config, c) = c /\ c \in 1..Len(out)
      BY <1>3, <2>1 DEF DirectionOf, PlaceOf, out
    <3> QED
      BY <1>2, <1>3, <1>5, <2>1, <3>1 DEF Directions
  <2>2. CASE ~(c <= Len(out))
    <3>1. DirectionOf(config, c) = "tpdo" /\ PlaceOf(config, c) = c - Len(out)
      BY <2>2 DEF DirectionOf, PlaceOf, out
    <3>2. c - Len(out) \in 1..Len(in)
      BY <1>3, <2>2
    <3> QED
      BY <1>2, <1>3, <1>5, <2>2, <3>1, <3>2 DEF Directions
  <2> QED
    BY <2>1, <2>2
<1>8. \A pdo \in Directions : /\ config[pdo] \in Seq(EntryType) /\ Len(config[pdo]) \in Nat
                              /\ DOMAIN config[pdo] = 1..Len(config[pdo])
  BY <1>1, <1>2, <1>3 DEF Directions
<1>9. \A c \in DOMAIN out : all[c] = out[c]
  BY <1>3, <1>5
<1>10. \A c \in DOMAIN in : all[Len(out) + c] = in[c]
  <2> SUFFICES ASSUME NEW c \in 1..Len(in)
               PROVE  all[Len(out) + c] = in[c]
    BY <1>3
  <2>1. Len(out) + c \in 1..(Len(out) + Len(in)) /\ ~(Len(out) + c <= Len(out))
    BY <1>3
  <2>2. (Len(out) + c) - Len(out) = c
    BY <1>3
  <2> QED
    BY <1>5, <2>1, <2>2
<1> QED
  BY <1>1, <1>2, <1>4, <1>6, <1>7, <1>8, <1>9, <1>10 DEF out, in

\* The channels of a plugin, and its registrations: one for every object.
LEMMA PluginChannels ==
  ASSUME NEW s \in Setups, NEW m \in DOMAIN s.modules
  PROVE  LET config == s.modules[m].config
             all == AllChannels(config)
             plugin == Plugin(s, m)
             map == plugin.domain_map
         IN  /\ config \in ConfigType
             /\ plugin.all_channels = all
             /\ \A c \in DOMAIN all :
                  plugin.channels[c] =
                    PdoChannel(all[c], IF c <= Len(config.rpdo) THEN "RPDO" ELSE "TPDO",
                               s.components[s.modules[m].component])
             /\ Len(map) \in Nat \ {0} /\ DOMAIN map = 1..Len(map)
             /\ \A x \in 1..Len(map) : map[x] \in DOMAIN all /\ all[map[x]].object # 0
             /\ \A c \in DOMAIN all :
                  all[c].object # 0 => \E x \in 1..Len(map) : map[x] = c
             /\ \A x, y \in 1..Len(map) : map[x] = map[y] => x = y
<1> DEFINE config == s.modules[m].config
           all == AllChannels(config)
           plugin == Plugin(s, m)
           map == plugin.domain_map
           S == {c \in DOMAIN all : all[c].object # 0}
<1>1. config \in ConfigType /\ \E c \in DOMAIN all : all[c].object # 0
  BY Configured DEF WellConfigured
<1>2. /\ plugin.all_channels = all
      /\ map = Increasing(S)
      /\ \A c \in DOMAIN all :
           plugin.channels[c] =
             PdoChannel(all[c], IF c <= Len(config.rpdo) THEN "RPDO" ELSE "TPDO",
                        s.components[s.modules[m].component])
  BY DEF Plugin, domain_map
<1> HIDE DEF config, plugin, map
<1>3. DOMAIN all = 1..Len(all) /\ Len(all) \in Nat
  <2>1. all \in Seq(EntryType)
    BY <1>1, ChannelsOfLists
  <2> HIDE DEF all
  <2> QED
    BY <2>1, LenProperties
<1> HIDE DEF all
<1>4. S \in SUBSET (1..Len(all))
  BY <1>3
<1>5. /\ Cardinality(S) \in Nat /\ map \in [1..Cardinality(S) -> S]
      /\ Rises(map)
      /\ \A c \in S : \E x \in 1..Cardinality(S) : map[x] = c
  <2> HIDE DEF S
  <2> QED
    BY <1>2, <1>3, <1>4, IncreasingEnumerates
<1>6. Len(map) = Cardinality(S) /\ DOMAIN map = 1..Cardinality(S)
  <2> HIDE DEF S
  <2>1. map = [x \in 1..Cardinality(S) |-> map[x]]
    BY <1>5
  <2> QED
    BY <1>5, <2>1, SequenceFrom
<1>7. Cardinality(S) # 0
  BY <1>1, <1>5
<1>8. \A x, y \in 1..Len(map) : map[x] = map[y] => x = y
  <2> SUFFICES ASSUME NEW x \in 1..Len(map), NEW y \in 1..Len(map), map[x] = map[y]
               PROVE  x = y
    OBVIOUS
  <2>1. map[x] \in S /\ map[y] \in S
    BY <1>5, <1>6
  <2>2. map[x] \in Int /\ map[y] \in Int
    BY <1>4, <2>1
  <2>3. ~(map[x] < map[y]) /\ ~(map[y] < map[x])
    BY <2>2
  <2>4. x < y => map[x] < map[y]
    BY <1>5, <1>6 DEF Rises
  <2>5. y < x => map[y] < map[x]
    BY <1>5, <1>6 DEF Rises
  <2> QED
    BY <1>5, <1>6, <2>3, <2>4, <2>5
<1> QED
  BY <1>1, <1>2, <1>5, <1>6, <1>7, <1>8 DEF config, all, plugin, map

\* A slave maps all entries of a direction that its sync managers carry.
LEMMA MappedList ==
  ASSUME NEW s \in Setups, NEW m \in DOMAIN s.modules
  PROVE  LET config == s.modules[m].config
             plugin == Plugin(s, m)
         IN  /\ MappedEntries(plugin, "rpdo", plugin.rpdos)
                  = IF "rpdo" \in plugin.syncs THEN config.rpdo ELSE <<>>
             /\ MappedEntries(plugin, "tpdo", plugin.tpdos)
                  = IF "tpdo" \in plugin.syncs THEN config.tpdo ELSE <<>>
<1> DEFINE config == s.modules[m].config
           all == AllChannels(config)
           plugin == Plugin(s, m)
           out == config.rpdo
           in == config.tpdo
<1>1. /\ config \in ConfigType
      /\ Total(config.rpdos, Len(config.rpdos)) = Len(out)
      /\ Total(config.tpdos, Len(config.tpdos)) = Len(in)
  BY Configured DEF WellConfigured
<1>2. /\ config.rpdos \in Seq(Nat) /\ config.tpdos \in Seq(Nat)
      /\ out \in Seq(EntryType) /\ in \in Seq(EntryType)
  BY <1>1 DEF ConfigType
<1>3. /\ plugin.all_channels = all
      /\ plugin.rpdos = PdoInfo(config, config.rpdos, 0)
      /\ plugin.tpdos = PdoInfo(config, config.tpdos, Len(out))
  BY DEF Plugin
<1> HIDE DEF config, plugin
<1>4. /\ all \in Seq(EntryType) /\ Len(all) = Len(out) + Len(in)
      /\ Len(out) \in Nat /\ Len(in) \in Nat
  BY <1>1, ChannelsOfLists, LenProperties, <1>2
<1>5. /\ SubSeq(all, 1, Len(out)) = out
      /\ SubSeq(all, Len(out) + 1, Len(out) + Len(in)) = in
  <2>1. IsSequence(out) /\ IsSequence(in)
    BY <1>2, SequenceOver
  <2>2. all = out \o in
    BY DEF AllChannels
  <2> HIDE DEF all, out, in
  <2>3. /\ \A x \in 1..Len(out) : all[x] = out[x]
        /\ \A x \in 1..Len(in) : all[Len(out) + x] = in[x]
    BY <2>1, <2>2, ConcatOf
  <2>4. SubSeq(all, 1, Len(out)) = out
    <3>1. IsSequence(all) /\ Len(out) \in 0..Len(all)
      BY <1>4, SequenceOver
    <3>2. /\ SubSeq(all, 1, Len(out)) \in Seq(EntryType) /\ Len(SubSeq(all, 1, Len(out))) = Len(out)
          /\ \A x \in 1..Len(out) : SubSeq(all, 1, Len(out))[x] = all[x]
      <4>1. \A x \in 1..Len(out) : all[x] \in EntryType
        <5> SUFFICES ASSUME NEW x \in 1..Len(out)
                     PROVE  all[x] \in EntryType
          OBVIOUS
        <5>1. x \in 1..Len(all)
          BY <1>4
        <5> QED
          BY <1>4, <5>1, ElementOfSeq
      <4>2. SubSeq(all, 1, Len(out)) \in Seq(EntryType)
        <5>1. 1 \in Int /\ Len(out) \in Int
          BY <1>4
        <5> QED
          BY <4>1, <5>1, SubSeqProperties
      <4> QED
        BY <3>1, <4>2, PrefixOf
    <3> QED
      BY <1>2, <2>3, <3>2, SeqEqual
  <2>5. SubSeq(all, Len(out) + 1, Len(out) + Len(in)) = in
    <3> DEFINE a == Len(out) + 1
               b == Len(out) + Len(in)
               sub == SubSeq(all, a, b)
    <3>1. a \in Int /\ b \in Int /\ b - a + 1 = Len(in)
      BY <1>4
    <3>2. \A x \in a..b : all[x] \in EntryType
      <4> SUFFICES ASSUME NEW x \in a..b
                   PROVE  all[x] \in EntryType
        OBVIOUS
      <4>1. x \in 1..Len(all)
        BY <1>4
      <4> QED
        BY <1>4, <4>1, ElementOfSeq
    <3>3. a <= b <=> Len(in) >= 1
      BY <1>4
    <3>4. \A x \in 1..Len(in) : a + x - 1 = Len(out) + x
      BY <1>4
    <3> HIDE DEF a, b
    <3>5. /\ sub \in Seq(EntryType)
          /\ Len(sub) = IF a <= b THEN b - a + 1 ELSE 0
          /\ \A x \in 1..(b - a + 1) : sub[x] = all[a + x - 1]
      BY <3>1, <3>2, SubSeqProperties
    <3>6. Len(sub) = Len(in)
      BY <1>4, <3>1, <3>3, <3>5
    <3>7. \A x \in 1..Len(in) : sub[x] = in[x]
      BY <2>3, <3>1, <3>4, <3>5
    <3> HIDE DEF sub
    <3>8. sub = in
      BY <1>2, <3>5, <3>6, <3>7, SeqEqual
    <3> QED
      BY <3>8 DEF sub, a, b
  <2> QED
    BY <2>4, <2>5
<1>6. ASSUME NEW sizes \in Seq(Nat), NEW before \in Nat,
             before + Total(sizes, Len(sizes)) <= Len(all)
      PROVE  LET pdos == PdoInfo(config, sizes, before)
             IN  FlattenSeq([p \in DOMAIN pdos |->
                   IF pdos[p].dangles THEN <<>>
                   ELSE SubSeq(all, pdos[p].first + 1, pdos[p].first + pdos[p].n)])
                 = SubSeq(all, before + 1, before + Total(sizes, Len(sizes)))
  <2> DEFINE pdos == PdoInfo(config, sizes, before)
             f(p) == IF pdos[p].dangles THEN <<>>
                     ELSE SubSeq(all, pdos[p].first + 1, pdos[p].first + pdos[p].n)
             g(p) == SubSeq(all, before + Total(sizes, p - 1) + 1,
                                 before + Total(sizes, p - 1) + sizes[p])
  <2>1. DOMAIN pdos = DOMAIN sizes
    BY DEF PdoInfo
  <2>2. \A p \in DOMAIN sizes : /\ pdos[p].n = sizes[p]
                                /\ pdos[p].first = before + Total(sizes, p - 1)
                                /\ ~pdos[p].dangles
    <3> SUFFICES ASSUME NEW p \in DOMAIN sizes
                 PROVE  /\ pdos[p].n = sizes[p]
                        /\ pdos[p].first = before + Total(sizes, p - 1)
                        /\ ~pdos[p].dangles
      OBVIOUS
    <3>1. ~(Len(out) + Len(in) > Len(out) + Len(in))
      <4> HIDE DEF out, in
      <4> QED
        BY <1>4
    <3>2. pdos[p].dangles = (/\ Len(out) + Len(in) > Len(out) + Len(in)
                             /\ before + Total(sizes, p - 1) + sizes[p] <= Len(out) + Len(in))
      BY DEF PdoInfo, reserved
    <3>3. ~pdos[p].dangles
      BY <3>1, <3>2
    <3> QED
      BY <3>3 DEF PdoInfo
  <2>3. \A p \in DOMAIN sizes : f(p) = g(p)
    <3> HIDE DEF pdos
    <3> QED
      BY <2>2
  <2> HIDE DEF f, g, pdos
  <2>4. [p \in DOMAIN pdos |-> f(p)] = [p \in DOMAIN sizes |-> g(p)]
    BY <2>1, <2>3
  <2>5. FlattenSeq([p \in DOMAIN sizes |-> g(p)])
          = SubSeq(all, before + 1, before + Total(sizes, Len(sizes)))
    <3> HIDE DEF all
    <3> QED
      BY <1>4, <1>6, FlattenSizes DEF g
  <2> QED
    BY <2>4, <2>5 DEF f, pdos
<1>7. MappedEntries(plugin, "rpdo", plugin.rpdos)
        = IF "rpdo" \in plugin.syncs THEN out ELSE <<>>
  <2>1. 0 + Total(config.rpdos, Len(config.rpdos)) = Len(out) /\ Len(out) <= Len(all) /\ 0 + 1 = 1
    <3> DEFINE t == Total(config.rpdos, Len(config.rpdos))
    <3>1. t = Len(out)
      BY <1>1
    <3> HIDE DEF t, out, in, all
    <3>2. 0 + t = Len(out) /\ Len(out) <= Len(all) /\ 0 + 1 = 1
      BY <1>4, <3>1
    <3> QED
      BY <3>2 DEF t
  <2>2. SubSeq(all, 0 + 1, 0 + Total(config.rpdos, Len(config.rpdos))) = out
    BY <1>5, <2>1
  <2> HIDE DEF all, out, in
  <2> QED
    BY <1>2, <1>3, <1>6, <2>1, <2>2 DEF MappedEntries
<1>8. MappedEntries(plugin, "tpdo", plugin.tpdos)
        = IF "tpdo" \in plugin.syncs THEN in ELSE <<>>
  <2>1. Len(out) + Total(config.tpdos, Len(config.tpdos)) = Len(out) + Len(in) /\ Len(out) + Len(in) <= Len(all)
    BY <1>1, <1>4
  <2> HIDE DEF all, out, in
  <2> QED
    BY <1>2, <1>3, <1>4, <1>5, <1>6, <2>1 DEF MappedEntries
<1> QED
  BY <1>7, <1>8 DEF plugin, config

-----------------------------------------------------------------------------
(***************************************************************************)
(* Entries, bytes and directions                                           *)
(***************************************************************************)

\* Entries lie one after the other within the bytes of their direction.
LEMMA EntriesFollow ==
  ASSUME NEW list \in Seq(EntryType)
  PROVE  /\ Bytes(list) \in Nat
         /\ \A c \in 1..Len(list) :
              /\ BitsBefore(list, c) \in Nat /\ list[c].type.bits \in Nat \ {0}
              /\ BitsBefore(list, c) + list[c].type.bits <= Bytes(list) * ByteBits
         /\ \A c, d \in 1..Len(list) :
              c < d => BitsBefore(list, c) + list[c].type.bits <= BitsBefore(list, d)
<1> DEFINE w == [x \in DOMAIN list |-> list[x].type.bits]
           N == Len(list)
           T(n) == Total(w, n)
<1>1. N \in Nat /\ DOMAIN list = 1..N
  BY LenProperties
<1>2. \A x \in 1..N : w[x] = list[x].type.bits /\ w[x] \in Nat \ {0}
  <2> SUFFICES ASSUME NEW x \in 1..N
               PROVE  w[x] = list[x].type.bits /\ w[x] \in Nat \ {0}
    OBVIOUS
  <2>1. list[x] \in EntryType
    BY ElementOfSeq
  <2>2. list[x].type \in DataType
    BY <2>1 DEF EntryType
  <2>3. list[x].type.bits \in Nat \ {0}
    BY <2>2 DEF DataType
  <2> QED
    BY <1>1, <2>3
<1> HIDE DEF w, N
<1>3. /\ \A n \in 0..N : T(n) \in Nat
      /\ \A n \in 0..N : \A m \in 0..n : T(m) <= T(n)
  <2>1. \A x \in 1..N : w[x] \in Nat
    BY <1>2
  <2> QED
    BY <1>1, <2>1, TotalGrows
<1>4. \A n \in 1..N : T(n) = T(n - 1) + w[n]
  <2>1. \A x \in 1..N : w[x] \in Int
    BY <1>2
  <2> QED
    BY <1>1, <2>1, TotalAdds
<1>5. \A c : BitsBefore(list, c) = T(c - 1)
  BY DEF BitsBefore, w
<1>6. Bytes(list) = (T(N) + ByteBits - 1) \div ByteBits
  <2>1. (N + 1) - 1 = N
    BY <1>1
  <2> QED
    BY <1>5, <2>1 DEF Bytes, N
<1>7. N \in 0..N /\ ByteBits \in Nat \ {0}
  BY <1>1, UnitAssumption
<1> HIDE DEF T
<1>8. Bytes(list) \in Nat /\ T(N) <= Bytes(list) * ByteBits /\ Bytes(list) * ByteBits \in Nat
  <2>1. \A n \in Nat : \A k \in Nat \ {0} :
          (n + k - 1) \div k \in Nat /\ n <= ((n + k - 1) \div k) * k
    OBVIOUS
  <2>2. T(N) \in Nat
    BY <1>3, <1>7
  <2>3. Bytes(list) \in Nat /\ T(N) <= Bytes(list) * ByteBits
    BY <1>6, <1>7, <2>1, <2>2
  <2> QED
    BY <1>7, <2>3
<1>9. ASSUME NEW c \in 1..N
      PROVE  /\ BitsBefore(list, c) \in Nat /\ list[c].type.bits \in Nat \ {0}
             /\ BitsBefore(list, c) + list[c].type.bits = T(c)
             /\ T(c) <= T(N)
  <2>1. c - 1 \in 0..N /\ c \in 0..N
    BY <1>1
  <2> QED
    BY <1>2, <1>3, <1>4, <1>5, <1>7, <2>1
<1>10. ASSUME NEW c \in 1..N, NEW d \in 1..N, c < d
       PROVE  T(c) <= BitsBefore(list, d)
  <2>1. d - 1 \in 0..N /\ c \in 0..(d - 1)
    BY <1>1, <1>10
  <2> QED
    BY <1>3, <1>5, <2>1
<1>11. \A c \in 1..N : T(c) \in Nat /\ T(N) \in Nat
  BY <1>1, <1>3
<1> QED
  BY <1>8, <1>9, <1>10, <1>11 DEF N

\* The byte an entry begins in is one of the bytes of its direction.
LEMMA EntryByte ==
  ASSUME NEW list \in Seq(EntryType), NEW c \in 1..Len(list)
  PROVE  LET q == BitsBefore(list, c) \div ByteBits
         IN  /\ q \in Nat /\ q * ByteBits \in Nat
             /\ q * ByteBits + ByteBits <= Bytes(list) * ByteBits
<1> DEFINE q == BitsBefore(list, c) \div ByteBits
<1>1. /\ BitsBefore(list, c) \in Nat /\ Bytes(list) \in Nat
      /\ BitsBefore(list, c) < Bytes(list) * ByteBits
  <2>1. /\ BitsBefore(list, c) \in Nat /\ list[c].type.bits \in Nat \ {0} /\ Bytes(list) \in Nat
        /\ BitsBefore(list, c) + list[c].type.bits <= Bytes(list) * ByteBits
    BY EntriesFollow
  <2>2. Bytes(list) * ByteBits \in Nat
    BY <2>1, UnitAssumption
  <2> QED
    BY <2>1, <2>2
<1>2. \A n, b \in Nat : \A k \in Nat \ {0} :
        n < b * k => n \div k \in Nat /\ n \div k < b
  OBVIOUS
<1>3. q \in Nat /\ q < Bytes(list)
  BY <1>1, <1>2, UnitAssumption
<1>4. \A a, b \in Nat : \A k \in Nat \ {0} : a < b => a * k + k <= b * k /\ a * k \in Nat
  OBVIOUS
<1> HIDE DEF q
<1>5. q * ByteBits + ByteBits <= Bytes(list) * ByteBits /\ q * ByteBits \in Nat
  BY <1>1, <1>3, <1>4, UnitAssumption
<1> QED
  BY <1>3, <1>5 DEF q

\* A direction begins after all directions before it.
Before(m, pdo, n, pdq) == m < n \/ (m = n /\ pdo = "rpdo" /\ pdq = "tpdo")

\* A direction begins where the ones before it end, or later.
LEMMA StartsFollow ==
  ASSUME NEW N \in Nat, NEW sizes, DOMAIN sizes = 1..N,
         \A m \in 1..N : \A pdo \in Directions : sizes[m][pdo] \in Nat
  PROVE  /\ \A m \in 1..N : \A pdo \in Directions : Start(sizes, m, pdo) \in Nat
         /\ \A m, n \in 1..N : \A pdo, pdq \in Directions :
              Before(m, pdo, n, pdq) =>
                Start(sizes, m, pdo) + sizes[m][pdo] <= Start(sizes, n, pdq)
<1> DEFINE w == [n \in DOMAIN sizes |-> sizes[n]["rpdo"] + sizes[n]["tpdo"]]
           T(n) == Total(w, n)
<1>1. \A n \in 1..N : /\ sizes[n]["rpdo"] \in Nat /\ sizes[n]["tpdo"] \in Nat
                      /\ w[n] = sizes[n]["rpdo"] + sizes[n]["tpdo"]
                      /\ w[n] \in Nat
  BY DEF Directions
<1>2. \A m, pdo : Start(sizes, m, pdo) = T(m - 1) + (IF pdo = "tpdo" THEN sizes[m]["rpdo"] ELSE 0)
  BY DEF Start
<1> HIDE DEF w
<1>3. /\ \A n \in 0..N : T(n) \in Nat
      /\ \A n \in 0..N : \A m \in 0..n : T(m) <= T(n)
  BY <1>1, TotalGrows
<1>4. \A n \in 1..N : T(n) = T(n - 1) + w[n]
  <2>1. \A x \in 1..N : w[x] \in Int
    BY <1>1
  <2> QED
    BY <2>1, TotalAdds
<1> HIDE DEF T
<1>5. ASSUME NEW m \in 1..N, NEW pdo \in Directions
      PROVE  /\ Start(sizes, m, pdo) \in Nat
             /\ Start(sizes, m, pdo) + sizes[m][pdo] <= T(m)
             /\ T(m - 1) <= Start(sizes, m, pdo)
  <2>1. m - 1 \in 0..N /\ T(m - 1) \in Nat
    BY <1>3
  <2>2. T(m) = T(m - 1) + (sizes[m]["rpdo"] + sizes[m]["tpdo"])
    BY <1>1, <1>4
  <2>3. sizes[m]["rpdo"] \in Nat /\ sizes[m]["tpdo"] \in Nat
    BY <1>1
  <2>4. CASE pdo = "rpdo"
    BY <1>2, <2>1, <2>2, <2>3, <2>4
  <2>5. CASE pdo = "tpdo"
    BY <1>2, <2>1, <2>2, <2>3, <2>5
  <2> QED
    BY <2>4, <2>5 DEF Directions
<1>6. ASSUME NEW m \in 1..N, NEW n \in 1..N, NEW pdo \in Directions, NEW pdq \in Directions,
             Before(m, pdo, n, pdq)
      PROVE  Start(sizes, m, pdo) + sizes[m][pdo] <= Start(sizes, n, pdq)
  <2>1. CASE m < n
    <3>1. n - 1 \in 0..N /\ m \in 0..(n - 1) /\ m \in 0..N
      BY <2>1
    <3>2. T(m) <= T(n - 1) /\ T(m) \in Nat /\ T(n - 1) \in Nat
      BY <1>3, <3>1
    <3>3. Start(sizes, m, pdo) \in Nat /\ Start(sizes, n, pdq) \in Nat /\ sizes[m][pdo] \in Nat
      BY <1>5
    <3> QED
      BY <1>5, <3>2, <3>3
  <2>2. CASE m = n /\ pdo = "rpdo" /\ pdq = "tpdo"
    <3>1. m - 1 \in 0..N
      OBVIOUS
    <3>2. T(m - 1) \in Nat /\ sizes[m]["rpdo"] \in Nat
      BY <1>1, <1>3, <3>1
    <3> QED
      BY <1>2, <2>2, <3>2
  <2> QED
    BY <1>6, <2>1, <2>2 DEF Before
<1> QED
  BY <1>5, <1>6

-----------------------------------------------------------------------------
(***************************************************************************)
(* Objects and where they lie                                              *)
(***************************************************************************)

EntryOf(s, o) == AllChannels(s.modules[o[1]].config)[o[2]]

IsObject(s, o) == o \in ConfiguredObjects[s]

\* The bits of its byte that a write of an object replaces.
Footprint(entry) ==
  IF ~IsInteger(entry.type) /\ Cardinality(entry.mask) > 1 THEN 0..(ByteBits - 1)
                                                            ELSE ObjectBit(entry)

\* What an object of a configuration is.
LEMMA ObjectOf ==
  ASSUME NEW s \in Setups, NEW o, IsObject(s, o)
  PROVE  LET m == o[1]
             c == o[2]
             config == s.modules[m].config
             list == config[DirectionOf(config, c)]
             p == PlaceOf(config, c)
         IN  /\ o = <<m, c>>
             /\ m \in DOMAIN s.modules /\ m \in 1..Len(s.modules)
             /\ c \in DOMAIN AllChannels(config)
             /\ config \in ConfigType
             /\ DirectionOf(config, c) \in Directions
             /\ list \in Seq(EntryType) /\ p \in 1..Len(list)
             /\ EntryOf(s, o) = list[p] /\ EntryOf(s, o) \in EntryType
             /\ EntryOf(s, o).object # 0
             /\ WellPlaced(list)
<1> DEFINE m == o[1]
           c == o[2]
           config == s.modules[m].config
           list == config[DirectionOf(config, c)]
           p == PlaceOf(config, c)
<1>1. /\ o = <<m, c>> /\ m \in DOMAIN s.modules
      /\ c \in DOMAIN AllChannels(config) /\ AllChannels(config)[c].object # 0
  BY DEF IsObject, ConfiguredObjects
<1>2. m \in 1..Len(s.modules) /\ WellConfigured(s.modules[m])
  BY <1>1, Configured
<1>3. config \in ConfigType /\ WellPlaced(config.rpdo) /\ WellPlaced(config.tpdo)
  BY <1>2 DEF WellConfigured
<1> HIDE DEF config
<1>4. /\ DirectionOf(config, c) \in Directions
      /\ list \in Seq(EntryType) /\ p \in 1..Len(list)
      /\ AllChannels(config)[c] = list[p] /\ AllChannels(config)[c] \in EntryType
  BY <1>1, <1>3, ChannelsOfLists
<1>5. WellPlaced(list)
  <2>1. list = config.rpdo \/ list = config.tpdo
    BY <1>3, <1>4, ChannelsOfLists DEF Directions
  <2> QED
    BY <1>3, <2>1
<1> QED
  BY <1>1, <1>2, <1>3, <1>4, <1>5 DEF config, EntryOf

\* The bits of an object, and those a write replaces, by their number in its byte
\* and in those after it.
LEMMA FootprintShape ==
  ASSUME NEW entry \in EntryType
  PROVE  /\ ObjectBit(entry) \subseteq Footprint(entry)
         /\ Footprint(entry) \subseteq Nat
         /\ IsInteger(entry.type) => Footprint(entry) = 0..(entry.type.bits - 1)
         /\ ~IsInteger(entry.type) => Footprint(entry) \subseteq 0..(ByteBits - 1)
<1>1. entry.mask \subseteq 0..(ByteBits - 1) /\ ByteBits \in Nat /\ entry.type.bits \in Nat
  BY UnitAssumption DEF EntryType, DataType
<1> QED
  BY <1>1 DEF Footprint, ObjectBit

\* Where the objects lie in their direction: within its bytes, apart from each
\* other.
LEMMA PlacesApart ==
  ASSUME NEW list \in Seq(EntryType), WellPlaced(list),
         NEW c \in 1..Len(list), list[c].object # 0
  PROVE  LET byte(x) == BitsBefore(list, x) \div ByteBits
         IN  /\ \A b \in Footprint(list[c]) :
                  byte(c) * ByteBits + b \in 0..(Bytes(list) * ByteBits - 1)
             /\ \A d \in 1..Len(list) \ {c} : list[d].object # 0 =>
                  \A b \in Footprint(list[c]) : \A a \in ObjectBit(list[d]) :
                    byte(c) * ByteBits + b # byte(d) * ByteBits + a
<1> DEFINE byte(x) == BitsBefore(list, x) \div ByteBits
<1>1. DOMAIN list = 1..Len(list) /\ \A x \in 1..Len(list) : list[x] \in EntryType
  BY LenProperties, ElementOfSeq
<1>2. ASSUME NEW x \in 1..Len(list), list[x].object # 0, NEW b \in ObjectBit(list[x])
      PROVE  byte(x) * ByteBits + b \in EntryBits(list, x)
  <2>1. byte(x) * ByteBits + b \in ByteOf(list, x, ObjectBit(list[x]))
    BY DEF ByteOf
  <2>2. ByteOf(list, x, ObjectBit(list[x])) \subseteq EntryBits(list, x)
    BY <1>1, <1>2 DEF WellPlaced
  <2> QED
    BY <2>1, <2>2
<1>3. /\ Bytes(list) \in Nat
      /\ \A x \in 1..Len(list) :
           /\ BitsBefore(list, x) \in Nat /\ list[x].type.bits \in Nat \ {0}
           /\ BitsBefore(list, x) + list[x].type.bits <= Bytes(list) * ByteBits
      /\ \A x, d \in 1..Len(list) :
           x < d => BitsBefore(list, x) + list[x].type.bits <= BitsBefore(list, d)
  BY EntriesFollow
<1>4. Bytes(list) * ByteBits \in Nat /\ ByteBits \in Nat \ {0}
  BY <1>3, UnitAssumption
<1>5. ASSUME NEW b \in Footprint(list[c])
      PROVE  byte(c) * ByteBits + b \in 0..(Bytes(list) * ByteBits - 1)
  <2>1. CASE Footprint(list[c]) = ObjectBit(list[c])
    <3>1. byte(c) * ByteBits + b \in EntryBits(list, c)
      BY <1>2, <2>1
    <3> HIDE DEF byte
    <3> QED
      BY <1>3, <1>4, <3>1 DEF EntryBits
  <2>2. CASE Footprint(list[c]) = 0..(ByteBits - 1)
    <3>1. byte(c) * ByteBits \in Nat /\ byte(c) * ByteBits + ByteBits <= Bytes(list) * ByteBits
      BY EntryByte
    <3>2. b \in 0..(ByteBits - 1)
      BY <2>2
    <3> HIDE DEF byte
    <3> QED
      BY <1>4, <3>1, <3>2
  <2> QED
    BY <2>1, <2>2 DEF Footprint
<1>6. ASSUME NEW d \in 1..Len(list) \ {c}, list[d].object # 0,
             NEW b \in Footprint(list[c]), NEW a \in ObjectBit(list[d])
      PROVE  byte(c) * ByteBits + b # byte(d) * ByteBits + a
  <2>1. byte(d) * ByteBits + a \in EntryBits(list, d)
    BY <1>2, <1>6
  <2>2. CASE Footprint(list[c]) = ObjectBit(list[c])
    <3>1. byte(c) * ByteBits + b \in EntryBits(list, c)
      BY <1>2, <2>2
    <3>2. EntryBits(list, c) \cap EntryBits(list, d) = {}
      <4>1. /\ BitsBefore(list, c) \in Nat /\ list[c].type.bits \in Nat
            /\ BitsBefore(list, d) \in Nat /\ list[d].type.bits \in Nat
        BY <1>3
      <4>2. CASE c < d
        <5>1. BitsBefore(list, c) + list[c].type.bits <= BitsBefore(list, d)
          BY <1>3, <4>2
        <5> QED
          BY <4>1, <5>1 DEF EntryBits
      <4>3. CASE d < c
        <5>1. BitsBefore(list, d) + list[d].type.bits <= BitsBefore(list, c)
          BY <1>3, <4>3
        <5> QED
          BY <4>1, <5>1 DEF EntryBits
      <4> QED
        BY <4>2, <4>3
    <3> QED
      BY <2>1, <3>1, <3>2
  <2>3. CASE ~IsInteger(list[c].type) /\ Cardinality(list[c].mask) > 1
    <3>1. ByteOf(list, c, 0..(ByteBits - 1)) \cap EntryBits(list, d) = {}
      BY <1>1, <1>6, <2>3 DEF WellPlaced
    <3>2. b \in 0..(ByteBits - 1)
      BY <2>3 DEF Footprint
    <3>3. byte(c) * ByteBits + b \in ByteOf(list, c, 0..(ByteBits - 1))
      BY <3>2 DEF ByteOf
    <3> QED
      BY <2>1, <3>1, <3>3
  <2> QED
    BY <2>2, <2>3 DEF Footprint
<1> QED
  BY <1>5, <1>6

\* The bytes a direction takes.
LEMMA SizesOfDirections ==
  ASSUME NEW s \in Setups
  PROVE  /\ DOMAIN DirectionSizes(s) = 1..Len(s.modules)
         /\ \A m \in 1..Len(s.modules) : \A pdo \in Directions :
              /\ DirectionSizes(s)[m][pdo] \in Nat
              /\ Start(DirectionSizes(s), m, pdo) \in Nat
<1>1. DOMAIN s.modules = 1..Len(s.modules) /\ Len(s.modules) \in Nat
  BY Configured
<1>2. DOMAIN DirectionSizes(s) = 1..Len(s.modules)
  BY <1>1 DEF DirectionSizes
<1>3. ASSUME NEW m \in 1..Len(s.modules), NEW pdo \in Directions
      PROVE  DirectionSizes(s)[m][pdo] \in Nat
  <2>1. s.modules[m].config \in ConfigType
    BY <1>1, Configured DEF WellConfigured
  <2>2. s.modules[m].config[pdo] \in Seq(EntryType)
    BY <2>1, ChannelsOfLists
  <2>3. Bytes(s.modules[m].config[pdo]) \in Nat
    BY <2>2, EntriesFollow
  <2> QED
    BY <1>1, <2>3 DEF DirectionSizes
<1> QED
  BY <1>1, <1>2, <1>3, StartsFollow

\* Two directions have no bits in common.
LEMMA RegionsApart ==
  ASSUME NEW s \in Setups, NEW m \in 1..Len(s.modules), NEW n \in 1..Len(s.modules),
         NEW pdo \in Directions, NEW pdq \in Directions, m # n \/ pdo # pdq,
         NEW i \in 0..(DirectionSizes(s)[m][pdo] * ByteBits - 1),
         NEW j \in 0..(DirectionSizes(s)[n][pdq] * ByteBits - 1)
  PROVE  Start(DirectionSizes(s), m, pdo) * ByteBits + i
           # Start(DirectionSizes(s), n, pdq) * ByteBits + j
<1> DEFINE start(x, d) == Start(DirectionSizes(s), x, d)
           size(x, d) == DirectionSizes(s)[x][d]
<1>1. Len(s.modules) \in Nat
  BY Configured
<1>2. /\ start(m, pdo) \in Nat /\ start(n, pdq) \in Nat
      /\ size(m, pdo) \in Nat /\ size(n, pdq) \in Nat
  BY SizesOfDirections
<1>3. Before(m, pdo, n, pdq) \/ Before(n, pdq, m, pdo)
  <2>1. m \in Int /\ n \in Int
    BY <1>1
  <2> QED
    BY <2>1 DEF Before, Directions
<1>4. start(m, pdo) + size(m, pdo) <= start(n, pdq) \/ start(n, pdq) + size(n, pdq) <= start(m, pdo)
  <2>1. /\ DOMAIN DirectionSizes(s) = 1..Len(s.modules)
        /\ \A x \in 1..Len(s.modules) : \A d \in Directions : DirectionSizes(s)[x][d] \in Nat
    BY SizesOfDirections
  <2>2. \A x, y \in 1..Len(s.modules) : \A d, e \in Directions :
          Before(x, d, y, e) =>
            Start(DirectionSizes(s), x, d) + DirectionSizes(s)[x][d]
              <= Start(DirectionSizes(s), y, e)
    BY <1>1, <2>1, StartsFollow
  <2> QED
    BY <1>3, <2>2
<1>5. ASSUME NEW x \in Nat, NEW y \in Nat, NEW l \in Nat, x + l <= y,
             NEW k \in Nat \ {0}, NEW a \in 0..(l * k - 1), NEW b \in Nat
      PROVE  x * k + a < y * k + b /\ y * k + b \in Nat
  <2>1. x * k + l * k <= y * k /\ x * k \in Nat /\ l * k \in Nat /\ y * k \in Nat
    BY <1>5
  <2> QED
    BY <2>1
<1> HIDE DEF start, size
<1>6. i \in 0..(size(m, pdo) * ByteBits - 1) /\ j \in 0..(size(n, pdq) * ByteBits - 1)
  BY DEF size
<1>7. i \in Nat /\ j \in Nat
  OBVIOUS
<1>8. start(m, pdo) * ByteBits + i # start(n, pdq) * ByteBits + j
  <2>1. CASE start(m, pdo) + size(m, pdo) <= start(n, pdq)
    <3>1. /\ start(m, pdo) * ByteBits + i < start(n, pdq) * ByteBits + j
          /\ start(n, pdq) * ByteBits + j \in Nat
      BY <1>2, <1>5, <1>6, <1>7, <2>1, UnitAssumption
    <3> QED
      BY <3>1
  <2>2. CASE start(n, pdq) + size(n, pdq) <= start(m, pdo)
    <3>1. /\ start(n, pdq) * ByteBits + j < start(m, pdo) * ByteBits + i
          /\ start(m, pdo) * ByteBits + i \in Nat
      BY <1>2, <1>5, <1>6, <1>7, <2>2, UnitAssumption
    <3> QED
      BY <3>1
  <2> QED
    BY <1>4, <2>1, <2>2
<1> QED
  BY <1>8 DEF start

\* Where an object lies in the process data.
LEMMA PlaceOfObject ==
  ASSUME NEW s \in Setups, NEW o, IsObject(s, o), ~s.modules[o[1]].refused
  PROVE  LET config == s.modules[o[1]].config
             pdo == DirectionOf(config, o[2])
             list == config[pdo]
             start == Start(DirectionSizes(s), o[1], pdo)
             q == BitsBefore(list, PlaceOf(config, o[2])) \div ByteBits
         IN  /\ DeclaredByte(s, o[1], o[2]) = start + q
             /\ start \in Nat /\ q \in Nat
             /\ DirectionSizes(s)[o[1]][pdo] = Bytes(list)
             /\ \A b \in Footprint(EntryOf(s, o)) :
                  /\ DeclaredByte(s, o[1], o[2]) * ByteBits + b = start * ByteBits + (q * ByteBits + b)
                  /\ q * ByteBits + b \in 0..(Bytes(list) * ByteBits - 1)
             /\ Declared[s][o] = [b \in ObjectBit(EntryOf(s, o)) |->
                                    DeclaredByte(s, o[1], o[2]) * ByteBits + b]
<1> DEFINE m == o[1]
           c == o[2]
           config == s.modules[m].config
           pdo == DirectionOf(config, c)
           list == config[pdo]
           p == PlaceOf(config, c)
           start == Start(DirectionSizes(s), m, pdo)
           q == BitsBefore(list, p) \div ByteBits
           D == DeclaredByte(s, m, c)
<1>1. /\ m \in DOMAIN s.modules /\ m \in 1..Len(s.modules) /\ config \in ConfigType
      /\ pdo \in Directions /\ list \in Seq(EntryType) /\ p \in 1..Len(list)
      /\ EntryOf(s, o) = list[p] /\ EntryOf(s, o) \in EntryType
      /\ EntryOf(s, o).object # 0 /\ WellPlaced(list)
  BY ObjectOf
<1>2. D = start + q
  <2>1. config.rpdo = config["rpdo"] /\ config.tpdo = config["tpdo"]
    BY <1>1, ChannelsOfLists
  <2> QED
    BY <2>1 DEF DeclaredByte, DirectionOf, PlaceOf
<1>3. start \in Nat
  BY <1>1, SizesOfDirections
<1>4. q \in Nat
  BY <1>1, EntryByte
<1>5. DirectionSizes(s)[m][pdo] = Bytes(list)
  <2>1. p \in DOMAIN list /\ list[p].object # 0
    BY <1>1, LenProperties
  <2> QED
    BY <1>1, <2>1 DEF DirectionSizes
<1>6. Declared[s][o] = [b \in ObjectBit(EntryOf(s, o)) |-> D * ByteBits + b]
  BY DEF Declared, IsObject, EntryOf
<1>7. ASSUME NEW b \in Footprint(EntryOf(s, o))
      PROVE  /\ D * ByteBits + b = start * ByteBits + (q * ByteBits + b)
             /\ q * ByteBits + b \in 0..(Bytes(list) * ByteBits - 1)
  <2>1. b \in Nat
    BY <1>1, FootprintShape
  <2>2. \A x, y, z \in Nat : \A k \in Nat \ {0} : (x + y) * k + z = x * k + (y * k + z)
    OBVIOUS
  <2>3. D * ByteBits + b = start * ByteBits + (q * ByteBits + b)
    <3> HIDE DEF D, start, q
    <3> QED
      BY <1>2, <1>3, <1>4, <2>1, <2>2, UnitAssumption
  <2>4. q * ByteBits + b \in 0..(Bytes(list) * ByteBits - 1)
    BY <1>1, PlacesApart
  <2> QED
    BY <2>3, <2>4
<1> QED
  BY <1>2, <1>3, <1>4, <1>5, <1>6, <1>7

\* The write of an object replaces no bit of another one.
LEMMA ObjectsApart ==
  ASSUME NEW s \in Setups, NEW o, NEW r, IsObject(s, o), IsObject(s, r), o # r,
         ~s.modules[o[1]].refused, ~s.modules[r[1]].refused,
         NEW b \in Footprint(EntryOf(s, o)), NEW a \in ObjectBit(EntryOf(s, r))
  PROVE  DeclaredByte(s, o[1], o[2]) * ByteBits + b # DeclaredByte(s, r[1], r[2]) * ByteBits + a
<1> DEFINE config(x) == s.modules[x[1]].config
           pdo(x) == DirectionOf(config(x), x[2])
           list(x) == config(x)[pdo(x)]
           p(x) == PlaceOf(config(x), x[2])
           start(x) == Start(DirectionSizes(s), x[1], pdo(x))
           q(x) == BitsBefore(list(x), p(x)) \div ByteBits
           size(x) == DirectionSizes(s)[x[1]][pdo(x)]
<1>1. /\ o = <<o[1], o[2]>> /\ o[1] \in 1..Len(s.modules) /\ config(o) \in ConfigType
      /\ o[2] \in DOMAIN AllChannels(config(o))
      /\ pdo(o) \in Directions /\ list(o) \in Seq(EntryType) /\ p(o) \in 1..Len(list(o))
      /\ EntryOf(s, o) = list(o)[p(o)] /\ EntryOf(s, o) \in EntryType
      /\ EntryOf(s, o).object # 0 /\ WellPlaced(list(o))
  BY ObjectOf
<1>2. /\ r = <<r[1], r[2]>> /\ r[1] \in 1..Len(s.modules)
      /\ r[2] \in DOMAIN AllChannels(config(r))
      /\ pdo(r) \in Directions /\ p(r) \in 1..Len(list(r))
      /\ EntryOf(s, r) = list(r)[p(r)] /\ EntryOf(s, r) \in EntryType
      /\ EntryOf(s, r).object # 0
  BY ObjectOf
<1>3. /\ start(o) \in Nat /\ size(o) = Bytes(list(o))
      /\ DeclaredByte(s, o[1], o[2]) * ByteBits + b = start(o) * ByteBits + (q(o) * ByteBits + b)
      /\ q(o) * ByteBits + b \in 0..(size(o) * ByteBits - 1)
  BY PlaceOfObject
<1>4. a \in Footprint(EntryOf(s, r))
  BY <1>2, FootprintShape
<1>5. /\ start(r) \in Nat /\ size(r) = Bytes(list(r))
      /\ DeclaredByte(s, r[1], r[2]) * ByteBits + a = start(r) * ByteBits + (q(r) * ByteBits + a)
      /\ q(r) * ByteBits + a \in 0..(size(r) * ByteBits - 1)
  BY <1>4, PlaceOfObject
<1>6. CASE o[1] = r[1] /\ pdo(o) = pdo(r)
  <2>1. p(o) # p(r)
    <3>1. o[2] # r[2]
      BY <1>1, <1>2, <1>6
    <3>2. DOMAIN AllChannels(config(o)) \subseteq Int /\ Len(config(o).rpdo) \in Nat
      <4> DEFINE g == config(o)
      <4>1. g \in ConfigType
        BY <1>1
      <4> HIDE DEF g
      <4>2. Len(g.rpdo) \in Nat /\ Len(g.tpdo) \in Nat
        BY <4>1, ChannelsOfLists DEF Directions
      <4>3. DOMAIN AllChannels(g) = 1..(Len(g.rpdo) + Len(g.tpdo))
        BY <4>1, ChannelsOfLists
      <4>4. 1..(Len(g.rpdo) + Len(g.tpdo)) \subseteq Int
        <5>1. \A x, y \in Nat : 1..(x + y) \subseteq Int
          OBVIOUS
        <5> QED
          BY <4>2, <5>1
      <4>5. DOMAIN AllChannels(g) \subseteq Int /\ Len(g.rpdo) \in Nat
        BY <4>2, <4>3, <4>4
      <4> QED
        BY <4>5 DEF g
    <3>3. o[2] \in Int /\ r[2] \in Int /\ config(o) = config(r)
      BY <1>1, <1>2, <1>6, <3>2
    <3>4. (o[2] <= Len(config(o).rpdo)) <=> (r[2] <= Len(config(o).rpdo))
      BY <1>6, <3>3 DEF DirectionOf
    <3> HIDE DEF config
    <3> QED
      BY <3>1, <3>2, <3>3, <3>4 DEF PlaceOf
  <2>2. list(o) = list(r) /\ start(o) = start(r)
    BY <1>6
  <2>3. q(o) * ByteBits + b # q(r) * ByteBits + a
    <3> DEFINE l == list(o)
    <3>1. l \in Seq(EntryType) /\ WellPlaced(l) /\ p(o) \in 1..Len(l) /\ l[p(o)].object # 0
      BY <1>1
    <3>2. p(r) \in 1..Len(l) \ {p(o)} /\ l[p(r)].object # 0
      BY <1>2, <2>1, <2>2
    <3>3. b \in Footprint(l[p(o)]) /\ a \in ObjectBit(l[p(r)])
      BY <1>1, <1>2, <2>2
    <3>4. /\ q(o) = BitsBefore(l, p(o)) \div ByteBits
          /\ q(r) = BitsBefore(l, p(r)) \div ByteBits
      BY <2>2
    <3> HIDE DEF l, p, q
    <3> QED
      BY <3>1, <3>2, <3>3, <3>4, PlacesApart
  <2>4. start(o) * ByteBits \in Nat /\ q(o) * ByteBits + b \in Nat /\ q(r) * ByteBits + a \in Nat
    BY <1>3, <1>5, UnitAssumption
  <2> HIDE DEF start, q
  <2> QED
    BY <1>3, <1>5, <2>2, <2>3, <2>4
<1>7. CASE ~(o[1] = r[1] /\ pdo(o) = pdo(r))
  <2>1. start(o) * ByteBits + (q(o) * ByteBits + b) # start(r) * ByteBits + (q(r) * ByteBits + a)
    <3>1. o[1] \in 1..Len(s.modules) /\ r[1] \in 1..Len(s.modules)
      BY <1>1, <1>2
    <3>2. pdo(o) \in Directions /\ pdo(r) \in Directions
      BY <1>1, <1>2
    <3> HIDE DEF pdo, q
    <3> QED
      BY <1>3, <1>5, <1>7, <3>1, <3>2, RegionsApart
  <2> HIDE DEF start, q
  <2> QED
    BY <1>3, <1>5, <2>1
<1> QED
  BY <1>6, <1>7

-----------------------------------------------------------------------------
(***************************************************************************)
(* The inductive invariant                                                 *)
(***************************************************************************)

\* The phases in which the master is active.
Running == {"receive", "process", "send", "controllers", "write"}

\* How many channels of a slave are registered, which, and what
\* registerPDOInDomain enters for them.
Registrations(s, m) == Len(Plugin(s, m).domain_map)

ChannelOf(s, m, j) == Plugin(s, m).domain_map[j]

Registration(s, m, e, j) ==
  [module |-> m,
   object |-> AllChannels(s.modules[m].config)[ChannelOf(s, m, j)].object,
   entry |-> e, i |-> j]

\* The entries of a direction a slave maps.
ListOf(s, m, pdo) ==
  IF s.modules[m].refused \/ pdo \notin setup_syncs(s.modules[m].config) THEN <<>>
  ELSE s.modules[m].config[pdo]

\* Where the loops are.
CountersInv ==
  /\ phase \in {"on_init", "add", "sdo", "activate", "error", "terminated"} \cup Running
  /\ pass \in {"none", "update", "read", "write"}
  /\ phase \in Running <=> pass # "none"
  /\ at \in Nat /\ inner \in Nat
  /\ phase = "on_init" => at \in 1..Len(setup.modules)
  /\ phase \in {"add", "sdo"} => at \in 1..Len(ec_modules_)
  /\ phase = "process" => at \in 1..Len(entries)
  /\ phase \in {"on_init", "add"} => inner = 1
  /\ phase = "sdo" => inner \in 1..(Len(Plugin(setup, at).sdo_config) + 1)
  /\ phase = "process" => inner \in 1..(entries[at].num_pdos + 1)

\* The plugins are those of the description.
PluginsInv ==
  /\ setup \in Setups
  /\ IsSequence(ec_modules_)
  /\ Len(ec_modules_) <= Len(setup.modules)
  /\ \A m \in 1..Len(ec_modules_) : ec_modules_[m] = Plugin(setup, m)
  /\ phase = "on_init" => Len(ec_modules_) = at - 1
  /\ phase \notin {"on_init", "error", "terminated"} => Len(ec_modules_) = Len(setup.modules)

\* A slave maps what its configuration says, unless it was refused.
SlavesInv ==
  /\ IsSequence(slaves)
  /\ Len(slaves) <= Len(setup.modules)
  /\ \A m \in 1..Len(slaves) : \A pdo \in Directions :
       slaves[m][pdo] = ListOf(setup, m, pdo)
  /\ phase = "on_init" => Len(slaves) = 0
  /\ phase = "add" => Len(slaves) = at - 1
  /\ phase \in {"sdo", "activate"} \cup Running => Len(slaves) = Len(setup.modules)

\* Every slave that was not refused has an entry, and every entry is one's.
EntriesInv ==
  /\ IsSequence(entries)
  /\ \A e \in 1..Len(entries) :
       /\ DOMAIN entries[e] = {"slave", "num_pdos", "offset"}
       /\ entries[e].slave \in 1..Len(slaves)
       /\ ~setup.modules[entries[e].slave].refused
       /\ entries[e].num_pdos = Registrations(setup, entries[e].slave)
       /\ entries[e].offset \in [1..entries[e].num_pdos -> Nat \cup {Unset}]
       /\ pass = "none" => \A j \in 1..entries[e].num_pdos : entries[e].offset[j] = Unset
  /\ \A m \in 1..Len(slaves) :
       ~setup.modules[m].refused => \E e \in 1..Len(entries) : entries[e].slave = m

\* domain_regs holds the registrations of all entries, and ends with an element
\* without object.
RegsInv ==
  /\ IsSequence(domain_regs)
  /\ domain_regs = <<>> <=> entries = <<>>
  /\ domain_regs # <<>> => domain_regs[Len(domain_regs)] = Terminator
  /\ \A x \in 1..(Len(domain_regs) - 1) :
       \E e \in 1..Len(entries) : \E j \in 1..entries[e].num_pdos :
         domain_regs[x] = Registration(setup, entries[e].slave, e, j)
  /\ \A e \in 1..Len(entries) : \A j \in 1..entries[e].num_pdos :
       \E x \in 1..(Len(domain_regs) - 1) : domain_regs[x] = Registration(setup, entries[e].slave, e, j)

\* The bits of the outputs.
OutputBit(s, n) ==
  \E o \in ConfiguredObjects[s] :
    /\ o[2] <= Len(s.modules[o[1]].config.rpdo)
    /\ \E b \in DOMAIN Declared[s][o] : n = Declared[s][o][b]

\* The addresses of an active master are those of the configuration, and the
\* slaves write no output.
AddressesInv ==
  /\ pass = "none" => inputs = <<>> /\ domain_pd = {}
  /\ pass # "none" => \A e \in 1..Len(entries) : \A j \in 1..entries[e].num_pdos :
       entries[e].offset[j] = DeclaredByte(setup, entries[e].slave, ChannelOf(setup, entries[e].slave, j))
  /\ \A o \in DOMAIN inputs :
       /\ DOMAIN inputs[o] = 0..(Cardinality(DOMAIN inputs[o]) - 1)
       /\ \A b \in DOMAIN inputs[o] : inputs[o][b] \in Nat /\ ~OutputBit(setup, inputs[o][b])

IInv ==
  /\ CountersInv
  /\ PluginsInv
  /\ SlavesInv
  /\ EntriesInv
  /\ RegsInv
  /\ AddressesInv

\* The invariant holds at first.
LEMMA InitIInv == Init => IInv
<1> SUFFICES ASSUME Init
             PROVE  IInv
  OBVIOUS
<1>1. setup \in Setups /\ Len(setup.modules) \in Nat \ {0}
  BY Configured DEF Init
<1>2. IsSequence(<<>>) /\ Len(<<>>) = 0
  <2>1. <<>> \in Seq({})
    OBVIOUS
  <2> QED
    BY <2>1, SequenceOver
<1>3. CountersInv
  BY <1>1 DEF Init, CountersInv, Running
<1>4. PluginsInv
  BY <1>1, <1>2 DEF Init, PluginsInv
<1>5. SlavesInv
  BY <1>1, <1>2 DEF Init, SlavesInv, Running
<1>6. EntriesInv
  BY <1>1, <1>2 DEF Init, EntriesInv
<1>7. RegsInv
  BY <1>1, <1>2 DEF Init, RegsInv
<1>8. AddressesInv
  BY DEF Init, AddressesInv
<1> QED
  BY <1>3, <1>4, <1>5, <1>6, <1>7, <1>8 DEF IInv

\* Once the slaves are added, steps that leave the mapping alone keep what was
\* said of it.
LEMMA MappingKept ==
  ASSUME IInv, UNCHANGED <<setup, mapping>>, CountersInv',
         phase \in {"sdo", "activate"} \cup Running,
         phase' \in {"sdo", "activate", "error"} \cup Running,
         pass = "none" <=> pass' = "none",
         pass = "none" => UNCHANGED domain_pd
  PROVE  IInv'
<1> USE DEF IInv, mapping
<1>1. PluginsInv'
  BY DEF PluginsInv, Running
<1>2. SlavesInv'
  BY DEF SlavesInv, Running
<1>3. EntriesInv'
  BY DEF EntriesInv
<1>4. RegsInv'
  BY DEF RegsInv, Terminator
<1>5. AddressesInv'
  BY DEF AddressesInv
<1> QED
  BY <1>1, <1>2, <1>3, <1>4, <1>5

-----------------------------------------------------------------------------
(***************************************************************************)
(* on_init, the SDOs and the passes keep it                                *)
(***************************************************************************)

\* on_init appends the plugin of the module at the counter.
LEMMA SetupModuleKeeps == IInv /\ SetupModule => IInv'
<1> SUFFICES ASSUME IInv, SetupModule
             PROVE  IInv'
  OBVIOUS
<1>1. /\ phase = "on_init" /\ pass = "none" /\ inner = 1
      /\ at \in 1..Len(setup.modules) /\ at \in Nat
      /\ Len(ec_modules_) = at - 1
      /\ Len(slaves) = 0
  BY DEF SetupModule, IInv, CountersInv, PluginsInv, SlavesInv, Running
<1>2. /\ setup \in Setups /\ IsSequence(setup.modules)
      /\ Len(setup.modules) \in Nat
  BY Configured DEF IInv, PluginsInv
<1>3. UNCHANGED <<setup, pass, inner, entries, domain_regs, slaves, inputs, domain_pd>>
  BY DEF SetupModule
<1>4. \/ /\ phase' \in {"terminated", "error"} /\ at' = at
         /\ ec_modules_' = ec_modules_
      \/ /\ ec_modules_' = Append(ec_modules_, Plugin(setup, at))
         /\ \/ at < Len(setup.modules) /\ at' = at + 1 /\ phase' = "on_init"
            \/ ~(at < Len(setup.modules)) /\ at' = 1 /\ phase' = "add"
  BY <1>1 DEF SetupModule, Fail, NextOf
<1>5. /\ IsSequence(Append(ec_modules_, Plugin(setup, at)))
      /\ Len(Append(ec_modules_, Plugin(setup, at))) = at
      /\ \A m \in 1..at : Append(ec_modules_, Plugin(setup, at))[m] = Plugin(setup, m)
  <2>1. /\ IsSequence(ec_modules_)
        /\ \A m \in 1..(at - 1) : ec_modules_[m] = Plugin(setup, m)
    BY <1>1 DEF IInv, PluginsInv
  <2> DEFINE longer == Append(ec_modules_, Plugin(setup, at))
  <2>2. /\ IsSequence(longer) /\ Len(longer) = (at - 1) + 1
        /\ \A m \in 1..(at - 1) : longer[m] = ec_modules_[m]
        /\ longer[(at - 1) + 1] = Plugin(setup, at)
    BY <1>1, <2>1, AppendTo
  <2> HIDE DEF longer
  <2>3. \A m \in 1..at : m \in 1..(at - 1) \/ m = at
    BY <1>1
  <2>4. (at - 1) + 1 = at
    BY <1>1
  <2> QED
    BY <2>1, <2>2, <2>3, <2>4 DEF longer
<1>6. PluginsInv'
  <2>1. CASE ec_modules_' = ec_modules_ /\ phase' \in {"terminated", "error"}
    BY <1>3, <2>1 DEF IInv, PluginsInv
  <2>2. CASE /\ ec_modules_' = Append(ec_modules_, Plugin(setup, at))
             /\ \/ at < Len(setup.modules) /\ at' = at + 1 /\ phase' = "on_init"
                \/ ~(at < Len(setup.modules)) /\ at' = 1 /\ phase' = "add"
    <3>1. IsSequence(ec_modules_') /\ Len(ec_modules_') = at
      BY <1>5, <2>2
    <3>2. \A m \in 1..Len(ec_modules_') : ec_modules_'[m] = Plugin(setup, m)
      BY <1>5, <2>2
    <3>3. Len(ec_modules_') <= Len(setup.modules)
      BY <1>1, <1>2, <3>1
    <3>4. phase' = "on_init" => Len(ec_modules_') = at' - 1
      BY <1>1, <2>2, <3>1
    <3>5. phase' # "on_init" => Len(ec_modules_') = Len(setup.modules)
      BY <1>1, <1>2, <2>2, <3>1
    <3> QED
      BY <1>2, <1>3, <3>1, <3>2, <3>3, <3>4, <3>5 DEF PluginsInv
  <2> QED
    BY <1>4, <2>1, <2>2
<1>7. CountersInv'
  <2>1. /\ at' \in Nat /\ inner' = 1 /\ pass' = "none"
        /\ phase' \in {"on_init", "add", "terminated", "error"}
    BY <1>1, <1>3, <1>4
  <2>2. phase' = "on_init" => at' \in 1..Len(setup.modules)
    BY <1>1, <1>2, <1>4
  <2>3. phase' = "add" => at' \in 1..Len(ec_modules_')
    BY <1>1, <1>4, <1>5
  <2> QED
    BY <1>3, <2>1, <2>2, <2>3 DEF CountersInv, Running
<1>8. SlavesInv'
  <2>1. phase' = "add" => at' = 1
    BY <1>4
  <2>2. phase' \notin {"sdo", "activate"} \cup Running
    BY <1>4 DEF Running
  <2> QED
    BY <1>1, <1>3, <2>1, <2>2 DEF IInv, SlavesInv
<1>9. EntriesInv'
  BY <1>3 DEF IInv, EntriesInv
<1>10. RegsInv'
  BY <1>3 DEF IInv, RegsInv, Terminator
<1>11. AddressesInv'
  BY <1>3 DEF IInv, AddressesInv
<1> QED
  BY <1>6, <1>7, <1>8, <1>9, <1>10, <1>11 DEF IInv

\* Those entries of a list that load, in their order.
LEMMA LoadingOf ==
  ASSUME NEW list, IsSequence(list)
  PROVE  LET kept == Increasing({x \in DOMAIN list : list[x].loads})
             loading == Loading(list)
         IN  /\ DOMAIN list = 1..Len(list) /\ Len(list) \in Nat
             /\ Len(loading) \in Nat /\ DOMAIN loading = 1..Len(loading)
             /\ \A x \in 1..Len(loading) :
                  kept[x] \in DOMAIN list /\ list[kept[x]].loads /\ loading[x] = list[kept[x]]
             /\ \A x, y \in 1..Len(loading) : x < y => kept[x] < kept[y]
             /\ \A x \in DOMAIN list :
                  list[x].loads => \E y \in 1..Len(loading) : kept[y] = x
<1> DEFINE S == {x \in DOMAIN list : list[x].loads}
           kept == Increasing(S)
           loading == Loading(list)
           n == Cardinality(S)
<1>1. DOMAIN list = 1..Len(list) /\ Len(list) \in Nat
  BY SequenceShape
<1>2. loading = [x \in DOMAIN kept |-> list[kept[x]]]
  BY DEF Loading
<1>3. S \in SUBSET (1..Len(list)) /\ \A x \in S : x \in DOMAIN list /\ list[x].loads
  BY <1>1
<1>4. \A x \in DOMAIN list : list[x].loads => x \in S
  OBVIOUS
<1> HIDE DEF S, loading
<1>5. /\ n \in Nat /\ kept \in [1..n -> S] /\ Rises(kept)
      /\ \A x \in S : \E y \in 1..n : kept[y] = x
  BY <1>1, <1>3, IncreasingEnumerates
<1> HIDE DEF n, kept
<1>6. DOMAIN kept = 1..n
  BY <1>5
<1>7. loading = [x \in 1..n |-> loading[x]] /\ \A x \in 1..n : loading[x] = list[kept[x]]
  BY <1>2, <1>6
<1>8. Len(loading) = n /\ DOMAIN loading = 1..n
  BY <1>5, <1>7, SequenceFrom
<1>9. \A x \in 1..n : kept[x] \in S
  BY <1>5
<1>10. \A x, y \in 1..n : x < y => kept[x] < kept[y]
  BY <1>5, <1>6 DEF Rises
<1> QED
  BY <1>1, <1>3, <1>4, <1>5, <1>7, <1>8, <1>9, <1>10 DEF S, kept, loading

\* The SDOs of a configuration that load.
LEMMA LoadingShape ==
  ASSUME NEW s \in Setups, NEW m \in 1..Len(s.modules)
  PROVE  LET list == s.modules[m].config.sdo
             kept == Increasing({x \in DOMAIN list : list[x].loads})
             sdos == Plugin(s, m).sdo_config
         IN  /\ DOMAIN list = 1..Len(list) /\ Len(list) \in Nat
             /\ Len(sdos) \in Nat /\ DOMAIN sdos = 1..Len(sdos)
             /\ \A x \in 1..Len(sdos) :
                  kept[x] \in DOMAIN list /\ list[kept[x]].loads /\ sdos[x] = list[kept[x]]
             /\ \A x, y \in 1..Len(sdos) : x < y => kept[x] < kept[y]
             /\ \A x \in DOMAIN list :
                  list[x].loads => \E y \in 1..Len(sdos) : kept[y] = x
<1> DEFINE list == s.modules[m].config.sdo
           kept == Increasing({x \in DOMAIN list : list[x].loads})
           sdos == Plugin(s, m).sdo_config
<1>1. s.modules[m].config \in ConfigType
  BY Configured DEF WellConfigured
<1>2. IsSequence(list)
  BY <1>1, SequenceOver DEF ConfigType
<1>3. sdos = Loading(list)
  BY DEF Plugin
<1> HIDE DEF list
<1>4. LET indices == Increasing({x \in DOMAIN list : list[x].loads})
          loading == Loading(list)
      IN  /\ DOMAIN list = 1..Len(list) /\ Len(list) \in Nat
          /\ Len(loading) \in Nat /\ DOMAIN loading = 1..Len(loading)
          /\ \A x \in 1..Len(loading) :
               /\ indices[x] \in DOMAIN list /\ list[indices[x]].loads
               /\ loading[x] = list[indices[x]]
          /\ \A x, y \in 1..Len(loading) : x < y => indices[x] < indices[y]
          /\ \A x \in DOMAIN list :
               list[x].loads => \E y \in 1..Len(loading) : indices[y] = x
  BY <1>2, LoadingOf
<1> HIDE DEF kept, sdos
<1>5. /\ DOMAIN list = 1..Len(list) /\ Len(list) \in Nat
      /\ Len(sdos) \in Nat /\ DOMAIN sdos = 1..Len(sdos)
      /\ \A x \in 1..Len(sdos) :
           kept[x] \in DOMAIN list /\ list[kept[x]].loads /\ sdos[x] = list[kept[x]]
      /\ \A x, y \in 1..Len(sdos) : x < y => kept[x] < kept[y]
      /\ \A x \in DOMAIN list :
           list[x].loads => \E y \in 1..Len(sdos) : kept[y] = x
  BY <1>3, <1>4 DEF kept
<1> QED
  BY <1>5 DEF list, kept, sdos

\* The steps of the SDO loop, and those of a pass that leave the counters in place.
LEMMA SdoStepsKeep == IInv /\ (ConfigSlaveSdo \/ NextSlaveSdos) => IInv'
<1> SUFFICES ASSUME IInv, ConfigSlaveSdo \/ NextSlaveSdos
             PROVE  IInv'
  OBVIOUS
<1>1. /\ phase = "sdo" /\ pass = "none"
      /\ at \in 1..Len(ec_modules_) /\ at \in Nat /\ inner \in Nat \ {0}
      /\ ec_modules_[at] = Plugin(setup, at)
      /\ Len(ec_modules_) = Len(setup.modules)
      /\ inner \in 1..(Len(ec_modules_[at].sdo_config) + 1)
  BY DEF ConfigSlaveSdo, NextSlaveSdos, IInv, CountersInv, PluginsInv, Running
<1>2. /\ setup \in Setups /\ Len(setup.modules) \in Nat
  BY Configured DEF IInv, PluginsInv
<1>3. /\ UNCHANGED <<setup, mapping>> /\ UNCHANGED <<pass, domain_pd, ec_modules_>>
  BY DEF ConfigSlaveSdo, NextSlaveSdos, mapping
<1>4. \A m \in 1..Len(setup.modules) : Len(Plugin(setup, m).sdo_config) \in Nat
  <2> SUFFICES ASSUME NEW m \in 1..Len(setup.modules)
               PROVE  Len(Plugin(setup, m).sdo_config) \in Nat
    OBVIOUS
  <2> QED
    BY <1>2, LoadingShape
<1>5. CASE ConfigSlaveSdo
  <2>1. \/ inner' = inner + 1 /\ inner <= Len(ec_modules_[at].sdo_config) /\ phase' = phase /\ at' = at
        \/ phase' = "error" /\ at' = at /\ inner' = inner
    BY <1>5 DEF ConfigSlaveSdo, Fail
  <2>2. Len(ec_modules_[at].sdo_config) \in Nat
    BY <1>1, <1>4
  <2>3. CountersInv'
    <3>1. CASE phase' = "error" /\ at' = at /\ inner' = inner
      BY <1>1, <1>3, <3>1 DEF CountersInv, Running
    <3>2. CASE inner' = inner + 1 /\ inner <= Len(ec_modules_[at].sdo_config) /\ phase' = phase /\ at' = at
      <4>1. inner' \in 1..(Len(Plugin(setup, at).sdo_config) + 1) /\ inner' \in Nat
        BY <1>1, <2>2, <3>2
      <4> QED
        BY <1>1, <1>3, <3>2, <4>1 DEF CountersInv, Running
    <3> QED
      BY <2>1, <3>1, <3>2
  <2> QED
    BY <1>1, <1>3, <2>1, <2>3, MappingKept
<1>6. CASE NextSlaveSdos
  <2>1. /\ inner' = 1
        /\ \/ at < Len(ec_modules_) /\ at' = at + 1 /\ phase' = phase
           \/ ~(at < Len(ec_modules_)) /\ at' = 1 /\ phase' = "activate"
    BY <1>6 DEF NextSlaveSdos, NextOf
  <2>2. CountersInv'
    <3>1. CASE phase' = "activate" /\ at' = 1
      BY <1>1, <1>3, <2>1, <3>1 DEF CountersInv, Running
    <3>2. CASE at < Len(ec_modules_) /\ at' = at + 1 /\ phase' = phase
      <4>1. at' \in 1..Len(ec_modules_) /\ at' \in Nat
        BY <1>1, <1>2, <3>2
      <4>2. Len(Plugin(setup, at').sdo_config) \in Nat
        BY <1>1, <1>4, <4>1
      <4>3. 1 \in 1..(Len(Plugin(setup, at').sdo_config) + 1)
        BY <4>2
      <4> QED
        BY <1>1, <1>3, <2>1, <3>2, <4>1, <4>3 DEF CountersInv, Running
    <3> QED
      BY <2>1, <3>1, <3>2
  <2> QED
    BY <1>1, <1>3, <2>1, <2>2, MappingKept
<1> QED
  BY <1>5, <1>6

\* Every entry has registrations, and when all slaves were added there is one.
LEMMA EntriesThere ==
  ASSUME IInv
  PROVE  /\ Len(entries) \in Nat /\ DOMAIN entries = 1..Len(entries)
         /\ \A e \in 1..Len(entries) :
              /\ entries[e].slave \in 1..Len(setup.modules)
              /\ entries[e].num_pdos \in Nat \ {0}
         /\ Len(slaves) = Len(setup.modules) => 1 \in 1..Len(entries)
<1>1. setup \in Setups /\ IsSequence(entries) /\ IsSequence(slaves)
      /\ Len(slaves) <= Len(setup.modules)
  BY DEF IInv, PluginsInv, EntriesInv, SlavesInv
<1>2. Len(entries) \in Nat /\ DOMAIN entries = 1..Len(entries) /\ Len(slaves) \in Nat
  BY <1>1, SequenceShape
<1>3. /\ Len(setup.modules) \in Nat /\ DOMAIN setup.modules = 1..Len(setup.modules)
      /\ \E m \in 1..Len(setup.modules) : ~setup.modules[m].refused
  BY <1>1, Configured
<1>4. ASSUME NEW e \in 1..Len(entries)
      PROVE  /\ entries[e].slave \in 1..Len(setup.modules)
             /\ entries[e].num_pdos \in Nat \ {0}
  <2>1. /\ entries[e].slave \in 1..Len(slaves)
        /\ entries[e].num_pdos = Registrations(setup, entries[e].slave)
    BY DEF IInv, EntriesInv
  <2>2. entries[e].slave \in 1..Len(setup.modules)
    BY <1>1, <1>2, <1>3, <2>1
  <2>3. Registrations(setup, entries[e].slave) \in Nat \ {0}
    BY <1>1, <1>3, <2>2, PluginChannels DEF Registrations
  <2> QED
    BY <2>1, <2>2, <2>3
<1>5. ASSUME Len(slaves) = Len(setup.modules)
      PROVE  1 \in 1..Len(entries)
  <2>1. PICK m \in 1..Len(slaves) : ~setup.modules[m].refused
    BY <1>3, <1>5
  <2>2. \E e \in 1..Len(entries) : TRUE
    BY <2>1 DEF IInv, EntriesInv
  <2> QED
    BY <1>2, <2>2
<1> QED
  BY <1>2, <1>4, <1>5

\* The steps of the passes.
LEMMA PassStepsKeep ==
  IInv /\ (Receive \/ ProcessData \/ NextEntry \/ Send \/ Controllers \/ Write) => IInv'
<1> SUFFICES ASSUME IInv, Receive \/ ProcessData \/ NextEntry \/ Send \/ Controllers \/ Write
             PROVE  IInv'
  OBVIOUS
<1>1. /\ phase \in Running /\ pass # "none" /\ at \in Nat /\ inner \in Nat
      /\ pass \in {"none", "update", "read", "write"}
      /\ phase = "process" => at \in 1..Len(entries) /\ inner \in 1..(entries[at].num_pdos + 1)
  BY DEF Receive, ProcessData, NextEntry, Send, Controllers, Write, Running, IInv, CountersInv
<1>2. UNCHANGED <<setup, mapping>> /\ UNCHANGED entries
  BY DEF Receive, ProcessData, NextEntry, Send, Controllers, Write, mapping
<1>3. Len(slaves) = Len(setup.modules)
  BY <1>1 DEF IInv, SlavesInv
<1>4. /\ Len(entries) \in Nat /\ 1 \in 1..Len(entries)
      /\ \A e \in 1..Len(entries) : entries[e].num_pdos \in Nat \ {0}
  BY <1>3, EntriesThere
<1>5. \A e \in 1..Len(entries) : 1 \in 1..(entries[e].num_pdos + 1)
  BY <1>4
<1>6. /\ phase' \in Running /\ pass' \in {"update", "read", "write"}
      /\ at' \in Nat /\ inner' \in Nat
      /\ phase' = "process" => at' \in 1..Len(entries) /\ inner' \in 1..(entries[at'].num_pdos + 1)
  <2>1. CASE Receive \/ Write
    <3>1. /\ phase' = "process" /\ at' = 1 /\ inner' = 1
          /\ pass' = pass \/ pass' = "write"
      BY <2>1 DEF Receive, Write
    <3> QED
      BY <1>1, <1>4, <1>5, <3>1 DEF Running
  <2>2. CASE ProcessData
    <3>1. /\ phase = "process" /\ phase' = phase /\ pass' = pass /\ at' = at
          /\ inner' = inner + 1 /\ inner <= entries[at].num_pdos
      BY <2>2 DEF ProcessData
    <3>2. inner' \in 1..(entries[at].num_pdos + 1) /\ inner' \in Nat
      BY <1>1, <1>4, <3>1
    <3> QED
      BY <1>1, <3>1, <3>2 DEF Running
  <2>3. CASE NextEntry
    <3>1. /\ phase = "process" /\ pass' = pass /\ inner' = 1 /\ DOMAIN entries = 1..Len(entries)
          /\ \/ at < Len(entries) /\ at' = at + 1 /\ phase' = phase
             \/ at' = 1 /\ phase' \in {"controllers", "send"}
      BY <2>3, EntriesThere DEF NextEntry, NextOf
    <3>2. CASE at' = 1 /\ phase' \in {"controllers", "send"}
      BY <1>1, <3>1, <3>2 DEF Running
    <3>3. CASE at < Len(entries) /\ at' = at + 1 /\ phase' = phase
      <4>1. at' \in 1..Len(entries) /\ at' \in Nat
        BY <1>1, <1>4, <3>3
      <4> QED
        BY <1>1, <1>5, <3>1, <3>3, <4>1
    <3> QED
      BY <3>1, <3>2, <3>3
  <2>4. CASE Send \/ Controllers
    BY <1>1, <2>4 DEF Send, Controllers, Running
  <2> QED
    BY <2>1, <2>2, <2>3, <2>4
<1>7. CountersInv'
  BY <1>2, <1>6 DEF CountersInv, Running
<1> QED
  BY <1>1, <1>2, <1>6, <1>7, MappingKept

-----------------------------------------------------------------------------
(***************************************************************************)
(* addSlave keeps it                                                       *)
(***************************************************************************)

\* Registrations are written over the terminating element and end with a new one.
LEMMA RegistrationsAppended ==
  ASSUME IsSequence(domain_regs), NEW n \in Nat, NEW regs, IsSequence(regs), Len(regs) = n
  PROVE  LET k == FirstRegistration - 1
             new == Append(SubSeq(domain_regs, 1, k) \o regs, Terminator)
         IN  /\ k \in Nat
             /\ domain_regs # <<>> => k = Len(domain_regs) - 1
             /\ domain_regs = <<>> => k = 0
             /\ IsSequence(new) /\ Len(new) = k + n + 1
             /\ \A x \in 1..k : new[x] = domain_regs[x]
             /\ \A j \in 1..n : new[k + j] = regs[j]
             /\ new[k + n + 1] = Terminator
<1> DEFINE k == FirstRegistration - 1
           old == SubSeq(domain_regs, 1, k)
           long == old \o regs
           new == Append(long, Terminator)
<1>1. Len(domain_regs) \in Nat /\ (domain_regs = <<>> <=> Len(domain_regs) = 0)
  BY SequenceShape
<1>2. /\ k \in Nat /\ k \in 0..Len(domain_regs)
      /\ domain_regs # <<>> => k = Len(domain_regs) - 1
      /\ domain_regs = <<>> => k = 0
  BY <1>1 DEF FirstRegistration
<1> HIDE DEF k
<1>3. IsSequence(old) /\ Len(old) = k /\ \A x \in 1..k : old[x] = domain_regs[x]
  BY <1>2, PrefixOf
<1> HIDE DEF old
<1>4. /\ IsSequence(long) /\ Len(long) = k + n
      /\ \A x \in 1..k : long[x] = old[x]
      /\ \A j \in 1..n : long[k + j] = regs[j]
  <2>1. long = old \o regs
    OBVIOUS
  <2> HIDE DEF long
  <2>2. IsSequence(old) /\ IsSequence(regs) /\ Len(old) = k /\ Len(regs) = n
    BY <1>3
  <2>3. IsSequence(long)
    BY <2>1, <2>2, ConcatOf
  <2>4. Len(long) = k + n
    BY <2>1, <2>2, ConcatOf
  <2>5. \A x \in 1..k : long[x] = old[x]
    BY <2>1, <2>2, ConcatOf
  <2>6. \A j \in 1..n : long[k + j] = regs[j]
    BY <2>1, <2>2, ConcatOf
  <2> QED
    BY <2>3, <2>4, <2>5, <2>6
<1> HIDE DEF long
<1>5. /\ IsSequence(new) /\ Len(new) = k + n + 1
      /\ \A x \in 1..(k + n) : new[x] = long[x]
      /\ new[k + n + 1] = Terminator
  BY <1>4, AppendTo
<1> HIDE DEF new
<1>6. \A x \in 1..k : x \in 1..(k + n)
  BY <1>2
<1>7. \A j \in 1..n : k + j \in 1..(k + n)
  BY <1>2
<1>8. /\ \A x \in 1..k : new[x] = domain_regs[x]
      /\ \A j \in 1..n : new[k + j] = regs[j]
  BY <1>3, <1>4, <1>5, <1>6, <1>7
<1> QED
  BY <1>2, <1>5, <1>8 DEF k, old, long, new

\* addSlave appends the slave, and its entry and registrations unless it was
\* refused.
LEMMA AddSlaveKeeps == IInv /\ AddSlave => IInv'
<1> SUFFICES ASSUME IInv, AddSlave
             PROVE  IInv'
  OBVIOUS
<1> DEFINE plugin == ec_modules_[at]
           config == setup.modules[at].config
           map == plugin.domain_map
           n == Len(map)
<1>1. /\ phase = "add" /\ pass = "none" /\ inner = 1
      /\ at \in 1..Len(setup.modules) /\ at \in Nat
      /\ Len(ec_modules_) = Len(setup.modules)
      /\ Len(slaves) = at - 1 /\ IsSequence(slaves)
      /\ plugin = Plugin(setup, at)
      /\ setup \in Setups
  BY DEF AddSlave, IInv, CountersInv, PluginsInv, SlavesInv, Running
<1>2. /\ Len(setup.modules) \in Nat /\ DOMAIN setup.modules = 1..Len(setup.modules)
  BY <1>1, Configured
<1>3. UNCHANGED <<setup, pass, inner, ec_modules_, inputs, domain_pd>>
  BY DEF AddSlave
<1>4. \/ at < Len(setup.modules) /\ at' = at + 1 /\ phase' = "add"
      \/ ~(at < Len(setup.modules)) /\ at' = 1 /\ phase' = "sdo"
  BY <1>1 DEF AddSlave, NextOf
<1>5. PluginsInv'
  BY <1>1, <1>3, <1>4 DEF IInv, PluginsInv
<1>6. CountersInv'
  <2>1. at' \in 1..Len(setup.modules) /\ at' \in Nat
    BY <1>1, <1>2, <1>4
  <2>2. 1 \in 1..(Len(Plugin(setup, at').sdo_config) + 1)
    <3>1. Len(Plugin(setup, at').sdo_config) \in Nat
      BY <1>1, <2>1, LoadingShape
    <3> QED
      BY <3>1
  <2> QED
    BY <1>1, <1>3, <1>4, <2>1, <2>2 DEF CountersInv, Running
<1>7. PICK slave : /\ slaves' = Append(slaves, slave)
                   /\ \A pdo \in Directions : slave[pdo] = ListOf(setup, at, pdo)
  <2>1. CASE setup.modules[at].refused
    <3>1. slaves' = Append(slaves, [rpdo |-> <<>>, tpdo |-> <<>>])
      BY <2>1 DEF AddSlave
    <3> QED
      BY <2>1, <3>1 DEF ListOf, Directions
  <2>2. CASE ~setup.modules[at].refused
    <3> DEFINE slave == [rpdo |-> MappedEntries(plugin, "rpdo", plugin.rpdos),
                         tpdo |-> MappedEntries(plugin, "tpdo", plugin.tpdos)]
    <3>1. slaves' = Append(slaves, slave)
      BY <2>2 DEF AddSlave
    <3>2. /\ MappedEntries(plugin, "rpdo", plugin.rpdos)
               = IF "rpdo" \in plugin.syncs THEN config.rpdo ELSE <<>>
          /\ MappedEntries(plugin, "tpdo", plugin.tpdos)
               = IF "tpdo" \in plugin.syncs THEN config.tpdo ELSE <<>>
      BY <1>1, <1>2, MappedList
    <3>3. config["rpdo"] = config.rpdo /\ config["tpdo"] = config.tpdo
      <4>1. config \in ConfigType
        BY <1>1, <1>2, Configured DEF WellConfigured
      <4> QED
        BY <4>1, ChannelsOfLists
    <3>4. plugin.syncs = setup_syncs(config)
      BY <1>1 DEF Plugin
    <3>5. /\ slave["rpdo"] = ListOf(setup, at, "rpdo")
          /\ slave["tpdo"] = ListOf(setup, at, "tpdo")
      BY <2>2, <3>2, <3>3, <3>4 DEF ListOf
    <3> HIDE DEF slave
    <3>6. \A pdo \in Directions : slave[pdo] = ListOf(setup, at, pdo)
      BY <3>5 DEF Directions
    <3> QED
      BY <3>1, <3>6
  <2> QED
    BY <2>1, <2>2
<1>8. /\ IsSequence(slaves') /\ Len(slaves') = at
      /\ \A m \in 1..(at - 1) : slaves'[m] = slaves[m]
      /\ slaves'[at] = slave
      /\ \A m \in 1..at : m \in 1..(at - 1) \/ m = at
  <2>1. /\ IsSequence(Append(slaves, slave))
        /\ Len(Append(slaves, slave)) = (at - 1) + 1
        /\ \A m \in 1..(at - 1) : Append(slaves, slave)[m] = slaves[m]
        /\ Append(slaves, slave)[(at - 1) + 1] = slave
    BY <1>1, AppendTo
  <2>2. (at - 1) + 1 = at /\ \A m \in 1..at : m \in 1..(at - 1) \/ m = at
    BY <1>1
  <2> QED
    BY <1>7, <2>1, <2>2
<1>9. SlavesInv'
  <2>1. \A m \in 1..Len(slaves') : \A pdo \in Directions :
          slaves'[m][pdo] = ListOf(setup, m, pdo)
    BY <1>1, <1>7, <1>8 DEF IInv, SlavesInv
  <2>2. Len(slaves') <= Len(setup.modules)
    BY <1>1, <1>2, <1>8
  <2>3. phase' = "add" => Len(slaves') = at' - 1
    BY <1>1, <1>4, <1>8
  <2>4. phase' # "add" => phase' = "sdo" /\ Len(slaves') = Len(setup.modules)
    BY <1>1, <1>2, <1>4, <1>8
  <2> QED
    BY <1>3, <1>8, <2>1, <2>2, <2>3, <2>4 DEF SlavesInv, Running
<1>10. EntriesInv' /\ RegsInv'
  <2>1. CASE setup.modules[at].refused
    <3>1. UNCHANGED <<entries, domain_regs>>
      BY <2>1 DEF AddSlave
    <3>2. \A e \in 1..Len(entries) : entries[e].slave \in 1..Len(slaves')
      <4>1. \A x \in 1..(at - 1) : x \in 1..at
        BY <1>1
      <4> QED
        BY <1>1, <1>8, <4>1 DEF IInv, EntriesInv
    <3>3. \A m \in 1..Len(slaves') :
            ~setup.modules[m].refused => \E e \in 1..Len(entries) : entries[e].slave = m
      BY <1>1, <1>8, <2>1 DEF IInv, EntriesInv
    <3>4. EntriesInv'
      BY <1>3, <3>1, <3>2, <3>3 DEF IInv, EntriesInv
    <3>5. RegsInv'
      BY <1>3, <3>1 DEF IInv, RegsInv, Terminator
    <3> QED
      BY <3>4, <3>5
  <2>2. CASE ~setup.modules[at].refused
    <3> DEFINE last == Len(entries) + 1
               entry == [slave |-> at, num_pdos |-> n, offset |-> [x \in DOMAIN map |-> Unset]]
               regs == [x \in DOMAIN map |->
                          [module |-> at, object |-> plugin.all_channels[map[x]].object,
                           entry |-> last, i |-> x]]
               k == FirstRegistration - 1
               new == Append(SubSeq(domain_regs, 1, k) \o regs, Terminator)
    <3>1. entries' = Append(entries, entry) /\ domain_regs' = new
      BY <2>2 DEF AddSlave, Register
    <3>2. /\ n \in Nat \ {0} /\ DOMAIN map = 1..n
          /\ n = Registrations(setup, at)
          /\ plugin.all_channels = AllChannels(config)
      BY <1>1, <1>2, PluginChannels DEF Registrations
    <3>3. IsSequence(regs) /\ Len(regs) = n
      <4> HIDE DEF n
      <4>1. regs = [x \in 1..n |-> regs[x]]
        BY <3>2
      <4> HIDE DEF regs
      <4> QED
        BY <3>2, <4>1, SequenceFrom
    <3>4. \A j \in 1..n : regs[j] = Registration(setup, at, last, j)
      BY <1>1, <3>2 DEF Registration, ChannelOf
    <3>5. /\ IsSequence(entries) /\ Len(entries) \in Nat /\ last \in Nat
          /\ IsSequence(domain_regs) /\ Len(domain_regs) \in Nat
          /\ domain_regs = <<>> <=> entries = <<>>
      BY SequenceShape DEF IInv, EntriesInv, RegsInv
    <3>6. /\ IsSequence(entries') /\ Len(entries') = last
          /\ \A e \in 1..(last - 1) : entries'[e] = entries[e]
          /\ entries'[last] = entry
          /\ \A e \in 1..last : e \in 1..(last - 1) \/ e = last
      <4>1. /\ IsSequence(Append(entries, entry)) /\ Len(Append(entries, entry)) = last
            /\ \A e \in 1..Len(entries) : Append(entries, entry)[e] = entries[e]
            /\ Append(entries, entry)[Len(entries) + 1] = entry
        <5> HIDE DEF entry
        <5> QED
          BY <3>5, AppendTo
      <4>2. /\ last - 1 = Len(entries)
            /\ \A e \in 1..last : e \in 1..(last - 1) \/ e = last
        BY <3>5
      <4> HIDE DEF entry, last
      <4>3. last = Len(entries) + 1
        BY DEF last
      <4> QED
        BY <3>1, <4>1, <4>2, <4>3
    <3>7. /\ DOMAIN entry = {"slave", "num_pdos", "offset"}
          /\ entry.slave = at /\ entry.num_pdos = Registrations(setup, at)
          /\ entry.offset \in [1..entry.num_pdos -> Nat \cup {Unset}]
          /\ \A j \in 1..entry.num_pdos : entry.offset[j] = Unset
      BY <3>2
    <3>8. last - 1 = Len(entries)
      BY <3>5
    <3> HIDE DEF entry, last
    <3>9. EntriesInv'
      <4>1. \A x \in 1..(at - 1) : x \in 1..at
        BY <1>1
      <4>2. at \in 1..at
        BY <1>1
      <4>3. ASSUME NEW e \in 1..Len(entries')
            PROVE  /\ DOMAIN entries'[e] = {"slave", "num_pdos", "offset"}
                   /\ entries'[e].slave \in 1..Len(slaves')
                   /\ ~setup.modules[entries'[e].slave].refused
                   /\ entries'[e].num_pdos = Registrations(setup, entries'[e].slave)
                   /\ entries'[e].offset \in [1..entries'[e].num_pdos -> Nat \cup {Unset}]
                   /\ \A j \in 1..entries'[e].num_pdos : entries'[e].offset[j] = Unset
        <5>1. CASE e \in 1..Len(entries)
          BY <1>1, <1>8, <3>6, <3>8, <4>1, <5>1 DEF IInv, EntriesInv
        <5>2. CASE e = last
          BY <1>8, <2>2, <3>6, <3>7, <4>2, <5>2
        <5> QED
          BY <3>6, <3>8, <5>1, <5>2
      <4>4. ASSUME NEW m \in 1..Len(slaves'), ~setup.modules[m].refused
            PROVE  \E e \in 1..Len(entries') : entries'[e].slave = m
        <5>1. CASE m \in 1..(at - 1)
          <6>1. PICK e \in 1..Len(entries) : entries[e].slave = m
            BY <1>1, <4>4, <5>1 DEF IInv, EntriesInv
          <6>2. e \in 1..last
            BY <3>5, <3>8
          <6> QED
            BY <3>6, <3>8, <6>1, <6>2
        <5>2. CASE m = at
          <6>1. last \in 1..last
            BY <3>5, <3>8
          <6> QED
            BY <3>6, <3>7, <5>2, <6>1
        <5> QED
          BY <1>8, <5>1, <5>2
      <4> QED
        BY <1>3, <3>6, <4>3, <4>4 DEF EntriesInv
    <3>10. /\ k \in Nat
           /\ domain_regs # <<>> => k = Len(domain_regs) - 1
           /\ domain_regs = <<>> => k = 0
           /\ IsSequence(domain_regs') /\ Len(domain_regs') = k + n + 1
           /\ \A x \in 1..k : domain_regs'[x] = domain_regs[x]
           /\ \A j \in 1..n : domain_regs'[k + j] = Registration(setup, at, last, j)
           /\ domain_regs'[k + n + 1] = Terminator
      <4> HIDE DEF regs, n
      <4>1. n \in Nat
        BY <3>2
      <4>2. /\ k \in Nat
            /\ domain_regs # <<>> => k = Len(domain_regs) - 1
            /\ domain_regs = <<>> => k = 0
            /\ IsSequence(new) /\ Len(new) = k + n + 1
            /\ \A x \in 1..k : new[x] = domain_regs[x]
            /\ \A j \in 1..n : new[k + j] = regs[j]
            /\ new[k + n + 1] = Terminator
        BY <3>3, <3>5, <4>1, RegistrationsAppended
      <4> HIDE DEF k, new
      <4> QED
        BY <3>1, <3>4, <4>2
    <3> HIDE DEF k, n, new, map
    <3>11. ASSUME NEW x \in 1..(Len(domain_regs') - 1)
           PROVE  \E e \in 1..Len(entries') : \E j \in 1..entries'[e].num_pdos :
                    domain_regs'[x] = Registration(setup, entries'[e].slave, e, j)
      <4>1. x \in 1..k \/ (x - k \in 1..n /\ x = k + (x - k))
        BY <3>2, <3>10
      <4>2. CASE x \in 1..k
        <5>1. x \in 1..(Len(domain_regs) - 1) /\ domain_regs'[x] = domain_regs[x]
          BY <3>10, <4>2
        <5>2. PICK e \in 1..Len(entries) : \E j \in 1..entries[e].num_pdos :
                     domain_regs[x] = Registration(setup, entries[e].slave, e, j)
          BY <5>1 DEF IInv, RegsInv
        <5>3. e \in 1..Len(entries') /\ entries'[e] = entries[e]
          <6>1. e \in 1..last
            BY <3>5, <3>8
          <6> QED
            BY <3>6, <3>8, <6>1
        <5> QED
          BY <5>1, <5>2, <5>3
      <4>3. CASE x - k \in 1..n /\ x = k + (x - k)
        <5>1. domain_regs'[x] = Registration(setup, at, last, x - k)
          BY <3>10, <4>3
        <5>2. last \in 1..Len(entries') /\ entries'[last] = entry
          <6>1. last \in 1..last
            BY <3>5, <3>8
          <6> QED
            BY <3>6, <6>1
        <5>3. x - k \in 1..entry.num_pdos
          BY <3>2, <3>7, <4>3
        <5> QED
          BY <3>7, <5>1, <5>2, <5>3
      <4> QED
        BY <4>1, <4>2, <4>3
    <3>12. ASSUME NEW e \in 1..Len(entries'), NEW j \in 1..entries'[e].num_pdos
           PROVE  \E x \in 1..(Len(domain_regs') - 1) :
                    domain_regs'[x] = Registration(setup, entries'[e].slave, e, j)
      <4>1. CASE e \in 1..Len(entries)
        <5>1. entries'[e] = entries[e]
          BY <3>6, <3>8, <4>1
        <5>2. PICK x \in 1..(Len(domain_regs) - 1) :
                     domain_regs[x] = Registration(setup, entries[e].slave, e, j)
          BY <4>1, <5>1 DEF IInv, RegsInv
        <5>3. domain_regs # <<>>
          BY <3>5, <5>2, SequenceShape
        <5>4. x \in 1..k /\ x \in 1..(Len(domain_regs') - 1)
          BY <3>2, <3>10, <5>3
        <5> QED
          BY <3>10, <5>1, <5>2, <5>4
      <4>2. CASE e = last
        <5>1. entries'[e] = entry /\ j \in 1..n
          BY <3>2, <3>6, <3>7, <4>2
        <5>2. k + j \in 1..(Len(domain_regs') - 1)
          BY <3>2, <3>10, <5>1
        <5> QED
          BY <3>7, <3>10, <4>2, <5>1, <5>2
      <4> QED
        BY <3>6, <3>8, <4>1, <4>2
    <3>13. domain_regs' # <<>> /\ entries' # <<>>
      <4>1. Len(domain_regs') # 0
        BY <3>2, <3>10
      <4>2. Len(entries') # 0
        BY <3>5, <3>6, <3>8
      <4> QED
        BY <3>6, <3>10, <4>1, <4>2, SequenceShape
    <3>14. RegsInv'
      BY <1>3, <3>10, <3>11, <3>12, <3>13 DEF RegsInv, Terminator
    <3> QED
      BY <3>9, <3>14
  <2> QED
    BY <2>1, <2>2
<1>11. AddressesInv'
  BY <1>1, <1>3 DEF IInv, AddressesInv
<1> QED
  BY <1>5, <1>6, <1>9, <1>10, <1>11 DEF IInv

-----------------------------------------------------------------------------
(***************************************************************************)
(* activate keeps it                                                       *)
(***************************************************************************)

\* A registration is one of an object of the configuration, and every object of
\* a slave has one.
LEMMA RegisteredObjects ==
  ASSUME NEW s \in Setups, NEW m \in 1..Len(s.modules)
  PROVE  /\ Registrations(s, m) \in Nat \ {0}
         /\ \A j \in 1..Registrations(s, m) :
              /\ IsObject(s, <<m, ChannelOf(s, m, j)>>)
              /\ ChannelOf(s, m, j) \in DOMAIN AllChannels(s.modules[m].config)
              /\ AllChannels(s.modules[m].config)[ChannelOf(s, m, j)].object # 0
         /\ \A o : IsObject(s, o) /\ o[1] = m =>
              \E j \in 1..Registrations(s, m) : ChannelOf(s, m, j) = o[2]
<1> DEFINE all == AllChannels(s.modules[m].config)
           map == Plugin(s, m).domain_map
<1>1. m \in DOMAIN s.modules
  BY Configured
<1>2. /\ Len(map) \in Nat \ {0}
      /\ \A x \in 1..Len(map) : map[x] \in DOMAIN all /\ all[map[x]].object # 0
      /\ \A c \in DOMAIN all : all[c].object # 0 => \E x \in 1..Len(map) : map[x] = c
  BY <1>1, PluginChannels
<1>3. Registrations(s, m) = Len(map) /\ \A j : ChannelOf(s, m, j) = map[j]
  BY DEF Registrations, ChannelOf
<1> HIDE DEF map
<1>4. \A c \in DOMAIN all : all[c].object # 0 => IsObject(s, <<m, c>>)
  <2> SUFFICES ASSUME NEW c \in DOMAIN all, all[c].object # 0
               PROVE  IsObject(s, <<m, c>>)
    OBVIOUS
  <2>1. <<m, c>> \in UNION {{x} \X DOMAIN AllChannels(s.modules[x].config) : x \in DOMAIN s.modules}
    BY <1>1
  <2> QED
    BY <2>1 DEF IsObject, ConfiguredObjects
<1>5. \A o : IsObject(s, o) /\ o[1] = m => o[2] \in DOMAIN all /\ all[o[2]].object # 0
  BY ObjectOf DEF EntryOf
<1> QED
  BY <1>2, <1>3, <1>4, <1>5

\* The master gets all registrations.
LEMMA RequestedAll ==
  ASSUME IInv, Len(slaves) = Len(setup.modules)
  PROVE  Requested = 1..(Len(domain_regs) - 1)
<1>1. /\ Len(domain_regs) \in Nat \ {0} /\ DOMAIN domain_regs = 1..Len(domain_regs)
      /\ domain_regs[Len(domain_regs)].object = 0
  <2>1. 1 \in 1..Len(entries) /\ IsSequence(entries) /\ Len(entries) \in Nat
    BY EntriesThere DEF IInv, EntriesInv
  <2>2. entries # <<>> /\ IsSequence(domain_regs)
    BY <2>1, SequenceShape DEF IInv, RegsInv
  <2>3. domain_regs # <<>> /\ domain_regs[Len(domain_regs)] = Terminator
    BY <2>2 DEF IInv, RegsInv
  <2> QED
    BY <2>2, <2>3, SequenceShape DEF Terminator
<1>2. ASSUME NEW x \in 1..(Len(domain_regs) - 1)
      PROVE  domain_regs[x].object # 0
  <2>1. PICK e \in 1..Len(entries) : \E j \in 1..entries[e].num_pdos :
             domain_regs[x] = Registration(setup, entries[e].slave, e, j)
    BY DEF IInv, RegsInv
  <2>2. /\ entries[e].slave \in 1..Len(setup.modules) /\ setup \in Setups
        /\ entries[e].num_pdos = Registrations(setup, entries[e].slave)
    BY EntriesThere DEF IInv, EntriesInv, PluginsInv
  <2>3. PICK j \in 1..entries[e].num_pdos :
             domain_regs[x] = Registration(setup, entries[e].slave, e, j)
    BY <2>1
  <2> DEFINE m == entries[e].slave
  <2>4. m \in 1..Len(setup.modules) /\ j \in 1..Registrations(setup, m)
    BY <2>2, <2>3
  <2>5. domain_regs[x].object = AllChannels(setup.modules[m].config)[ChannelOf(setup, m, j)].object
    BY <2>3 DEF Registration
  <2> HIDE DEF m
  <2>6. AllChannels(setup.modules[m].config)[ChannelOf(setup, m, j)].object # 0
    BY <2>2, <2>4, RegisteredObjects
  <2> QED
    BY <2>5, <2>6
<1>3. Requested \subseteq 1..(Len(domain_regs) - 1)
  <2> SUFFICES ASSUME NEW x \in Requested
               PROVE  x \in 1..(Len(domain_regs) - 1)
    OBVIOUS
  <2>1. x \in 1..Len(domain_regs) /\ \A y \in 1..x : domain_regs[y].object # 0
    BY <1>1 DEF Requested
  <2>2. x # Len(domain_regs)
    <3>1. x \in 1..x
      BY <1>1, <2>1
    <3> QED
      BY <1>1, <2>1, <3>1
  <2> DEFINE n == Len(domain_regs)
  <2>3. n \in Nat \ {0} /\ x \in 1..n /\ x # n
    BY <1>1, <2>1, <2>2
  <2> HIDE DEF n
  <2>4. x \in 1..(n - 1)
    BY <2>3
  <2> QED
    BY <2>4 DEF n
<1>4. 1..(Len(domain_regs) - 1) \subseteq Requested
  <2> SUFFICES ASSUME NEW x \in 1..(Len(domain_regs) - 1)
               PROVE  x \in Requested
    OBVIOUS
  <2>1. x \in 1..Len(domain_regs) /\ \A y \in 1..x : y \in 1..(Len(domain_regs) - 1)
    BY <1>1
  <2> QED
    BY <1>1, <1>2, <2>1 DEF Requested
<1> QED
  BY <1>3, <1>4

\* Every place of a direction is that of a channel.
LEMMA ChannelAtPlace ==
  ASSUME NEW config \in ConfigType, NEW pdo \in Directions, NEW x \in DOMAIN config[pdo]
  PROVE  \E d \in DOMAIN AllChannels(config) :
           /\ AllChannels(config)[d] = config[pdo][x]
           /\ DirectionOf(config, d) = pdo /\ PlaceOf(config, d) = x
<1> DEFINE all == AllChannels(config)
           out == Len(config.rpdo)
           in == Len(config.tpdo)
<1>1. /\ out \in Nat /\ in \in Nat /\ DOMAIN all = 1..(out + in)
      /\ config.rpdo = config["rpdo"] /\ config.tpdo = config["tpdo"]
      /\ DOMAIN config.rpdo = 1..out /\ DOMAIN config.tpdo = 1..in
  BY ChannelsOfLists DEF Directions
<1>2. CASE pdo = "rpdo"
  <2>1. x \in 1..out /\ x \in DOMAIN config.rpdo /\ config[pdo] = config.rpdo
    BY <1>1, <1>2
  <2>2. all[x] = config.rpdo[x]
    BY <2>1, ChannelsOfLists
  <2>3. x \in 1..(out + in) /\ x <= out
    <3> HIDE DEF out, in
    <3> QED
      BY <1>1, <2>1
  <2> QED
    BY <1>1, <1>2, <2>1, <2>2, <2>3 DEF DirectionOf, PlaceOf
<1>3. CASE pdo = "tpdo"
  <2>1. x \in 1..in /\ x \in DOMAIN config.tpdo /\ config[pdo] = config.tpdo
    BY <1>1, <1>3
  <2>2. all[out + x] = config.tpdo[x]
    BY <2>1, ChannelsOfLists
  <2>3. out + x \in 1..(out + in) /\ ~(out + x <= out) /\ (out + x) - out = x
    <3> HIDE DEF out, in
    <3> QED
      BY <1>1, <2>1
  <2> QED
    BY <1>1, <1>3, <2>1, <2>2, <2>3 DEF DirectionOf, PlaceOf
<1> QED
  BY <1>2, <1>3 DEF Directions

\* A registered object is found where the configuration has it, or not at all.
LEMMA PositionsOf ==
  ASSUME IInv, Len(slaves) = Len(setup.modules), NEW reg, NEW c,
         reg.module \in 1..Len(setup.modules), ~setup.modules[reg.module].refused,
         IsObject(setup, <<reg.module, c>>),
         reg.object = AllChannels(setup.modules[reg.module].config)[c].object,
         NEW pdo \in Directions
  PROVE  LET config == setup.modules[reg.module].config
         IN  Positions(reg, pdo) =
               IF pdo = DirectionOf(config, c) /\ slaves[reg.module][pdo] # <<>>
                 THEN {PlaceOf(config, c)} ELSE {}
<1> DEFINE m == reg.module
           o == <<m, c>>
           config == setup.modules[m].config
           all == AllChannels(config)
           list == config[pdo]
           mapped == slaves[m][pdo]
<1>1. setup \in Setups /\ m \in DOMAIN setup.modules
  BY Configured DEF IInv, PluginsInv
<1>2. /\ config \in ConfigType
      /\ \A x, y \in DOMAIN all : all[x].object = all[y].object => x = y \/ all[x].object = 0
  BY <1>1, Configured DEF WellConfigured
<1>3. /\ c \in DOMAIN all /\ all[c].object # 0
      /\ DirectionOf(config, c) \in Directions
      /\ PlaceOf(config, c) \in DOMAIN config[DirectionOf(config, c)]
      /\ all[c] = config[DirectionOf(config, c)][PlaceOf(config, c)]
  <2>1. c \in DOMAIN all /\ all[c].object # 0
    <3>1. o[1] = m /\ o[2] = c
      OBVIOUS
    <3> QED
      BY <1>1, <3>1, ObjectOf DEF EntryOf
  <2> QED
    BY <1>2, <2>1, ChannelsOfLists
<1>4. mapped = ListOf(setup, m, pdo)
  BY DEF IInv, SlavesInv
<1>5. mapped = <<>> \/ mapped = list
  BY <1>4 DEF ListOf
<1>6. ASSUME NEW x \in DOMAIN list, list[x].object = all[c].object
      PROVE  pdo = DirectionOf(config, c) /\ x = PlaceOf(config, c)
  <2>1. PICK d \in DOMAIN all : /\ all[d] = list[x]
                                /\ DirectionOf(config, d) = pdo /\ PlaceOf(config, d) = x
    BY <1>2, ChannelAtPlace
  <2>2. d = c
    BY <1>2, <1>3, <1>6, <2>1
  <2> QED
    BY <2>1, <2>2
<1>7. Positions(reg, pdo) = {x \in DOMAIN mapped : mapped[x].object = all[c].object}
  BY DEF Positions
<1> HIDE DEF all, config
<1>8. CASE mapped = <<>>
  <2>1. Positions(reg, pdo) = {}
    BY <1>7, <1>8
  <2> QED
    BY <1>8, <2>1 DEF config
<1>9. CASE mapped # <<>>
  <2>1. mapped = list
    BY <1>5, <1>9
  <2>2. Positions(reg, pdo) = {x \in DOMAIN list : list[x].object = all[c].object}
    BY <1>7, <2>1
  <2>3. CASE pdo = DirectionOf(config, c)
    <3>1. Positions(reg, pdo) = {PlaceOf(config, c)}
      BY <1>3, <1>6, <2>2, <2>3
    <3> QED
      BY <1>9, <2>3, <3>1 DEF config
  <2>4. CASE pdo # DirectionOf(config, c)
    <3>1. Positions(reg, pdo) = {}
      BY <1>6, <2>2, <2>4
    <3> QED
      BY <2>4, <3>1 DEF config
  <2> QED
    BY <2>3, <2>4
<1> QED
  BY <1>8, <1>9

\* No registration is left without an entry of its slave.
AllMapped ==
  \A x \in Requested : \E pdo \in Directions : Positions(domain_regs[x], pdo) # {}

\* The slaves map every direction that has objects.
LEMMA ObjectsMapped ==
  ASSUME IInv, Len(slaves) = Len(setup.modules), AllMapped,
         NEW o, IsObject(setup, o), ~setup.modules[o[1]].refused
  PROVE  LET config == setup.modules[o[1]].config
             pdo == DirectionOf(config, o[2])
         IN  /\ slaves[o[1]][pdo] = config[pdo] /\ slaves[o[1]][pdo] # <<>>
             /\ \E x \in Requested : /\ domain_regs[x].module = o[1]
                                     /\ Positions(domain_regs[x], pdo) # {}
<1> DEFINE m == o[1]
           c == o[2]
           config == setup.modules[m].config
           d == DirectionOf(config, c)
<1>1. /\ setup \in Setups /\ m \in 1..Len(setup.modules) /\ o = <<m, c>>
      /\ d \in Directions
  BY ObjectOf DEF IInv, PluginsInv
<1>2. PICK j \in 1..Registrations(setup, m) : ChannelOf(setup, m, j) = c
  BY <1>1, RegisteredObjects
<1>3. PICK e \in 1..Len(entries) : entries[e].slave = m
  BY <1>1 DEF IInv, EntriesInv
<1>4. j \in 1..entries[e].num_pdos
  BY <1>2, <1>3 DEF IInv, EntriesInv
<1>5. PICK x \in 1..(Len(domain_regs) - 1) : domain_regs[x] = Registration(setup, m, e, j)
  BY <1>3, <1>4 DEF IInv, RegsInv
<1>6. /\ domain_regs[x].module = m
      /\ domain_regs[x].object = AllChannels(config)[c].object
  BY <1>2, <1>5 DEF Registration
<1>7. x \in Requested
  BY <1>5, RequestedAll
<1>8. PICK pdo \in Directions : Positions(domain_regs[x], pdo) # {}
  BY <1>7 DEF AllMapped
<1>9. pdo = d /\ slaves[m][pdo] # <<>>
  <2> DEFINE reg == domain_regs[x]
  <2>1. /\ reg.module \in 1..Len(setup.modules) /\ ~setup.modules[reg.module].refused
        /\ IsObject(setup, <<reg.module, c>>)
        /\ reg.object = AllChannels(setup.modules[reg.module].config)[c].object
    BY <1>1, <1>6
  <2> HIDE DEF reg
  <2>2. Positions(reg, pdo) =
          IF pdo = DirectionOf(setup.modules[reg.module].config, c) /\ slaves[reg.module][pdo] # <<>>
            THEN {PlaceOf(setup.modules[reg.module].config, c)} ELSE {}
    BY <2>1, PositionsOf
  <2>3. Positions(reg, pdo) # {} /\ reg.module = m
    BY <1>6, <1>8 DEF reg
  <2> QED
    BY <2>2, <2>3
<1>10. slaves[m][d] = config[d]
  BY <1>1, <1>9 DEF IInv, SlavesInv, ListOf
<1> QED
  BY <1>6, <1>7, <1>8, <1>9, <1>10

\* Then the directions have the sizes and places they were declared with.
LEMMA RegionsDeclared ==
  ASSUME IInv, Len(slaves) = Len(setup.modules), AllMapped
  PROVE  RegionSizes = DirectionSizes(setup)
<1>1. /\ setup \in Setups /\ DOMAIN setup.modules = 1..Len(setup.modules)
      /\ DOMAIN slaves = 1..Len(setup.modules)
  <2>1. setup \in Setups /\ IsSequence(slaves)
    BY DEF IInv, PluginsInv, SlavesInv
  <2> QED
    BY <2>1, Configured, SequenceShape
<1> DEFINE got(m, pdo) ==
             IF \E x \in Requested : domain_regs[x].module = m /\ Positions(domain_regs[x], pdo) # {}
               THEN Bytes(slaves[m][pdo]) ELSE 0
           has(m, pdo) == \E c \in DOMAIN setup.modules[m].config[pdo] :
                            setup.modules[m].config[pdo][c].object # 0
           declared(m, pdo) ==
             IF ~setup.modules[m].refused /\ has(m, pdo)
               THEN Bytes(setup.modules[m].config[pdo]) ELSE 0
<1>2. RegionSizes = [m \in 1..Len(setup.modules) |-> [pdo \in Directions |-> got(m, pdo)]]
  BY <1>1 DEF RegionSizes
<1>3. DirectionSizes(setup) = [m \in 1..Len(setup.modules) |-> [pdo \in Directions |-> declared(m, pdo)]]
  BY <1>1 DEF DirectionSizes
<1>4. ASSUME NEW m \in 1..Len(setup.modules), NEW pdo \in Directions
      PROVE  got(m, pdo) = declared(m, pdo)
  <2> DEFINE config == setup.modules[m].config
  <2>1. config \in ConfigType
    BY <1>1, Configured DEF WellConfigured
  <2>2. CASE ~setup.modules[m].refused /\ has(m, pdo)
    <3>1. PICK c \in DOMAIN config[pdo] : config[pdo][c].object # 0
      BY <2>2
    <3>2. PICK d \in DOMAIN AllChannels(config) :
               /\ AllChannels(config)[d] = config[pdo][c] /\ DirectionOf(config, d) = pdo
      BY <2>1, ChannelAtPlace
    <3>3. IsObject(setup, <<m, d>>)
      <4>1. <<m, d>> \in UNION {{x} \X DOMAIN AllChannels(setup.modules[x].config) : x \in DOMAIN setup.modules}
        BY <1>1
      <4> QED
        BY <1>1, <3>1, <3>2, <4>1 DEF IsObject, ConfiguredObjects
    <3> DEFINE o == <<m, d>>
    <3>4. o[1] = m /\ o[2] = d
      OBVIOUS
    <3> HIDE DEF o
    <3>5. /\ slaves[m][pdo] = config[pdo]
          /\ \E x \in Requested : domain_regs[x].module = m /\ Positions(domain_regs[x], pdo) # {}
      BY <2>2, <3>2, <3>3, <3>4, ObjectsMapped DEF o
    <3> QED
      BY <2>2, <3>5
  <2>3. ASSUME NEW x \in Requested, domain_regs[x].module = m, Positions(domain_regs[x], pdo) # {}
        PROVE  ~setup.modules[m].refused /\ has(m, pdo)
    <3>1. PICK e \in 1..Len(entries) : \E j \in 1..entries[e].num_pdos :
               domain_regs[x] = Registration(setup, entries[e].slave, e, j)
      <4>1. x \in 1..(Len(domain_regs) - 1)
        BY RequestedAll
      <4> QED
        BY <4>1 DEF IInv, RegsInv
    <3>2. PICK j \in 1..entries[e].num_pdos :
               domain_regs[x] = Registration(setup, entries[e].slave, e, j)
      BY <3>1
    <3>3. entries[e].slave = m
      BY <2>3, <3>2 DEF Registration
    <3>4. ~setup.modules[m].refused /\ j \in 1..Registrations(setup, m)
      BY <3>2, <3>3 DEF IInv, EntriesInv
    <3> DEFINE c == ChannelOf(setup, m, j)
               reg == domain_regs[x]
    <3>5. IsObject(setup, <<m, c>>) /\ c \in DOMAIN AllChannels(config)
          /\ AllChannels(config)[c].object # 0
      BY <1>1, <3>4, RegisteredObjects
    <3>6. reg.module = m /\ reg.object = AllChannels(config)[c].object
      BY <3>2, <3>3 DEF Registration
    <3> HIDE DEF c, reg
    <3>7. Positions(reg, pdo) =
            IF pdo = DirectionOf(config, c) /\ slaves[m][pdo] # <<>> THEN {PlaceOf(config, c)} ELSE {}
      BY <3>4, <3>5, <3>6, PositionsOf
    <3>8. pdo = DirectionOf(config, c)
      BY <2>3, <3>7 DEF reg
    <3>9. PlaceOf(config, c) \in DOMAIN config[pdo] /\ config[pdo][PlaceOf(config, c)] = AllChannels(config)[c]
      BY <2>1, <3>5, <3>8, ChannelsOfLists
    <3> QED
      BY <3>4, <3>5, <3>9
  <2>4. CASE ~(~setup.modules[m].refused /\ has(m, pdo))
    <3> HIDE DEF has
    <3> QED
      BY <2>3, <2>4
  <2> QED
    BY <2>2, <2>4
<1> HIDE DEF got, declared
<1> QED
  BY <1>2, <1>3, <1>4

\* A registered object gets the byte it was declared with.
LEMMA AddressDeclared ==
  ASSUME IInv, Len(slaves) = Len(setup.modules), AllMapped, NEW reg, NEW c,
         reg.module \in 1..Len(setup.modules), ~setup.modules[reg.module].refused,
         IsObject(setup, <<reg.module, c>>),
         reg.object = AllChannels(setup.modules[reg.module].config)[c].object
  PROVE  /\ ByteAddress(reg) = DeclaredByte(setup, reg.module, c)
         /\ DeclaredByte(setup, reg.module, c) \in Nat
<1> DEFINE m == reg.module
           o == <<m, c>>
           config == setup.modules[m].config
           d == DirectionOf(config, c)
           p == PlaceOf(config, c)
<1>1. setup \in Setups /\ o[1] = m /\ o[2] = c
  BY DEF IInv, PluginsInv
<1>2. d \in Directions
  BY <1>1, ObjectOf
<1> HIDE DEF o
<1>3. slaves[m][d] = config[d] /\ slaves[m][d] # <<>>
  BY <1>1, ObjectsMapped DEF o
<1>4. /\ Positions(reg, d) = {p}
      /\ \A pdo \in Directions : pdo # d => Positions(reg, pdo) = {}
  BY <1>2, <1>3, PositionsOf
<1>5. (CHOOSE pdo \in Directions : Positions(reg, pdo) # {}) = d
  BY <1>2, <1>4
<1>6. (CHOOSE x \in Positions(reg, d) : TRUE) = p
  BY <1>4
<1>7. ByteAddress(reg) = Base(m, d) + BitsBefore(slaves[m][d], p) \div ByteBits
  BY <1>5, <1>6 DEF ByteAddress
<1>8. Base(m, d) = Start(DirectionSizes(setup), m, d)
  BY RegionsDeclared DEF Base
<1>9. /\ DeclaredByte(setup, m, c)
           = Start(DirectionSizes(setup), m, d) + BitsBefore(config[d], p) \div ByteBits
      /\ Start(DirectionSizes(setup), m, d) \in Nat
      /\ BitsBefore(config[d], p) \div ByteBits \in Nat
  BY <1>1, PlaceOfObject DEF o
<1> HIDE DEF d, p, config
<1> QED
  BY <1>3, <1>7, <1>8, <1>9

\* The slaves write bits of their own directions only.
LEMMA InputsApart ==
  ASSUME IInv, Len(slaves) = Len(setup.modules), AllMapped, NEW o \in DOMAIN InputBits
  PROVE  /\ DOMAIN InputBits[o] = 0..(Cardinality(DOMAIN InputBits[o]) - 1)
         /\ \A b \in DOMAIN InputBits[o] :
              InputBits[o][b] \in Nat /\ ~OutputBit(setup, InputBits[o][b])
<1> DEFINE m == o[1]
           c == o[2]
           list == slaves[m].tpdo
           width == list[c].type.bits
           first == Base(m, "tpdo") * ByteBits + BitsBefore(list, c)
<1>1. /\ m \in DOMAIN slaves /\ c \in DOMAIN list /\ list[c].object # 0
      /\ InputBits[o] = [b \in 0..(width - 1) |-> first + b]
  <2> DEFINE objects == {r \in UNION {{n} \X DOMAIN slaves[n].tpdo : n \in DOMAIN slaves} :
                           slaves[r[1]].tpdo[r[2]].object # 0}
             base == [r \in objects |->
                        Base(r[1], "tpdo") * ByteBits + BitsBefore(slaves[r[1]].tpdo, r[2])]
             bits(r) == [b \in 0..(slaves[r[1]].tpdo[r[2]].type.bits - 1) |-> base[r] + b]
  <2>1. InputBits = [r \in objects |-> bits(r)]
    BY DEF InputBits
  <2> HIDE DEF bits
  <2>2. o \in objects /\ InputBits[o] = bits(o)
    <3> HIDE DEF objects
    <3> QED
      BY <2>1
  <2>3. m \in DOMAIN slaves /\ c \in DOMAIN list /\ list[c].object # 0
    BY <2>2
  <2>4. base[o] = first
    BY <2>2
  <2> HIDE DEF base, first
  <2>5. bits(o) = [b \in 0..(width - 1) |-> first + b]
    BY <2>4 DEF bits
  <2> QED
    BY <2>2, <2>3, <2>5
<1>2. /\ setup \in Setups /\ DOMAIN setup.modules = 1..Len(setup.modules)
      /\ m \in 1..Len(setup.modules)
  <2>1. setup \in Setups /\ IsSequence(slaves)
    BY DEF IInv, PluginsInv, SlavesInv
  <2> QED
    BY <1>1, <2>1, Configured, SequenceShape
<1> DEFINE config == setup.modules[m].config
<1>3. config \in ConfigType
  BY <1>2, Configured DEF WellConfigured
<1>4. ~setup.modules[m].refused /\ list = config["tpdo"]
  <2>1. slaves[m]["tpdo"] = ListOf(setup, m, "tpdo")
    BY <1>2 DEF IInv, SlavesInv, Directions
  <2>2. slaves[m]["tpdo"] # <<>>
    BY <1>1
  <2> QED
    BY <2>1, <2>2 DEF ListOf
<1> HIDE DEF list
<1>5. /\ list \in Seq(EntryType) /\ c \in 1..Len(list)
  BY <1>1, <1>3, <1>4, ChannelsOfLists DEF Directions
<1>6. /\ BitsBefore(list, c) \in Nat /\ width \in Nat \ {0}
      /\ BitsBefore(list, c) + width <= Bytes(list) * ByteBits
      /\ Bytes(list) \in Nat
  BY <1>5, EntriesFollow
<1>7. DirectionSizes(setup)[m]["tpdo"] = Bytes(list)
  <2>1. \E x \in DOMAIN config["tpdo"] : config["tpdo"][x].object # 0
    BY <1>1, <1>4
  <2> QED
    BY <1>2, <1>4, <2>1 DEF DirectionSizes, Directions
<1> DEFINE start == Start(DirectionSizes(setup), m, "tpdo")
<1>8. first = start * ByteBits + BitsBefore(list, c) /\ start \in Nat
  BY <1>2, RegionsDeclared, SizesOfDirections DEF Base, Directions
<1> HIDE DEF first, width, start
<1>9. DOMAIN InputBits[o] = 0..(width - 1)
  BY <1>1
<1>10. Cardinality(0..(width - 1)) = width
  <2>1. 0 \in Int /\ width - 1 \in Int /\ 0 <= width - 1 /\ (width - 1) - 0 + 1 = width
    BY <1>6
  <2> QED
    BY <2>1, FS_Interval
<1>11. ASSUME NEW b \in 0..(width - 1)
       PROVE  first + b \in Nat /\ ~OutputBit(setup, first + b)
  <2> DEFINE i == BitsBefore(list, c) + b
  <2>1. i \in 0..(Bytes(list) * ByteBits - 1) /\ i \in Nat
    <3>1. Bytes(list) * ByteBits \in Nat
      BY <1>6, UnitAssumption
    <3> QED
      BY <1>6, <3>1
  <2>2. first + b = start * ByteBits + i /\ start * ByteBits \in Nat
    BY <1>6, <1>8, UnitAssumption
  <2>3. ASSUME OutputBit(setup, first + b)
        PROVE  FALSE
    <3>1. PICK r \in ConfiguredObjects[setup] :
               /\ r[2] <= Len(setup.modules[r[1]].config.rpdo)
               /\ \E x \in DOMAIN Declared[setup][r] : first + b = Declared[setup][r][x]
      BY <2>3 DEF OutputBit
    <3>2. PICK x \in DOMAIN Declared[setup][r] : first + b = Declared[setup][r][x]
      BY <3>1
    <3>3. ~setup.modules[r[1]].refused
      <4>1. setup.modules[r[1]].refused => Declared[setup][r] = <<>>
        BY <1>2 DEF Declared
      <4> QED
        BY <3>2, <4>1
    <3>4. IsObject(setup, r) /\ r[1] \in 1..Len(setup.modules)
          /\ DirectionOf(setup.modules[r[1]].config, r[2]) = "rpdo"
          /\ EntryOf(setup, r) \in EntryType
      BY <1>2, <3>1, ObjectOf DEF IsObject, DirectionOf
    <3> DEFINE rlist == setup.modules[r[1]].config["rpdo"]
               q == BitsBefore(rlist, PlaceOf(setup.modules[r[1]].config, r[2])) \div ByteBits
               begin == Start(DirectionSizes(setup), r[1], "rpdo")
               D == DeclaredByte(setup, r[1], r[2])
    <3>5. /\ DirectionSizes(setup)[r[1]]["rpdo"] = Bytes(rlist)
          /\ \A y \in Footprint(EntryOf(setup, r)) :
               /\ D * ByteBits + y = begin * ByteBits + (q * ByteBits + y)
               /\ q * ByteBits + y \in 0..(Bytes(rlist) * ByteBits - 1)
          /\ Declared[setup][r] = [y \in ObjectBit(EntryOf(setup, r)) |-> D * ByteBits + y]
      <4> DEFINE conf == setup.modules[r[1]].config
                 d == DirectionOf(conf, r[2])
      <4>1. /\ DirectionSizes(setup)[r[1]][d] = Bytes(conf[d])
            /\ \A y \in Footprint(EntryOf(setup, r)) :
                 /\ D * ByteBits + y = Start(DirectionSizes(setup), r[1], d) * ByteBits
                      + ((BitsBefore(conf[d], PlaceOf(conf, r[2])) \div ByteBits) * ByteBits + y)
                 /\ (BitsBefore(conf[d], PlaceOf(conf, r[2])) \div ByteBits) * ByteBits + y
                      \in 0..(Bytes(conf[d]) * ByteBits - 1)
            /\ Declared[setup][r] = [y \in ObjectBit(EntryOf(setup, r)) |-> D * ByteBits + y]
        BY <1>2, <3>3, <3>4, PlaceOfObject
      <4>2. d = "rpdo"
        BY <3>4
      <4> HIDE DEF d, D
      <4> QED
        BY <4>1, <4>2
    <3>6. x \in Footprint(EntryOf(setup, r)) /\ Declared[setup][r][x] = D * ByteBits + x
      BY <3>2, <3>4, <3>5, FootprintShape
    <3> DEFINE j == q * ByteBits + x
    <3>7. j \in 0..(DirectionSizes(setup)[r[1]]["rpdo"] * ByteBits - 1)
      BY <3>5, <3>6
    <3>8. i \in 0..(DirectionSizes(setup)[m]["tpdo"] * ByteBits - 1)
      BY <1>7, <2>1
    <3>9. first + b = begin * ByteBits + j
      BY <3>2, <3>5, <3>6
    <3> HIDE DEF i, j, D, m
    <3>10. start * ByteBits + i # begin * ByteBits + j
      BY <1>2, <3>4, <3>7, <3>8, RegionsApart DEF Directions, start
    <3> QED
      BY <2>2, <3>9, <3>10
  <2> HIDE DEF i
  <2> QED
    BY <2>1, <2>2, <2>3
<1> QED
  BY <1>1, <1>9, <1>10, <1>11

\* activate hands out the addresses of the configuration, or fails.
LEMMA ActivateKeeps == IInv /\ Activate => IInv'
<1> SUFFICES ASSUME IInv, Activate
             PROVE  IInv'
  OBVIOUS
<1>1. /\ phase = "activate" /\ pass = "none" /\ at \in Nat /\ inner \in Nat
      /\ Len(slaves) = Len(setup.modules) /\ setup \in Setups
  BY DEF Activate, IInv, CountersInv, SlavesInv, PluginsInv, Running
<1>2. UNCHANGED <<setup, inner, ec_modules_, domain_regs, slaves, domain_pd>>
  BY DEF Activate
<1>3. CASE ~AllMapped
  <2>1. {x \in Requested : \A pdo \in Directions : Positions(domain_regs[x], pdo) = {}} # {}
    BY <1>3 DEF AllMapped
  <2>2. phase' = "error" /\ at' = at /\ UNCHANGED <<entries, inputs, pass>>
    BY <2>1 DEF Activate, Fail
  <2>3. CountersInv'
    BY <1>1, <1>2, <2>2 DEF CountersInv, Running
  <2>4. UNCHANGED <<setup, mapping>>
    BY <1>2, <2>2 DEF mapping
  <2> QED
    BY <1>1, <1>2, <2>2, <2>3, <2>4, MappingKept
<1>4. CASE AllMapped
  <2> DEFINE registrations(e, j) ==
               {x \in Requested : domain_regs[x].entry = e /\ domain_regs[x].i = j}
             offset(e, j) ==
               IF registrations(e, j) = {} THEN Unset
               ELSE ByteAddress(domain_regs[CHOOSE x \in registrations(e, j) : TRUE])
             offsets(e) == [j \in DOMAIN entries[e].offset |-> offset(e, j)]
  <2>1. /\ inputs' = InputBits
        /\ entries' = [e \in DOMAIN entries |->
             [entries[e] EXCEPT !.offset = offsets(e)]]
        /\ phase' = "receive" /\ pass' = "update" /\ at' = at
    <3>1. {x \in Requested : \A pdo \in Directions : Positions(domain_regs[x], pdo) = {}} = {}
      BY <1>4 DEF AllMapped
    <3> QED
      BY <3>1 DEF Activate
  <2>2. ASSUME NEW e \in 1..Len(entries), NEW j \in 1..entries[e].num_pdos
        PROVE  /\ offset(e, j) = DeclaredByte(setup, entries[e].slave, ChannelOf(setup, entries[e].slave, j))
               /\ offset(e, j) \in Nat
    <3> DEFINE m == entries[e].slave
               x == CHOOSE x \in registrations(e, j) : TRUE
               reg == Registration(setup, m, e, j)
    <3>1. /\ m \in 1..Len(setup.modules) /\ ~setup.modules[m].refused
          /\ j \in 1..Registrations(setup, m)
      BY <1>1 DEF IInv, EntriesInv
    <3>2. PICK y \in 1..(Len(domain_regs) - 1) : domain_regs[y] = reg
      BY DEF IInv, RegsInv
    <3>3. y \in registrations(e, j)
      <4>1. y \in Requested
        BY <1>1, <3>2, RequestedAll
      <4> QED
        BY <3>2, <4>1 DEF Registration
    <3> HIDE DEF reg
    <3>4. x \in Requested /\ domain_regs[x].entry = e /\ domain_regs[x].i = j
      BY <3>3
    <3> HIDE DEF x
    <3>5. domain_regs[x] = reg
      <4>1. x \in 1..(Len(domain_regs) - 1)
        BY <1>1, <3>4, RequestedAll
      <4>2. PICK f \in 1..Len(entries) : \E k \in 1..entries[f].num_pdos :
                 domain_regs[x] = Registration(setup, entries[f].slave, f, k)
        BY <4>1 DEF IInv, RegsInv
      <4>3. PICK k \in 1..entries[f].num_pdos :
                 domain_regs[x] = Registration(setup, entries[f].slave, f, k)
        BY <4>2
      <4>4. f = e /\ k = j
        BY <3>4, <4>3 DEF Registration
      <4> QED
        BY <4>3, <4>4 DEF reg
    <3> DEFINE c == ChannelOf(setup, m, j)
    <3>6. /\ reg.module = m
          /\ reg.object = AllChannels(setup.modules[m].config)[c].object
      BY DEF Registration, reg
    <3>7. IsObject(setup, <<m, c>>)
      BY <1>1, <3>1, RegisteredObjects
    <3> HIDE DEF c, m
    <3>8. ByteAddress(reg) = DeclaredByte(setup, m, c) /\ DeclaredByte(setup, m, c) \in Nat
      BY <1>1, <1>4, <3>1, <3>6, <3>7, AddressDeclared
    <3>9. offset(e, j) = ByteAddress(reg)
      BY <3>3, <3>5 DEF x
    <3> HIDE DEF offset
    <3> QED
      BY <3>8, <3>9 DEF c, m
  <2> HIDE DEF offset, offsets
  <2>3. /\ IsSequence(entries) /\ DOMAIN entries = 1..Len(entries) /\ Len(entries) \in Nat
        /\ \A e \in 1..Len(entries) :
             entries[e].num_pdos \in Nat \ {0} /\ DOMAIN entries[e].offset = 1..entries[e].num_pdos
    BY EntriesThere DEF IInv, EntriesInv
  <2>4. /\ IsSequence(entries') /\ Len(entries') = Len(entries)
    <3> DEFINE n == Len(entries)
               changed == [e \in 1..n |->
                 [entries[e] EXCEPT !.offset = offsets(e)]]
    <3>1. changed = [e \in 1..n |-> changed[e]]
      OBVIOUS
    <3>2. entries' = changed
      BY <2>1, <2>3
    <3> HIDE DEF n, changed
    <3>3. n \in Nat
      BY <2>3 DEF n
    <3> QED
      BY <3>1, <3>2, <3>3, SequenceFrom DEF n
  <2>5. \A e \in 1..Len(entries) : offsets(e) \in [1..entries[e].num_pdos -> Nat]
    BY <2>2, <2>3 DEF offsets
  <2>6. \A e \in 1..Len(entries) :
          /\ DOMAIN entries'[e] = {"slave", "num_pdos", "offset"}
          /\ entries'[e].slave = entries[e].slave
          /\ entries'[e].num_pdos = entries[e].num_pdos
          /\ entries'[e].offset = offsets(e)
    <3>1. \A e \in 1..Len(entries) : DOMAIN entries[e] = {"slave", "num_pdos", "offset"}
      BY DEF IInv, EntriesInv
    <3> QED
      BY <2>1, <2>3, <3>1
  <2>7. 1 \in 1..Len(entries)
    BY <1>1, EntriesThere
  <2>8. CountersInv'
    BY <1>1, <1>2, <2>1 DEF CountersInv, Running
  <2>9. PluginsInv' /\ SlavesInv'
    BY <1>1, <1>2, <2>1 DEF IInv, PluginsInv, SlavesInv, Running
  <2>10. EntriesInv'
    <3>1. \A e \in 1..Len(entries') :
            /\ DOMAIN entries'[e] = {"slave", "num_pdos", "offset"}
            /\ entries'[e].slave \in 1..Len(slaves')
            /\ ~setup'.modules[entries'[e].slave].refused
            /\ entries'[e].num_pdos = Registrations(setup', entries'[e].slave)
      BY <1>2, <2>4, <2>6 DEF IInv, EntriesInv
    <3>2. \A e \in 1..Len(entries') :
            entries'[e].offset \in [1..entries'[e].num_pdos -> Nat \cup {Unset}]
      BY <2>4, <2>5, <2>6
    <3>3. \A m \in 1..Len(slaves') :
            ~setup'.modules[m].refused => \E e \in 1..Len(entries') : entries'[e].slave = m
      BY <1>2, <2>4, <2>6 DEF IInv, EntriesInv
    <3> QED
      BY <2>1, <2>4, <3>1, <3>2, <3>3 DEF EntriesInv
  <2>11. RegsInv'
    <3>1. IsSequence(domain_regs') /\ domain_regs' # <<>>
          /\ domain_regs'[Len(domain_regs')] = Terminator
      <4>1. entries # <<>>
        BY <2>3, <2>7, SequenceShape
      <4> QED
        BY <1>2, <4>1 DEF IInv, RegsInv
    <3>2. entries' # <<>>
      BY <2>4, <2>7, SequenceShape
    <3>3. ASSUME NEW x \in 1..(Len(domain_regs') - 1)
          PROVE  \E e \in 1..Len(entries') : \E j \in 1..entries'[e].num_pdos :
                   domain_regs'[x] = Registration(setup', entries'[e].slave, e, j)
      <4>1. x \in 1..(Len(domain_regs) - 1) /\ domain_regs'[x] = domain_regs[x]
        BY <1>2
      <4>2. PICK e \in 1..Len(entries) : \E j \in 1..entries[e].num_pdos :
                 domain_regs[x] = Registration(setup, entries[e].slave, e, j)
        BY <4>1 DEF IInv, RegsInv
      <4>3. /\ e \in 1..Len(entries') /\ entries'[e].slave = entries[e].slave
            /\ entries'[e].num_pdos = entries[e].num_pdos
        BY <2>4, <2>6
      <4>4. PICK j \in 1..entries[e].num_pdos :
                 domain_regs[x] = Registration(setup, entries[e].slave, e, j)
        BY <4>2
      <4>5. domain_regs'[x] = Registration(setup', entries'[e].slave, e, j)
            /\ j \in 1..entries'[e].num_pdos
        BY <1>2, <4>1, <4>3, <4>4
      <4> QED
        BY <4>3, <4>5
    <3>4. ASSUME NEW e \in 1..Len(entries'), NEW j \in 1..entries'[e].num_pdos
          PROVE  \E x \in 1..(Len(domain_regs') - 1) :
                   domain_regs'[x] = Registration(setup', entries'[e].slave, e, j)
      <4>1. /\ e \in 1..Len(entries) /\ entries'[e].slave = entries[e].slave
            /\ j \in 1..entries[e].num_pdos
        BY <2>4, <2>6
      <4>2. PICK x \in 1..(Len(domain_regs) - 1) :
                 domain_regs[x] = Registration(setup, entries[e].slave, e, j)
        BY <4>1 DEF IInv, RegsInv
      <4> QED
        BY <1>2, <4>1, <4>2
    <3> QED
      BY <3>1, <3>2, <3>3, <3>4 DEF RegsInv, Terminator
  <2>12. AddressesInv'
    <3>1. \A e \in 1..Len(entries') : \A j \in 1..entries'[e].num_pdos :
            entries'[e].offset[j]
              = DeclaredByte(setup', entries'[e].slave, ChannelOf(setup', entries'[e].slave, j))
      <4>1. \A e \in 1..Len(entries) : \A j \in 1..entries[e].num_pdos : offsets(e)[j] = offset(e, j)
        BY <2>3 DEF offsets
      <4> QED
        BY <1>2, <2>2, <2>4, <2>6, <4>1
    <3>2. \A o \in DOMAIN inputs' :
            /\ DOMAIN inputs'[o] = 0..(Cardinality(DOMAIN inputs'[o]) - 1)
            /\ \A b \in DOMAIN inputs'[o] : inputs'[o][b] \in Nat /\ ~OutputBit(setup', inputs'[o][b])
      BY <1>1, <1>2, <1>4, <2>1, InputsApart
    <3> QED
      BY <2>1, <3>1, <3>2 DEF AddressesInv
  <2> QED
    BY <2>8, <2>9, <2>10, <2>11, <2>12 DEF IInv
<1> QED
  BY <1>3, <1>4

\* From on_init on the plugins, entries, registrations, addresses and inputs of the
\* driver are those of the configuration.
THEOREM MappingHolds == Spec => []IInv
<1>1. Init => IInv
  BY InitIInv
<1>2. IInv /\ [Step]_vars => IInv'
  <2> SUFFICES ASSUME IInv, [Step]_vars
               PROVE  IInv'
    OBVIOUS
  <2>1. CASE SetupModule
    BY <2>1, SetupModuleKeeps
  <2>2. CASE AddSlave
    BY <2>2, AddSlaveKeeps
  <2>3. CASE ConfigSlaveSdo \/ NextSlaveSdos
    BY <2>3, SdoStepsKeep
  <2>4. CASE Activate
    BY <2>4, ActivateKeeps
  <2>5. CASE Receive \/ ProcessData \/ NextEntry \/ Send \/ Controllers \/ Write
    BY <2>5, PassStepsKeep
  <2>6. CASE UNCHANGED vars
    BY <2>6 DEF vars, IInv, CountersInv, PluginsInv, SlavesInv, EntriesInv, RegsInv, AddressesInv,
                Terminator, Running
  <2> QED
    BY <2>1, <2>2, <2>3, <2>4, <2>5, <2>6 DEF Step
<1> QED
  BY <1>1, <1>2, PTL DEF Spec
=============================================================================
