------------------------ MODULE InvertedIndexProofs ------------------------
(***************************************************************************)
(* Proofs about the inverted index: no document of a word is lost while    *)
(* files are merged, and the finished index is right, for every input the  *)
(* code can index (every batch with a word, no largest number, no word 0). *)
(***************************************************************************)
EXTENDS InvertedIndex, SequenceLemmas, FiniteSetTheorems

----------------------------------------------------------------------------
(* Joined sequences *)

\* Empty sequences at the end join to nothing.
LEMMA FlattenSame ==
  ASSUME NEW S, NEW ss \in Seq(Seq(S)), NEW tt \in Seq(Seq(S)), Len(ss) <= Len(tt),
         \A i \in 1 .. Len(ss) : ss[i] = tt[i],
         \A i \in Len(ss) + 1 .. Len(tt) : tt[i] = <<>>
  PROVE  FlattenSeq(ss) = FlattenSeq(tt)
<1> DEFINE n == Len(ss)
           m == Len(tt)
<1>1. n \in Nat /\ m \in Nat /\ n <= m /\ n \in 0 .. n /\ m \in 0 .. m
  BY LenProperties
<1>2. PICK f \in [0 .. n -> Seq(S)] :
        /\ f[0] = <<>> /\ \A i \in 1 .. n : f[i] = f[i - 1] \o ss[i]
        /\ FlattenSeq(ss) = f[n]
  BY FlattenIs, Zenon
<1>3. PICK g \in [0 .. m -> Seq(S)] :
        /\ g[0] = <<>> /\ \A i \in 1 .. m : g[i] = g[i - 1] \o tt[i]
        /\ FlattenSeq(tt) = g[m]
  BY FlattenIs, Zenon
<1>4. (\A i \in 1 .. n : ss[i] = tt[i]) /\ \A i \in n + 1 .. m : tt[i] = <<>>
  OBVIOUS
<1> HIDE DEF n, m
<1> DEFINE T == {k \in 0 .. m : g[k] = f[IF k <= n THEN k ELSE n]}
<1>5. 0 \in T
  BY <1>1, <1>2, <1>3
<1>6. ASSUME NEW k \in 0 .. m - 1, k \in T PROVE k + 1 \in T
  <2>1. k + 1 \in 1 .. m /\ (k + 1) - 1 = k /\ k + 1 \in 0 .. m
    BY <1>1
  <2>2. g[k + 1] = g[k] \o tt[k + 1]
    BY <1>3, <2>1
  <2>3. CASE k + 1 <= n
    <3>1. k + 1 \in 1 .. n /\ k <= n
      BY <1>1, <2>3
    <3>2. f[k + 1] = f[k] \o ss[k + 1] /\ ss[k + 1] = tt[k + 1] /\ g[k] = f[k]
      BY <1>2, <1>4, <1>6, <2>1, <3>1
    <3> QED
      BY <2>1, <2>2, <2>3, <3>2
  <2>4. CASE ~(k + 1 <= n)
    <3>1. k + 1 \in n + 1 .. m /\ (IF k <= n THEN k ELSE n) = n
      BY <1>1, <2>4
    <3>2. tt[k + 1] = <<>> /\ g[k] = f[n] /\ f[n] \in Seq(S)
      BY <1>1, <1>4, <1>6, <3>1
    <3>3. g[k + 1] = f[n]
      BY <2>2, <3>2, ConcatEmptySeq
    <3> QED
      BY <2>1, <2>4, <3>3
  <2> QED
    BY <2>3, <2>4
<1> HIDE DEF T
<1>7. m \in T
  BY <1>1, <1>5, <1>6, UpTo, Zenon
<1>8. g[m] = f[n]
  BY <1>1, <1>7 DEF T
<1> QED
  BY <1>2, <1>3, <1>8

\* When all sequences but one are empty, that one is what they join to.
LEMMA FlattenOne ==
  ASSUME NEW S, NEW ss \in Seq(Seq(S)), NEW p \in 0 .. Len(ss),
         \A i \in 1 .. Len(ss) : i # p => ss[i] = <<>>
  PROVE  FlattenSeq(ss) = IF p = 0 THEN <<>> ELSE ss[p]
<1> DEFINE n == Len(ss)
           one == IF p = 0 THEN <<>> ELSE ss[p]
<1>1. n \in Nat /\ n \in 0 .. n /\ \A i \in 1 .. n : ss[i] \in Seq(S)
  BY LenProperties
<1>2. PICK f \in [0 .. n -> Seq(S)] :
        /\ f[0] = <<>> /\ \A i \in 1 .. n : f[i] = f[i - 1] \o ss[i]
        /\ FlattenSeq(ss) = f[n]
  BY FlattenIs, Zenon
<1>3. p \in 0 .. n /\ \A i \in 1 .. n : i # p => ss[i] = <<>>
  OBVIOUS
<1>4. one \in Seq(S)
  BY <1>1, EmptySeq
<1>4a. p # 0 => one = ss[p]
  OBVIOUS
<1>4b. p = 0 => one = <<>>
  OBVIOUS
<1> HIDE DEF n, one
<1> DEFINE T == {k \in 0 .. n : f[k] = IF k < p THEN <<>> ELSE one}
<1>5. 0 \in T
  BY <1>1, <1>2, <1>3, <1>4b
<1>6. ASSUME NEW k \in 0 .. n - 1, k \in T PROVE k + 1 \in T
  <2>1. k + 1 \in 1 .. n /\ (k + 1) - 1 = k /\ k + 1 \in 0 .. n
    BY <1>1
  <2>2. f[k + 1] = f[k] \o ss[k + 1] /\ f[k] \in Seq(S) /\ ss[k + 1] \in Seq(S)
    <3>1. k \in 0 .. n
      BY <1>1
    <3>2. f[k + 1] = f[(k + 1) - 1] \o ss[k + 1]
      BY <1>2, <2>1, Zenon
    <3> QED
      BY <1>1, <2>1, <3>1, <3>2
  <2>3. CASE k + 1 = p
    <3>1. f[k] = <<>> /\ one = ss[k + 1]
      BY <1>4a, <1>6, <2>3
    <3>2. f[k + 1] = one
      BY <2>2, <3>1, ConcatEmptySeq
    <3> QED
      BY <2>1, <2>3, <3>2
  <2>4. CASE k + 1 # p
    <3>1. ss[k + 1] = <<>>
      BY <1>3, <2>1, <2>4
    <3>2. f[k + 1] = f[k]
      BY <2>2, <3>1, ConcatEmptySeq
    <3>3. k + 1 < p <=> k < p
      BY <1>3, <2>4
    <3> QED
      BY <1>6, <2>1, <3>2, <3>3
  <2> QED
    BY <2>3, <2>4
<1> HIDE DEF T
<1>7. n \in T
  BY <1>1, <1>5, <1>6, UpTo, Zenon
<1>8. f[n] = one
  BY <1>1, <1>3, <1>7 DEF T
<1> QED
  BY <1>2, <1>8 DEF one

----------------------------------------------------------------------------
(* Sorting *)

\* A finite set of numbers that is not empty has a largest element.
LEMMA MaxIs ==
  ASSUME NEW S \in SUBSET Nat, IsFiniteSet(S), S # {}
  PROVE  Max(S) \in S /\ \A x \in S : x <= Max(S)
<1> DEFINE Below(n) == \A T \in SUBSET Nat :
                         IsFiniteSet(T) /\ Cardinality(T) = n /\ T # {} => \E x \in T : \A y \in T : y <= x
           n == Cardinality(S)
           K == {k \in 0 .. n : Below(k)}
<1>0. n \in Nat
  BY FS_CardinalityType
<1>1. 0 \in K
  BY <1>0, FS_EmptySet
<1>2. ASSUME NEW k \in 0 .. n - 1, k \in K PROVE k + 1 \in K
  <2>1. ASSUME NEW T \in SUBSET Nat, IsFiniteSet(T), Cardinality(T) = k + 1, T # {}
        PROVE  \E x \in T : \A y \in T : y <= x
    <3>1. PICK t : t \in T
      BY <2>1
    <3>2. IsFiniteSet(T \ {t}) /\ Cardinality(T \ {t}) = k
      <4>1. IsFiniteSet(T \ {t}) /\ Cardinality(T \ {t}) = Cardinality(T) - 1
        BY <2>1, <3>1, FS_RemoveElement, Zenon
      <4> QED
        BY <2>1, <4>1
    <3>3. CASE T \ {t} = {}
      <4>1. \A y \in T : y <= t
        BY <3>1, <3>3
      <4> QED
        BY <3>1, <4>1
    <3>4. CASE T \ {t} # {}
      <4>1. T \ {t} \in SUBSET Nat
        OBVIOUS
      <4>2. PICK x \in T \ {t} : \A y \in T \ {t} : y <= x
        BY <1>2, <3>2, <3>4, <4>1
      <4>3. x \in Nat /\ t \in Nat /\ \A y \in T : y \in Nat /\ (y = t \/ y <= x)
        BY <3>1, <4>2
      <4>4. CASE x <= t
        <5>1. \A y \in T : y <= t
          BY <4>3, <4>4
        <5> QED
          BY <3>1, <5>1
      <4>5. CASE t <= x
        <5>1. \A y \in T : y <= x
          BY <4>3, <4>5
        <5> QED
          BY <5>1
      <4> QED
        BY <4>3, <4>4, <4>5
    <3> QED
      BY <3>3, <3>4
  <2>2. Below(k + 1)
    BY <2>1
  <2> HIDE DEF Below
  <2> QED
    BY <1>0, <2>2
<1> HIDE DEF K, Below
<1>3. n \in K
  <2>1. n \in 0 .. n
    BY <1>0
  <2> QED
    BY <1>0, <1>1, <1>2, <2>1, UpTo, Zenon
<1>4. Below(n)
  BY <1>3 DEF K
<1>5. \E x \in S : \A y \in S : x >= y
  <2>1. \E x \in S : \A y \in S : y <= x
    BY <1>4 DEF Below
  <2> QED
    BY <2>1
<1>6. Max(S) \in S /\ \A y \in S : Max(S) >= y
  BY <1>5, Zenon DEF Max
<1> QED
  BY <1>6

\* The elements of s increase.
Increasing(s) == \A i, j \in DOMAIN s : i < j => s[i] < s[j]

\* A finite set of numbers can be put in order.
LEMMA OrderExists ==
  ASSUME NEW S \in SUBSET Nat, IsFiniteSet(S)
  PROVE  \E s \in [1 .. Cardinality(S) -> S] : Increasing(s)
<1> DEFINE Ordered(n) == \A T \in SUBSET Nat :
                           IsFiniteSet(T) /\ Cardinality(T) = n => \E s \in [1 .. n -> T] : Increasing(s)
           n == Cardinality(S)
           K == {k \in 0 .. n : Ordered(k)}
<1>0. n \in Nat
  BY FS_CardinalityType
<1>1. 0 \in K
  <2>1. ASSUME NEW T \in SUBSET Nat, IsFiniteSet(T), Cardinality(T) = 0
        PROVE  \E s \in [1 .. 0 -> T] : Increasing(s)
    <3> DEFINE s == [i \in 1 .. 0 |-> 0]
    <3>1. s \in [1 .. 0 -> T] /\ Increasing(s)
      BY DEF Increasing
    <3> QED
      BY <3>1
  <2> QED
    BY <1>0, <2>1
<1>2. ASSUME NEW k \in 0 .. n - 1, k \in K PROVE k + 1 \in K
  <2>1. ASSUME NEW T \in SUBSET Nat, IsFiniteSet(T), Cardinality(T) = k + 1
        PROVE  \E s \in [1 .. k + 1 -> T] : Increasing(s)
    <3> DEFINE m == Max(T)
               U == T \ {m}
    <3>1. T # {}
      BY <2>1, FS_EmptySet
    <3>2. m \in T /\ m \in Nat /\ \A x \in T : x <= m
      BY <2>1, <3>1, MaxIs
    <3> HIDE DEF m
    <3>3. IsFiniteSet(U) /\ Cardinality(U) = k /\ U \in SUBSET Nat
      <4>1. IsFiniteSet(U) /\ Cardinality(U) = Cardinality(T) - 1
        BY <2>1, <3>2, FS_RemoveElement
      <4> HIDE DEF U
      <4>2. Cardinality(U) = k
        BY <2>1, <4>1
      <4> QED
        BY <4>1, <4>2 DEF U
    <3>4. \A x \in U : x < m /\ x \in T
      BY <3>2
    <3> HIDE DEF U
    <3>5. PICK s \in [1 .. k -> U] : Increasing(s)
      BY <1>2, <3>3
    <3> DEFINE r == [i \in 1 .. k + 1 |-> IF i = k + 1 THEN m ELSE s[i]]
    <3>6. r \in [1 .. k + 1 -> T]
      BY <3>2, <3>4
    <3>7. ASSUME NEW i \in 1 .. k + 1, NEW j \in 1 .. k + 1, i < j PROVE r[i] < r[j]
      <4>1. i \in 1 .. k /\ r[i] = s[i] /\ s[i] \in U
        BY <3>7
      <4>2. CASE j = k + 1
        BY <3>4, <4>1, <4>2
      <4>3. CASE j # k + 1
        <5>1. j \in 1 .. k /\ r[j] = s[j]
          BY <4>3
        <5> QED
          BY <3>5, <3>7, <4>1, <5>1 DEF Increasing
      <4> QED
        BY <4>2, <4>3
    <3>8. Increasing(r)
      BY <3>7 DEF Increasing
    <3> HIDE DEF r
    <3> QED
      BY <3>6, <3>8
  <2>2. Ordered(k + 1)
    BY <2>1
  <2> HIDE DEF Ordered
  <2> QED
    BY <1>0, <2>2
<1> HIDE DEF K, Ordered
<1>3. n \in K
  <2>1. n \in 0 .. n
    BY <1>0
  <2> QED
    BY <1>0, <1>1, <1>2, <2>1, UpTo, Zenon
<1>4. Ordered(n)
  BY <1>3 DEF K
<1> QED
  BY <1>4 DEF Ordered

\* Sorted: every number of the set once, in order.
LEMMA SortedIs ==
  ASSUME NEW S \in SUBSET Nat, IsFiniteSet(S)
  PROVE  /\ Sorted(S) \in Seq(S) /\ Len(Sorted(S)) = Cardinality(S)
         /\ \A i, j \in 1 .. Len(Sorted(S)) : i < j => Sorted(S)[i] < Sorted(S)[j]
         /\ \A x \in S : \E i \in 1 .. Len(Sorted(S)) : Sorted(S)[i] = x
<1> DEFINE n == Cardinality(S)
           s == Sorted(S)
<1>1. n \in Nat /\ IsFiniteSet(1 .. n) /\ Cardinality(1 .. n) = n
  <2>1. n \in Nat
    BY FS_CardinalityType
  <2> HIDE DEF n
  <2>2. IsFiniteSet(1 .. n) /\ Cardinality(1 .. n) = IF 1 > n THEN 0 ELSE n - 1 + 1
    BY <2>1, FS_Interval
  <2> QED
    BY <2>1, <2>2
<1>2. s \in [1 .. n -> S] /\ Increasing(s)
  <2>1. \E q \in [1 .. n -> S] : \A i, j \in DOMAIN q : i < j => q[i] < q[j]
    BY OrderExists DEF Increasing
  <2> QED
    BY <2>1, Zenon DEF Sorted, Increasing
<1> HIDE DEF s
<1>3. s \in Seq(S) /\ Len(s) = n
  <2>1. s \in Seq(S)
    BY <1>1, <1>2, SeqDef
  <2> QED
    BY <1>1, <1>2, <2>1, LenProperties
<1>4. ASSUME NEW i \in 1 .. n, NEW j \in 1 .. n, s[i] = s[j] PROVE i = j
  <2>1. ASSUME NEW a \in 1 .. n, NEW b \in 1 .. n, a < b PROVE s[a] # s[b]
    <3>1. s[a] < s[b] /\ s[a] \in Nat /\ s[b] \in Nat
      BY <1>2, <2>1 DEF Increasing
    <3> QED
      BY <3>1
  <2>2. i \in Nat /\ j \in Nat /\ (i < j \/ j < i \/ i = j)
    BY <1>1
  <2> QED
    BY <1>4, <2>1, <2>2
<1>5. s \in Injection(1 .. n, S)
  BY <1>2, <1>4 DEF Injection, IsInjective
<1>6. s \in Surjection(1 .. n, S)
  BY <1>1, <1>5, FS_Injection
<1>7. ASSUME NEW x \in S PROVE \E i \in 1 .. n : s[i] = x
  BY <1>6 DEF Surjection
<1> QED
  BY <1>2, <1>3, <1>7 DEF s, Increasing

\* Nothing in order is nothing.
LEMMA SortedEmpty == Sorted({}) = <<>>
<1>1. {} \in SUBSET Nat /\ IsFiniteSet({}) /\ Cardinality({}) = 0
  BY FS_EmptySet
<1>2. Sorted({}) \in Seq({}) /\ Len(Sorted({})) = 0
  BY <1>1, SortedIs
<1> QED
  BY <1>2, EmptySeq

\* How many numbers of s are below d, and are not above it.
Less(s, d) == Cardinality({i \in DOMAIN s : s[i] < d})
AtMost(s, d) == Cardinality({i \in DOMAIN s : s[i] <= d})

\* The places of s that are in a set can be counted.
LEMMA PlacesCounted ==
  ASSUME NEW s \in Seq(Nat), NEW P \in SUBSET DOMAIN s, NEW Q \in SUBSET P
  PROVE  /\ Cardinality(P) \in 0 .. Len(s) /\ Cardinality(Q) <= Cardinality(P)
         /\ IsFiniteSet(P) /\ Cardinality(DOMAIN s) = Len(s)
<1>1. Len(s) \in Nat /\ DOMAIN s = 1 .. Len(s)
  BY LenProperties
<1> DEFINE n == Len(s)
<1> HIDE DEF n
<1>2. IsFiniteSet(1 .. n) /\ Cardinality(1 .. n) = n
  <2>1. n \in Nat
    BY <1>1 DEF n
  <2>2. IsFiniteSet(1 .. n) /\ Cardinality(1 .. n) = IF 1 > n THEN 0 ELSE n - 1 + 1
    BY <2>1, FS_Interval
  <2> QED
    BY <2>1, <2>2
<1>3. IsFiniteSet(DOMAIN s) /\ Cardinality(DOMAIN s) = Len(s)
  BY <1>1, <1>2 DEF n
<1>4. IsFiniteSet(P) /\ Cardinality(P) <= Len(s) /\ Cardinality(P) \in Nat
  BY <1>3, FS_Subset, FS_CardinalityType
<1>5. Cardinality(Q) <= Cardinality(P)
  BY <1>4, FS_Subset
<1> QED
  BY <1>1, <1>3, <1>4, <1>5

\* The counts grow with the number.
LEMMA CountsGrow ==
  ASSUME NEW s \in Seq(Nat), NEW d \in Nat
  PROVE  /\ Less(s, d) \in 0 .. Len(s) /\ AtMost(s, d) \in 0 .. Len(s)
         /\ \A e \in Nat : d < e => AtMost(s, d) <= Less(s, e)
         /\ \A e \in Nat : d <= e => Less(s, d) <= Less(s, e)
         /\ AtMost(s, d) = Less(s, d + 1)
<1>1. \A i \in DOMAIN s : s[i] \in Nat
  BY LenProperties
<1>2. Less(s, d) \in 0 .. Len(s) /\ AtMost(s, d) \in 0 .. Len(s)
  <2>1. /\ {i \in DOMAIN s : s[i] < d} \in SUBSET DOMAIN s
        /\ {i \in DOMAIN s : s[i] <= d} \in SUBSET DOMAIN s
        /\ \A X : X \in SUBSET X
    OBVIOUS
  <2> QED
    BY <2>1, PlacesCounted, Zenon DEF Less, AtMost
<1>3. ASSUME NEW e \in Nat, d < e PROVE AtMost(s, d) <= Less(s, e)
  <2> DEFINE P == {i \in DOMAIN s : s[i] < e}
             Q == {i \in DOMAIN s : s[i] <= d}
  <2>1. P \in SUBSET DOMAIN s
    OBVIOUS
  <2>2. Q \in SUBSET P
    BY <1>1, <1>3
  <2> QED
    BY <2>1, <2>2, PlacesCounted, Zenon DEF Less, AtMost
<1>4. ASSUME NEW e \in Nat, d <= e PROVE Less(s, d) <= Less(s, e)
  <2> DEFINE P == {i \in DOMAIN s : s[i] < e}
             Q == {i \in DOMAIN s : s[i] < d}
  <2>1. P \in SUBSET DOMAIN s
    OBVIOUS
  <2>2. Q \in SUBSET P
    BY <1>1, <1>4
  <2> QED
    BY <2>1, <2>2, PlacesCounted, Zenon DEF Less
<1>5. AtMost(s, d) = Less(s, d + 1)
  <2>1. {i \in DOMAIN s : s[i] <= d} = {i \in DOMAIN s : s[i] < d + 1}
    BY <1>1
  <2> QED
    BY <2>1, Zenon DEF Less, AtMost
<1> QED
  BY <1>2, <1>3, <1>4, <1>5

\* d is the k-th number of s in order.
KthIs(s, k, d) == Less(s, d) < k /\ k <= AtMost(s, d)

\* There is a k-th number, and only one.
LEMMA KthExists ==
  ASSUME NEW s \in Seq(Nat), NEW k \in 1 .. Len(s)
  PROVE  /\ \E d \in ToSet(s) : KthIs(s, k, d)
         /\ \A d, e \in Nat : KthIs(s, k, d) /\ KthIs(s, k, e) => d = e
<1>1. Len(s) \in Nat /\ DOMAIN s = 1 .. Len(s) /\ ToSet(s) \in SUBSET Nat
  BY LenProperties DEF ToSet
<1>2. \A i \in DOMAIN s : s[i] \in ToSet(s) /\ s[i] \in Nat
  BY <1>1 DEF ToSet
<1> DEFINE R == {d \in ToSet(s) : k <= AtMost(s, d)}
<1>3. IsFiniteSet(ToSet(s)) /\ ToSet(s) # {}
  <2> DEFINE f == [i \in DOMAIN s |-> s[i]]
  <2>1. f \in Surjection(DOMAIN s, ToSet(s))
    BY Zenon DEF Surjection, ToSet
  <2>2. IsFiniteSet(DOMAIN s)
    <3>1. DOMAIN s \in SUBSET DOMAIN s
      OBVIOUS
    <3> QED
      BY <3>1, PlacesCounted, Zenon
  <2>3. IsFiniteSet(ToSet(s))
    BY <2>1, <2>2, FS_Surjection, Zenon
  <2> QED
    BY <1>1, <1>2, <2>3
<1>4. PICK top \in ToSet(s) : \A x \in ToSet(s) : x <= top
  BY <1>1, <1>3, MaxIs
<1>5. top \in R
  <2>1. {i \in DOMAIN s : s[i] <= top} = DOMAIN s
    BY <1>2, <1>4
  <2>2. DOMAIN s \in SUBSET DOMAIN s
    OBVIOUS
  <2>3. AtMost(s, top) = Len(s)
    BY <2>1, <2>2, PlacesCounted, Zenon DEF AtMost
  <2> QED
    BY <1>1, <1>4, <2>3
<1>6. R \in SUBSET Nat /\ R # {}
  BY <1>1, <1>5
<1>7. PICK d \in R : \A x \in R : d <= x
  BY <1>6, LeastNatural
<1>8. d \in ToSet(s) /\ d \in Nat /\ k <= AtMost(s, d)
  BY <1>1, <1>7
<1>9. Less(s, d) < k
  <2>a. Less(s, d) \in 0 .. Len(s)
    BY <1>8, CountsGrow, Zenon
  <2>0. Less(s, d) \in Nat
    BY <2>a
  <2> SUFFICES ASSUME k <= Less(s, d) PROVE FALSE
    BY <2>0
  <2> DEFINE P == {i \in DOMAIN s : s[i] < d}
             V == {s[i] : i \in P}
  <2>1. P # {}
    <3>1. P = {} => Less(s, d) = 0
      BY FS_EmptySet, Zenon DEF Less
    <3> QED
      BY <3>1
  <2>2. V \in SUBSET ToSet(s) /\ V # {}
    BY <1>2, <2>1
  <2>3. IsFiniteSet(V) /\ V \in SUBSET Nat
    BY <1>1, <1>3, <2>2, FS_Subset
  <2>4. PICK e \in V : \A x \in V : x <= e
    BY <2>2, <2>3, MaxIs
  <2>5. e \in Nat /\ e < d /\ e \in ToSet(s)
    BY <2>2, <2>3, <2>4
  <2>6. {i \in DOMAIN s : s[i] <= e} = P
    <3>1. ASSUME NEW i \in DOMAIN s PROVE s[i] <= e <=> s[i] < d
      <4>1. s[i] < d => s[i] <= e
        BY <2>4
      <4>2. s[i] \in Nat
        BY <1>2
      <4> QED
        BY <1>8, <2>5, <4>1, <4>2
    <3> QED
      BY <3>1
  <2>7. AtMost(s, e) = Less(s, d)
    BY <2>6, Zenon DEF AtMost, Less
  <2>8. e \in R
    BY <2>5, <2>7
  <2> HIDE DEF R, V, P
  <2>9. d <= e
    BY <1>7, <2>8
  <2> QED
    BY <1>8, <2>5, <2>9
<1>10. ASSUME NEW a \in Nat, NEW b \in Nat, KthIs(s, k, a), KthIs(s, k, b), a < b PROVE FALSE
  <2>1. k <= AtMost(s, a) /\ AtMost(s, a) <= Less(s, b) /\ Less(s, b) < k
    BY <1>10, CountsGrow DEF KthIs
  <2>2. AtMost(s, a) \in 0 .. Len(s) /\ Less(s, b) \in 0 .. Len(s)
    BY CountsGrow, Zenon
  <2> QED
    BY <1>1, <2>1, <2>2
<1>11. ASSUME NEW a \in Nat, NEW b \in Nat, KthIs(s, k, a), KthIs(s, k, b) PROVE a = b
  <2>1. a < b \/ b < a \/ a = b
    OBVIOUS
  <2> QED
    BY <1>10, <1>11, <2>1
<1> QED
  BY <1>8, <1>9, <1>11 DEF KthIs

\* InOrder takes the k-th number for each k.
LEMMA InOrderIs ==
  ASSUME NEW s \in Seq(Nat)
  PROVE  /\ InOrder(s) \in Seq(Nat) /\ Len(InOrder(s)) = Len(s)
         /\ \A k \in 1 .. Len(s) : InOrder(s)[k] \in ToSet(s) /\ KthIs(s, k, InOrder(s)[k])
<1> DEFINE t == InOrder(s)
           n == Len(s)
<1>1. n \in Nat /\ DOMAIN s = 1 .. n /\ ToSet(s) \in SUBSET Nat
  BY LenProperties DEF ToSet
<1>2. ASSUME NEW k \in 1 .. n PROVE t[k] \in ToSet(s) /\ KthIs(s, k, t[k])
  <2>1. t[k] = CHOOSE d \in ToSet(s) : KthIs(s, k, d)
    BY <1>1, Zenon DEF InOrder, KthIs, Less, AtMost
  <2>2. \E d \in ToSet(s) : KthIs(s, k, d)
    BY KthExists, Zenon
  <2> QED
    BY <2>1, <2>2, Zenon
<1>3. t = [k \in 1 .. n |-> t[k]]
  <2> DEFINE kth(k) == CHOOSE d \in ToSet(s) : /\ Cardinality({i \in DOMAIN s : s[i] < d}) < k
                                              /\ k <= Cardinality({i \in DOMAIN s : s[i] <= d})
  <2>1. t = [k \in DOMAIN s |-> kth(k)]
    BY DEF InOrder
  <2> HIDE DEF kth, t
  <2> QED
    BY <1>1, <2>1
<1> HIDE DEF t
<1>4. t \in [1 .. n -> Nat]
  <2>1. \A k \in 1 .. n : t[k] \in Nat
    BY <1>1, <1>2
  <2> QED
    BY <1>3, <2>1, Zenon
<1>5. t \in Seq(Nat) /\ Len(t) = n
  BY <1>1, <1>4, SeqOfNats
<1> QED
  BY <1>2, <1>5 DEF t

\* The numbers below d come first, and there are as many as there were.
LEMMA InOrderLess ==
  ASSUME NEW s \in Seq(Nat), NEW d \in Nat
  PROVE  /\ \A i \in 1 .. Len(s) : InOrder(s)[i] < d <=> i <= Less(s, d)
         /\ Less(InOrder(s), d) = Less(s, d)
<1> DEFINE t == InOrder(s)
           n == Len(s)
           m == Less(s, d)
<1>1. n \in Nat /\ DOMAIN t = 1 .. n /\ m \in 0 .. n
  BY LenProperties, InOrderIs, CountsGrow
<1>2. ASSUME NEW i \in 1 .. n PROVE t[i] \in Nat /\ Less(s, t[i]) < i /\ i <= AtMost(s, t[i])
  BY <1>1, LenProperties, InOrderIs DEF KthIs
<1> HIDE DEF t, n, m
<1>3. ASSUME NEW i \in 1 .. n PROVE t[i] < d <=> i <= m
  <2>1. t[i] \in Nat /\ Less(s, t[i]) < i /\ i <= AtMost(s, t[i])
    BY <1>2
  <2>2. AtMost(s, t[i]) \in 0 .. n /\ Less(s, t[i]) \in 0 .. n
    BY <2>1, CountsGrow, Zenon DEF n
  <2>3. CASE t[i] < d
    <3>1. AtMost(s, t[i]) <= m
      BY <2>1, <2>3, CountsGrow, Zenon DEF m
    <3> QED
      BY <1>1, <2>1, <2>2, <2>3, <3>1
  <2>4. CASE ~(t[i] < d)
    <3>1. d <= t[i]
      BY <2>1, <2>4
    <3>2. m <= Less(s, t[i])
      BY <2>1, <3>1, CountsGrow, Zenon DEF m
    <3> QED
      BY <1>1, <2>1, <2>2, <2>4, <3>2
  <2> QED
    BY <2>3, <2>4
<1>4. Less(t, d) = m
  <2>1. {i \in DOMAIN t : t[i] < d} = 1 .. m
    BY <1>1, <1>3
  <2>2. Cardinality(1 .. m) = IF 1 > m THEN 0 ELSE m - 1 + 1
    BY <1>1, FS_Interval
  <2>3. Cardinality(1 .. m) = m
    BY <1>1, <2>2
  <2> QED
    BY <2>1, <2>3 DEF Less
<1> QED
  BY <1>3, <1>4 DEF t, n, m

\* How often d is in s.
Occurrences(s, d) == Cardinality({i \in DOMAIN s : s[i] = d})

LEMMA OccurrencesIs ==
  ASSUME NEW s \in Seq(Nat), NEW d \in Nat
  PROVE  Occurrences(s, d) \in Nat /\ AtMost(s, d) = Less(s, d) + Occurrences(s, d)
<1> DEFINE P == {i \in DOMAIN s : s[i] < d}
           Q == {i \in DOMAIN s : s[i] = d}
<1>1. \A i \in DOMAIN s : s[i] \in Nat
  BY LenProperties
<1>2. P \in SUBSET DOMAIN s /\ Q \in SUBSET DOMAIN s /\ P \in SUBSET P /\ Q \in SUBSET Q
  OBVIOUS
<1>3. P \cup Q = {i \in DOMAIN s : s[i] <= d} /\ P \cap Q = {}
  BY <1>1
<1>4. IsFiniteSet(P) /\ IsFiniteSet(Q) /\ Cardinality(P) \in 0 .. Len(s) /\ Cardinality(Q) \in 0 .. Len(s)
  BY <1>2, PlacesCounted, Zenon
<1>5. Len(s) \in Nat
  BY LenProperties
<1>6. Less(s, d) = Cardinality(P) /\ Occurrences(s, d) = Cardinality(Q) /\ AtMost(s, d) = Cardinality(P \cup Q)
  BY <1>3, Zenon DEF Less, AtMost, Occurrences
<1> HIDE DEF P, Q
<1>7. Cardinality(P \cup Q) = Cardinality(P) + Cardinality(Q) - Cardinality(P \cap Q)
  BY <1>4, FS_Union
<1>8. Cardinality(P \cap Q) = 0
  BY <1>3, FS_EmptySet
<1> QED
  BY <1>4, <1>5, <1>6, <1>7, <1>8

\* std::sort as the merge uses it (main.cpp:189): the result has the same numbers
\* as often as before, and none is followed by a smaller one.
THEOREM InOrderSorts ==
  ASSUME NEW s \in Seq(Nat)
  PROVE  /\ InOrder(s) \in Seq(Nat)
         /\ \A i, j \in DOMAIN InOrder(s) : i < j => InOrder(s)[i] <= InOrder(s)[j]
         /\ \A d \in Nat : Occurrences(InOrder(s), d) = Occurrences(s, d)
<1> DEFINE t == InOrder(s)
<1>1. t \in Seq(Nat) /\ Len(t) = Len(s) /\ Len(s) \in Nat /\ DOMAIN t = 1 .. Len(s)
  BY InOrderIs, LenProperties
<1>2. ASSUME NEW i \in DOMAIN t, NEW j \in DOMAIN t, i < j PROVE t[i] <= t[j]
  <2>1. t[i] \in Nat /\ t[j] \in Nat /\ t[j] + 1 \in Nat
    BY <1>1
  <2>2. t[j] < t[j] + 1
    BY <2>1
  <2> DEFINE m == Less(s, t[j] + 1)
  <2>3. m \in 0 .. Len(s) /\ j <= m
    BY <1>1, <2>1, <2>2, InOrderLess, CountsGrow, Zenon
  <2> HIDE DEF m
  <2>4. i <= m
    BY <1>1, <1>2, <2>3
  <2>5. t[i] < t[j] + 1
    BY <1>1, <2>1, <2>4, InOrderLess, Zenon DEF m
  <2> HIDE DEF t
  <2> QED
    BY <2>1, <2>5
<1>3. ASSUME NEW d \in Nat PROVE Occurrences(t, d) = Occurrences(s, d)
  <2>1. d + 1 \in Nat
    OBVIOUS
  <2>2. Less(t, d) = Less(s, d) /\ Less(t, d + 1) = Less(s, d + 1)
    BY <2>1, InOrderLess, Zenon
  <2>3. AtMost(t, d) = Less(t, d + 1) /\ AtMost(s, d) = Less(s, d + 1)
    BY <1>1, CountsGrow, Zenon
  <2>4. Less(s, d) \in 0 .. Len(s)
    BY CountsGrow, Zenon
  <2>5. Occurrences(t, d) \in Nat /\ AtMost(t, d) = Less(t, d) + Occurrences(t, d)
    BY <1>1, OccurrencesIs, Zenon
  <2>6. Occurrences(s, d) \in Nat /\ AtMost(s, d) = Less(s, d) + Occurrences(s, d)
    BY OccurrencesIs, Zenon
  <2> HIDE DEF t
  <2> QED
    BY <1>1, <2>2, <2>3, <2>4, <2>5, <2>6
<1> QED
  BY <1>1, <1>2, <1>3

\* What is in order stays as it is.
LEMMA InOrderTwice ==
  ASSUME NEW s \in Seq(Nat)
  PROVE  InOrder(InOrder(s)) = InOrder(s)
<1> DEFINE t == InOrder(s)
           u == InOrder(t)
<1>1. /\ t \in Seq(Nat) /\ Len(t) = Len(s) /\ Len(s) \in Nat
      /\ u \in Seq(Nat) /\ Len(u) = Len(s)
  BY InOrderIs, LenProperties
<1>2. ASSUME NEW k \in 1 .. Len(s) PROVE u[k] = t[k]
  <2>1. KthIs(t, k, u[k]) /\ KthIs(s, k, t[k]) /\ u[k] \in Nat /\ t[k] \in Nat
    <3>1. u[k] \in Nat /\ t[k] \in Nat
      BY <1>1
    <3> QED
      BY <1>1, <3>1, InOrderIs, Zenon
  <2>2. ASSUME NEW d \in Nat PROVE Less(t, d) = Less(s, d) /\ AtMost(t, d) = AtMost(s, d)
    <3>1. d + 1 \in Nat
      OBVIOUS
    <3> QED
      BY <1>1, <3>1, InOrderLess, CountsGrow, Zenon
  <2>3. KthIs(s, k, u[k])
    BY <2>1, <2>2, Zenon DEF KthIs
  <2> QED
    BY <2>1, <2>3, KthExists, Zenon
<1> HIDE DEF u, t
<1>3. u = t
  BY <1>1, <1>2, SeqEqual
<1> QED
  BY <1>3 DEF u, t

----------------------------------------------------------------------------
(* The inductive invariant *)

\* The documents of word w in batch b.
BatchDocs(b, w) == {d \in Docs : <<b, w, d>> \in given}

FileEntries == [word : Words, docids : Seq(Docs)]

\* The b-th file has the words of the b-th batch in order, with their documents.
FileIs(b) ==
  /\ \A k, l \in DOMAIN files[b] : k < l => files[b][k].word < files[b][l].word
  /\ \A k \in DOMAIN files[b] : files[b][k].docids = Sorted(BatchDocs(b, files[b][k].word))
  /\ \A w \in Words : BatchDocs(b, w) # {} <=> \E k \in DOMAIN files[b] : files[b][k].word = w

FilesInv ==
  /\ files \in Seq(Seq(FileEntries)) /\ Len(files) <= MaxDocs
  /\ \A b \in DOMAIN files : FileIs(b)
  /\ set_wordid = {w \in Words : \E b \in DOMAIN files : BatchDocs(b, w) # {}}
  /\ \A b \in Nat, w \in Words : IsFiniteSet(BatchDocs(b, w))
  /\ given \subseteq (1 .. Len(files) + 1) \X Words \X Docs
  /\ phase # "reading" => given \subseteq (1 .. Len(files)) \X Words \X Docs

\* The batch being read.
BatchInv ==
  /\ dict_wordid \in [Words -> SUBSET Docs] /\ cur_count \in 0 .. COUNT_DOCID - 1
  /\ phase = "reading" =>
       /\ \A w \in Words : dict_wordid[w] = BatchDocs(Len(files) + 1, w)
       /\ dict_wordid # NoWords => cur_count >= 1
       /\ Len(files) * COUNT_DOCID + cur_count <= MaxDocs

Cursors(i) == [word : Words, docids : Seq(Docs \cup {Junk}), next : 1 .. Len(files[i]) + 1]

\* The merged lists do not overlap; what has been read of each file is an entry.
MergeTypes ==
  /\ phase \in {"reading", "read", "merging", "done"} /\ max_wordid \in Words
  /\ IF phase \in {"reading", "read"} THEN cur = <<>> /\ lists = <<>> /\ offsets = <<>>
     ELSE DOMAIN cur = DOMAIN files
  /\ \A i \in DOMAIN cur : cur[i] \in Cursors(i)
  /\ lists \in Seq([offset : Nat, docids : Seq(Nat)])
  /\ \A k, l \in DOMAIN lists : k < l => lists[k].offset < lists[l].offset
  /\ DOMAIN offsets \subseteq Words

\* File i has been merged.
AtEnd(i) == cur[i].next = Len(files[i]) + 1 /\ cur[i].word = max_wordid

\* Of file i the words before the cursor are merged, and no later ones.
CursorIs(i) ==
  /\ cur[i].next >= 2
  /\ \/ AtEnd(i)
     \/ /\ cur[i].word = files[i][cur[i].next - 1].word
        /\ cur[i].docids = files[i][cur[i].next - 1].docids
  /\ \A k \in DOMAIN files[i] : k < cur[i].next - 1 \/ AtEnd(i) => files[i][k].word \in DOMAIN offsets
  /\ \A w \in DOMAIN offsets : w < cur[i].word

\* Each merged word has a list of all its documents.
MergeInv ==
  phase \in {"merging", "done"} /\ Regular =>
    /\ \A w \in set_wordid : w < max_wordid
    /\ \A i \in DOMAIN files : CursorIs(i)
    /\ DOMAIN offsets \subseteq set_wordid
    /\ \A w \in DOMAIN offsets :
         \E l \in DOMAIN lists : lists[l].offset = offsets[w] /\ lists[l].docids = DocumentsOf(w)

\* The file is finished: every word is merged, and its offset is in the table.
TableInv ==
  phase = "done" /\ Regular =>
    /\ DOMAIN offsets = set_wordid
    /\ table = [i \in 1 .. Len(Append(Sorted(set_wordid), 0)) |->
                  [word |-> Append(Sorted(set_wordid), 0)[i],
                   offset |-> IF i <= Len(Sorted(DOMAIN offsets))
                              THEN offsets[Sorted(DOMAIN offsets)[i]] ELSE 0]]

IndexInv == FilesInv /\ BatchInv /\ MergeTypes /\ MergeInv /\ TableInv

LEMMA WordsAre ==
  /\ Words \in SUBSET Nat /\ IsFiniteSet(Words)
  /\ \A w \in Words : w < 2 ^ Width
  /\ Docs \in SUBSET Nat
<1> DEFINE N == 2 ^ Width
<1>1. N \in Nat /\ Docs \in SUBSET Nat /\ Words = 0 .. N - 1
  BY IndexAssumption DEF Words
<1> HIDE DEF N
<1>2. IsFiniteSet(0 .. N - 1)
  BY <1>1, FS_Interval
<1>3. \A w \in Words : w \in Nat /\ w < N
  BY <1>1
<1> QED
  BY <1>1, <1>2, <1>3 DEF N

\* The documents of a word in a batch, in order.
LEMMA BatchSorted ==
  ASSUME FilesInv, NEW b \in Nat, NEW w \in Words
  PROVE  /\ Sorted(BatchDocs(b, w)) \in Seq(Docs) /\ Sorted(BatchDocs(b, w)) \in Seq(Nat)
         /\ BatchDocs(b, w) = {} => Sorted(BatchDocs(b, w)) = <<>>
<1>1. BatchDocs(b, w) \in SUBSET Docs /\ BatchDocs(b, w) \in SUBSET Nat /\ IsFiniteSet(BatchDocs(b, w))
  BY WordsAre DEF FilesInv, BatchDocs
<1>2. Sorted(BatchDocs(b, w)) \in Seq(BatchDocs(b, w))
  BY <1>1, SortedIs
<1> QED
  BY <1>1, <1>2, SeqSubset, SortedEmpty, Zenon

\* The documents of a word, joined from the files, are DocumentsOf.
LEMMA Gather ==
  ASSUME FilesInv, phase # "reading", NEW w \in Words,
         NEW ss \in Seq(Seq(Nat)), Len(ss) = Len(files),
         \A b \in 1 .. Len(files) : ss[b] = Sorted(BatchDocs(b, w))
  PROVE  InOrder(FlattenSeq(ss)) = DocumentsOf(w)
<1> DEFINE tt == [b \in 1 .. MaxDocs |-> Sorted(BatchDocs(b, w))]
           n == Len(files)
<1>1. n \in Nat /\ MaxDocs \in Nat /\ n <= MaxDocs /\ Len(ss) = n
  BY IndexAssumption, LenProperties DEF FilesInv
<1>2. tt \in [1 .. MaxDocs -> Seq(Nat)]
  BY <1>1, BatchSorted
<1>3. tt \in Seq(Seq(Nat)) /\ Len(tt) = MaxDocs
  <2>1. tt \in Seq(Seq(Nat))
    BY <1>1, <1>2, SeqDef
  <2> QED
    BY <1>1, <1>2, <2>1, LenProperties
<1>4. ASSUME NEW b \in 1 .. MaxDocs PROVE tt[b] = Sorted(BatchDocs(b, w))
  OBVIOUS
<1>5. ASSUME NEW b \in n + 1 .. MaxDocs PROVE BatchDocs(b, w) = {}
  <2>1. \A g \in given : g[1] \in 1 .. n
    BY DEF FilesInv
  <2>2. b \notin 1 .. n
    BY <1>1
  <2>3. \A d \in Docs : <<b, w, d>>[1] = b
    OBVIOUS
  <2> QED
    BY <2>1, <2>2, <2>3, Zenon DEF BatchDocs
<1>6. DocumentsOf(w) = InOrder(FlattenSeq(tt))
  BY Zenon DEF DocumentsOf, BatchDocs
<1> HIDE DEF tt
<1>7. \A b \in Len(ss) + 1 .. Len(tt) : tt[b] = <<>>
  <2> SUFFICES ASSUME NEW b \in n + 1 .. MaxDocs PROVE tt[b] = <<>>
    BY <1>1, <1>3
  <2>1. b \in 1 .. MaxDocs /\ b \in Nat
    BY <1>1
  <2> QED
    BY <1>4, <1>5, <2>1, BatchSorted, Zenon
<1>8. \A b \in 1 .. Len(ss) : ss[b] = tt[b]
  BY <1>1, <1>4 DEF n
<1>9. FlattenSeq(ss) = FlattenSeq(tt)
  BY <1>1, <1>3, <1>7, <1>8, FlattenSame
<1> QED
  BY <1>6, <1>9

LEMMA InitInv == Init => IndexInv
<1> SUFFICES ASSUME Init PROVE IndexInv
  OBVIOUS
<1>1. Len(<<>>) = 0 /\ DOMAIN <<>> = {} /\ \A S : <<>> \in Seq(S)
  BY EmptySeq
<1>2. FilesInv
  <2>1. \A b, w : BatchDocs(b, w) = {}
    BY DEF Init, BatchDocs
  <2>2. DOMAIN files = {} /\ files \in Seq(Seq(FileEntries)) /\ Len(files) <= MaxDocs
    BY <1>1, IndexAssumption DEF Init
  <2>3. given = {} /\ set_wordid = {} /\ phase = "reading"
    BY DEF Init
  <2> QED
    BY <2>1, <2>2, <2>3, FS_EmptySet, Zenon DEF FilesInv
<1>3. BatchInv
  <2>1. \A w \in Words : dict_wordid[w] = {} /\ BatchDocs(Len(files) + 1, w) = {}
    BY DEF Init, NoWords, BatchDocs
  <2>2. dict_wordid \in [Words -> SUBSET Docs] /\ dict_wordid = NoWords
    BY DEF Init, NoWords
  <2>3. Len(files) * COUNT_DOCID + cur_count <= MaxDocs /\ cur_count \in 0 .. COUNT_DOCID - 1
    BY <1>1, IndexAssumption DEF Init
  <2> QED
    BY <2>1, <2>2, <2>3, Zenon DEF BatchInv
<1>4. MergeTypes
  <2>1. 0 \in Words
    <3> DEFINE N == 2 ^ Width
    <3>1. N \in Nat \ {0}
      BY IndexAssumption
    <3> HIDE DEF N
    <3>2. 0 \in 0 .. N - 1
      BY <3>1
    <3> QED
      BY <3>2 DEF Words, N
  <2> QED
    BY <1>1, <2>1, Zenon DEF Init, MergeTypes
<1>5. MergeInv /\ TableInv
  BY DEF Init, MergeInv, TableInv
<1> QED
  BY <1>2, <1>3, <1>4, <1>5 DEF IndexInv

\* An entry of a file is a word with documents.
LEMMA EntryType ==
  ASSUME FilesInv, NEW b \in DOMAIN files, NEW k \in DOMAIN files[b]
  PROVE  /\ files[b] \in Seq(FileEntries) /\ files[b][k] \in FileEntries
         /\ files[b][k].word \in Words /\ files[b][k].docids \in Seq(Docs)
         /\ b \in 1 .. Len(files) /\ k \in 1 .. Len(files[b])
<1>1. files \in Seq(Seq(FileEntries)) /\ b \in 1 .. Len(files)
  BY LenProperties DEF FilesInv
<1>2. files[b] \in Seq(FileEntries)
  BY <1>1
<1>3. files[b][k] \in FileEntries /\ k \in 1 .. Len(files[b])
  BY <1>2, LenProperties
<1> QED
  BY <1>1, <1>2, <1>3 DEF FileEntries

\* A file that is kept still has what its batch had.
LEMMA FileKept ==
  ASSUME FilesInv, NEW b \in DOMAIN files, files'[b] = files[b],
         \A w \in Words : BatchDocs(b, w)' = BatchDocs(b, w)
  PROVE  FileIs(b)'
<1>1. FileIs(b)
  BY DEF FilesInv
<1>2. \A k \in DOMAIN files[b] : files[b][k].word \in Words
  BY EntryType, Zenon
<1>3. (\A k, l \in DOMAIN files[b] : k < l => files[b][k].word < files[b][l].word)'
  BY <1>1, Zenon DEF FileIs
<1>4. (\A k \in DOMAIN files[b] : files[b][k].docids = Sorted(BatchDocs(b, files[b][k].word)))'
  <2> SUFFICES ASSUME NEW k \in DOMAIN files[b]
               PROVE  (files[b][k].docids = Sorted(BatchDocs(b, files[b][k].word)))'
    OBVIOUS
  <2>1. PICK v \in Words : v = files[b][k].word
    BY <1>2, Zenon
  <2>2. files[b][k].docids = Sorted(BatchDocs(b, v)) /\ BatchDocs(b, v)' = BatchDocs(b, v)
    BY <1>1, <2>1, Zenon DEF FileIs
  <2>3. files'[b][k].word = v /\ files'[b][k].docids = Sorted(BatchDocs(b, v)')
    BY <2>1, <2>2, Zenon
  <2> QED
    BY <2>3, Zenon DEF BatchDocs
<1>5. (\A w \in Words : BatchDocs(b, w) # {} <=> \E k \in DOMAIN files[b] : files[b][k].word = w)'
  BY <1>1, Zenon DEF FileIs
<1> QED
  BY <1>3, <1>4, <1>5, Zenon DEF FileIs

\* saveIndexFile: the new file has the words of the batch.
LEMMA SaveFile ==
  ASSUME FilesInv, NEW n \in Nat, n = Len(files), n + 1 <= MaxDocs,
         NEW dict \in [Words -> SUBSET Docs], saveIndexFile(dict),
         \A w \in Words : dict[w] = BatchDocs(n + 1, w)',
         \A b \in 1 .. n, w \in Words : BatchDocs(b, w)' = BatchDocs(b, w),
         \A b \in Nat, w \in Words : IsFiniteSet(BatchDocs(b, w)'),
         given' \subseteq (1 .. n + 1) \X Words \X Docs
  PROVE  FilesInv' /\ Len(files') = n + 1
<1> DEFINE W == WordsOf(dict)
           words == Sorted(W)
           file == [i \in 1 .. Len(words) |-> [word |-> words[i], docids |-> Sorted(dict[words[i]])]]
<1>0. /\ \A w \in Words : dict[w] = BatchDocs(n + 1, w)' /\ IsFiniteSet(dict[w])
      /\ \A b \in 1 .. n, w \in Words : BatchDocs(b, w)' = BatchDocs(b, w)
      /\ given' \subseteq (1 .. n + 1) \X Words \X Docs /\ n + 1 <= MaxDocs
  <2>1. n + 1 \in Nat
    OBVIOUS
  <2> QED
    BY <2>1, Zenon
<1>1. n \in Nat /\ files \in Seq(Seq(FileEntries)) /\ DOMAIN files = 1 .. n
  BY LenProperties DEF FilesInv
<1>2. W \in SUBSET Words /\ W \in SUBSET Nat /\ IsFiniteSet(W)
  <2>1. W \in SUBSET Words
    BY DEF WordsOf
  <2> QED
    BY <2>1, WordsAre, FS_Subset
<1>3. /\ words \in Seq(Words) /\ Len(words) \in Nat
      /\ \A i, j \in 1 .. Len(words) : i < j => words[i] < words[j]
      /\ \A x \in W : \E i \in 1 .. Len(words) : words[i] = x
      /\ \A i \in 1 .. Len(words) : words[i] \in W
  <2>1. /\ words \in Seq(W)
        /\ \A i, j \in 1 .. Len(words) : i < j => words[i] < words[j]
        /\ \A x \in W : \E i \in 1 .. Len(words) : words[i] = x
    BY <1>2, SortedIs, Zenon
  <2>2. Len(words) \in Nat /\ \A i \in 1 .. Len(words) : words[i] \in W
    BY <2>1, LenProperties
  <2>3. words \in Seq(Words)
    BY <1>2, <2>1, SeqSubset, Zenon
  <2> QED
    BY <2>1, <2>2, <2>3, Zenon
<1>4. files' = Append(files, file) /\ set_wordid' = set_wordid \cup W
  BY Zenon DEF saveIndexFile
<1> HIDE DEF words
<1>5. ASSUME NEW i \in 1 .. Len(words)
      PROVE  /\ file[i] \in FileEntries
             /\ file[i].word = words[i] /\ file[i].docids = Sorted(BatchDocs(n + 1, words[i])')
  <2>1. words[i] \in Words /\ dict[words[i]] = BatchDocs(n + 1, words[i])'
    BY <1>0, <1>2, <1>3
  <2>2. dict[words[i]] \in SUBSET Docs /\ IsFiniteSet(dict[words[i]]) /\ dict[words[i]] \in SUBSET Nat
    BY <1>0, <2>1, WordsAre
  <2>3. Sorted(dict[words[i]]) \in Seq(dict[words[i]])
    BY <2>2, SortedIs
  <2>4. Sorted(dict[words[i]]) \in Seq(Docs)
    BY <2>2, <2>3, SeqSubset, Zenon
  <2>5. file[i] = [word |-> words[i], docids |-> Sorted(dict[words[i]])]
    OBVIOUS
  <2> HIDE DEF file
  <2> QED
    BY <2>1, <2>4, <2>5 DEF FileEntries
<1>6. file \in Seq(FileEntries) /\ Len(file) = Len(words) /\ DOMAIN file = 1 .. Len(words)
  <2>1. file \in [1 .. Len(words) -> FileEntries]
    <3>1. DOMAIN file = 1 .. Len(words) /\ file = [i \in 1 .. Len(words) |-> file[i]]
      OBVIOUS
    <3> HIDE DEF file
    <3> QED
      BY <1>5, <3>1
  <2> HIDE DEF file
  <2>2. file \in Seq(FileEntries)
    BY <1>3, <2>1, SeqDef
  <2> QED
    BY <1>3, <2>1, <2>2, LenProperties
<1> HIDE DEF file
<1>7. /\ files' \in Seq(Seq(FileEntries)) /\ Len(files') = n + 1 /\ DOMAIN files' = 1 .. n + 1
      /\ files'[n + 1] = file /\ \A b \in 1 .. n : files'[b] = files[b]
  <2>1. /\ Append(files, file) \in Seq(Seq(FileEntries)) /\ Len(Append(files, file)) = n + 1
        /\ Append(files, file)[n + 1] = file /\ \A b \in 1 .. n : Append(files, file)[b] = files[b]
    BY <1>1, <1>6, AppendProperties
  <2> QED
    BY <1>4, <2>1, LenProperties
<1>8. ASSUME NEW b \in 1 .. n PROVE FileIs(b)'
  BY <1>0, <1>1, <1>7, FileKept, Zenon
<1>9. FileIs(n + 1)'
  <2>0. files'[n + 1] = file /\ DOMAIN file = 1 .. Len(words)
    BY <1>6, <1>7
  <2>1. (\A k, l \in DOMAIN files[n + 1] : k < l => files[n + 1][k].word < files[n + 1][l].word)'
    <3>1. \A k \in 1 .. Len(words) : file[k].word = words[k]
      BY <1>5, Zenon
    <3>2. \A k, l \in DOMAIN file : k < l => file[k].word < file[l].word
      <4>1. \A k, l \in 1 .. Len(words) : k < l => words[k] < words[l]
        BY <1>3, Zenon
      <4> QED
        BY <2>0, <3>1, <4>1
    <3> QED
      BY <2>0, <3>2
  <2>2. (\A k \in DOMAIN files[n + 1] :
            files[n + 1][k].docids = Sorted(BatchDocs(n + 1, files[n + 1][k].word)))'
    <3> SUFFICES ASSUME NEW k \in 1 .. Len(words)
                 PROVE  (files[n + 1][k].docids = Sorted(BatchDocs(n + 1, files[n + 1][k].word)))'
      BY <2>0, Zenon
    <3>1. PICK v \in Words : v = words[k]
      BY <1>2, <1>3, Zenon
    <3>2. files'[n + 1][k].word = v /\ files'[n + 1][k].docids = Sorted(BatchDocs(n + 1, v)')
      BY <1>5, <2>0, <3>1, Zenon
    <3> QED
      BY <3>2, Zenon DEF BatchDocs
  <2>3. \A w \in Words : BatchDocs(n + 1, w)' # {} <=> \E k \in DOMAIN file : file[k].word = w
    <3>1. \A w \in Words : BatchDocs(n + 1, w)' # {} <=> w \in W
      BY <1>0 DEF WordsOf
    <3>2. \A w \in Words : w \in W <=> \E k \in 1 .. Len(words) : words[k] = w
      BY <1>3, Zenon
    <3>3. \A k \in 1 .. Len(words) : file[k].word = words[k]
      BY <1>5, Zenon
    <3>4. \A w : (\E k \in 1 .. Len(words) : words[k] = w) <=> \E k \in DOMAIN file : file[k].word = w
      BY <2>0, <3>3
    <3> QED
      BY <3>1, <3>2, <3>4, Zenon
  <2>4. (\A w \in Words : BatchDocs(n + 1, w) # {} <=> \E k \in DOMAIN files[n + 1] : files[n + 1][k].word = w)'
    BY <2>0, <2>3, Zenon
  <2> QED
    BY <2>1, <2>2, <2>4, Zenon DEF FileIs
<1>10. (\A b \in DOMAIN files : FileIs(b))'
  <2> SUFFICES ASSUME NEW b \in 1 .. n + 1 PROVE FileIs(b)'
    BY <1>7, Zenon
  <2>1. b \in 1 .. n \/ b = n + 1
    BY <1>0, <1>1
  <2> QED
    BY <1>8, <1>9, <2>1
<1>11. (set_wordid = {w \in Words : \E b \in DOMAIN files : BatchDocs(b, w) # {}})'
  <2>1. set_wordid = {w \in Words : \E b \in 1 .. n : BatchDocs(b, w) # {}}
    BY <1>1 DEF FilesInv
  <2>2. ASSUME NEW w \in Words
        PROVE  w \in set_wordid \/ w \in W <=> \E b \in 1 .. n + 1 : BatchDocs(b, w)' # {}
    <3>1. w \in W <=> BatchDocs(n + 1, w)' # {}
      BY <1>0 DEF WordsOf
    <3>2. w \in set_wordid <=> \E b \in 1 .. n : BatchDocs(b, w)' # {}
      <4>1. \A b \in 1 .. n : BatchDocs(b, w)' = BatchDocs(b, w)
        BY <1>0
      <4> QED
        BY <2>1, <4>1, Zenon
    <3>3. \A b : b \in 1 .. n + 1 <=> b \in 1 .. n \/ b = n + 1
      BY <1>0, <1>1
    <3> QED
      BY <3>1, <3>2, <3>3, Zenon
  <2>3. set_wordid' = {w \in Words : \E b \in 1 .. n + 1 : BatchDocs(b, w)' # {}}
    <3> DEFINE R == {w \in Words : \E b \in 1 .. n + 1 : BatchDocs(b, w)' # {}}
    <3>1. set_wordid \subseteq Words
      BY DEF FilesInv
    <3>2. R \subseteq Words /\ \A w \in Words : w \in R <=> w \in set_wordid \/ w \in W
      BY <2>2, Zenon
    <3> HIDE DEF R, W
    <3>3. set_wordid' = R
      BY <1>2, <1>4, <3>1, <3>2
    <3> QED
      BY <3>3 DEF R
  <2> QED
    BY <1>7, <2>3, Zenon
<1>12. given' \subseteq (1 .. n + 1) \X Words \X Docs /\ 1 .. n + 1 \subseteq 1 .. (n + 1) + 1
  BY <1>0, <1>1
<1>13. given' \subseteq (1 .. (n + 1) + 1) \X Words \X Docs
  BY <1>12
<1> QED
  BY <1>0, <1>7, <1>10, <1>11, <1>12, <1>13, Zenon DEF FilesInv

\* While documents are read, nothing is merged.
LEMMA NotMerging ==
  ASSUME IndexInv, phase \in {"reading", "read"}, phase' \in {"reading", "read"}, UNCHANGED merging
  PROVE  MergeTypes' /\ MergeInv' /\ TableInv'
<1>1. MergeTypes'
  <2>1. cur = <<>> /\ lists = <<>> /\ offsets = <<>> /\ max_wordid \in Words /\ DOMAIN <<>> = {}
    BY DEF IndexInv, MergeTypes
  <2>2. /\ lists \in Seq([offset : Nat, docids : Seq(Nat)])
        /\ \A k, l \in DOMAIN lists : k < l => lists[k].offset < lists[l].offset
        /\ DOMAIN offsets \subseteq Words
    BY DEF IndexInv, MergeTypes
  <2>3. cur' = cur /\ lists' = lists /\ offsets' = offsets /\ max_wordid' = max_wordid
    BY DEF merging
  <2>4. \A i : i \notin DOMAIN cur'
    BY <2>1, <2>3
  <2> QED
    BY <2>1, <2>2, <2>3, <2>4, Zenon DEF MergeTypes
<1>2. MergeInv' /\ TableInv'
  BY DEF MergeInv, TableInv
<1> QED
  BY <1>1, <1>2

LEMMA ReadDocInv == IndexInv /\ ReadDoc => IndexInv'
<1> SUFFICES ASSUME IndexInv, ReadDoc PROVE IndexInv'
  OBVIOUS
<1>1. FilesInv /\ BatchInv /\ phase = "reading" /\ phase' = "reading" /\ UNCHANGED merging
  BY DEF IndexInv, ReadDoc
<1>2. MergeTypes' /\ MergeInv' /\ TableInv'
  BY <1>1, NotMerging
<1>3. PICK n \in Nat : n = Len(files)
  BY <1>1, LenProperties DEF FilesInv
<1>4. COUNT_DOCID \in Nat \ {0} /\ MaxDocs \in Nat /\ WordSets \in SUBSET SUBSET Words
  BY IndexAssumption
<1>5. cur_count \in 0 .. COUNT_DOCID - 1 /\ n * COUNT_DOCID + cur_count < MaxDocs
  BY <1>1, <1>3 DEF BatchInv, ReadDoc
<1> DEFINE dictOf(d, words) == [w \in Words |-> dict_wordid[w] \cup IF w \in words THEN {d} ELSE {}]
<1>6a. PICK d \in Docs, words \in WordSets :
        /\ given' = given \cup {<<Len(files) + 1, w, d>> : w \in words}
        /\ IF BatchIsFull
           THEN saveIndexFile(dictOf(d, words)) /\ dict_wordid' = NoWords /\ cur_count' = 0
           ELSE dict_wordid' = dictOf(d, words) /\ cur_count' = cur_count + 1 /\ UNCHANGED <<files, set_wordid>>
  BY DEF ReadDoc
<1>6. /\ given' = given \cup {<<n + 1, w, d>> : w \in words}
      /\ IF BatchIsFull
         THEN saveIndexFile(dictOf(d, words)) /\ dict_wordid' = NoWords /\ cur_count' = 0
         ELSE dict_wordid' = dictOf(d, words) /\ cur_count' = cur_count + 1 /\ UNCHANGED <<files, set_wordid>>
  BY <1>3, <1>6a, Zenon
<1> DEFINE dict == dictOf(d, words)
<1>7. words \in SUBSET Words
  BY <1>4
<1>8. /\ \A w \in Words : dict_wordid[w] = BatchDocs(n + 1, w) /\ dict_wordid[w] \in SUBSET Docs
      /\ given \subseteq (1 .. n + 1) \X Words \X Docs
      /\ \A b \in Nat, w \in Words : IsFiniteSet(BatchDocs(b, w))
  BY <1>1, <1>3 DEF BatchInv, FilesInv
<1>9. ASSUME NEW b, NEW w \in Words
      PROVE  BatchDocs(b, w)' = BatchDocs(b, w) \cup IF b = n + 1 /\ w \in words THEN {d} ELSE {}
  <2>1. \A e : <<b, w, e>> \in {<<n + 1, v, d>> : v \in words} <=> b = n + 1 /\ w \in words /\ e = d
    BY SMT
  <2>2. \A e : <<b, w, e>> \in given' <=> <<b, w, e>> \in given \/ (b = n + 1 /\ w \in words /\ e = d)
    BY <1>6, <2>1, Zenon
  <2>3. BatchDocs(b, w)' = {e \in Docs : <<b, w, e>> \in given \/ (b = n + 1 /\ w \in words /\ e = d)}
    BY <2>2, Zenon DEF BatchDocs
  <2> QED
    BY <2>3 DEF BatchDocs
<1>10. ASSUME NEW w \in Words
       PROVE  dict[w] = BatchDocs(n + 1, w)' /\ dict[w] \in SUBSET Docs
  <2>1. dict[w] = dict_wordid[w] \cup IF w \in words THEN {d} ELSE {}
    BY Zenon
  <2>2. BatchDocs(n + 1, w)' = BatchDocs(n + 1, w) \cup IF w \in words THEN {d} ELSE {}
    BY <1>9, Zenon
  <2>3. (IF w \in words THEN {d} ELSE {}) \in SUBSET Docs
    OBVIOUS
  <2> HIDE DEF dict
  <2> QED
    BY <1>8, <2>1, <2>2, <2>3
<1>11. dict \in [Words -> SUBSET Docs]
  <2>1. \A w \in Words : dict[w] \in SUBSET Docs
    BY <1>10
  <2> QED
    BY <2>1, Zenon
<1>12. ASSUME NEW b \in Nat, NEW w \in Words PROVE IsFiniteSet(BatchDocs(b, w)')
  <2>1. IsFiniteSet(BatchDocs(b, w)) /\ IsFiniteSet(BatchDocs(b, w) \cup {d})
    BY <1>8, FS_AddElement
  <2>2. BatchDocs(b, w)' = BatchDocs(b, w) \cup {d} \/ BatchDocs(b, w)' = BatchDocs(b, w)
    BY <1>9
  <2> QED
    BY <2>1, <2>2, Zenon
<1>13. given' \subseteq (1 .. n + 1) \X Words \X Docs
  <2>1. ASSUME NEW w \in words PROVE <<n + 1, w, d>> \in (1 .. n + 1) \X Words \X Docs
    BY <1>7
  <2> QED
    BY <1>6, <1>8, <2>1, Zenon
<1>14. ASSUME NEW b \in 1 .. n, NEW w \in Words PROVE BatchDocs(b, w)' = BatchDocs(b, w)
  <2>1. b # n + 1
    OBVIOUS
  <2> QED
    BY <1>9, <2>1
<1> HIDE DEF dict
<1>15. CASE BatchIsFull
  <2>1. saveIndexFile(dict) /\ dict_wordid' = NoWords /\ cur_count' = 0
    BY <1>6, <1>15, Zenon DEF dict
  <2>2. cur_count + 1 = COUNT_DOCID
    BY <1>15 DEF BatchIsFull
  <2>3. (n + 1) * COUNT_DOCID <= MaxDocs /\ n + 1 <= MaxDocs
    <3>1. (n + 1) * COUNT_DOCID = n * COUNT_DOCID + COUNT_DOCID
      BY <1>4
    <3>2. n * COUNT_DOCID >= n
      BY <1>4
    <3> DEFINE m == n * COUNT_DOCID
    <3>3. m \in Nat
      BY <1>4
    <3> HIDE DEF m
    <3>4. m + cur_count < MaxDocs /\ m >= n /\ (n + 1) * COUNT_DOCID = m + COUNT_DOCID
      BY <1>5, <3>1, <3>2 DEF m
    <3> QED
      BY <1>4, <1>5, <2>2, <3>3, <3>4
  <2>4. FilesInv' /\ Len(files') = n + 1
    BY <1>1, <1>3, <1>10, <1>11, <1>12, <1>13, <1>14, <2>1, <2>3, SaveFile, Zenon
  <2>5. ASSUME NEW w \in Words PROVE (dict_wordid[w] = BatchDocs(Len(files) + 1, w))'
    <3>1. dict_wordid'[w] = {}
      BY <2>1 DEF NoWords
    <3>2. \A e : <<(n + 1) + 1, w, e>> \notin given'
      BY <1>13
    <3>3. Len(files') + 1 = (n + 1) + 1
      BY <2>4
    <3> QED
      BY <3>1, <3>2, <3>3 DEF BatchDocs
  <2>6. dict_wordid' \in [Words -> SUBSET Docs] /\ cur_count' \in 0 .. COUNT_DOCID - 1
    BY <1>4, <2>1 DEF NoWords
  <2>7. (Len(files) * COUNT_DOCID + cur_count <= MaxDocs)'
    <3> DEFINE m == (n + 1) * COUNT_DOCID
    <3>1. m \in Nat /\ m <= MaxDocs
      BY <1>4, <2>3
    <3>2. (Len(files) * COUNT_DOCID)' = m /\ cur_count' = 0
      BY <2>1, <2>4, Zenon
    <3> HIDE DEF m
    <3> QED
      BY <3>1, <3>2
  <2>8. BatchInv'
    BY <2>1, <2>5, <2>6, <2>7, Zenon DEF BatchInv, NoWords
  <2> QED
    BY <1>2, <2>4, <2>8 DEF IndexInv
<1>16. CASE ~BatchIsFull
  <2>1. dict_wordid' = dict /\ cur_count' = cur_count + 1 /\ files' = files /\ set_wordid' = set_wordid
    BY <1>6, <1>16, Zenon DEF dict
  <2>2. DOMAIN files = 1 .. n /\ DOMAIN files' = 1 .. n /\ Len(files') = n
    BY <1>1, <1>3, <2>1, LenProperties DEF FilesInv
  <2>3. FilesInv'
    <3>1. (\A b \in DOMAIN files : FileIs(b))'
      BY <1>1, <1>14, <2>1, <2>2, FileKept, Zenon
    <3>2. (set_wordid = {w \in Words : \E b \in DOMAIN files : BatchDocs(b, w) # {}})'
      <4>1. set_wordid = {w \in Words : \E b \in 1 .. n : BatchDocs(b, w) # {}}
        BY <1>1, <2>2 DEF FilesInv
      <4>2. \A w \in Words : (\E b \in 1 .. n : BatchDocs(b, w) # {}) <=> \E b \in 1 .. n : BatchDocs(b, w)' # {}
        BY <1>14, Zenon
      <4>3. set_wordid = {w \in Words : \E b \in 1 .. n : BatchDocs(b, w)' # {}}
        BY <4>1, <4>2, Zenon
      <4> QED
        BY <2>1, <2>2, <4>3, Zenon
    <3>3. files' \in Seq(Seq(FileEntries)) /\ Len(files') <= MaxDocs
      BY <1>1, <2>1, Zenon DEF FilesInv
    <3> QED
      BY <1>1, <1>12, <1>13, <2>2, <3>1, <3>2, <3>3, Zenon DEF FilesInv
  <2>4. cur_count + 1 \in 0 .. COUNT_DOCID - 1 /\ cur_count + 1 >= 1
    BY <1>4, <1>5, <1>16 DEF BatchIsFull
  <2>5. n * COUNT_DOCID + (cur_count + 1) <= MaxDocs
    <3> DEFINE m == n * COUNT_DOCID
    <3>1. m \in Nat /\ m + cur_count < MaxDocs
      BY <1>4, <1>5
    <3> HIDE DEF m
    <3>2. m + (cur_count + 1) <= MaxDocs
      BY <1>4, <1>5, <3>1
    <3> QED
      BY <3>2 DEF m
  <2>6. ASSUME NEW w \in Words PROVE (dict_wordid[w] = BatchDocs(Len(files) + 1, w))'
    <3>1. dict_wordid'[w] = BatchDocs(n + 1, w)'
      BY <1>10, <2>1
    <3> QED
      BY <2>2, <3>1, Zenon DEF BatchDocs
  <2>7. BatchInv'
    BY <1>11, <2>1, <2>2, <2>4, <2>5, <2>6, Zenon DEF BatchInv
  <2> QED
    BY <1>2, <2>3, <2>7 DEF IndexInv
<1> QED
  BY <1>15, <1>16

\* What was read stays as it is.
LEMMA ReadingKept ==
  ASSUME FilesInv, BatchInv, UNCHANGED <<files, set_wordid, given>>, phase' # "reading",
         given \subseteq (1 .. Len(files)) \X Words \X Docs,
         dict_wordid' = dict_wordid, cur_count' \in 0 .. COUNT_DOCID - 1
  PROVE  FilesInv' /\ BatchInv'
<1>1. files' = files /\ set_wordid' = set_wordid /\ given' = given
  OBVIOUS
<1>2. \A b, w : BatchDocs(b, w)' = BatchDocs(b, w)
  BY <1>1, Zenon DEF BatchDocs
<1>3. ASSUME NEW b \in DOMAIN files PROVE FileIs(b)'
  <2>1. files'[b] = files[b]
    BY <1>1
  <2> QED
    BY <1>2, <2>1, FileKept, Zenon
<1>4. FilesInv'
  <2>1. (\A b \in DOMAIN files : FileIs(b))'
    BY <1>1, <1>3, Zenon
  <2>2. (set_wordid = {w \in Words : \E b \in DOMAIN files : BatchDocs(b, w) # {}})'
    <3>1. set_wordid = {w \in Words : \E b \in DOMAIN files : BatchDocs(b, w) # {}}
      BY Zenon DEF FilesInv
    <3> QED
      BY <1>1, <3>1, Zenon DEF BatchDocs
  <2>3. files' \in Seq(Seq(FileEntries)) /\ Len(files') <= MaxDocs
    BY <1>1, Zenon DEF FilesInv
  <2>4. \A b \in Nat, w \in Words : IsFiniteSet(BatchDocs(b, w)')
    BY <1>2, Zenon DEF FilesInv
  <2>5. given' \subseteq (1 .. Len(files') + 1) \X Words \X Docs /\ given' \subseteq (1 .. Len(files')) \X Words \X Docs
    BY <1>1, Zenon DEF FilesInv
  <2> QED
    BY <2>1, <2>2, <2>3, <2>4, <2>5, Zenon DEF FilesInv
<1>5. BatchInv'
  BY DEF BatchInv
<1> QED
  BY <1>4, <1>5

LEMMA EndOfInputInv == IndexInv /\ EndOfInput => IndexInv'
<1> SUFFICES ASSUME IndexInv, EndOfInput PROVE IndexInv'
  OBVIOUS
<1>1. /\ FilesInv /\ BatchInv /\ phase = "reading" /\ phase' = "read" /\ UNCHANGED merging
      /\ dict_wordid' = dict_wordid /\ given' = given
  BY DEF IndexInv, EndOfInput
<1>2. MergeTypes' /\ MergeInv' /\ TableInv'
  BY <1>1, NotMerging
<1>3. PICK n \in Nat : n = Len(files)
  BY <1>1, LenProperties DEF FilesInv
<1>4. COUNT_DOCID \in Nat \ {0} /\ MaxDocs \in Nat
  BY IndexAssumption
<1>5. /\ \A w \in Words : dict_wordid[w] = BatchDocs(n + 1, w)
      /\ dict_wordid \in [Words -> SUBSET Docs] /\ cur_count \in 0 .. COUNT_DOCID - 1
      /\ given \subseteq (1 .. n + 1) \X Words \X Docs
      /\ \A b \in Nat, w \in Words : IsFiniteSet(BatchDocs(b, w))
  BY <1>1, <1>3 DEF BatchInv, FilesInv
<1>6. CASE dict_wordid # NoWords
  <2>1. saveIndexFile(dict_wordid) /\ cur_count' = 0
    BY <1>6 DEF EndOfInput
  <2>2. n + 1 <= MaxDocs
    <3>1. n * COUNT_DOCID >= n
      BY <1>4
    <3> DEFINE m == n * COUNT_DOCID
    <3>2. m \in Nat /\ m + cur_count <= MaxDocs /\ cur_count >= 1
      BY <1>1, <1>3, <1>4, <1>6 DEF BatchInv
    <3> HIDE DEF m
    <3>3. m >= n
      BY <3>1 DEF m
    <3> QED
      BY <1>4, <1>5, <3>2, <3>3
  <2>3. \A b, w : BatchDocs(b, w)' = BatchDocs(b, w)
    BY <1>1, Zenon DEF BatchDocs
  <2>4. PICK dict \in [Words -> SUBSET Docs] : dict = dict_wordid
    BY <1>5, Zenon
  <2>5. /\ saveIndexFile(dict) /\ \A w \in Words : dict[w] = BatchDocs(n + 1, w)'
        /\ \A b \in 1 .. n, w \in Words : BatchDocs(b, w)' = BatchDocs(b, w)
        /\ \A b \in Nat, w \in Words : IsFiniteSet(BatchDocs(b, w)')
        /\ given' \subseteq (1 .. n + 1) \X Words \X Docs
    BY <1>1, <1>5, <2>1, <2>3, <2>4, Zenon
  <2>6. FilesInv'
    BY <1>1, <1>3, <2>2, <2>5, SaveFile, Zenon
  <2>7. BatchInv'
    BY <1>1, <1>4, <1>5, <2>1 DEF BatchInv
  <2> QED
    BY <1>2, <2>6, <2>7 DEF IndexInv
<1>7. CASE dict_wordid = NoWords
  <2>1. UNCHANGED <<files, set_wordid, given>> /\ cur_count' = cur_count
    BY <1>7 DEF EndOfInput
  <2>2. \A w \in Words : BatchDocs(n + 1, w) = {}
    BY <1>5, <1>7 DEF NoWords
  <2>3. ASSUME NEW g \in given PROVE g \in (1 .. n) \X Words \X Docs
    <3>1. PICK b \in 1 .. n + 1, w \in Words, d \in Docs : g = <<b, w, d>>
      BY <1>5
    <3>2. b # n + 1
      BY <2>2, <3>1 DEF BatchDocs
    <3>3. b \in 1 .. n
      BY <3>2
    <3> QED
      BY <3>1, <3>3
  <2>4. given \subseteq (1 .. Len(files)) \X Words \X Docs
    BY <1>3, <2>3, Zenon
  <2>5. FilesInv' /\ BatchInv'
    <3>1. phase' # "reading" /\ cur_count' \in 0 .. COUNT_DOCID - 1
      BY <1>1, <1>5, <2>1
    <3> QED
      BY <1>1, <2>1, <2>4, <3>1, ReadingKept, Zenon
  <2> QED
    BY <1>2, <2>5 DEF IndexInv
<1> QED
  BY <1>6, <1>7

\* The words of the files are those in set_wordid.
LEMMA WordsOfFiles ==
  ASSUME FilesInv
  PROVE  /\ \A b \in DOMAIN files : \A k \in DOMAIN files[b] : files[b][k].word \in set_wordid
         /\ \A w \in set_wordid : \E b \in DOMAIN files : \E k \in DOMAIN files[b] : files[b][k].word = w
         /\ set_wordid \in SUBSET Words /\ set_wordid \in SUBSET Nat /\ IsFiniteSet(set_wordid)
<1>1. set_wordid = {w \in Words : \E b \in DOMAIN files : BatchDocs(b, w) # {}}
  BY DEF FilesInv
<1>2. ASSUME NEW b \in DOMAIN files, NEW k \in DOMAIN files[b] PROVE files[b][k].word \in set_wordid
  <2>1. files[b][k].word \in Words
    BY EntryType
  <2>2. PICK w \in Words : w = files[b][k].word
    BY <2>1
  <2>3. BatchDocs(b, w) # {}
    BY <2>2, Zenon DEF FilesInv, FileIs
  <2> QED
    BY <1>1, <2>2, <2>3, Zenon
<1>3. ASSUME NEW w \in set_wordid PROVE \E b \in DOMAIN files : \E k \in DOMAIN files[b] : files[b][k].word = w
  <2>1. w \in Words
    BY <1>1
  <2>2. PICK b \in DOMAIN files : BatchDocs(b, w) # {}
    BY <1>1
  <2> QED
    BY <2>1, <2>2, Zenon DEF FilesInv, FileIs
<1>4. set_wordid \in SUBSET Words
  BY <1>1
<1>5. set_wordid \in SUBSET Nat /\ IsFiniteSet(set_wordid)
  BY <1>4, WordsAre, FS_Subset
<1> QED
  BY <1>2, <1>3, <1>4, <1>5

\* Entry: an entry of a file as a cursor.
LEMMA EntryIs ==
  ASSUME FilesInv, NEW i \in DOMAIN files, NEW k \in 1 .. Len(files[i])
  PROVE  /\ Entry(i, k) \in Cursors(i) /\ Entry(i, k).next = k + 1
         /\ Entry(i, k).word = files[i][k].word /\ Entry(i, k).docids = files[i][k].docids
<1>1. files[i] \in Seq(FileEntries)
  BY DEF FilesInv
<1>2. k \in DOMAIN files[i] /\ Len(files[i]) \in Nat
  BY <1>1, LenProperties
<1>3. files[i][k].word \in Words /\ files[i][k].docids \in Seq(Docs)
  BY <1>2, EntryType
<1>4. files[i][k].docids \in Seq(Docs \cup {Junk})
  <2>1. Docs \subseteq Docs \cup {Junk}
    OBVIOUS
  <2> QED
    BY <1>3, <2>1, SeqSubset, Zenon
<1>5. k + 1 \in 1 .. Len(files[i]) + 1
  BY <1>2
<1> QED
  BY <1>3, <1>4, <1>5 DEF Entry, Cursors

\* What the variables hold when nothing was read, or an entry was.
Strays == [word : Words, docids : Seq(Docs \cup {Junk}), next : Nat]

\* FirstEntries: the first entry of each file that has one.
LEMMA FirstIs ==
  ASSUME FilesInv, NEW stray \in Strays
  PROVE  /\ DOMAIN FirstEntries(stray) = DOMAIN files
         /\ \A i \in DOMAIN files :
              /\ FirstEntries(stray)[i] \in Cursors(i)
              /\ files[i] # <<>> => FirstEntries(stray)[i] = Entry(i, 1)
<1>1. PICK n \in Nat : n = Len(files) /\ DOMAIN files = 1 .. n
  BY LenProperties DEF FilesInv
<1> DEFINE nothing(r) == [r EXCEPT !.docids = [j \in DOMAIN @ |-> Junk], !.next = 1]
           step(i, r) == IF files[i] # <<>> THEN Entry(i, 1) ELSE nothing(r)
           G == [p \in (1 .. n) \X Strays |-> step(p[1], p[2])]
           read == CHOOSE f : f = [i \in 0 .. n |-> IF i = 0 THEN stray ELSE step(i, f[i - 1])]
<1>2. ASSUME NEW r \in Strays
      PROVE  nothing(r) \in Strays /\ nothing(r).next = 1
  <2>1. r.docids \in Seq(Docs \cup {Junk}) /\ r.word \in Words /\ r.next \in Nat
    BY DEF Strays
  <2> DEFINE q == [j \in DOMAIN r.docids |-> Junk]
  <2>2. q \in Seq(Docs \cup {Junk})
    <3> DEFINE m == Len(r.docids)
    <3>1. m \in Nat /\ DOMAIN r.docids = 1 .. m
      BY <2>1, LenProperties
    <3> HIDE DEF m
    <3>2. q \in [1 .. m -> Docs \cup {Junk}]
      BY <3>1
    <3> HIDE DEF q
    <3> QED
      BY <3>1, <3>2, SeqDef
  <2>3. nothing(r) = [word |-> r.word, docids |-> q, next |-> 1]
    <3>1. PICK v, ds, k : r = [word |-> v, docids |-> ds, next |-> k]
      BY Zenon DEF Strays
    <3>2. nothing(r) = [[r EXCEPT !.docids = q] EXCEPT !.next = 1]
      BY Zenon
    <3> HIDE DEF nothing, q
    <3>3. [r EXCEPT !.docids = q] = [word |-> v, docids |-> q, next |-> k]
      BY <3>1
    <3> QED
      BY <3>1, <3>2, <3>3
  <2> HIDE DEF q
  <2> QED
    BY <2>1, <2>2, <2>3 DEF Strays
<1>3. ASSUME NEW i \in 1 .. n
      PROVE  /\ files[i] # <<>> => Entry(i, 1) \in Cursors(i)
             /\ Len(files[i]) \in Nat
  <2>1. i \in DOMAIN files /\ files[i] \in Seq(FileEntries)
    BY <1>1 DEF FilesInv
  <2>2. Len(files[i]) \in Nat /\ (files[i] # <<>> => 1 \in 1 .. Len(files[i]))
    BY <2>1, LenProperties, EmptySeq
  <2> QED
    BY <2>1, <2>2, EntryIs
<1>4. ASSUME NEW i \in 1 .. n, NEW r \in Strays PROVE step(i, r) \in Strays
  <2>1. CASE files[i] # <<>>
    <3>1. Entry(i, 1) \in Cursors(i)
      BY <1>3, <2>1
    <3>2. Cursors(i) \subseteq Strays
      BY <1>3 DEF Cursors, Strays
    <3> QED
      BY <2>1, <3>1, <3>2
  <2>2. CASE files[i] = <<>>
    <3> HIDE DEF nothing
    <3> QED
      BY <1>2, <2>2
  <2> QED
    BY <2>1, <2>2
<1> HIDE DEF step
<1>5. G \in [(1 .. n) \X Strays -> Strays]
  <2>1. ASSUME NEW p \in (1 .. n) \X Strays PROVE step(p[1], p[2]) \in Strays
    <3>1. p[1] \in 1 .. n /\ p[2] \in Strays
      OBVIOUS
    <3> QED
      BY <1>4, <3>1
  <2> QED
    BY <2>1, Zenon
<1>6. ASSUME NEW i \in 1 .. n, NEW r \in Strays PROVE G[<<i, r>>] = step(i, r)
  OBVIOUS
<1> HIDE DEF G
<1>7. PICK f \in [0 .. n -> Strays] : Recursive(f, n, stray, G)
  BY <1>1, <1>5, RecursionExists, Zenon
<1>8. ASSUME NEW i \in 0 .. n PROVE f[i] = IF i = 0 THEN stray ELSE step(i, f[i - 1])
  <2>1. CASE i = 0
    BY <1>7, <2>1, Zenon DEF Recursive
  <2>2. CASE i # 0
    <3>1. i \in 1 .. n /\ i - 1 \in 0 .. n
      BY <1>1, <2>2
    <3>2. f[i] = G[<<i, f[i - 1]>>] /\ f[i - 1] \in Strays
      BY <1>7, <3>1, Zenon DEF Recursive
    <3> QED
      BY <1>6, <2>2, <3>1, <3>2, Zenon
  <2> QED
    BY <2>1, <2>2
<1>9. f = [i \in 0 .. n |-> IF i = 0 THEN stray ELSE step(i, f[i - 1])]
  <2>1. f = [i \in 0 .. n |-> f[i]]
    BY <1>7, Zenon
  <2> QED
    BY <1>8, <2>1, Zenon
<1>10. read = [i \in 0 .. n |-> IF i = 0 THEN stray ELSE step(i, read[i - 1])]
  BY <1>9, Zenon
<1>11. FirstEntries(stray) = [i \in 1 .. n |-> read[i]]
  <2>1. FirstEntries(stray) =
          LET r == CHOOSE h : h = [i \in 0 .. Len(files) |-> IF i = 0 THEN stray ELSE step(i, h[i - 1])]
          IN  [i \in 1 .. Len(files) |-> r[i]]
    BY Zenon DEF FirstEntries, step, nothing
  <2> QED
    BY <1>1, <2>1, Zenon
<1> HIDE DEF read
<1> DEFINE T == {k \in 0 .. n : read[k] \in Strays}
<1>12. 0 \in T
  <2>1. 0 \in 0 .. n
    BY <1>1
  <2>2. read[0] = stray
    BY <1>10, <2>1, Zenon
  <2> QED
    BY <2>1, <2>2
<1>13. ASSUME NEW k \in 0 .. n - 1, k \in T PROVE k + 1 \in T
  <2>1. k + 1 \in 0 .. n /\ k + 1 \in 1 .. n /\ k + 1 # 0 /\ (k + 1) - 1 = k /\ read[k] \in Strays
    BY <1>1, <1>13
  <2>2. read[k + 1] = step(k + 1, read[(k + 1) - 1])
    BY <1>10, <2>1, Zenon
  <2>3. read[k + 1] \in Strays
    BY <1>4, <2>1, <2>2, Zenon
  <2> QED
    BY <2>1, <2>3
<1> HIDE DEF T
<1>14. ASSUME NEW i \in 0 .. n PROVE read[i] \in Strays
  <2>1. i \in T
    BY <1>1, <1>12, <1>13, UpTo, Zenon
  <2> QED
    BY <2>1 DEF T
<1>15. ASSUME NEW i \in DOMAIN files
       PROVE  read[i] \in Cursors(i) /\ (files[i] # <<>> => read[i] = Entry(i, 1))
  <2>1. i \in 1 .. n /\ i \in 0 .. n /\ i # 0 /\ i - 1 \in 0 .. n
    BY <1>1
  <2>2. read[i] = step(i, read[i - 1]) /\ read[i - 1] \in Strays /\ read[i] \in Strays
    BY <1>10, <1>14, <2>1, Zenon
  <2>3. CASE files[i] # <<>>
    BY <1>3, <2>1, <2>2, <2>3, Zenon DEF step
  <2>4. CASE files[i] = <<>>
    <3>1. read[i] = nothing(read[i - 1])
      BY <2>2, <2>4, Zenon DEF step
    <3>2. read[i].next = 1 /\ 1 \in 1 .. Len(files[i]) + 1
      <4>1. read[i].next = 1
        BY <1>2, <2>2, <3>1, Zenon
      <4> QED
        BY <1>3, <2>1, <4>1
    <3>3. read[i] \in Cursors(i)
      BY <2>2, <3>2 DEF Strays, Cursors
    <3> QED
      BY <2>4, <3>3
  <2> QED
    BY <2>3, <2>4
<1> QED
  BY <1>1, <1>11, <1>15

LEMMA OpenFilesInv == IndexInv /\ OpenFiles => IndexInv'
<1> SUFFICES ASSUME IndexInv, OpenFiles PROVE IndexInv'
  OBVIOUS
<1>1. /\ FilesInv /\ BatchInv /\ MergeTypes /\ phase = "read" /\ phase' = "merging"
      /\ UNCHANGED <<reading, lists, offsets>>
  BY DEF IndexInv, OpenFiles
<1>2. /\ dict_wordid' = dict_wordid /\ cur_count' = cur_count /\ set_wordid' = set_wordid
      /\ files' = files /\ given' = given /\ lists' = lists /\ offsets' = offsets
  BY <1>1 DEF reading
<1>3. lists = <<>> /\ offsets = <<>> /\ DOMAIN <<>> = {}
  BY <1>1 DEF MergeTypes
<1>4. FilesInv' /\ BatchInv'
  <2>1. given \subseteq (1 .. Len(files)) \X Words \X Docs /\ cur_count' \in 0 .. COUNT_DOCID - 1
    BY <1>1, <1>2 DEF FilesInv, BatchInv
  <2> QED
    BY <1>1, <1>2, <2>1, ReadingKept
<1>5. /\ set_wordid \in SUBSET Words /\ set_wordid \in SUBSET Nat /\ IsFiniteSet(set_wordid)
      /\ \A b \in DOMAIN files : \A k \in DOMAIN files[b] : files[b][k].word \in set_wordid
  BY <1>1, WordsOfFiles
<1>6. PICK N \in Nat \ {0} : N = 2 ^ Width /\ Words = 0 .. N - 1
  BY IndexAssumption DEF Words
<1>7. max_wordid' \in Words
  <2>1. CASE set_wordid = {}
    BY <2>1 DEF OpenFiles
  <2>2. CASE set_wordid # {}
    <3>1. max_wordid' = (Max(set_wordid) + 1) % N
      BY <1>6, <2>2 DEF OpenFiles
    <3>2. Max(set_wordid) \in Nat
      BY <1>5, <2>2, MaxIs
    <3>3. \A a \in Nat : a % N \in 0 .. N - 1
      OBVIOUS
    <3> DEFINE m == Max(set_wordid)
    <3> HIDE DEF m
    <3>4. m + 1 \in Nat
      BY <3>2 DEF m
    <3>5. (m + 1) % N \in 0 .. N - 1
      BY <3>3, <3>4, Zenon
    <3> QED
      BY <1>6, <3>1, <3>5 DEF m
  <2> QED
    BY <2>1, <2>2
<1>8. PICK stray \in Strays : cur' = FirstEntries(stray)
  <2>1. \A w \in Words, n \in 0 .. 1 :
          [word |-> w, docids |-> [j \in 1 .. n |-> Junk], next |-> 1] \in Strays
    <3> SUFFICES ASSUME NEW w \in Words, NEW n \in 0 .. 1
                 PROVE  [word |-> w, docids |-> [j \in 1 .. n |-> Junk], next |-> 1] \in Strays
      OBVIOUS
    <3> DEFINE q == [j \in 1 .. n |-> Junk]
    <3>1. q \in [1 .. n -> Docs \cup {Junk}] /\ n \in Nat
      OBVIOUS
    <3> HIDE DEF q
    <3>2. q \in Seq(Docs \cup {Junk})
      BY <3>1, SeqDef
    <3>3. [word |-> w, docids |-> q, next |-> 1] \in Strays
      BY <3>2 DEF Strays
    <3> QED
      BY <3>3 DEF q
  <2>2. [word |-> 0, docids |-> <<>>, next |-> 1] \in Strays
    <3>1. <<>> \in Seq(Docs \cup {Junk}) /\ 0 \in Words
      BY <1>6, EmptySeq
    <3> QED
      BY <3>1 DEF Strays
  <2> QED
    BY <2>1, <2>2, Zenon DEF OpenFiles
<1>9. /\ DOMAIN cur' = DOMAIN files
      /\ \A i \in DOMAIN files : cur'[i] \in Cursors(i) /\ (files[i] # <<>> => cur'[i] = Entry(i, 1))
  BY <1>1, <1>8, FirstIs
<1>10. MergeTypes'
  <2>1. (\A i \in DOMAIN cur : cur[i] \in Cursors(i))'
    BY <1>2, <1>9, Zenon DEF Cursors
  <2>2. /\ lists \in Seq([offset : Nat, docids : Seq(Nat)])
        /\ \A k, l \in DOMAIN lists : k < l => lists[k].offset < lists[l].offset
        /\ DOMAIN offsets \subseteq Words
    BY <1>1 DEF MergeTypes
  <2>3. phase' = "merging" /\ "merging" \notin {"reading", "read"}
    BY <1>1
  <2> QED
    BY <1>2, <1>7, <1>9, <2>1, <2>2, <2>3, Zenon DEF MergeTypes
<1>11. MergeInv'
  <2> SUFFICES ASSUME Regular' PROVE MergeInv'
    BY DEF MergeInv
  <2>1. (\A i \in DOMAIN files : files[i] # <<>>) /\ N - 1 \notin set_wordid
    BY <1>2, <1>6 DEF Regular
  <2>2. ASSUME NEW w \in set_wordid PROVE w < max_wordid'
    <3> DEFINE m == Max(set_wordid)
    <3>1. m \in set_wordid /\ w <= m
      BY <1>5, MaxIs
    <3>2. max_wordid' = (m + 1) % N
      BY <1>6 DEF OpenFiles
    <3> HIDE DEF m
    <3>3. m \in 0 .. N - 1 /\ m # N - 1 /\ w \in Nat
      BY <1>5, <1>6, <2>1, <3>1
    <3>4. m + 1 \in Nat /\ m + 1 < N
      BY <1>6, <3>3
    <3>5. \A a \in Nat : a < N => a % N = a
      OBVIOUS
    <3>6. (m + 1) % N = m + 1
      BY <3>4, <3>5, Zenon
    <3> QED
      BY <3>1, <3>2, <3>3, <3>6
  <2>3. ASSUME NEW i \in DOMAIN files PROVE CursorIs(i)'
    <3>1. files[i] \in Seq(FileEntries) /\ files[i] # <<>>
      BY <1>1, <2>1 DEF FilesInv
    <3>2. Len(files[i]) \in Nat \ {0} /\ 1 \in 1 .. Len(files[i]) /\ 1 \in DOMAIN files[i] /\ DOMAIN files[i] = 1 .. Len(files[i])
      BY <3>1, LenProperties, EmptySeq
    <3>3. cur'[i].next = 2 /\ cur'[i].word = files[i][1].word /\ cur'[i].docids = files[i][1].docids
      BY <1>1, <1>9, <3>1, <3>2, EntryIs
    <3>4. files[i][1].word \in set_wordid
      BY <1>5, <3>2
    <3>5. files[i][1].word \in Nat /\ files[i][1].word < max_wordid' /\ max_wordid' \in Nat
      <4>1. max_wordid' \in Nat
        BY <1>6, <1>7
      <4> QED
        BY <1>5, <2>2, <3>4, <4>1, Zenon
    <3>6. ~AtEnd(i)'
      <4>1. cur'[i].word # max_wordid'
        BY <3>3, <3>5
      <4> QED
        BY <4>1 DEF AtEnd
    <3>7. \A k \in DOMAIN files[i] : ~(k < cur'[i].next - 1)
      BY <3>2, <3>3
    <3>8. cur'[i].next - 1 = 1 /\ cur'[i].next >= 2
      BY <3>3
    <3> QED
      BY <1>2, <1>3, <3>3, <3>6, <3>7, <3>8 DEF CursorIs
  <2>4. DOMAIN offsets' = {}
    BY <1>2, <1>3
  <2> QED
    BY <1>2, <2>2, <2>3, <2>4 DEF MergeInv
<1>12. TableInv'
  BY <1>1 DEF TableInv
<1> QED
  BY <1>4, <1>10, <1>11, <1>12 DEF IndexInv

\* The next list is behind all others.
LEMMA PositionIs ==
  ASSUME FilesInv, MergeTypes
  PROVE  Position \in Nat /\ \A l \in DOMAIN lists : lists[l].offset < Position
<1> DEFINE List == [offset : Nat, docids : Seq(Nat)]
           n == Len(lists)
<1>1. /\ lists \in Seq(List) /\ n \in Nat /\ DOMAIN lists = 1 .. n
      /\ \A k, l \in DOMAIN lists : k < l => lists[k].offset < lists[l].offset
  BY LenProperties DEF MergeTypes
<1>2. TableSize \in Nat
  <2>1. Cardinality(set_wordid) \in Nat
    BY WordsOfFiles, FS_CardinalityType
  <2> QED
    BY <2>1 DEF TableSize
<1>3. ASSUME NEW l \in DOMAIN lists
      PROVE  lists[l].offset \in Nat /\ ListSize(lists[l].docids) \in Nat \ {0}
  <2>1. lists[l] \in List
    <3> HIDE DEF List
    <3> QED
      BY <1>1
  <2>2. lists[l].offset \in Nat /\ lists[l].docids \in Seq(Nat)
    BY <2>1
  <2>3. Len(lists[l].docids) \in Nat
    BY <2>2, LenProperties
  <2> QED
    BY <2>2, <2>3 DEF ListSize
<1> HIDE DEF n
<1>4. CASE lists = <<>>
  <2>1. DOMAIN lists = {}
    BY <1>4
  <2> QED
    BY <1>2, <1>4, <2>1 DEF Position
<1>5. CASE lists # <<>>
  <2>1. n \in DOMAIN lists
    BY <1>1, <1>5, EmptySeq DEF n
  <2>2. Position = lists[n].offset + ListSize(lists[n].docids)
    BY <1>5, Zenon DEF Position, Last, n
  <2>3. ASSUME NEW l \in DOMAIN lists PROVE lists[l].offset <= lists[n].offset
    <3>1. l < n \/ l = n
      BY <1>1
    <3> QED
      <4>1. lists[l].offset \in Nat /\ lists[n].offset \in Nat
        BY <1>3, <2>1, Zenon
      <4>2. l < n => lists[l].offset < lists[n].offset
        BY <1>1, <2>1, Zenon
      <4>3. l = n => lists[l].offset = lists[n].offset
        OBVIOUS
      <4> QED
        BY <3>1, <4>1, <4>2, <4>3
  <2>4. lists[n].offset \in Nat /\ ListSize(lists[n].docids) \in Nat \ {0}
    BY <1>3, <2>1, Zenon
  <2>5. ASSUME NEW l \in DOMAIN lists PROVE lists[l].offset < Position
    <3>1. lists[l].offset \in Nat /\ lists[l].offset <= lists[n].offset
      BY <1>3, <2>3
    <3> QED
      BY <2>2, <2>4, <3>1
  <2> QED
    BY <2>2, <2>4, <2>5
<1> QED
  BY <1>4, <1>5

\* What MergeWord does, word by word.
LEMMA MergeWordIs ==
  ASSUME MergeWord
  PROVE  \E i \in DOMAIN cur : \E w :
           /\ w = cur[i].word /\ w < max_wordid /\ \A j \in DOMAIN cur : w <= cur[j].word
           /\ lists' = Append(lists,
                [offset |-> Position,
                 docids |-> InOrder(FlattenSeq([j \in DOMAIN cur |-> IF cur[j].word = w THEN cur[j].docids ELSE <<>>]))])
           /\ offsets' = [v \in DOMAIN offsets \cup {w} |-> IF v = w THEN Position ELSE offsets[v]]
           /\ cur' = [j \in DOMAIN cur |-> IF cur[j].word = w THEN NextEntry(j) ELSE cur[j]]
<1>1. PICK i \in DOMAIN cur :
        LET w == cur[i].word
            all == FlattenSeq([j \in DOMAIN cur |-> IF j \in Chosen(w) THEN cur[j].docids ELSE <<>>])
        IN  /\ w < max_wordid /\ \A j \in DOMAIN cur : w <= cur[j].word
            /\ lists' = Append(lists, [offset |-> Position, docids |-> InOrder(all)])
            /\ offsets' = [v \in DOMAIN offsets \cup {w} |-> IF v = w THEN Position ELSE offsets[v]]
            /\ cur' = [j \in DOMAIN cur |-> IF j \in Chosen(w) THEN NextEntry(j) ELSE cur[j]]
  BY Zenon DEF MergeWord
<1> DEFINE w == cur[i].word
<1>2. \A j \in DOMAIN cur : j \in Chosen(w) <=> cur[j].word = w
  BY DEF Chosen
<1>3. [j \in DOMAIN cur |-> IF j \in Chosen(w) THEN cur[j].docids ELSE <<>>]
        = [j \in DOMAIN cur |-> IF cur[j].word = w THEN cur[j].docids ELSE <<>>]
  BY <1>2, Zenon
<1>4. [j \in DOMAIN cur |-> IF j \in Chosen(w) THEN NextEntry(j) ELSE cur[j]]
        = [j \in DOMAIN cur |-> IF cur[j].word = w THEN NextEntry(j) ELSE cur[j]]
  BY <1>2, Zenon
<1> QED
  BY <1>1, <1>3, <1>4, ZenonT(40)

\* NextEntry: the next entry of the file, or its end.
LEMMA NextIs ==
  ASSUME FilesInv, NEW j \in DOMAIN files, cur[j] \in Cursors(j), max_wordid \in Words
  PROVE  /\ NextEntry(j) \in Cursors(j)
         /\ cur[j].next <= Len(files[j]) =>
              /\ cur[j].next \in 1 .. Len(files[j]) /\ NextEntry(j).next = cur[j].next + 1
              /\ NextEntry(j).word = files[j][cur[j].next].word
              /\ NextEntry(j).docids = files[j][cur[j].next].docids
         /\ ~(cur[j].next <= Len(files[j])) =>
              cur[j].next = Len(files[j]) + 1 /\ NextEntry(j).next = cur[j].next /\ NextEntry(j).word = max_wordid
<1>1. files[j] \in Seq(FileEntries) /\ Len(files[j]) \in Nat /\ cur[j].next \in 1 .. Len(files[j]) + 1
  BY LenProperties DEF FilesInv, Cursors
<1>2. CASE cur[j].next <= Len(files[j])
  <2>1. cur[j].next \in 1 .. Len(files[j])
    BY <1>1, <1>2
  <2>2. NextEntry(j) = Entry(j, cur[j].next)
    BY <1>2 DEF NextEntry
  <2>3. PICK k \in 1 .. Len(files[j]) : k = cur[j].next
    BY <2>1
  <2>4. /\ Entry(j, k) \in Cursors(j) /\ Entry(j, k).next = k + 1
        /\ Entry(j, k).word = files[j][k].word /\ Entry(j, k).docids = files[j][k].docids
    BY EntryIs
  <2> QED
    BY <1>2, <2>2, <2>3, <2>4
<1>3. CASE ~(cur[j].next <= Len(files[j]))
  <2>1. NextEntry(j) = [cur[j] EXCEPT !.word = max_wordid]
    BY <1>3 DEF NextEntry
  <2>2. NextEntry(j) \in Cursors(j) /\ NextEntry(j).next = cur[j].next /\ NextEntry(j).word = max_wordid
    BY <2>1 DEF Cursors
  <2> QED
    BY <1>1, <1>3, <2>2
<1> QED
  BY <1>2, <1>3

LEMMA MergeWordInv == IndexInv /\ MergeWord => IndexInv'
<1> SUFFICES ASSUME IndexInv, MergeWord PROVE IndexInv'
  OBVIOUS
<1>1. /\ FilesInv /\ BatchInv /\ MergeTypes /\ MergeInv
      /\ phase = "merging" /\ phase' = "merging" /\ UNCHANGED <<reading, max_wordid, table>>
  BY DEF IndexInv, MergeWord
<1>2. /\ dict_wordid' = dict_wordid /\ cur_count' = cur_count /\ set_wordid' = set_wordid
      /\ files' = files /\ given' = given /\ max_wordid' = max_wordid
  BY <1>1 DEF reading
<1>3. FilesInv' /\ BatchInv'
  <2>1. given \subseteq (1 .. Len(files)) \X Words \X Docs /\ cur_count' \in 0 .. COUNT_DOCID - 1
    BY <1>1, <1>2 DEF FilesInv, BatchInv
  <2> QED
    BY <1>1, <1>2, <2>1, ReadingKept
<1>4. PICK n \in Nat : n = Len(files) /\ DOMAIN files = 1 .. n /\ DOMAIN cur = 1 .. n
  BY <1>1, LenProperties DEF FilesInv, MergeTypes
<1>5a. PICK i \in DOMAIN cur : \E w :
        /\ w = cur[i].word /\ w < max_wordid /\ \A j \in DOMAIN cur : w <= cur[j].word
        /\ lists' = Append(lists,
             [offset |-> Position,
              docids |-> InOrder(FlattenSeq([j \in DOMAIN cur |-> IF cur[j].word = w THEN cur[j].docids ELSE <<>>]))])
        /\ offsets' = [v \in DOMAIN offsets \cup {w} |-> IF v = w THEN Position ELSE offsets[v]]
        /\ cur' = [j \in DOMAIN cur |-> IF cur[j].word = w THEN NextEntry(j) ELSE cur[j]]
  BY MergeWordIs, Zenon
<1>5. PICK w :
        /\ w = cur[i].word /\ w < max_wordid /\ \A j \in DOMAIN cur : w <= cur[j].word
        /\ lists' = Append(lists,
             [offset |-> Position,
              docids |-> InOrder(FlattenSeq([j \in DOMAIN cur |-> IF cur[j].word = w THEN cur[j].docids ELSE <<>>]))])
        /\ offsets' = [v \in DOMAIN offsets \cup {w} |-> IF v = w THEN Position ELSE offsets[v]]
        /\ cur' = [j \in DOMAIN cur |-> IF cur[j].word = w THEN NextEntry(j) ELSE cur[j]]
  BY <1>5a, Zenon
<1>6. ASSUME NEW j \in 1 .. n
      PROVE  /\ cur[j] \in Cursors(j) /\ cur[j].word \in Words /\ cur[j].word \in Nat
             /\ cur[j].docids \in Seq(Nat) /\ Len(files[j]) \in Nat /\ DOMAIN files[j] = 1 .. Len(files[j])
             /\ cur[j].next \in 1 .. Len(files[j]) + 1 /\ w <= cur[j].word
  <2>1. cur[j] \in Cursors(j) /\ w <= cur[j].word
    BY <1>1, <1>4, <1>5 DEF MergeTypes
  <2>2. cur[j].word \in Words /\ cur[j].docids \in Seq(Docs \cup {Junk}) /\ cur[j].next \in 1 .. Len(files[j]) + 1
    BY <2>1 DEF Cursors
  <2>3. Docs \cup {Junk} \subseteq Nat
    BY WordsAre DEF Junk
  <2>4. cur[j].docids \in Seq(Nat)
    BY <2>2, <2>3, SeqSubset, Zenon
  <2>5. files[j] \in Seq(FileEntries)
    BY <1>1, <1>4 DEF FilesInv
  <2>6. Len(files[j]) \in Nat /\ DOMAIN files[j] = 1 .. Len(files[j])
    BY <2>5, LenProperties
  <2> QED
    BY <2>1, <2>2, <2>4, <2>6, WordsAre
<1>7. w \in Words /\ w \in Nat /\ max_wordid \in Nat /\ max_wordid \in Words
  BY <1>1, <1>4, <1>5, <1>6, WordsAre DEF MergeTypes
<1> DEFINE ss == [j \in 1 .. n |-> IF cur[j].word = w THEN cur[j].docids ELSE <<>>]
           list == [offset |-> Position, docids |-> InOrder(FlattenSeq(ss))]
<1>8. /\ ss \in Seq(Seq(Nat)) /\ Len(ss) = n
      /\ \A j \in 1 .. n : ss[j] = IF cur[j].word = w THEN cur[j].docids ELSE <<>>
  <2>1. <<>> \in Seq(Nat)
    BY EmptySeq
  <2>2. \A j \in 1 .. n : ss[j] = IF cur[j].word = w THEN cur[j].docids ELSE <<>>
    OBVIOUS
  <2>3. \A j \in 1 .. n : ss[j] \in Seq(Nat)
    BY <1>6, <2>1, <2>2, Zenon
  <2>4. ss = [j \in 1 .. n |-> ss[j]]
    OBVIOUS
  <2> HIDE DEF ss
  <2>5. ss \in [1 .. n -> Seq(Nat)]
    BY <2>3, <2>4, Zenon
  <2>6. ss \in Seq(Seq(Nat))
    BY <2>5, SeqDef
  <2> QED
    BY <2>2, <2>5, <2>6, LenProperties
<1>9. lists' = Append(lists, list)
  BY <1>4, <1>5, Zenon
<1>10. /\ Position \in Nat /\ list \in [offset : Nat, docids : Seq(Nat)]
       /\ \A l \in DOMAIN lists : lists[l].offset < Position
  <2>1. FlattenSeq(ss) \in Seq(Nat)
    BY <1>8, FlattenSeqType, Zenon
  <2> HIDE DEF ss
  <2>2. InOrder(FlattenSeq(ss)) \in Seq(Nat)
    BY <2>1, InOrderIs
  <2>3. Position \in Nat /\ \A l \in DOMAIN lists : lists[l].offset < Position
    BY <1>1, PositionIs
  <2> QED
    BY <2>2, <2>3
<1>11. /\ lists' \in Seq([offset : Nat, docids : Seq(Nat)]) /\ Len(lists) \in Nat
       /\ DOMAIN lists = 1 .. Len(lists) /\ DOMAIN lists' = 1 .. Len(lists) + 1
       /\ lists'[Len(lists) + 1] = list /\ \A l \in 1 .. Len(lists) : lists'[l] = lists[l]
  <2> DEFINE List == [offset : Nat, docids : Seq(Nat)]
  <2>1. lists \in Seq(List)
    BY <1>1 DEF MergeTypes
  <2> HIDE DEF List, list
  <2>2. list \in List
    BY <1>10 DEF List
  <2>3. /\ Append(lists, list) \in Seq(List) /\ Len(Append(lists, list)) = Len(lists) + 1
        /\ Append(lists, list)[Len(lists) + 1] = list
        /\ \A l \in 1 .. Len(lists) : Append(lists, list)[l] = lists[l]
    BY <2>1, <2>2, AppendProperties
  <2>4. Len(lists) \in Nat /\ DOMAIN lists = 1 .. Len(lists) /\ DOMAIN lists' = 1 .. Len(lists) + 1
    BY <1>9, <2>1, <2>3, LenProperties
  <2> QED
    BY <1>9, <2>3, <2>4, Zenon DEF List
<1> HIDE DEF list, ss
<1>12. /\ DOMAIN cur' = 1 .. n
       /\ \A j \in 1 .. n : cur'[j] = IF cur[j].word = w THEN NextEntry(j) ELSE cur[j]
  BY <1>4, <1>5, Zenon
<1>13. /\ DOMAIN offsets' = DOMAIN offsets \cup {w} /\ offsets'[w] = Position
       /\ \A v \in DOMAIN offsets : v # w => offsets'[v] = offsets[v]
  BY <1>5, Zenon
<1>14. ASSUME NEW j \in 1 .. n
       PROVE  /\ NextEntry(j) \in Cursors(j)
              /\ cur[j].next <= Len(files[j]) =>
                   /\ cur[j].next \in 1 .. Len(files[j]) /\ NextEntry(j).next = cur[j].next + 1
                   /\ NextEntry(j).word = files[j][cur[j].next].word
                   /\ NextEntry(j).docids = files[j][cur[j].next].docids
              /\ ~(cur[j].next <= Len(files[j])) =>
                   /\ cur[j].next = Len(files[j]) + 1 /\ NextEntry(j).next = cur[j].next
                   /\ NextEntry(j).word = max_wordid
  BY <1>1, <1>4, <1>6, <1>7, NextIs, Zenon
<1>15. MergeTypes'
  <2>1. ASSUME NEW j \in DOMAIN cur' PROVE (cur[j] \in Cursors(j))'
    <3>1. cur'[j] \in Cursors(j)
      BY <1>6, <1>12, <1>14, <2>1, Zenon
    <3> QED
      BY <1>2, <3>1, Zenon DEF Cursors
  <2>2. ASSUME NEW k \in DOMAIN lists', NEW l \in DOMAIN lists', k < l
        PROVE  lists'[k].offset < lists'[l].offset
    <3>1. k \in 1 .. Len(lists) /\ lists'[k] = lists[k]
      BY <1>11, <2>2, SMTT(30)
    <3>2. CASE l = Len(lists) + 1
      <4>1. lists'[l].offset = Position
        BY <1>11, <3>2 DEF list
      <4> QED
        BY <1>10, <1>11, <3>1, <4>1
    <3>3. CASE l # Len(lists) + 1
      <4>1. l \in 1 .. Len(lists) /\ lists'[l] = lists[l]
        BY <1>11, <3>3, SMTT(30)
      <4> QED
        BY <1>1, <1>11, <2>2, <3>1, <4>1, Zenon DEF MergeTypes
    <3> QED
      BY <3>2, <3>3
  <2>3. DOMAIN offsets' \subseteq Words
    BY <1>1, <1>7, <1>13 DEF MergeTypes
  <2>4. phase' = "merging" /\ "merging" \notin {"reading", "read"} /\ DOMAIN cur' = DOMAIN files'
    BY <1>1, <1>2, <1>4, <1>12
  <2> QED
    BY <1>2, <1>7, <1>11, <2>1, <2>2, <2>3, <2>4, Zenon DEF MergeTypes
<1>16. MergeInv'
  <2> SUFFICES ASSUME Regular PROVE MergeInv'
    BY <1>2 DEF MergeInv, Regular
  <2>1. /\ \A v \in set_wordid : v < max_wordid
        /\ \A j \in 1 .. n : CursorIs(j)
        /\ DOMAIN offsets \subseteq set_wordid
        /\ \A v \in DOMAIN offsets :
             \E l \in DOMAIN lists : lists[l].offset = offsets[v] /\ lists[l].docids = DocumentsOf(v)
    BY <1>1, <1>4 DEF MergeInv
  <2>2. \A b \in 1 .. n : \A k \in DOMAIN files[b] : files[b][k].word \in set_wordid /\ files[b][k].word \in Nat
    BY <1>1, <1>4, WordsOfFiles
  <2>3. ASSUME NEW j \in 1 .. n, cur[j].word < max_wordid
        PROVE  /\ ~AtEnd(j) /\ cur[j].next - 1 \in 1 .. Len(files[j]) /\ cur[j].next - 1 \in DOMAIN files[j]
               /\ cur[j].word = files[j][cur[j].next - 1].word
               /\ cur[j].docids = files[j][cur[j].next - 1].docids
    <3>1. ~AtEnd(j)
      BY <1>6, <1>7, <2>3 DEF AtEnd
    <3>2. cur[j].next >= 2 /\ cur[j].word = files[j][cur[j].next - 1].word /\ cur[j].docids = files[j][cur[j].next - 1].docids
      BY <2>1, <3>1 DEF CursorIs
    <3>3. cur[j].next - 1 \in 1 .. Len(files[j])
      BY <1>6, <3>2
    <3> QED
      BY <1>6, <3>1, <3>2, <3>3
  <2>4. w \in set_wordid /\ w \notin DOMAIN offsets /\ \A v \in DOMAIN offsets : v < w
    <3>1. i \in 1 .. n /\ cur[i].word < max_wordid /\ w = cur[i].word
      BY <1>4, <1>5
    <3>2. w \in set_wordid
      BY <2>2, <2>3, <3>1
    <3>3. \A v \in DOMAIN offsets : v < w
      BY <2>1, <3>1 DEF CursorIs
    <3> QED
      BY <1>7, <3>2, <3>3
  <2>5. InOrder(FlattenSeq(ss)) = DocumentsOf(w)
    <3> SUFFICES ASSUME NEW b \in 1 .. n PROVE ss[b] = Sorted(BatchDocs(b, w))
      BY <1>1, <1>4, <1>7, <1>8, Gather
    <3>1. FileIs(b) /\ b \in Nat
      BY <1>1, <1>4, SMTT(30) DEF FilesInv
    <3>2. CASE cur[b].word = w
      <4>1. PICK k \in DOMAIN files[b] : files[b][k].word = w /\ files[b][k].docids = cur[b].docids
        BY <1>5, <2>3, <3>2
      <4>2. files[b][k].docids = Sorted(BatchDocs(b, w))
        BY <3>1, <4>1, Zenon DEF FileIs
      <4> QED
        BY <1>8, <3>2, <4>1, <4>2, Zenon
    <3>3. CASE cur[b].word # w
      <4>1. ASSUME BatchDocs(b, w) # {} PROVE FALSE
        <5>1. PICK k \in DOMAIN files[b] : files[b][k].word = w
          BY <1>7, <3>1, <4>1, Zenon DEF FileIs
        <5>2. k \in 1 .. Len(files[b]) /\ ~(k < cur[b].next - 1) /\ ~AtEnd(b)
          BY <1>6, <2>1, <2>4, <5>1 DEF CursorIs
        <5>3. cur[b].next >= 2 /\ cur[b].word = files[b][cur[b].next - 1].word
          BY <2>1, <5>2 DEF CursorIs
        <5>4. k # cur[b].next - 1
          BY <3>3, <5>1, <5>3
        <5>5. cur[b].next - 1 \in DOMAIN files[b] /\ cur[b].next - 1 < k
          BY <1>6, <5>2, <5>3, <5>4, SMTT(30)
        <5>6. files[b][cur[b].next - 1].word < w
          BY <3>1, <5>1, <5>5, Zenon DEF FileIs
        <5> QED
          BY <1>6, <1>7, <5>3, <5>6, SMTT(30)
      <4> QED
        BY <1>1, <1>7, <1>8, <3>1, <3>3, <4>1, BatchSorted, Zenon
    <3> QED
      BY <3>2, <3>3
  <2>6. ASSUME NEW j \in 1 .. n PROVE CursorIs(j)'
    <3>0. FileIs(j) /\ CursorIs(j)
      BY <1>1, <1>4, <2>1 DEF FilesInv
    <3>1. CASE cur[j].word # w
      <4>1. cur'[j] = cur[j] /\ (AtEnd(j)' <=> AtEnd(j))
        BY <1>2, <1>12, <3>1 DEF AtEnd
      <4>2. w < cur[j].word
        BY <1>6, <1>7, <3>1
      <4>3. \A v \in DOMAIN offsets' : v < cur[j].word
        BY <1>13, <3>0, <4>2, Zenon DEF CursorIs
      <4>4. \A k \in DOMAIN files[j] : k < cur[j].next - 1 \/ AtEnd(j) => files[j][k].word \in DOMAIN offsets'
        BY <1>13, <3>0, Zenon DEF CursorIs
      <4>5. /\ cur[j].next >= 2
            /\ \/ AtEnd(j)
               \/ /\ cur[j].word = files[j][cur[j].next - 1].word
                  /\ cur[j].docids = files[j][cur[j].next - 1].docids
        BY <3>0, Zenon DEF CursorIs
      <4> QED
        BY <1>2, <4>1, <4>3, <4>4, <4>5, Zenon DEF CursorIs
    <3>2. CASE cur[j].word = w
      <4>0. PICK p \in DOMAIN files[j] : p = cur[j].next - 1 /\ files[j][p].word = w
        BY <1>5, <2>3, <3>2
      <4>1. cur'[j] = NextEntry(j) /\ p \in 1 .. Len(files[j]) /\ cur[j].next = p + 1
        BY <1>6, <1>12, <3>2, <4>0, SMTT(30)
      <4>2. ASSUME NEW k \in DOMAIN files[j], k <= p PROVE files[j][k].word \in DOMAIN offsets'
        <5>1. k < cur[j].next - 1 \/ k = p
          BY <1>6, <4>1, <4>2
        <5>2. k = p => files[j][k].word = w
          BY <4>0
        <5>3. k < cur[j].next - 1 => files[j][k].word \in DOMAIN offsets
          BY <3>0, Zenon DEF CursorIs
        <5> QED
          BY <1>13, <5>1, <5>2, <5>3
      <4>3. CASE cur[j].next <= Len(files[j])
        <5>1. /\ p + 1 \in 1 .. Len(files[j]) /\ p + 1 \in DOMAIN files[j] /\ cur'[j].next = p + 2
              /\ cur'[j].word = files[j][p + 1].word /\ cur'[j].docids = files[j][p + 1].docids
          <6>1. /\ cur[j].next \in 1 .. Len(files[j]) /\ cur'[j].next = cur[j].next + 1
                /\ cur'[j].word = files[j][cur[j].next].word /\ cur'[j].docids = files[j][cur[j].next].docids
            BY <1>14, <4>1, <4>3, Zenon
          <6> QED
            BY <1>6, <4>1, <6>1
        <5>2. files[j][p + 1].word \in set_wordid /\ files[j][p + 1].word \in Nat
          BY <2>2, <5>1
        <5>3. cur'[j].word # max_wordid
          BY <1>7, <2>1, <5>1, <5>2
        <5>4. ~AtEnd(j)'
          BY <1>2, <5>3 DEF AtEnd
        <5>5. w < files[j][p + 1].word
          <6>1. p < p + 1
            BY <4>1
          <6> QED
            BY <3>0, <4>0, <5>1, <6>1, Zenon DEF FileIs
        <5>6. \A v \in DOMAIN offsets' : v < cur'[j].word
          <6>1. \A v \in DOMAIN offsets : v \in Nat
            BY <1>1, WordsAre DEF MergeTypes
          <6>2. \A v \in DOMAIN offsets' : v \in Nat /\ v <= w
            BY <1>7, <1>13, <2>4, <6>1
          <6> QED
            BY <1>7, <5>1, <5>2, <5>5, <6>2, SMTT(30)
        <5>7. cur'[j].next - 1 = p + 1 /\ cur'[j].next >= 2
          BY <4>1, <5>1
        <5>8. \A k \in DOMAIN files[j] : k < cur'[j].next - 1 => files[j][k].word \in DOMAIN offsets'
          <6>1. \A k \in DOMAIN files[j] : k < p + 1 => k <= p
            BY <1>6, <4>1
          <6> QED
            BY <4>2, <5>7, <6>1, Zenon
        <5> QED
          BY <1>2, <5>1, <5>4, <5>6, <5>7, <5>8, Zenon DEF CursorIs
      <4>4. CASE ~(cur[j].next <= Len(files[j]))
        <5>1. cur'[j].next = p + 1 /\ p = Len(files[j]) /\ cur'[j].word = max_wordid
          <6>1. cur[j].next = Len(files[j]) + 1 /\ cur'[j].next = cur[j].next /\ cur'[j].word = max_wordid
            BY <1>14, <4>1, <4>4, Zenon
          <6> QED
            BY <1>6, <4>1, <6>1
        <5>2. AtEnd(j)' /\ cur'[j].next >= 2
          BY <1>2, <4>1, <5>1 DEF AtEnd
        <5>3. \A k \in DOMAIN files[j] : files[j][k].word \in DOMAIN offsets'
          <6>1. \A k \in DOMAIN files[j] : k <= p
            BY <1>6, <5>1
          <6> QED
            BY <4>2, <6>1, Zenon
        <5>4. \A v \in DOMAIN offsets' : v < cur'[j].word
          BY <1>13, <2>1, <2>4, <5>1
        <5> QED
          BY <1>2, <5>2, <5>3, <5>4, Zenon DEF CursorIs
      <4> QED
        BY <4>3, <4>4
    <3> QED
      BY <3>1, <3>2
  <2>7. DOMAIN offsets' \subseteq set_wordid
    BY <1>13, <2>1, <2>4
  <2>8. ASSUME NEW v \in DOMAIN offsets'
        PROVE  \E l \in DOMAIN lists' : lists'[l].offset = offsets'[v] /\ lists'[l].docids = DocumentsOf(v)'
    <3>0. DocumentsOf(v)' = DocumentsOf(v)
      BY <1>2, Zenon DEF DocumentsOf
    <3>1. CASE v = w
      <4>1. Len(lists) + 1 \in DOMAIN lists'
        BY <1>11
      <4>2. lists'[Len(lists) + 1].offset = offsets'[v] /\ lists'[Len(lists) + 1].docids = DocumentsOf(v)
        BY <1>11, <1>13, <2>5, <3>1 DEF list
      <4> QED
        BY <3>0, <4>1, <4>2, Zenon
    <3>2. CASE v # w
      <4>1. v \in DOMAIN offsets /\ offsets'[v] = offsets[v]
        BY <1>13, <3>2
      <4>2. PICK l \in DOMAIN lists : lists[l].offset = offsets[v] /\ lists[l].docids = DocumentsOf(v)
        BY <2>1, <4>1
      <4>3. l \in DOMAIN lists' /\ lists'[l] = lists[l]
        BY <1>11
      <4> QED
        BY <3>0, <4>1, <4>2, <4>3, Zenon
    <3> QED
      BY <3>1, <3>2
  <2>9. (\A j \in DOMAIN files : CursorIs(j))'
    BY <1>2, <1>4, <2>6, Zenon
  <2> QED
    BY <1>2, <2>1, <2>7, <2>8, <2>9, Zenon DEF MergeInv
<1>17. TableInv'
  BY <1>1 DEF TableInv
<1> QED
  BY <1>3, <1>15, <1>16, <1>17 DEF IndexInv

LEMMA FinishInv == IndexInv /\ Finish => IndexInv'
<1> SUFFICES ASSUME IndexInv, Finish PROVE IndexInv'
  OBVIOUS
<1>1. /\ FilesInv /\ BatchInv /\ MergeTypes /\ MergeInv
      /\ phase = "merging" /\ phase' = "done" /\ UNCHANGED <<reading, max_wordid, cur, lists, offsets>>
      /\ saveOffsets /\ \A i \in DOMAIN cur : cur[i].word >= max_wordid
  BY DEF IndexInv, Finish
<1>2. /\ dict_wordid' = dict_wordid /\ cur_count' = cur_count /\ set_wordid' = set_wordid
      /\ files' = files /\ given' = given /\ max_wordid' = max_wordid
      /\ cur' = cur /\ lists' = lists /\ offsets' = offsets
  BY <1>1 DEF reading
<1>3. FilesInv' /\ BatchInv'
  <2>1. given \subseteq (1 .. Len(files)) \X Words \X Docs /\ cur_count' \in 0 .. COUNT_DOCID - 1
    BY <1>1, <1>2 DEF FilesInv, BatchInv
  <2> QED
    BY <1>1, <1>2, <2>1, ReadingKept
<1>4. MergeTypes'
  <2>1. /\ max_wordid \in Words /\ DOMAIN cur = DOMAIN files
        /\ \A i \in DOMAIN cur : cur[i] \in Cursors(i)
        /\ lists \in Seq([offset : Nat, docids : Seq(Nat)])
        /\ \A k, l \in DOMAIN lists : k < l => lists[k].offset < lists[l].offset
        /\ DOMAIN offsets \subseteq Words
    BY <1>1 DEF MergeTypes
  <2>2. \A i : Cursors(i)' = Cursors(i)
    BY <1>2 DEF Cursors
  <2>3. phase' = "done" /\ "done" \notin {"reading", "read"}
    BY <1>1
  <2> QED
    BY <1>2, <2>1, <2>2, <2>3, Zenon DEF MergeTypes
<1>5. ASSUME Regular' PROVE MergeInv' /\ TableInv'
  <2>1. Regular
    BY <1>2, <1>5 DEF Regular
  <2>2. /\ \A v \in set_wordid : v < max_wordid
        /\ \A j \in DOMAIN files : CursorIs(j)
        /\ DOMAIN offsets \subseteq set_wordid
        /\ \A v \in DOMAIN offsets :
             \E l \in DOMAIN lists : lists[l].offset = offsets[v] /\ lists[l].docids = DocumentsOf(v)
    BY <1>1, <2>1 DEF MergeInv
  <2>3. \A j : CursorIs(j)' <=> CursorIs(j)
    BY <1>2 DEF CursorIs, AtEnd
  <2>4. \A v : DocumentsOf(v)' = DocumentsOf(v)
    BY <1>2, Zenon DEF DocumentsOf
  <2>5. MergeInv'
    BY <1>2, <2>2, <2>3, <2>4, Zenon DEF MergeInv
  <2>6. ASSUME NEW w \in set_wordid PROVE w \in DOMAIN offsets
    <3>1. PICK b \in DOMAIN files : \E k \in DOMAIN files[b] : files[b][k].word = w
      BY <1>1, WordsOfFiles
    <3>2. b \in DOMAIN cur /\ cur[b] \in Cursors(b) /\ cur[b].word >= max_wordid
      BY <1>1 DEF MergeTypes
    <3>3. files[b] \in Seq(FileEntries)
      BY <1>1 DEF FilesInv
    <3>4. Len(files[b]) \in Nat /\ DOMAIN files[b] = 1 .. Len(files[b])
      BY <3>3, LenProperties
    <3>5. AtEnd(b)
      <4> SUFFICES ASSUME ~AtEnd(b) PROVE FALSE
        OBVIOUS
      <4>1. cur[b].next >= 2 /\ cur[b].word = files[b][cur[b].next - 1].word
        BY <2>2 DEF CursorIs
      <4>2. cur[b].next \in 1 .. Len(files[b]) + 1
        BY <3>2 DEF Cursors
      <4>3. cur[b].next - 1 \in DOMAIN files[b]
        BY <3>4, <4>1, <4>2
      <4>4. cur[b].word \in set_wordid
        BY <1>1, <4>1, <4>3, WordsOfFiles
      <4>5. cur[b].word < max_wordid /\ cur[b].word \in Nat /\ max_wordid \in Nat
        BY <1>1, <2>2, <4>4, WordsOfFiles, WordsAre DEF MergeTypes
      <4> QED
        BY <3>2, <4>5
    <3> QED
      BY <2>2, <3>1, <3>5 DEF CursorIs
  <2>7. DOMAIN offsets = set_wordid
    BY <2>2, <2>6
  <2>8. TableInv'
    <3>1. table' = [i \in 1 .. Len(Append(Sorted(set_wordid), 0)) |->
                     [word |-> Append(Sorted(set_wordid), 0)[i],
                      offset |-> IF i <= Len(Sorted(DOMAIN offsets))
                                 THEN offsets[Sorted(DOMAIN offsets)[i]] ELSE 0]]
      BY <1>1, Zenon DEF saveOffsets
    <3> QED
      BY <1>2, <2>7, <3>1, Zenon DEF TableInv
  <2> QED
    BY <2>5, <2>8
<1>6. MergeInv' /\ TableInv'
  BY <1>5 DEF MergeInv, TableInv
<1> QED
  BY <1>3, <1>4, <1>6 DEF IndexInv

LEMMA StutterInv == IndexInv /\ UNCHANGED vars => IndexInv'
<1> SUFFICES ASSUME IndexInv, UNCHANGED vars PROVE IndexInv'
  OBVIOUS
<1>1. /\ phase' = phase /\ dict_wordid' = dict_wordid /\ cur_count' = cur_count /\ set_wordid' = set_wordid
      /\ files' = files /\ given' = given /\ max_wordid' = max_wordid
      /\ cur' = cur /\ lists' = lists /\ offsets' = offsets /\ table' = table
  BY DEF vars, reading, merging
<1>2. /\ \A b, w : BatchDocs(b, w)' = BatchDocs(b, w)
      /\ \A v : DocumentsOf(v)' = DocumentsOf(v)
      /\ \A i : Cursors(i)' = Cursors(i)
      /\ (Regular' <=> Regular)
  BY <1>1, Zenon DEF BatchDocs, DocumentsOf, Cursors, Regular
<1>3. (\A b \in DOMAIN files : FileIs(b))'
  <2>1. FilesInv
    BY DEF IndexInv
  <2>2. ASSUME NEW b \in DOMAIN files PROVE FileIs(b)'
    BY <1>1, <1>2, <2>1, FileKept, Zenon
  <2> QED
    BY <1>1, <2>2, Zenon
<1>4. \A j : CursorIs(j)' <=> CursorIs(j)
  BY <1>1, Zenon DEF CursorIs, AtEnd
<1>5. FilesInv'
  <2>1. FilesInv
    BY DEF IndexInv
  <2> QED
    BY <1>1, <1>3, <2>1, Zenon DEF FilesInv, BatchDocs
<1>6. BatchInv'
  <2>1. BatchInv
    BY DEF IndexInv
  <2> QED
    BY <1>1, <2>1, Zenon DEF BatchInv, BatchDocs
<1>7. MergeTypes'
  <2>1. MergeTypes
    BY DEF IndexInv
  <2> QED
    BY <1>1, <1>2, <2>1, Zenon DEF MergeTypes
<1>8. MergeInv' /\ TableInv'
  <2>1. MergeInv /\ TableInv
    BY DEF IndexInv
  <2> QED
    BY <1>1, <1>2, <1>4, <2>1, Zenon DEF MergeInv, TableInv
<1> QED
  BY <1>5, <1>6, <1>7, <1>8 DEF IndexInv

\* The invariant is inductive.
THEOREM Invariant == Spec => []IndexInv
<1>1. Init => IndexInv
  BY InitInv
<1>2. IndexInv /\ [Next]_vars => IndexInv'
  <2> SUFFICES ASSUME IndexInv, [Next]_vars PROVE IndexInv'
    OBVIOUS
  <2>1. CASE ReadDoc
    BY <2>1, ReadDocInv
  <2>2. CASE EndOfInput
    BY <2>2, EndOfInputInv
  <2>3. CASE OpenFiles
    BY <2>3, OpenFilesInv
  <2>4. CASE MergeWord
    BY <2>4, MergeWordInv
  <2>5. CASE Finish
    BY <2>5, FinishInv
  <2>6. CASE UNCHANGED vars
    BY <2>6, StutterInv
  <2> QED
    BY <2>1, <2>2, <2>3, <2>4, <2>5, <2>6 DEF Next
<1> QED
  BY <1>1, <1>2, PTL DEF Spec

----------------------------------------------------------------------------
(* The properties *)

LEMMA InvImpliesType == IndexInv => TypeOK
<1> SUFFICES ASSUME IndexInv PROVE TypeOK
  OBVIOUS
<1>1. FilesInv /\ BatchInv /\ MergeTypes
  BY DEF IndexInv
<1>2. set_wordid \subseteq Words
  BY <1>1, WordsOfFiles
<1>3. FileEntries \subseteq Entries
  <2>1. Docs \subseteq Docs \cup {Junk}
    OBVIOUS
  <2>2. Seq(Docs) \subseteq Seq(Docs \cup {Junk})
    BY <2>1, SeqSubset
  <2> QED
    BY <2>2 DEF FileEntries, Entries
<1>4. ASSUME NEW i \in DOMAIN files PROVE files[i] \in Seq(Entries)
  <2>1. files[i] \in Seq(FileEntries)
    BY <1>1 DEF FilesInv
  <2> QED
    BY <1>3, <2>1, SeqSubset, Zenon
<1>5. ASSUME NEW i \in DOMAIN cur
      PROVE  /\ [word |-> cur[i].word, docids |-> cur[i].docids] \in Entries
             /\ cur[i].next \in 1 .. Len(files[i]) + 1
  <2>1. cur[i] \in Cursors(i)
    BY <1>1 DEF MergeTypes
  <2> QED
    BY <2>1 DEF Cursors, Entries
<1> QED
  BY <1>1, <1>2, <1>4, <1>5 DEF TypeOK, BatchInv, MergeTypes

\* One list is at the offset of a merged word: that of its documents.
LEMMA OneList ==
  ASSUME IndexInv, phase \in {"merging", "done"}, Regular, NEW w \in DOMAIN offsets
  PROVE  \E l \in ToSet(lists) :
           /\ l.offset = offsets[w] /\ l.docids = DocumentsOf(w)
           /\ \A x \in ToSet(lists) : x.offset = offsets[w] => x = l
<1>1. MergeTypes /\ MergeInv
  BY DEF IndexInv
<1>2. PICK l \in DOMAIN lists : lists[l].offset = offsets[w] /\ lists[l].docids = DocumentsOf(w)
  BY <1>1 DEF MergeInv
<1>3. /\ lists \in Seq([offset : Nat, docids : Seq(Nat)])
      /\ \A k, m \in DOMAIN lists : k < m => lists[k].offset < lists[m].offset
  BY <1>1 DEF MergeTypes
<1>4. ASSUME NEW m \in DOMAIN lists, lists[m].offset = offsets[w] PROVE lists[m] = lists[l]
  <2>1. m \in Nat /\ l \in Nat
    BY <1>3, LenProperties
  <2>2. lists[l].offset \in Nat /\ lists[m].offset = lists[l].offset
    <3>1. lists[l] \in [offset : Nat, docids : Seq(Nat)]
      <4> DEFINE List == [offset : Nat, docids : Seq(Nat)]
      <4>1. lists \in Seq(List)
        BY <1>3
      <4> HIDE DEF List
      <4>2. lists[l] \in List
        BY <4>1
      <4> QED
        BY <4>2 DEF List
    <3> QED
      BY <1>2, <1>4, <3>1
  <2>3. ~(m < l) /\ ~(l < m)
    <3>1. m < l => lists[m].offset < lists[l].offset
      BY <1>3, Zenon
    <3>2. l < m => lists[l].offset < lists[m].offset
      BY <1>3, Zenon
    <3> QED
      BY <2>2, <3>1, <3>2
  <2>4. m = l
    BY <2>1, <2>3
  <2> QED
    BY <2>4
<1>5. lists[l] \in ToSet(lists) /\ \A x \in ToSet(lists) : x.offset = offsets[w] => x = lists[l]
  BY <1>4, Zenon DEF ToSet
<1> QED
  BY <1>2, <1>5, Zenon

\* The list of a merged word is found at its offset.
LEMMA ListAtIs ==
  ASSUME IndexInv, phase \in {"merging", "done"}, Regular, NEW w \in DOMAIN offsets
  PROVE  ListAt(offsets[w]) = DocumentsOf(w)
<1>1. PICK l \in ToSet(lists) :
        /\ l.offset = offsets[w] /\ l.docids = DocumentsOf(w)
        /\ \A x \in ToSet(lists) : x.offset = offsets[w] => x = l
  BY OneList
<1>2. (CHOOSE x \in ToSet(lists) : x.offset = offsets[w]) = l
  BY <1>1, Zenon
<1> QED
  BY <1>1, <1>2, Zenon DEF ListAt

\* Nothing of a word is unread behind its last entry.
LEMMA UnreadNone ==
  ASSUME FilesInv, NEW i \in DOMAIN files, NEW w,
         \A k \in DOMAIN files[i] : k >= cur[i].next => files[i][k].word # w
  PROVE  Unread(i, w) = <<>>
<1> DEFINE ss == [k \in DOMAIN files[i] |->
                    IF k >= cur[i].next /\ files[i][k].word = w THEN files[i][k].docids ELSE <<>>]
           n == Len(files[i])
<1>1. files[i] \in Seq(FileEntries) /\ n \in Nat /\ DOMAIN files[i] = 1 .. n
  BY LenProperties DEF FilesInv
<1>2. \A k \in 1 .. n : ss[k] = <<>>
  BY <1>1, Zenon
<1>3. Unread(i, w) = FlattenSeq(ss) /\ DOMAIN ss = 1 .. n
  BY <1>1, Zenon DEF Unread
<1>4. ss = [k \in 1 .. n |-> ss[k]]
  BY <1>1, Zenon
<1> HIDE DEF ss, n
<1>5. ss \in [1 .. n -> Seq(Nat)]
  <2>1. <<>> \in Seq(Nat)
    BY EmptySeq
  <2> QED
    BY <1>2, <1>4, <2>1, Zenon
<1>6. ss \in Seq(Seq(Nat)) /\ Len(ss) = n
  <2>1. ss \in Seq(Seq(Nat))
    BY <1>1, <1>5, SeqDef
  <2> QED
    BY <1>1, <1>5, <2>1, LenProperties
<1>7. 0 \in 0 .. Len(ss) /\ \A k \in 1 .. Len(ss) : k # 0 => ss[k] = <<>>
  BY <1>1, <1>2, <1>6
<1> QED
  BY <1>3, <1>6, <1>7, FlattenOne

\* The documents of the one entry of the word are unread when it is behind the cursor.
LEMMA UnreadOne ==
  ASSUME FilesInv, NEW i \in DOMAIN files, NEW p \in DOMAIN files[i], p >= cur[i].next
  PROVE  Unread(i, files[i][p].word) = files[i][p].docids
<1> DEFINE w == files[i][p].word
           ss == [k \in DOMAIN files[i] |->
                    IF k >= cur[i].next /\ files[i][k].word = w THEN files[i][k].docids ELSE <<>>]
           n == Len(files[i])
<1>1. files[i] \in Seq(FileEntries) /\ n \in Nat /\ DOMAIN files[i] = 1 .. n /\ FileIs(i)
  BY LenProperties DEF FilesInv
<1>2. \A k \in 1 .. n : files[i][k].docids \in Seq(Nat) /\ files[i][k].word \in Nat
  <2>1. \A k \in 1 .. n : files[i][k].docids \in Seq(Docs) /\ files[i][k].word \in Words
    BY <1>1, EntryType
  <2>2. Seq(Docs) \subseteq Seq(Nat)
    BY WordsAre, SeqSubset
  <2> QED
    BY <2>1, <2>2, WordsAre
<1>3. Unread(i, w) = FlattenSeq(ss)
  BY Zenon DEF Unread
<1>4. ASSUME NEW k \in 1 .. n
      PROVE  /\ ss[k] = IF k >= cur[i].next /\ files[i][k].word = w THEN files[i][k].docids ELSE <<>>
             /\ k # p => files[i][k].word # w
  <2>1. ss[k] = IF k >= cur[i].next /\ files[i][k].word = w THEN files[i][k].docids ELSE <<>>
    BY <1>1, Zenon
  <2>2. ASSUME k # p PROVE files[i][k].word # w
    <3>1. k < p \/ p < k
      BY <1>1, <2>2
    <3>2. files[i][k].word < w \/ w < files[i][k].word
      BY <1>1, <3>1, Zenon DEF FileIs
    <3>3. files[i][k].word \in Nat
      BY <1>2
    <3> QED
      BY <3>2, <3>3
  <2> QED
    BY <2>1, <2>2
<1>5. ss = [k \in 1 .. n |-> ss[k]]
  BY <1>1, Zenon
<1>6. p \in 1 .. n /\ w = files[i][p].word
  BY <1>1
<1> HIDE DEF ss, n, w
<1>7. \A k \in 1 .. n : ss[k] \in Seq(Nat) /\ (k # p => ss[k] = <<>>)
  <2>1. <<>> \in Seq(Nat)
    BY EmptySeq
  <2> QED
    BY <1>2, <1>4, <2>1, Zenon
<1>8. ss[p] = files[i][p].docids
  BY <1>4, <1>6, Zenon
<1>9. ss \in [1 .. n -> Seq(Nat)]
  BY <1>5, <1>7, Zenon
<1>10. ss \in Seq(Seq(Nat)) /\ Len(ss) = n
  <2>1. ss \in Seq(Seq(Nat))
    BY <1>1, <1>9, SeqDef
  <2> QED
    BY <1>1, <1>9, <2>1, LenProperties
<1>11. p \in 0 .. Len(ss) /\ p # 0 /\ \A k \in 1 .. Len(ss) : k # p => ss[k] = <<>>
  BY <1>1, <1>6, <1>7, <1>10
<1>12. FlattenSeq(ss) = ss[p]
  BY <1>10, <1>11, FlattenOne
<1> QED
  BY <1>3, <1>8, <1>12 DEF w

\* What is still to be merged of a file: nothing of a merged word, and all the
\* documents it has of another.
LEMMA UnmergedIs ==
  ASSUME IndexInv, phase = "merging", Regular, NEW i \in DOMAIN files, NEW w \in Words
  PROVE  Unmerged(i, w) = IF w \in DOMAIN offsets THEN <<>> ELSE Sorted(BatchDocs(i, w))
<1>1. FilesInv /\ MergeTypes /\ MergeInv
  BY DEF IndexInv
<1>2. /\ files[i] \in Seq(FileEntries) /\ Len(files[i]) \in Nat /\ DOMAIN files[i] = 1 .. Len(files[i])
      /\ FileIs(i) /\ i \in Nat
  BY <1>1, LenProperties DEF FilesInv
<1>3. /\ \A v \in set_wordid : v < max_wordid
      /\ CursorIs(i) /\ DOMAIN offsets \subseteq set_wordid
  BY <1>1 DEF MergeInv
<1>4. \A k \in DOMAIN files[i] : files[i][k].word \in set_wordid /\ files[i][k].word \in Nat
  BY <1>1, WordsOfFiles
<1>5. /\ cur[i].next \in 1 .. Len(files[i]) + 1 /\ cur[i].next >= 2 /\ cur[i].word \in Nat
      /\ w \in Nat /\ max_wordid \in Nat
  <2>1. cur[i] \in Cursors(i)
    BY <1>1 DEF MergeTypes
  <2>2. cur[i].next \in 1 .. Len(files[i]) + 1 /\ cur[i].word \in Words
    BY <2>1 DEF Cursors
  <2> QED
    BY <1>1, <1>3, <2>2, WordsAre DEF CursorIs, MergeTypes
<1> DEFINE p == cur[i].next - 1
           held == IF cur[i].word = w /\ w < max_wordid THEN cur[i].docids ELSE <<>>
<1>6. p \in DOMAIN files[i] /\ \A k \in DOMAIN files[i] : k >= cur[i].next <=> p < k
  BY <1>2, <1>5, SMTT(30)
<1>7. ASSUME ~AtEnd(i) PROVE cur[i].word = files[i][p].word /\ cur[i].docids = files[i][p].docids
  BY <1>3, <1>7 DEF CursorIs
<1>8. Unmerged(i, w) = held \o Unread(i, w)
  BY Zenon DEF Unmerged
<1>9. ASSUME NEW k \in DOMAIN files[i], p < k PROVE cur[i].word < files[i][k].word /\ ~AtEnd(i)
  <2>1. ~AtEnd(i)
    BY <1>2, <1>5, <1>9 DEF AtEnd
  <2>2. files[i][p].word < files[i][k].word
    BY <1>2, <1>6, <1>9, Zenon DEF FileIs
  <2> QED
    BY <1>7, <2>1, <2>2
<1>10. <<>> \o <<>> = <<>>
  BY EmptySeq, ConcatEmptySeq
<1> HIDE DEF p, held
<1>11. CASE w \in DOMAIN offsets
  <2>1. w < cur[i].word
    BY <1>3, <1>11 DEF CursorIs
  <2>2. held = <<>>
    BY <1>5, <2>1 DEF held
  <2>3. \A k \in DOMAIN files[i] : k >= cur[i].next => files[i][k].word # w
    BY <1>4, <1>5, <1>6, <1>9, <2>1
  <2>4. Unread(i, w) = <<>>
    BY <1>1, <2>3, UnreadNone
  <2> QED
    BY <1>8, <1>10, <1>11, <2>2, <2>4
<1>12. CASE w \notin DOMAIN offsets
  <2>1. CASE \E k \in DOMAIN files[i] : files[i][k].word = w
    <3>1. PICK k \in DOMAIN files[i] : files[i][k].word = w
      BY <2>1
    <3>2. files[i][k].docids = Sorted(BatchDocs(i, w)) /\ w \in set_wordid /\ w < max_wordid
      <4>1. files[i][k].docids = Sorted(BatchDocs(i, w))
        BY <1>2, <3>1, Zenon DEF FileIs
      <4> QED
        BY <1>3, <1>4, <3>1, <4>1
    <3>3. ~(k < p) /\ ~AtEnd(i)
      BY <1>3, <1>12, <3>1 DEF CursorIs, p
    <3>4. Sorted(BatchDocs(i, w)) \in Seq(Nat)
      BY <1>1, <1>2, BatchSorted
    <3>5. CASE k = p
      <4>1. held = Sorted(BatchDocs(i, w))
        BY <1>7, <3>1, <3>2, <3>3, <3>5 DEF held
      <4>2. \A m \in DOMAIN files[i] : m >= cur[i].next => files[i][m].word # w
        <5>1. cur[i].word = w
          BY <1>7, <3>1, <3>3, <3>5
        <5> QED
          BY <1>4, <1>5, <1>6, <1>9, <5>1
      <4>3. Unread(i, w) = <<>>
        BY <1>1, <4>2, UnreadNone
      <4> QED
        BY <1>8, <1>12, <3>4, <4>1, <4>3, ConcatEmptySeq
    <3>6. CASE k # p
      <4>1. p < k /\ k >= cur[i].next
        BY <1>2, <1>6, <3>3, <3>6
      <4>2. cur[i].word < w
        BY <1>9, <3>1, <4>1
      <4>3. held = <<>>
        BY <1>5, <4>2 DEF held
      <4>4. Unread(i, w) = Sorted(BatchDocs(i, w))
        BY <1>1, <3>1, <3>2, <4>1, UnreadOne
      <4> QED
        BY <1>8, <1>12, <3>4, <4>3, <4>4, ConcatEmptySeq
    <3> QED
      BY <3>5, <3>6
  <2>2. CASE ~ \E k \in DOMAIN files[i] : files[i][k].word = w
    <3>1. BatchDocs(i, w) = {}
      BY <1>2, <2>2, Zenon DEF FileIs
    <3>2. Sorted(BatchDocs(i, w)) = <<>>
      BY <3>1, SortedEmpty
    <3>3. held = <<>>
      <4> SUFFICES ASSUME cur[i].word = w, w < max_wordid PROVE FALSE
        BY DEF held
      <4>1. ~AtEnd(i)
        BY <1>5 DEF AtEnd
      <4> QED
        BY <1>6, <1>7, <2>2, <4>1
    <3>4. Unread(i, w) = <<>>
      BY <1>1, <2>2, UnreadNone
    <3> QED
      BY <1>8, <1>10, <1>12, <3>2, <3>3, <3>4
  <2> QED
    BY <2>1, <2>2
<1> QED
  BY <1>11, <1>12

LEMMA DocumentsType ==
  ASSUME FilesInv, NEW w \in Words
  PROVE  DocumentsOf(w) \in Seq(Nat) /\ InOrder(DocumentsOf(w)) = DocumentsOf(w)
<1> DEFINE ss == [b \in 1 .. MaxDocs |-> Sorted(BatchDocs(b, w))]
<1>1. ss \in [1 .. MaxDocs -> Seq(Nat)] /\ MaxDocs \in Nat
  BY BatchSorted, IndexAssumption
<1>2. DocumentsOf(w) = InOrder(FlattenSeq(ss))
  BY Zenon DEF DocumentsOf, BatchDocs
<1> HIDE DEF ss
<1>3. ss \in Seq(Seq(Nat))
  BY <1>1, SeqDef
<1>4. FlattenSeq(ss) \in Seq(Nat)
  BY <1>3, FlattenSeqType, Zenon
<1> QED
  BY <1>2, <1>4, InOrderIs, InOrderTwice

LEMMA InvImpliesLossless == IndexInv => NothingLost
<1> SUFFICES ASSUME IndexInv, phase = "merging", Regular, NEW w \in Words
             PROVE  LET merged == IF w \in DOMAIN offsets THEN ListAt(offsets[w]) ELSE <<>>
                    IN  InOrder(merged \o FlattenSeq([i \in DOMAIN cur |-> Unmerged(i, w)])) = DocumentsOf(w)
  BY Zenon DEF NothingLost
<1>1. FilesInv /\ MergeTypes
  BY DEF IndexInv
<1>2. PICK n \in Nat : n = Len(files) /\ DOMAIN files = 1 .. n /\ DOMAIN cur = 1 .. n
  BY <1>1, LenProperties DEF FilesInv, MergeTypes
<1> DEFINE ss == [i \in DOMAIN cur |-> Unmerged(i, w)]
           merged == IF w \in DOMAIN offsets THEN ListAt(offsets[w]) ELSE <<>>
<1>3. \A i \in 1 .. n : ss[i] = IF w \in DOMAIN offsets THEN <<>> ELSE Sorted(BatchDocs(i, w))
  BY <1>2, UnmergedIs, Zenon
<1>4. ss = [i \in 1 .. n |-> ss[i]]
  BY <1>2, Zenon
<1> HIDE DEF ss
<1>5. \A i \in 1 .. n : ss[i] \in Seq(Nat)
  <2>1. <<>> \in Seq(Nat) /\ \A i \in 1 .. n : Sorted(BatchDocs(i, w)) \in Seq(Nat)
    BY <1>1, BatchSorted, EmptySeq
  <2> QED
    BY <1>3, <2>1, Zenon
<1>6. ss \in Seq(Seq(Nat)) /\ Len(ss) = n
  <2>1. ss \in [1 .. n -> Seq(Nat)]
    BY <1>4, <1>5, Zenon
  <2>2. ss \in Seq(Seq(Nat))
    BY <2>1, SeqDef
  <2> QED
    BY <2>1, <2>2, LenProperties
<1>7. CASE w \in DOMAIN offsets
  <2>1. FlattenSeq(ss) = <<>>
    <3>1. 0 \in 0 .. Len(ss) /\ \A i \in 1 .. Len(ss) : i # 0 => ss[i] = <<>>
      BY <1>3, <1>6, <1>7
    <3> QED
      BY <1>6, <3>1, FlattenOne
  <2>2. merged = DocumentsOf(w)
    BY <1>7, ListAtIs
  <2>3. DocumentsOf(w) \o <<>> = DocumentsOf(w) /\ InOrder(DocumentsOf(w)) = DocumentsOf(w)
    BY <1>1, DocumentsType, ConcatEmptySeq
  <2> QED
    BY <2>1, <2>2, <2>3, Zenon DEF ss
<1>8. CASE w \notin DOMAIN offsets
  <2>1. InOrder(FlattenSeq(ss)) = DocumentsOf(w)
    BY <1>1, <1>2, <1>3, <1>6, <1>8, Gather
  <2>2. FlattenSeq(ss) \in Seq(Nat)
    BY <1>6, FlattenSeqType, Zenon
  <2>3. merged \o FlattenSeq(ss) = FlattenSeq(ss)
    BY <1>8, <2>2, ConcatEmptySeq
  <2> QED
    BY <2>1, <2>3, Zenon DEF ss
<1> QED
  BY <1>7, <1>8

LEMMA InvImpliesRight == IndexInv => IndexIsRight
<1> SUFFICES ASSUME IndexInv, phase = "done", Regular, 0 \notin set_wordid
             PROVE  IndexRight
  BY DEF IndexIsRight
<1>1. FilesInv /\ TableInv
  BY DEF IndexInv
<1> DEFINE words == Sorted(set_wordid)
           n == Len(words)
<1>2. /\ set_wordid \in SUBSET Words /\ set_wordid \in SUBSET Nat /\ words \in Seq(set_wordid)
      /\ words \in Seq(Nat) /\ n \in Nat /\ \A i \in 1 .. n : words[i] \in set_wordid
      /\ \A w \in set_wordid : \E i \in 1 .. n : words[i] = w
  <2>1. set_wordid \in SUBSET Words /\ set_wordid \in SUBSET Nat /\ IsFiniteSet(set_wordid)
    BY <1>1, WordsOfFiles
  <2>2. words \in Seq(set_wordid) /\ \A w \in set_wordid : \E i \in 1 .. n : words[i] = w
    BY <2>1, SortedIs, Zenon
  <2>3. n \in Nat /\ \A i \in 1 .. n : words[i] \in set_wordid
    BY <2>2, LenProperties
  <2>4. words \in Seq(Nat)
    BY <2>1, <2>2, SeqSubset, Zenon
  <2> QED
    BY <2>1, <2>2, <2>3, <2>4
<1>3. {g[2] : g \in given} = set_wordid
  <2>1. /\ set_wordid = {w \in Words : \E b \in DOMAIN files : BatchDocs(b, w) # {}}
        /\ given \subseteq (1 .. Len(files)) \X Words \X Docs /\ DOMAIN files = 1 .. Len(files)
    BY <1>1, LenProperties DEF FilesInv
  <2>2. ASSUME NEW g \in given PROVE g[2] \in set_wordid
    <3>1. PICK b \in 1 .. Len(files), w \in Words, d \in Docs : g = <<b, w, d>>
      BY <2>1
    <3>2. d \in BatchDocs(b, w) /\ g[2] = w
      BY <3>1 DEF BatchDocs
    <3> QED
      BY <2>1, <3>2
  <2>3. ASSUME NEW w \in set_wordid PROVE \E g \in given : g[2] = w
    <3>1. PICK b \in DOMAIN files : BatchDocs(b, w) # {}
      BY <2>1
    <3>2. PICK d \in Docs : <<b, w, d>> \in given
      BY <3>1 DEF BatchDocs
    <3>3. <<b, w, d>>[2] = w
      OBVIOUS
    <3> QED
      BY <3>2, <3>3, Zenon
  <2> QED
    BY <2>2, <2>3, Zenon
<1> DEFINE all == Append(words, 0)
<1>4. /\ all \in Seq(Nat) /\ Len(all) = n + 1 /\ DOMAIN all = 1 .. n + 1
      /\ all[n + 1] = 0 /\ \A i \in 1 .. n : all[i] = words[i]
  <2> HIDE DEF words
  <2>1. /\ all \in Seq(Nat) /\ Len(all) = n + 1 /\ all[n + 1] = 0 /\ \A i \in 1 .. n : all[i] = words[i]
    BY <1>2, AppendProperties
  <2> QED
    BY <1>2, <2>1, LenProperties
<1>5. /\ DOMAIN offsets = set_wordid
      /\ table = [i \in 1 .. Len(all) |->
                    [word |-> all[i], offset |-> IF i <= Len(Sorted(DOMAIN offsets))
                                                 THEN offsets[Sorted(DOMAIN offsets)[i]] ELSE 0]]
  BY <1>1, Zenon DEF TableInv
<1>6. table = [i \in 1 .. n + 1 |-> [word |-> all[i], offset |-> IF i <= n THEN offsets[words[i]] ELSE 0]]
  BY <1>4, <1>5, Zenon
<1> HIDE DEF all, words, n
<1>7. DOMAIN table = 1 .. n + 1 /\ Len(table) = n + 1
  <2>1. n + 1 \in Nat
    BY <1>2
  <2> QED
    BY <1>6, <2>1
<1>8. /\ table[n + 1].word = 0
      /\ \A i \in 1 .. n : table[i].word = words[i] /\ table[i].offset = offsets[words[i]]
  <2>1. ASSUME NEW i \in 1 .. n PROVE table[i].word = words[i] /\ table[i].offset = offsets[words[i]]
    <3>1. i \in 1 .. n + 1 /\ i <= n
      BY <1>2
    <3> QED
      BY <1>4, <1>6, <3>1
  <2>2. n + 1 \in 1 .. n + 1
    BY <1>2
  <2>3. table[n + 1].word = all[n + 1]
    BY <1>6, <2>2
  <2> QED
    BY <1>4, <2>1, <2>3
<1>9. RowsRead = {table[i] : i \in 1 .. n}
  <2>1. ASSUME NEW i \in 1 .. n PROVE i \in DOMAIN table /\ \A j \in 1 .. i : table[j].word # 0
    <3>1. i \in DOMAIN table
      BY <1>2, <1>7
    <3>2. ASSUME NEW j \in 1 .. i PROVE table[j].word # 0
      <4>1. j \in 1 .. n
        BY <1>2
      <4> QED
        BY <1>2, <1>8, <4>1
    <3> QED
      BY <3>1, <3>2
  <2>2. ASSUME NEW i \in DOMAIN table, \A j \in 1 .. i : table[j].word # 0 PROVE i \in 1 .. n
    <3>1. i \in 1 .. n + 1 /\ i \in 1 .. i
      BY <1>2, <1>7
    <3>2. i # n + 1
      BY <1>8, <2>2, <3>1
    <3> QED
      BY <1>2, <3>1, <3>2
  <2>3. {i \in DOMAIN table : \A j \in 1 .. i : table[j].word # 0} = 1 .. n
    BY <2>1, <2>2, Zenon
  <2> QED
    BY <2>3, Zenon DEF RowsRead
<1>10. {row.word : row \in RowsRead} = set_wordid
  <2>1. {row.word : row \in RowsRead} = {table[i].word : i \in 1 .. n}
    BY <1>9, Zenon
  <2>2. ASSUME NEW x \in {table[i].word : i \in 1 .. n} PROVE x \in set_wordid
    <3>1. PICK i \in 1 .. n : x = table[i].word
      BY <2>2, Zenon
    <3>2. table[i].word = words[i] /\ words[i] \in set_wordid
      BY <1>2, <1>8, Zenon
    <3> QED
      BY <3>1, <3>2, Zenon
  <2>3. ASSUME NEW x \in set_wordid PROVE x \in {table[i].word : i \in 1 .. n}
    <3>1. PICK i \in 1 .. n : words[i] = x
      BY <1>2, Zenon
    <3> QED
      BY <1>8, <3>1, Zenon
  <2> QED
    BY <2>1, <2>2, <2>3, Zenon
<1>11. ASSUME NEW w \in set_wordid
       PROVE  {l.docids : l \in {l \in ToSet(lists) : \E row \in RowsRead : row.word = w /\ row.offset = l.offset}}
                = {DocumentsOf(w)}
  <2>1. PICK l \in ToSet(lists) :
          /\ l.offset = offsets[w] /\ l.docids = DocumentsOf(w)
          /\ \A x \in ToSet(lists) : x.offset = offsets[w] => x = l
    BY <1>5, OneList
  <2>2. ASSUME NEW row \in RowsRead, row.word = w PROVE row.offset = offsets[w]
    <3>1. PICK i \in 1 .. n : row = table[i]
      BY <1>9, Zenon
    <3> QED
      BY <1>8, <2>2, <3>1, Zenon
  <2>3. PICK row \in RowsRead : row.word = w
    BY <1>10, Zenon
  <2>4. {x \in ToSet(lists) : \E r \in RowsRead : r.word = w /\ r.offset = x.offset} = {l}
    <3>1. l.offset = row.offset
      BY <2>1, <2>2, <2>3, Zenon
    <3> QED
      BY <2>1, <2>2, <2>3, <3>1, Zenon
  <2> QED
    BY <2>1, <2>4, Zenon
<1>12. /\ DOMAIN readIndex = set_wordid
       /\ \A w \in set_wordid : readIndex[w] = {DocumentsOf(w)}
  BY <1>10, <1>11, Zenon DEF readIndex
<1> QED
  BY <1>3, <1>12, Zenon DEF IndexRight

\* The types of the variables, the entries read of files without words included
\* (main.cpp:147-153).
THEOREM TypeCorrect == Spec => []TypeOK
BY Invariant, InvImpliesType, PTL

\* At every turn of the merge (main.cpp:154-193), if every batch has a word and
\* none has the largest number, the list of a word and what is still to be read of
\* the files have all its documents: a file that is at its end, or has the word in
\* several turns, loses and repeats nothing.
THEOREM Lossless == Spec => []NothingLost
BY Invariant, InvImpliesLossless, PTL

\* For such an input without word 0, readIndex (main.cpp:200-229) finds exactly the
\* words of the input in the finished file, and for each the list of exactly its
\* documents (main.cpp:97-116, 190-195).
THEOREM Correct == Spec => []IndexIsRight
BY Invariant, InvImpliesRight, PTL
=============================================================================
