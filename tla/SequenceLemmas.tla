--------------------------- MODULE SequenceLemmas ---------------------------
(***************************************************************************)
(* Lemmas about sequences (how they are joined and cut), induction and     *)
(* recursion, and runs of bytes.                                           *)
(***************************************************************************)
EXTENDS ByteRuns, SequencesExt, SequenceTheorems, WellFoundedInduction, TLAPS

----------------------------------------------------------------------------
(* Induction *)

\* A set of naturals has a least element.
LEMMA LeastNatural ==
  ASSUME NEW S \in SUBSET Nat, S # {}
  PROVE  \E n \in S : \A m \in S : n <= m
<1>1. \E x \in S : \A y \in S : ~ (<<y, x>> \in OpToRel(<, Nat))
  BY NatLessThanWellFounded, WFMin, Zenon
<1>2. PICK x \in S : \A y \in S : ~ (<<y, x>> \in OpToRel(<, Nat))
  BY <1>1, Zenon
<1>3. ASSUME NEW y \in S PROVE x <= y
  <2>1. ~ (y < x)
    BY <1>2 DEF OpToRel
  <2> QED
    BY <2>1
<1> QED
  BY <1>3

\* Induction: a set with 0 and the successor of each of its members up to n has
\* every number up to n.
LEMMA UpTo ==
  ASSUME NEW n \in Nat, NEW S, 0 \in S, \A i \in 0 .. n - 1 : i \in S => i + 1 \in S
  PROVE  0 .. n \subseteq S
<1> SUFFICES ASSUME (0 .. n) \ S # {} PROVE FALSE
  OBVIOUS
<1>0. (0 .. n) \ S \in SUBSET Nat
  OBVIOUS
<1>1. PICK i \in (0 .. n) \ S : \A j \in (0 .. n) \ S : i <= j
  BY <1>0, LeastNatural, Zenon
<1>2. i # 0 /\ i - 1 \in 0 .. n - 1 /\ i - 1 \in S
  BY <1>1
<1> QED
  BY <1>1, <1>2

----------------------------------------------------------------------------
(* Sequences *)

\* A sequence is its head and its tail.
LEMMA HeadAndTail ==
  ASSUME NEW S, NEW s \in Seq(S), s # <<>>
  PROVE  /\ <<Head(s)>> \in Seq(S) /\ Tail(s) \in Seq(S)
         /\ s = <<Head(s)>> \o Tail(s)
<1>1. Len(s) \in Nat \ {0} /\ s \in [1 .. Len(s) -> S]
  BY EmptySeq, LenProperties
<1>2. 1 \in 1 .. Len(s) /\ Len(s) \in 1 .. Len(s)
  BY <1>1
<1>3. SubSeq(s, 1, Len(s)) = <<s[1]>> \o SubSeq(s, 1 + 1, Len(s))
  BY <1>2, SubSeqRecursiveFirst, Zenon
<1>4. SubSeq(s, 1, Len(s)) = s /\ Tail(s) = SubSeq(s, 2, Len(s))
  BY SubSeqFull, TailIsSubSeq, Zenon
<1>5. Head(s) = s[1] /\ s[1] \in S
  BY <1>1
<1>6. <<s[1]>> \in Seq(S) /\ 1 + 1 = 2 /\ Tail(s) \in Seq(S)
  BY <1>5, HeadTailProperties
<1> QED
  BY <1>3, <1>4, <1>5, <1>6

\* A sequence cut behind its first n elements.
LEMMA CutSeq ==
  ASSUME NEW S, NEW s \in Seq(S), NEW n \in 0 .. Len(s)
  PROVE  /\ SubSeq(s, 1, n) \in Seq(S) /\ Len(SubSeq(s, 1, n)) = n
         /\ SubSeq(s, n + 1, Len(s)) \in Seq(S) /\ Len(SubSeq(s, n + 1, Len(s))) = Len(s) - n
         /\ SubSeq(s, 1, n) \o SubSeq(s, n + 1, Len(s)) = s
<1>1. Len(s) \in Nat /\ s \in [1 .. Len(s) -> S]
  BY LenProperties
<1>2. 1 \in 1 .. Len(s) + 1 /\ n \in 1 - 1 .. Len(s) /\ Len(s) \in n .. Len(s)
  BY <1>1
<1>3. SubSeq(s, 1, n) \o SubSeq(s, n + 1, Len(s)) = s
  BY <1>2, ConcatAdjacentSubSeq, SubSeqFull, Zenon
<1>4. /\ 1 \in Int /\ n \in Int /\ n + 1 \in Int /\ Len(s) \in Int
      /\ \A i \in 1 .. n : s[i] \in S
      /\ \A i \in n + 1 .. Len(s) : s[i] \in S
  BY <1>1
<1> DEFINE front == SubSeq(s, 1, n)
           back == SubSeq(s, n + 1, Len(s))
<1>5. front \in Seq(S) /\ Len(front) = IF 1 <= n THEN n - 1 + 1 ELSE 0
  BY <1>4, SubSeqProperties
<1>6. /\ back \in Seq(S)
      /\ Len(back) = IF n + 1 <= Len(s) THEN Len(s) - (n + 1) + 1 ELSE 0
  BY <1>4, SubSeqProperties
<1> HIDE DEF front, back
<1>7. Len(front) = n
  <2>1. Len(front) = IF 1 <= n THEN n - 1 + 1 ELSE 0
    BY <1>5
  <2> QED
    BY <1>1, <2>1
<1>8. Len(back) = Len(s) - n
  <2>1. Len(back) = IF n + 1 <= Len(s) THEN Len(s) - (n + 1) + 1 ELSE 0
    BY <1>6
  <2>2. Len(s) \in Nat /\ n \in Nat /\ n <= Len(s)
    BY <1>1
  <2> QED
    BY <2>1, <2>2
<1> QED
  BY <1>3, <1>5, <1>6, <1>7, <1>8 DEF front, back

\* Joining three sequences begins anywhere.  The equation has a name, as the
\* provers do not find their way through equations of joined sequences.
Associates(a, b, c) == (a \o b) \o c = a \o (b \o c)

LEMMA Assoc ==
  ASSUME NEW S, NEW a \in Seq(S), NEW b \in Seq(S), NEW c \in Seq(S)
  PROVE  Associates(a, b, c)
BY ConcatAssociative, SMTT(30) DEF Associates

\* The first element of b moves to the end of a.
LEMMA MoveHead ==
  ASSUME NEW S, NEW a \in Seq(S), NEW b \in Seq(S), b # <<>>
  PROVE  /\ Append(a, Head(b)) \in Seq(S) /\ Tail(b) \in Seq(S)
         /\ Append(a, Head(b)) \o Tail(b) = a \o b
<1>1. /\ <<Head(b)>> \in Seq(S) /\ Tail(b) \in Seq(S) /\ Head(b) \in S
      /\ b = <<Head(b)>> \o Tail(b)
  BY HeadAndTail, HeadTailProperties
<1>2. Append(a, Head(b)) = a \o <<Head(b)>> /\ Append(a, Head(b)) \in Seq(S)
  BY <1>1, AppendIsConcat, AppendProperties
<1>3. (a \o <<Head(b)>>) \o Tail(b) = a \o (<<Head(b)>> \o Tail(b))
  <2>1. Associates(a, <<Head(b)>>, Tail(b))
    BY <1>1, Assoc, Zenon
  <2> QED
    BY <2>1, Zenon DEF Associates
<1> QED
  BY <1>1, <1>2, <1>3, Zenon

\* Appending to the second of two sequences appends to both.
LEMMA AppendBehind ==
  ASSUME NEW S, NEW a \in Seq(S), NEW b \in Seq(S), NEW e \in S
  PROVE  /\ Append(b, e) \in Seq(S) /\ a \o b \in Seq(S)
         /\ a \o Append(b, e) = Append(a \o b, e)
<1>1. a \o b \in Seq(S) /\ Append(b, e) \in Seq(S) /\ <<e>> \in Seq(S)
  BY ConcatProperties, AppendProperties
<1>2. Append(b, e) = b \o <<e>> /\ Append(a \o b, e) = (a \o b) \o <<e>>
  BY <1>1, AppendIsConcat, Zenon
<1>3. (a \o b) \o <<e>> = a \o (b \o <<e>>)
  <2>1. Associates(a, b, <<e>>)
    BY <1>1, Assoc, Zenon
  <2> QED
    BY <2>1, Zenon DEF Associates
<1> QED
  BY <1>1, <1>2, <1>3, Zenon

\* A piece of a sequence with one more element.
LEMMA SubSeqGrows ==
  ASSUME NEW S, NEW s \in Seq(S), NEW m \in 0 .. Len(s), NEW k \in m .. Len(s) - 1
  PROVE  /\ SubSeq(s, m + 1, k) \in Seq(S) /\ Len(SubSeq(s, m + 1, k)) = k - m
         /\ SubSeq(s, m + 1, k + 1) = Append(SubSeq(s, m + 1, k), s[k + 1])
<1> DEFINE p == SubSeq(s, m + 1, k)
<1>1. Len(s) \in Nat /\ \A i \in 1 .. Len(s) : s[i] \in S
  BY LenProperties
<1>2. m \in Nat /\ k \in Nat /\ m + 1 \in Int /\ k \in Int /\ k + 1 \in 1 .. Len(s) /\ m + 1 \in 1 .. Len(s)
  BY <1>1
<1>3. p \in Seq(S) /\ Len(p) = IF m + 1 <= k THEN k - (m + 1) + 1 ELSE 0
  <2>1. \A i \in m + 1 .. k : s[i] \in S
    BY <1>1, <1>2
  <2> QED
    BY <1>2, <2>1, SubSeqProperties
<1> HIDE DEF p
<1>4. Len(p) = k - m
  BY <1>2, <1>3
<1>5. SubSeq(s, m + 1, k + 1) = SubSeq(s, m + 1, (k + 1) - 1) \o <<s[k + 1]>>
  <2>1. k + 1 \in m + 1 .. Len(s)
    BY <1>1, <1>2
  <2> QED
    BY <1>2, <2>1, SubSeqRecursiveSecond, Zenon
<1>6. (k + 1) - 1 = k /\ s[k + 1] \in S
  BY <1>1, <1>2
<1>7. Append(p, s[k + 1]) = p \o <<s[k + 1]>>
  BY <1>3, <1>6, AppendIsConcat
<1> QED
  BY <1>3, <1>4, <1>5, <1>6, <1>7, Zenon DEF p

\* A sequence is what is before its last element, and that.
LEMMA FrontAndLast ==
  ASSUME NEW S, NEW s \in Seq(S), s # <<>>
  PROVE  /\ Front(s) \in Seq(S) /\ Len(Front(s)) = Len(s) - 1
         /\ Last(s) \in S /\ Last(s) = s[Len(s)] /\ s = Append(Front(s), Last(s))
<1> DEFINE n == Len(s) - 1
<1>1. Len(s) \in Nat \ {0} /\ \A i \in 1 .. Len(s) : s[i] \in S
  BY EmptySeq, LenProperties
<1>2. 0 \in 0 .. Len(s) /\ n \in 0 .. Len(s) - 1 /\ n + 1 = Len(s) /\ n - 0 = n /\ 0 + 1 = 1
  BY <1>1
<1>3. Front(s) = SubSeq(s, 1, n) /\ Last(s) = s[Len(s)]
  BY DEF Front, Last
<1> HIDE DEF n
<1>4. /\ SubSeq(s, 1, n) \in Seq(S) /\ Len(SubSeq(s, 1, n)) = n
      /\ SubSeq(s, 1, Len(s)) = Append(SubSeq(s, 1, n), s[Len(s)])
  <2>1. /\ SubSeq(s, 0 + 1, n) \in Seq(S) /\ Len(SubSeq(s, 0 + 1, n)) = n - 0
        /\ SubSeq(s, 0 + 1, n + 1) = Append(SubSeq(s, 0 + 1, n), s[n + 1])
    BY <1>2, SubSeqGrows, Zenon
  <2> QED
    BY <1>2, <2>1, Zenon
<1>5. s[Len(s)] \in S
  BY <1>1
<1> QED
  BY <1>3, <1>4, <1>5, SubSeqFull, Zenon DEF n

\* Sequences over a larger set.
LEMMA SeqSubset ==
  ASSUME NEW S, NEW T, S \subseteq T
  PROVE  Seq(S) \subseteq Seq(T)
BY SeqMonotonic, Zenon

----------------------------------------------------------------------------
(* Recursion and joined sequences *)

\* f is given by recursion along 0 .. n: from z on, the i-th step is G.
Recursive(f, n, z, G) == f[0] = z /\ \A i \in 1 .. n : f[i] = G[<<i, f[i - 1]>>]

LEMMA RecursionExists ==
  ASSUME NEW n \in Nat, NEW S, NEW z \in S, NEW G \in [(1 .. n) \X S -> S]
  PROVE  \E f \in [0 .. n -> S] : Recursive(f, n, z, G)
<1> DEFINE K == {k \in 0 .. n : \E f \in [0 .. k -> S] : Recursive(f, k, z, G)}
<1>1. 0 \in K
  <2> DEFINE f == [i \in 0 .. 0 |-> z]
  <2>1. f \in [0 .. 0 -> S] /\ f[0] = z
    OBVIOUS
  <2> HIDE DEF f
  <2>2. Recursive(f, 0, z, G)
    BY <2>1 DEF Recursive
  <2> QED
    BY <2>1, <2>2
<1>2. ASSUME NEW k \in 0 .. n - 1, k \in K PROVE k + 1 \in K
  <2>1. PICK f \in [0 .. k -> S] : Recursive(f, k, z, G)
    BY <1>2
  <2> DEFINE g == [i \in 0 .. k + 1 |-> IF i = k + 1 THEN G[<<k + 1, f[k]>>] ELSE f[i]]
  <2>2. G[<<k + 1, f[k]>>] \in S
    <3>1. <<k + 1, f[k]>> \in (1 .. n) \X S
      OBVIOUS
    <3> QED
      BY <3>1
  <2>3. g \in [0 .. k + 1 -> S]
    BY <2>2
  <2>4. g[k + 1] = G[<<k + 1, f[k]>>] /\ \A i \in 0 .. k : g[i] = f[i]
    OBVIOUS
  <2> HIDE DEF g
  <2>5. ASSUME NEW i \in 1 .. k + 1 PROVE g[i] = G[<<i, g[i - 1]>>]
    <3>1. CASE i = k + 1
      <4>1. i - 1 = k /\ k \in 0 .. k
        BY <3>1
      <4> QED
        BY <3>1, <4>1, <2>4, Zenon
    <3>2. CASE i # k + 1
      <4>1. i \in 1 .. k /\ i - 1 \in 0 .. k /\ i \in 0 .. k
        BY <3>2
      <4>2. f[i] = G[<<i, f[i - 1]>>]
        BY <4>1, <2>1, Zenon DEF Recursive
      <4> QED
        BY <4>1, <4>2, <2>4, Zenon
    <3> QED
      BY <3>1, <3>2
  <2>6. 0 \in 0 .. k /\ k + 1 \in 0 .. n
    OBVIOUS
  <2>7. Recursive(g, k + 1, z, G)
    BY <2>1, <2>4, <2>5, <2>6, Zenon DEF Recursive
  <2> QED
    BY <2>3, <2>6, <2>7
<1> HIDE DEF K
<1>3. n \in K
  <2>1. n \in 0 .. n
    OBVIOUS
  <2> QED
    BY <1>1, <1>2, <2>1, UpTo, Zenon
<1> QED
  BY <1>3 DEF K

\* FlattenSeq as the last value of a function on the prefixes.
LEMMA FlattenIs ==
  ASSUME NEW S, NEW ss \in Seq(Seq(S))
  PROVE  \E f \in [0 .. Len(ss) -> Seq(S)] :
           /\ f[0] = <<>> /\ \A i \in 1 .. Len(ss) : f[i] = f[i - 1] \o ss[i]
           /\ FlattenSeq(ss) = f[Len(ss)]
<1> DEFINE n == Len(ss)
           G == [p \in (1 .. n) \X Seq(S) |-> p[2] \o ss[p[1]]]
<1>1. n \in Nat /\ (\A i \in 1 .. n : ss[i] \in Seq(S)) /\ <<>> \in Seq(S)
  BY LenProperties, EmptySeq
<1> HIDE DEF n
<1>2. G \in [(1 .. n) \X Seq(S) -> Seq(S)]
  <2>1. ASSUME NEW p \in (1 .. n) \X Seq(S) PROVE p[2] \o ss[p[1]] \in Seq(S)
    <3>1. p[2] \in Seq(S) /\ ss[p[1]] \in Seq(S)
      BY <1>1
    <3> QED
      BY <3>1, ConcatProperties
  <2> QED
    BY <2>1, Zenon
<1>3. ASSUME NEW i \in 1 .. n, NEW s \in Seq(S) PROVE G[<<i, s>>] = s \o ss[i]
  OBVIOUS
<1> HIDE DEF G
<1>3a. PICK f \in [0 .. n -> Seq(S)] : Recursive(f, n, <<>>, G)
  BY <1>1, <1>2, RecursionExists, Zenon
<1>4. f[0] = <<>> /\ \A i \in 1 .. n : f[i] = G[<<i, f[i - 1]>>]
  BY <1>3a, Zenon DEF Recursive
<1>5. ASSUME NEW i \in 1 .. n PROVE f[i] = f[i - 1] \o ss[i]
  <2>1. i - 1 \in 0 .. n
    BY <1>1
  <2> QED
    BY <2>1, <1>3, <1>4
<1>6. CASE n = 0
  <2>1. ss = <<>>
    BY <1>6, EmptySeq DEF n
  <2>2. FlattenSeq(ss) = <<>>
    BY <1>6, <2>1, Zenon DEF FlattenSeq, n
  <2> QED
    BY <1>4, <1>5, <1>6, <2>2, Zenon DEF n
<1>7. CASE n # 0
  <2> DEFINE F == CHOOSE h : h = [i \in 1 .. n |-> IF i = 1 THEN ss[i] ELSE h[i - 1] \o ss[i]]
             h == [i \in 1 .. n |-> f[i]]
  <2>1. FlattenSeq(ss) = F[n]
    BY <1>7, Zenon DEF FlattenSeq, n
  <2>2. ASSUME NEW i \in 1 .. n PROVE h[i] = IF i = 1 THEN ss[i] ELSE h[i - 1] \o ss[i]
    <3>1. CASE i = 1
      <4>1. f[1] = f[0] \o ss[1] /\ ss[1] \in Seq(S)
        <5>1. 1 - 1 = 0
          OBVIOUS
        <5> QED
          BY <1>1, <1>5, <3>1, <5>1
      <4>2. <<>> \o ss[1] = ss[1]
        BY <4>1, ConcatEmptySeq
      <4> QED
        BY <3>1, <4>1, <4>2, <1>4, Zenon
    <3>2. CASE i # 1
      <4>1. i - 1 \in 1 .. n
        BY <1>1, <3>2
      <4>2. h[i - 1] = f[i - 1] /\ h[i] = f[i]
        BY <4>1, Zenon
      <4> QED
        BY <3>2, <4>2, <1>5, Zenon
    <3> QED
      BY <3>1, <3>2
  <2>3. h = [i \in 1 .. n |-> IF i = 1 THEN ss[i] ELSE h[i - 1] \o ss[i]]
    BY <2>2, Zenon
  <2> HIDE DEF h
  <2>4. F = [i \in 1 .. n |-> IF i = 1 THEN ss[i] ELSE F[i - 1] \o ss[i]]
    BY <2>3, Zenon
  <2> HIDE DEF F
  <2> DEFINE T == {k \in 0 .. n : k = 0 \/ F[k] = f[k]}
  <2>5. 0 \in T
    BY <1>1
  <2>6. ASSUME NEW k \in 0 .. n - 1, k \in T PROVE k + 1 \in T
    <3>1. k + 1 \in 1 .. n /\ k + 1 \in 0 .. n /\ (k + 1) - 1 = k
      BY <1>1
    <3>2. F[k + 1] = IF k + 1 = 1 THEN ss[k + 1] ELSE F[k] \o ss[k + 1]
      BY <2>4, <3>1, Zenon
    <3>3. f[k + 1] = f[k] \o ss[k + 1] /\ ss[k + 1] \in Seq(S)
      BY <1>1, <1>5, <3>1
    <3>4. k = 0 => f[k + 1] = ss[k + 1]
      BY <3>3, <1>4, ConcatEmptySeq
    <3>5. k # 0 => F[k] = f[k] /\ k + 1 # 1
      BY <2>6
    <3>6. F[k + 1] = f[k + 1]
      <4>1. CASE k = 0
        <5>1. k + 1 = 1
          BY <4>1
        <5> QED
          BY <3>2, <3>4, <4>1, <5>1, Zenon
      <4>2. CASE k # 0
        BY <3>2, <3>3, <3>5, <4>2, Zenon
      <4> QED
        BY <4>1, <4>2
    <3> QED
      BY <3>1, <3>6, Zenon
  <2> HIDE DEF T
  <2>7. n \in T
    <3>1. n \in 0 .. n
      BY <1>1
    <3> QED
      BY <1>1, <2>5, <2>6, <3>1, UpTo, Zenon
  <2>8. FlattenSeq(ss) = f[n]
    BY <1>7, <2>1, <2>7, Zenon DEF T
  <2> QED
    BY <1>4, <1>5, <2>8, Zenon DEF n
<1> QED
  BY <1>6, <1>7

\* Joined sequences are a sequence.
LEMMA FlattenSeqType ==
  ASSUME NEW S, NEW ss \in Seq(Seq(S))
  PROVE  FlattenSeq(ss) \in Seq(S)
<1>1. PICK f \in [0 .. Len(ss) -> Seq(S)] : FlattenSeq(ss) = f[Len(ss)]
  BY FlattenIs, Zenon
<1>2. Len(ss) \in 0 .. Len(ss)
  BY LenProperties
<1> QED
  BY <1>1, <1>2

\* One more sequence comes behind the others.
LEMMA FlattenLast ==
  ASSUME NEW S, NEW n \in Nat, NEW f \in [1 .. n -> Seq(S)], NEW g \in [1 .. n + 1 -> Seq(S)],
         \A i \in 1 .. n : g[i] = f[i]
  PROVE  FlattenSeq(g) = FlattenSeq(f) \o g[n + 1]
<1>1. f \in Seq(Seq(S)) /\ Len(f) = n
  <2> DEFINE Q == Seq(S)
  <2> HIDE DEF Q
  <2>1. f \in [1 .. n -> Q]
    BY DEF Q
  <2>2. f \in Seq(Q)
    BY <2>1, SeqDef
  <2>3. Len(f) = n
    BY <2>1, <2>2, LenProperties
  <2> QED
    BY <2>2, <2>3 DEF Q
<1>2. g \in Seq(Seq(S)) /\ Len(g) = n + 1
  <2> DEFINE Q == Seq(S)
             m == n + 1
  <2>0. m \in Nat /\ g \in [1 .. m -> Q]
    OBVIOUS
  <2> HIDE DEF Q, m
  <2>2. g \in Seq(Q)
    BY <2>0, SeqDef
  <2>3. Len(g) = m
    BY <2>0, <2>2, LenProperties
  <2> QED
    BY <2>2, <2>3 DEF Q, m
<1>3. PICK u \in [0 .. n -> Seq(S)] :
        /\ u[0] = <<>> /\ \A i \in 1 .. n : u[i] = u[i - 1] \o f[i]
        /\ FlattenSeq(f) = u[n]
  BY <1>1, FlattenIs
<1>3a. PICK v \in [0 .. Len(g) -> Seq(S)] :
        /\ v[0] = <<>> /\ \A i \in 1 .. Len(g) : v[i] = v[i - 1] \o g[i]
        /\ FlattenSeq(g) = v[Len(g)]
  BY <1>2, FlattenIs, Zenon
<1>4. /\ v[0] = <<>> /\ \A i \in 1 .. n + 1 : v[i] = v[i - 1] \o g[i]
      /\ FlattenSeq(g) = v[n + 1]
  BY <1>2, <1>3a, Zenon
<1> DEFINE K == {k \in 0 .. n : u[k] = v[k]}
<1>5. 0 \in K
  BY <1>3, <1>4
<1>6. ASSUME NEW k \in 0 .. n - 1, k \in K PROVE k + 1 \in K
  <2>1. k + 1 \in 1 .. n /\ k + 1 \in 1 .. n + 1 /\ (k + 1) - 1 = k /\ k + 1 \in 0 .. n
    OBVIOUS
  <2>2. u[k + 1] = u[k] \o f[k + 1] /\ v[k + 1] = v[k] \o g[k + 1] /\ g[k + 1] = f[k + 1]
    BY <1>3, <1>4, <2>1
  <2> QED
    BY <1>6, <2>1, <2>2
<1> HIDE DEF K
<1>7. n \in K
  <2>1. n \in 0 .. n
    OBVIOUS
  <2> QED
    BY <1>5, <1>6, <2>1, UpTo, Zenon
<1>8. v[n + 1] = v[n] \o g[n + 1] /\ u[n] = v[n]
  <2>1. n + 1 \in 1 .. n + 1 /\ (n + 1) - 1 = n
    OBVIOUS
  <2> QED
    BY <1>4, <1>7, <2>1 DEF K
<1> QED
  BY <1>3, <1>4, <1>8

\* Nothing joined is nothing.
LEMMA FlattenNone == FlattenSeq(<<>>) = <<>>
BY EmptySeq DEF FlattenSeq

----------------------------------------------------------------------------
(* Runs of bytes *)

\* A sequence of numbers given by its elements.
LEMMA SeqOfNats ==
  ASSUME NEW n \in Nat, NEW f \in [1 .. n -> Nat]
  PROVE  f \in Seq(Nat) /\ Len(f) = n
<1>1. f \in Seq(Nat)
  BY SeqDef
<1> QED
  BY <1>1, LenProperties

\* The elements behind the a-th one up to the b-th one.
LEMMA SubSeqNats ==
  ASSUME NEW s \in Seq(Nat), NEW a \in 0 .. Len(s), NEW b \in a .. Len(s)
  PROVE  /\ SubSeq(s, a + 1, b) \in Seq(Nat)
         /\ Len(SubSeq(s, a + 1, b)) = b - a
         /\ \A k \in 1 .. b - a : SubSeq(s, a + 1, b)[k] = s[a + k]
<1> DEFINE v == SubSeq(s, a + 1, b)
<1>1. Len(s) \in Nat /\ s \in [1 .. Len(s) -> Nat]
  BY LenProperties
<1>2. /\ a + 1 \in Int /\ b \in Int
      /\ \A k \in a + 1 .. b : s[k] \in Nat
  BY <1>1
<1>3. /\ v \in Seq(Nat)
      /\ Len(v) = IF a + 1 <= b THEN (b - (a + 1)) + 1 ELSE 0
      /\ \A k \in 1 .. (b - (a + 1)) + 1 : v[k] = s[(a + 1) + k - 1]
  BY <1>2, SubSeqProperties, SMTT(30)
<1> HIDE DEF v
<1>4. /\ v \in Seq(Nat)
      /\ Len(v) = b - a
      /\ \A k \in 1 .. b - a : v[k] = s[a + k]
  BY <1>1, <1>3, SMTT(30)
<1> QED
  BY <1>4 DEF v

\* A run is a sequence of positions.
LEMMA BytesSeq ==
  ASSUME NEW a \in Nat, NEW n \in Nat
  PROVE  /\ Bytes(a, n) \in Seq(Nat)
         /\ Len(Bytes(a, n)) = n
         /\ \A k \in 1 .. n : Bytes(a, n)[k] = a + k
<1>1. Bytes(a, n) \in [1 .. n -> Nat]
  BY DEF Bytes
<1>2. Bytes(a, n) \in Seq(Nat)
  BY <1>1, SeqDef
<1>3. Len(Bytes(a, n)) = n
  BY <1>1, <1>2, LenProperties
<1> QED
  BY <1>2, <1>3 DEF Bytes

\* Two adjacent runs make one.
LEMMA BytesConcat ==
  ASSUME NEW a \in Nat, NEW n \in Nat, NEW k \in Nat
  PROVE  Bytes(a, n) \o Bytes(a + n, k) = Bytes(a, n + k)
<1> DEFINE s == Bytes(a, n)
           t == Bytes(a + n, k)
           u == Bytes(a, n + k)
<1>1. s \in Seq(Nat) /\ Len(s) = n /\ \A j \in 1 .. n : s[j] = a + j
  BY BytesSeq
<1>2. t \in Seq(Nat) /\ Len(t) = k /\ \A j \in 1 .. k : t[j] = a + n + j
  <2>1. a + n \in Nat
    OBVIOUS
  <2> QED
    BY <2>1, BytesSeq
<1>3. u \in Seq(Nat) /\ Len(u) = n + k /\ \A j \in 1 .. n + k : u[j] = a + j
  <2>1. n + k \in Nat
    OBVIOUS
  <2> QED
    BY <2>1, BytesSeq
<1> HIDE DEF s, t, u
<1>4. /\ s \o t \in Seq(Nat)
      /\ Len(s \o t) = n + k
      /\ \A j \in 1 .. n + k : (s \o t)[j] = IF j <= n THEN s[j] ELSE t[j - n]
  BY <1>1, <1>2, ConcatProperties, ZenonT(40)
<1>5. ASSUME NEW j \in 1 .. n + k PROVE (s \o t)[j] = u[j]
  <2>1. CASE j <= n
    BY <2>1, <1>1, <1>3, <1>4
  <2>2. CASE ~(j <= n)
    <3>1. j - n \in 1 .. k
      BY <2>2
    <3>2. t[j - n] = a + n + (j - n)
      BY <3>1, <1>2
    <3>3. u[j] = a + j /\ (s \o t)[j] = t[j - n]
      BY <2>2, <1>3, <1>4
    <3> QED
      BY <3>2, <3>3
  <2> QED
    BY <2>1, <2>2
<1>6. s \o t = u
  BY <1>3, <1>4, <1>5, SeqEqual
<1> QED
  BY <1>6 DEF s, t, u

\* A piece of a run is a run.
LEMMA BytesSub ==
  ASSUME NEW a \in Nat, NEW n \in Nat, NEW i \in 0 .. n, NEW j \in i .. n
  PROVE  SubSeq(Bytes(a, n), i + 1, j) = Bytes(a + i, j - i)
<1> DEFINE s == Bytes(a, n)
           u == Bytes(a + i, j - i)
           v == SubSeq(s, i + 1, j)
<1>1. s \in Seq(Nat) /\ Len(s) = n /\ \A k \in 1 .. n : s[k] = a + k
  BY BytesSeq
<1>2. u \in Seq(Nat) /\ Len(u) = j - i /\ \A k \in 1 .. j - i : u[k] = a + i + k
  <2>1. a + i \in Nat /\ j - i \in Nat
    OBVIOUS
  <2> QED
    BY <2>1, BytesSeq
<1> HIDE DEF s, u
<1>3. /\ v \in Seq(Nat)
      /\ Len(v) = j - i
      /\ \A k \in 1 .. j - i : v[k] = s[i + k]
  BY <1>1, SubSeqNats, Zenon
<1> HIDE DEF v
<1>4. ASSUME NEW k \in 1 .. j - i PROVE v[k] = u[k]
  <2>1. i + k \in 1 .. n
    OBVIOUS
  <2> QED
    BY <2>1, <1>1, <1>2, <1>3
<1>5. v = u
  BY <1>2, <1>3, <1>4, SeqEqual
<1> QED
  BY <1>5 DEF s, u, v

\* The two pieces of a run cut after d bytes.
LEMMA BytesSplit ==
  ASSUME NEW a \in Nat, NEW n \in Nat, NEW d \in 0 .. n
  PROVE  /\ SubSeq(Bytes(a, n), 1, d) = Bytes(a, d)
         /\ SubSeq(Bytes(a, n), d + 1, n) = Bytes(a + d, n - d)
<1>1. /\ 0 \in 0 .. n /\ n \in d .. n
      /\ 0 + 1 = 1 /\ a + 0 = a /\ d - 0 = d
  OBVIOUS
<1>2. SubSeq(Bytes(a, n), 0 + 1, d) = Bytes(a + 0, d - 0)
  BY <1>1, BytesSub, Zenon
<1>3. SubSeq(Bytes(a, n), d + 1, n) = Bytes(a + d, n - d)
  BY <1>1, BytesSub, Zenon
<1>4. SubSeq(Bytes(a, n), 0 + 1, d) = SubSeq(Bytes(a, n), 1, d)
  BY <1>1, Zenon
<1> QED
  BY <1>1, <1>2, <1>3, <1>4, Zenon
=============================================================================
