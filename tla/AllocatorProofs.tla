-------------------------- MODULE AllocatorProofs --------------------------
(***************************************************************************)
(* Proofs about Allocator: the blocks tile the active half, free ones are  *)
(* joined and counted, no request that the counter admits is lost, a block *)
(* moves only if it must, and its owner sees an array of its own.          *)
(***************************************************************************)
EXTENDS Allocator, SequenceLemmas, FiniteSetTheorems

----------------------------------------------------------------------------
(* Lists of blocks *)

Blocks == [ptr : Nat, size : Nat, owner : Handles \cup {NoOne}]

FreeCells(b) == IF free(b) THEN b.size ELSE 0

\* The i-th block ends at e[i], and f[i] cells in front of e[i] are free.
Marks(bs, e, f) ==
  /\ e \in [0 .. Len(bs) -> Int] /\ f \in [0 .. Len(bs) -> Int] /\ f[0] = 0
  /\ \A i \in 1 .. Len(bs) : /\ bs[i].ptr = e[i - 1]
                             /\ e[i] = e[i - 1] + bs[i].size
                             /\ f[i] = f[i - 1] + FreeCells(bs[i])

\* The blocks lie one after the other from p to q, and n cells are free.
Run(bs, p, q, n) ==
  /\ bs \in Seq(Blocks)
  /\ \E e, f : Marks(bs, e, f) /\ e[0] = p /\ e[Len(bs)] = q /\ f[Len(bs)] = n

Used(bs) == {bs[i] : i \in InUse(bs)}
Owners(bs) == {bs[i].owner : i \in InUse(bs)}

\* Who has how much.
Sizes(bs) == {<<bs[i].owner, bs[i].size>> : i \in InUse(bs)}

\* Only the pairs of S may be free neighbours; the k-th pair is the k-th block
\* and the one behind it.
JoinedBut(bs, S) ==
  \A k \in (1 .. Len(bs) - 1) \ S : ~(free(bs[k]) /\ free(bs[k + 1]))

\* No handle has two blocks.
Owned(bs) == \A i, j \in InUse(bs) : bs[i].owner = bs[j].owner => i = j

\* A list of blocks in use.
Packed(bs, p, q) == Run(bs, p, q, 0) /\ Owned(bs) /\ InUse(bs) = 1 .. Len(bs)

LEMMA Fields ==
  ASSUME NEW bs \in Seq(Blocks)
  PROVE  /\ Len(bs) \in Nat
         /\ \A i \in 1 .. Len(bs) : /\ bs[i] \in Blocks /\ bs[i].ptr \in Nat /\ bs[i].size \in Nat
                                    /\ bs[i].owner \in Handles \cup {NoOne}
                                    /\ FreeCells(bs[i]) \in Nat /\ FreeCells(bs[i]) <= bs[i].size
<1>1. Len(bs) \in Nat /\ \A i \in 1 .. Len(bs) : bs[i] \in Blocks
  BY LenProperties
<1>2. ASSUME NEW b \in Blocks
      PROVE  /\ b.ptr \in Nat /\ b.size \in Nat /\ b.owner \in Handles \cup {NoOne}
             /\ FreeCells(b) \in Nat /\ FreeCells(b) <= b.size
  BY DEF Blocks, FreeCells
<1> QED
  BY <1>1, <1>2

\* The blocks in front of the i-th stay, n are replaced, and the others move up
\* or down.
LEMMA SpliceIs ==
  ASSUME NEW bs \in Seq(Blocks), NEW i \in 1 .. Len(bs), NEW n \in 0 .. Len(bs) - i + 1,
         NEW new \in Seq(Blocks)
  PROVE  /\ Splice(bs, i, n, new) \in Seq(Blocks)
         /\ Len(Splice(bs, i, n, new)) = (Len(bs) - n) + Len(new)
         /\ \A k \in 1 .. i - 1 : Splice(bs, i, n, new)[k] = bs[k]
         /\ \A k \in 1 .. Len(new) : Splice(bs, i, n, new)[(i - 1) + k] = new[k]
         /\ \A k \in i + n .. Len(bs) : Splice(bs, i, n, new)[(k - n) + Len(new)] = bs[k]
<1> DEFINE a == SubSeq(bs, 1, i - 1)
           c == SubSeq(bs, i + n, Len(bs))
           l == Len(bs)
           m == Len(new)
<1>1. l \in Nat /\ m \in Nat /\ \A k \in 1 .. l : bs[k] \in Blocks
  BY LenProperties
<1>2. /\ a \in Seq(Blocks) /\ Len(a) = IF 1 <= i - 1 THEN (i - 1) - 1 + 1 ELSE 0
      /\ \A k \in 1 .. (i - 1) - 1 + 1 : a[k] = bs[1 + k - 1]
  <2>1. 1 \in Int /\ i - 1 \in Int /\ \A k \in 1 .. i - 1 : bs[k] \in Blocks
    BY <1>1
  <2> QED
    BY <2>1, SubSeqProperties
<1>3. /\ c \in Seq(Blocks) /\ Len(c) = IF i + n <= l THEN l - (i + n) + 1 ELSE 0
      /\ \A k \in 1 .. l - (i + n) + 1 : c[k] = bs[(i + n) + k - 1]
  <2>1. i + n \in Int /\ Len(bs) \in Int /\ \A k \in i + n .. Len(bs) : bs[k] \in Blocks
    BY <1>1
  <2> QED
    BY <2>1, SubSeqProperties
<1> HIDE DEF a, c
<1>4. Len(a) = i - 1 /\ Len(c) = (l - i) - n + 1
  <2>1. i \in Nat /\ n \in Nat /\ 1 <= i /\ i + n <= l + 1
    BY <1>1
  <2>2. Len(a) = IF 1 <= i - 1 THEN (i - 1) - 1 + 1 ELSE 0
    BY <1>2
  <2>3. Len(c) = IF i + n <= l THEN l - (i + n) + 1 ELSE 0
    BY <1>3
  <2> HIDE DEF l
  <2> QED
    BY <1>1, <2>1, <2>2, <2>3
<1>5. Splice(bs, i, n, new) = (a \o new) \o c
  BY DEF Splice, a, c
<1>6. /\ a \o new \in Seq(Blocks) /\ Len(a \o new) = (i - 1) + m
      /\ \A k \in 1 .. (i - 1) + m :
           (a \o new)[k] = IF k <= i - 1 THEN a[k] ELSE new[k - (i - 1)]
  <2>1. /\ a \o new \in Seq(Blocks) /\ Len(a \o new) = Len(a) + Len(new)
        /\ \A k \in 1 .. Len(a) + Len(new) :
             (a \o new)[k] = IF k <= Len(a) THEN a[k] ELSE new[k - Len(a)]
    BY <1>2, ConcatProperties
  <2> QED
    BY <1>4, <2>1, Zenon
<1> DEFINE d == a \o new
           r == d \o c
<1>7. /\ r \in Seq(Blocks) /\ Len(r) = Len(d) + Len(c)
      /\ \A k \in 1 .. Len(d) + Len(c) : r[k] = IF k <= Len(d) THEN d[k] ELSE c[k - Len(d)]
  <2> HIDE DEF d
  <2>1. d \in Seq(Blocks) /\ c \in Seq(Blocks)
    BY <1>3, <1>6 DEF d
  <2> QED
    BY <2>1, ConcatProperties
<1>8. Splice(bs, i, n, new) = r /\ d \in Seq(Blocks) /\ Len(d) = (i - 1) + m
  BY <1>5, <1>6
<1>9. \A k \in 1 .. (i - 1) + m : d[k] = IF k <= i - 1 THEN a[k] ELSE new[k - (i - 1)]
  BY <1>6
<1> HIDE DEF d, r, l, m
<1>10. Len(r) = (l - n) + m
  BY <1>1, <1>4, <1>7, <1>8
<1>11. ASSUME NEW k \in 1 .. i - 1 PROVE r[k] = bs[k]
  <2>1. k \in 1 .. (i - 1) + m /\ k \in 1 .. Len(d) + Len(c) /\ k <= Len(d) /\ k <= i - 1
    BY <1>1, <1>4, <1>8 DEF l
  <2>2. a[k] = bs[1 + k - 1] /\ 1 + k - 1 = k
    BY <1>2
  <2> QED
    BY <1>7, <1>9, <2>1, <2>2
<1>12. ASSUME NEW k \in 1 .. m PROVE r[(i - 1) + k] = new[k]
  <2>1. /\ (i - 1) + k \in 1 .. (i - 1) + m /\ (i - 1) + k \in 1 .. Len(d) + Len(c)
        /\ (i - 1) + k <= Len(d) /\ ~((i - 1) + k <= i - 1) /\ ((i - 1) + k) - (i - 1) = k
    BY <1>1, <1>4, <1>8, <1>12 DEF l
  <2> QED
    BY <1>7, <1>9, <2>1
<1>13. ASSUME NEW k \in i + n .. l PROVE r[(k - n) + m] = bs[k]
  <2> DEFINE j == (k - n) + m
  <2>1. /\ j \in 1 .. Len(d) + Len(c) /\ ~(j <= Len(d))
        /\ j - Len(d) = k - (i + n) + 1
    BY <1>1, <1>4, <1>8, <1>13 DEF l
  <2>2. r[j] = c[k - (i + n) + 1]
    <3> HIDE DEF j
    <3> QED
      BY <1>7, <2>1
  <2>3. k - (i + n) + 1 \in 1 .. l - (i + n) + 1 /\ (i + n) + (k - (i + n) + 1) - 1 = k
    BY <1>1, <1>13 DEF l
  <2> QED
    BY <1>3, <2>2, <2>3
<1> QED
  BY <1>7, <1>8, <1>10, <1>11, <1>12, <1>13 DEF l, m

\* The list r is bs with n of its blocks, from the i-th on, replaced.
Spliced(bs, i, n, new, r) ==
  /\ r \in Seq(Blocks) /\ Len(r) = (Len(bs) - n) + Len(new)
  /\ \A k \in 1 .. i - 1 : r[k] = bs[k]
  /\ \A k \in 1 .. Len(new) : r[(i - 1) + k] = new[k]
  /\ \A k \in i + n .. Len(bs) : r[(k - n) + Len(new)] = bs[k]

\* The same as SpliceIs.
LEMMA SplicesTo ==
  ASSUME NEW bs, NEW i, NEW n, NEW new, bs \in Seq(Blocks), i \in 1 .. Len(bs),
         n \in 0 .. Len(bs) - i + 1, new \in Seq(Blocks), NEW r, r = Splice(bs, i, n, new)
  PROVE  Spliced(bs, i, n, new, r)
<1>1. Spliced(bs, i, n, new, Splice(bs, i, n, new))
  BY SpliceIs, Zenon DEF Spliced
<1> QED
  BY <1>1, Zenon

\* A block is cut in two.
LEMMA SplitIs ==
  ASSUME NEW bs \in Seq(Blocks), NEW i \in 1 .. Len(bs), NEW a \in Blocks, NEW b \in Blocks,
         NEW r, r = Splice(bs, i, 1, <<a, b>>)
  PROVE  /\ r \in Seq(Blocks) /\ Len(r) = Len(bs) + 1
         /\ \A k \in 1 .. i - 1 : r[k] = bs[k]
         /\ r[i] = a /\ r[i + 1] = b
         /\ \A k \in i + 1 .. Len(bs) : r[k + 1] = bs[k]
<1> DEFINE new == <<a, b>>
<1>1. new \in Seq(Blocks) /\ Len(new) = 2 /\ new[1] = a /\ new[2] = b
  OBVIOUS
<1>2. Len(bs) \in Nat /\ 1 \in 0 .. Len(bs) - i + 1
  BY Fields
<1> HIDE DEF new
<1>3. /\ r \in Seq(Blocks) /\ Len(r) = (Len(bs) - 1) + Len(new)
      /\ \A k \in 1 .. i - 1 : r[k] = bs[k]
      /\ \A k \in 1 .. Len(new) : r[(i - 1) + k] = new[k]
      /\ \A k \in i + 1 .. Len(bs) : r[(k - 1) + Len(new)] = bs[k]
  <2>1. r = Splice(bs, i, 1, new)
    BY DEF new
  <2>2. Spliced(bs, i, 1, new, r)
    BY <1>1, <1>2, <2>1, SplicesTo, Zenon
  <2> QED
    BY ONLY <2>2 DEF Spliced
<1>4. Len(r) = Len(bs) + 1
  BY <1>1, <1>2, <1>3
<1>5. r[i] = a /\ r[i + 1] = b
  <2>1. (i - 1) + 1 = i /\ (i - 1) + 2 = i + 1 /\ 1 \in 1 .. 2 /\ 2 \in 1 .. 2
    OBVIOUS
  <2>2. r[(i - 1) + 1] = new[1] /\ r[(i - 1) + 2] = new[2]
    BY <1>1, <1>3, <2>1
  <2> QED
    BY <1>1, <2>1, <2>2
<1>6. ASSUME NEW k \in i + 1 .. Len(bs) PROVE r[k + 1] = bs[k]
  <2>1. (k - 1) + Len(new) = k + 1
    BY <1>1, <1>2
  <2> QED
    BY <1>3, <2>1
<1> QED
  BY <1>3, <1>4, <1>5, <1>6

\* The list r is bs with a in place of its i-th block and the one behind it.
Merged(bs, i, a, r) ==
  /\ r \in Seq(Blocks) /\ Len(r) = Len(bs) - 1
  /\ \A k \in 1 .. i - 1 : r[k] = bs[k]
  /\ r[i] = a
  /\ \A k \in i + 2 .. Len(bs) : r[k - 1] = bs[k]

\* Two blocks become one.
LEMMA MergeIs ==
  ASSUME NEW bs, NEW i, NEW a, bs \in Seq(Blocks), i \in 1 .. Len(bs) - 1, a \in Blocks,
         NEW r, r = Splice(bs, i, 2, <<a>>)
  PROVE  Merged(bs, i, a, r)
<1> DEFINE new == <<a>>
<1>1. new \in Seq(Blocks) /\ Len(new) = 1 /\ new[1] = a
  OBVIOUS
<1>2. Len(bs) \in Nat /\ i \in 1 .. Len(bs) /\ 2 \in 0 .. Len(bs) - i + 1
  BY Fields
<1> HIDE DEF new
<1>3. /\ r \in Seq(Blocks) /\ Len(r) = (Len(bs) - 2) + Len(new)
      /\ \A k \in 1 .. i - 1 : r[k] = bs[k]
      /\ \A k \in 1 .. Len(new) : r[(i - 1) + k] = new[k]
      /\ \A k \in i + 2 .. Len(bs) : r[(k - 2) + Len(new)] = bs[k]
  <2>1. r = Splice(bs, i, 2, new)
    BY DEF new
  <2>2. Spliced(bs, i, 2, new, r)
    BY <1>1, <1>2, <2>1, SplicesTo, Zenon
  <2> QED
    BY ONLY <2>2 DEF Spliced
<1>4. Len(r) = Len(bs) - 1
  BY <1>1, <1>2, <1>3
<1>5. r[i] = a
  <2>1. (i - 1) + 1 = i /\ 1 \in 1 .. 1
    OBVIOUS
  <2>2. r[(i - 1) + 1] = new[1]
    BY <1>1, <1>3, <2>1
  <2> QED
    BY <1>1, <2>1, <2>2
<1>6. ASSUME NEW k \in i + 2 .. Len(bs) PROVE r[k - 1] = bs[k]
  <2>1. (k - 2) + Len(new) = k - 1
    BY <1>1, <1>2
  <2> QED
    BY <1>3, <2>1
<1> QED
  BY <1>3, <1>4, <1>5, <1>6 DEF Merged

\* What a run says of its ends and of the blocks in it.
LEMMA RunFacts ==
  ASSUME NEW bs, NEW p \in Int, NEW q, NEW n, Run(bs, p, q, n)
  PROVE  /\ q \in Int /\ n \in Int /\ 0 <= n /\ n <= q - p
         /\ \A i \in 1 .. Len(bs) : p <= bs[i].ptr /\ bs[i].ptr + bs[i].size <= q
         /\ Len(bs) # 0 => bs[1].ptr = p /\ bs[Len(bs)].ptr + bs[Len(bs)].size = q
         /\ \A i \in 1 .. Len(bs) - 1 : bs[i + 1].ptr = bs[i].ptr + bs[i].size
<1>1. PICK e, f : Marks(bs, e, f) /\ e[0] = p /\ e[Len(bs)] = q /\ f[Len(bs)] = n
  BY DEF Run
<1> DEFINE l == Len(bs)
<1>2. bs \in Seq(Blocks) /\ l \in Nat
  BY Fields DEF Run
<1>3. \A i \in 1 .. l : /\ bs[i].ptr \in Nat /\ bs[i].size \in Nat
                        /\ FreeCells(bs[i]) \in Nat /\ FreeCells(bs[i]) <= bs[i].size
  BY <1>2, Fields
<1>4. /\ \A i \in 0 .. l : e[i] \in Int /\ f[i] \in Int
      /\ f[0] = 0 /\ e[0] = p /\ e[l] = q /\ f[l] = n
      /\ \A i \in 1 .. l : /\ bs[i].ptr = e[i - 1] /\ e[i] = e[i - 1] + bs[i].size
                           /\ f[i] = f[i - 1] + FreeCells(bs[i])
  BY <1>1 DEF Marks
<1> HIDE DEF l
<1>5. \A i \in 0 .. l : p <= e[i] /\ 0 <= f[i] /\ f[i] <= e[i] - p
  <2> DEFINE S == {i \in 0 .. l : p <= e[i] /\ 0 <= f[i] /\ f[i] <= e[i] - p}
  <2>1. 0 \in S
    BY <1>2, <1>4
  <2>2. ASSUME NEW i \in 0 .. l - 1, i \in S PROVE i + 1 \in S
    <3>1. i + 1 \in 1 .. l /\ (i + 1) - 1 = i /\ i + 1 \in 0 .. l /\ i \in 0 .. l
      BY <1>2
    <3>2. e[i + 1] = e[i] + bs[i + 1].size /\ f[i + 1] = f[i] + FreeCells(bs[i + 1])
      BY <1>4, <3>1
    <3>3. /\ e[i] \in Int /\ f[i] \in Int /\ bs[i + 1].size \in Nat /\ FreeCells(bs[i + 1]) \in Nat
          /\ FreeCells(bs[i + 1]) <= bs[i + 1].size
      BY <1>3, <1>4, <3>1, Zenon
    <3>4. p <= e[i] /\ 0 <= f[i] /\ f[i] <= e[i] - p
      BY <2>2, Zenon
    <3>5. \A a, b, c, d \in Int :
            (p <= a /\ 0 <= b /\ b <= a - p /\ 0 <= d /\ d <= c)
            => p <= a + c /\ 0 <= b + d /\ b + d <= (a + c) - p
      OBVIOUS
    <3>6. p <= e[i + 1] /\ 0 <= f[i + 1] /\ f[i + 1] <= e[i + 1] - p
      <4> HIDE DEF S
      <4>1. bs[i + 1].size \in Int /\ FreeCells(bs[i + 1]) \in Int /\ 0 <= FreeCells(bs[i + 1])
        BY <3>3
      <4>2. /\ p <= e[i] + bs[i + 1].size /\ 0 <= f[i] + FreeCells(bs[i + 1])
            /\ f[i] + FreeCells(bs[i + 1]) <= (e[i] + bs[i + 1].size) - p
        BY <3>3, <3>4, <3>5, <4>1, Zenon
      <4> QED
        BY <3>2, <4>2, Zenon
    <3> QED
      BY <3>1, <3>6
  <2>3. 0 .. l \subseteq S
    <3> HIDE DEF S
    <3> QED
      BY <1>2, <2>1, <2>2, UpTo
  <2> QED
    BY <2>3
<1>6. \A i \in 0 .. l : e[i] <= q
  <2> DEFINE S == {i \in 0 .. l : e[l - i] <= q}
  <2>1. 0 \in S
    BY <1>2, <1>4
  <2>2. ASSUME NEW i \in 0 .. l - 1, i \in S PROVE i + 1 \in S
    <3> DEFINE j == l - i
    <3>1. j \in 1 .. l /\ j - 1 = l - (i + 1) /\ j - 1 \in 0 .. l /\ i + 1 \in 0 .. l /\ j \in 0 .. l
      BY <1>2
    <3>2. e[j] <= q
      BY <2>2
    <3> HIDE DEF j
    <3>3. e[j] = e[j - 1] + bs[j].size /\ e[j] \in Int /\ e[j - 1] \in Int /\ bs[j].size \in Nat
      BY <1>3, <1>4, <3>1
    <3>4. q \in Int
      BY <1>2, <1>4
    <3>5. e[j - 1] <= q
      BY <3>2, <3>3, <3>4
    <3> QED
      BY <3>1, <3>5
  <2>3. 0 .. l \subseteq S
    <3> HIDE DEF S
    <3> QED
      BY <1>2, <2>1, <2>2, UpTo
  <2>4. ASSUME NEW i \in 0 .. l PROVE e[i] <= q
    <3>1. l - i \in 0 .. l /\ l - (l - i) = i
      BY <1>2
    <3>2. e[l - (l - i)] <= q
      BY <2>3, <3>1
    <3> QED
      BY <3>1, <3>2, Zenon
  <2> QED
    BY <2>4
<1>7. q \in Int /\ n \in Int /\ 0 <= n /\ n <= q - p
  BY <1>2, <1>4, <1>5
<1>8. ASSUME NEW i \in 1 .. l PROVE p <= bs[i].ptr /\ bs[i].ptr + bs[i].size <= q
  <2>1. i \in 0 .. l /\ i - 1 \in 0 .. l
    BY <1>2
  <2>2. bs[i].ptr = e[i - 1] /\ e[i] = e[i - 1] + bs[i].size
    BY <1>4
  <2> QED
    BY <1>5, <1>6, <2>1, <2>2
<1>9. l # 0 => bs[1].ptr = p /\ bs[l].ptr + bs[l].size = q
  <2>1. l # 0 => 1 \in 1 .. l /\ 1 - 1 = 0 /\ l \in 1 .. l
    BY <1>2
  <2> QED
    BY <1>4, <2>1
<1>10. ASSUME NEW i \in 1 .. l - 1 PROVE bs[i + 1].ptr = bs[i].ptr + bs[i].size
  <2>1. i \in 1 .. l /\ i + 1 \in 1 .. l /\ (i + 1) - 1 = i
    BY <1>2
  <2> QED
    BY <1>4, <2>1
<1> QED
  BY <1>7, <1>8, <1>9, <1>10 DEF l

\* Two runs, one behind the other, are a run.
LEMMA RunConcat ==
  ASSUME NEW s, NEW t, NEW p, NEW m, NEW q, NEW x \in Int, NEW y \in Int,
         Run(s, p, m, x), Run(t, m, q, y)
  PROVE  Run(s \o t, p, q, x + y)
<1> DEFINE r == s \o t
           k == Len(s)
           l == Len(t)
<1>1. PICK e1, f1 : Marks(s, e1, f1) /\ e1[0] = p /\ e1[k] = m /\ f1[k] = x
  BY DEF Run
<1>2. PICK e2, f2 : Marks(t, e2, f2) /\ e2[0] = m /\ e2[l] = q /\ f2[l] = y
  BY DEF Run
<1>3. s \in Seq(Blocks) /\ t \in Seq(Blocks) /\ k \in Nat /\ l \in Nat
  BY Fields DEF Run
<1>4. /\ r \in Seq(Blocks) /\ Len(r) = k + l
      /\ \A i \in 1 .. k + l : r[i] = IF i <= k THEN s[i] ELSE t[i - k]
  BY <1>3, ConcatProperties
<1>5. /\ \A i \in 0 .. k : e1[i] \in Int /\ f1[i] \in Int
      /\ f1[0] = 0
      /\ \A i \in 1 .. k : /\ s[i].ptr = e1[i - 1] /\ e1[i] = e1[i - 1] + s[i].size
                           /\ f1[i] = f1[i - 1] + FreeCells(s[i])
  BY <1>1 DEF Marks
<1>6. /\ \A i \in 0 .. l : e2[i] \in Int /\ f2[i] \in Int
      /\ f2[0] = 0
      /\ \A i \in 1 .. l : /\ t[i].ptr = e2[i - 1] /\ e2[i] = e2[i - 1] + t[i].size
                           /\ f2[i] = f2[i - 1] + FreeCells(t[i])
  BY <1>2 DEF Marks
<1> HIDE DEF k, l, r
<1> DEFINE e == [i \in 0 .. k + l |-> IF i <= k THEN e1[i] ELSE e2[i - k]]
           f == [i \in 0 .. k + l |-> IF i <= k THEN f1[i] ELSE x + f2[i - k]]
<1>7. ASSUME NEW i \in 0 .. k + l
      PROVE  \/ i <= k /\ i \in 0 .. k
             \/ ~(i <= k) /\ i - k \in 0 .. l
  BY <1>3
<1>8. e \in [0 .. k + l -> Int] /\ f \in [0 .. k + l -> Int]
  <2>1. ASSUME NEW i \in 0 .. k + l PROVE e[i] \in Int /\ f[i] \in Int
    <3>1. CASE i <= k /\ i \in 0 .. k
      BY <1>5, <3>1
    <3>2. CASE ~(i <= k) /\ i - k \in 0 .. l
      <4>1. e[i] = e2[i - k] /\ f[i] = x + f2[i - k]
        BY <3>2
      <4>2. e2[i - k] \in Int /\ f2[i - k] \in Int
        BY <1>6, <3>2
      <4> QED
        BY <4>1, <4>2
    <3> QED
      BY <1>7, <3>1, <3>2
  <2> QED
    BY <2>1
<1>9. e[0] = p /\ f[0] = 0
  <2>1. 0 \in 0 .. k + l /\ 0 <= k
    BY <1>3
  <2> QED
    BY <1>1, <1>5, <2>1
<1>10. e[k] = m /\ f[k] = x
  <2>1. k \in 0 .. k + l /\ k <= k
    BY <1>3
  <2> QED
    BY <1>1, <2>1
<1>11. e[k + l] = q /\ f[k + l] = x + y
  <2>1. k + l \in 0 .. k + l
    BY <1>3
  <2>2. CASE l = 0
    <3>1. k + l = k /\ q = m /\ y = 0
      BY <1>2, <1>3, <1>6, <2>2
    <3> QED
      BY <1>10, <3>1
  <2>3. CASE l # 0
    <3>1. ~(k + l <= k) /\ (k + l) - k = l
      BY <1>3, <2>3
    <3> QED
      BY <1>2, <2>1, <3>1
  <2> QED
    BY <2>2, <2>3
<1>12. ASSUME NEW i \in 1 .. k + l
       PROVE  r[i].ptr = e[i - 1] /\ e[i] = e[i - 1] + r[i].size /\ f[i] = f[i - 1] + FreeCells(r[i])
  <2>0. i \in 0 .. k + l /\ i - 1 \in 0 .. k + l
    BY <1>3
  <2>1. CASE i <= k
    <3>1. i \in 1 .. k /\ i - 1 <= k /\ r[i] = s[i]
      BY <1>3, <1>4, <2>1
    <3>2. e[i] = e1[i] /\ f[i] = f1[i] /\ e[i - 1] = e1[i - 1] /\ f[i - 1] = f1[i - 1]
      BY <2>0, <2>1, <3>1
    <3> HIDE DEF e, f
    <3> QED
      BY <1>5, <3>1, <3>2
  <2>2. CASE ~(i <= k)
    <3> DEFINE j == i - k
    <3>1. j \in 1 .. l /\ r[i] = t[j] /\ j - 1 = (i - 1) - k /\ j \in 0 .. l /\ j - 1 \in 0 .. l
      BY <1>3, <1>4, <2>2
    <3>2. e[i] = e2[j] /\ f[i] = x + f2[j]
      BY <2>0, <2>2
    <3>3. e[i - 1] = e2[j - 1] /\ f[i - 1] = x + f2[j - 1]
      <4>1. CASE j = 1
        <5>1. i - 1 = k /\ j - 1 = 0
          BY <1>3, <4>1
        <5>2. e2[j - 1] = m /\ f2[j - 1] = 0
          BY <1>2, <1>6, <5>1
        <5> HIDE DEF e, f
        <5> QED
          BY <1>10, <5>1, <5>2
      <4>2. CASE j # 1
        <5>1. ~(i - 1 <= k)
          BY <1>3, <2>2, <4>2
        <5> QED
          BY <2>0, <3>1, <5>1
      <4> QED
        BY <4>1, <4>2
    <3> HIDE DEF e, f, j
    <3>4. /\ t[j].ptr = e2[j - 1] /\ e2[j] = e2[j - 1] + t[j].size
          /\ f2[j] = f2[j - 1] + FreeCells(t[j])
          /\ f2[j] \in Int /\ f2[j - 1] \in Int
      BY <1>6, <3>1
    <3>5. FreeCells(t[j]) \in Int
      BY <1>3, <3>1, Fields DEF l
    <3> QED
      BY <3>1, <3>2, <3>3, <3>4, <3>5
  <2> QED
    BY <2>1, <2>2
<1> HIDE DEF e, f
<1>13. Marks(r, e, f)
  BY <1>4, <1>8, <1>9, <1>12 DEF Marks
<1> QED
  BY <1>4, <1>9, <1>11, <1>13 DEF Run, r

\* A run is cut into two.
LEMMA RunCut ==
  ASSUME NEW s \in Seq(Blocks), NEW t \in Seq(Blocks), NEW p, NEW q, NEW n \in Int,
         Run(s \o t, p, q, n)
  PROVE  \E m, x \in Int : Run(s, p, m, x) /\ Run(t, m, q, n - x)
<1> DEFINE r == s \o t
           k == Len(s)
           l == Len(t)
<1>1. k \in Nat /\ l \in Nat
  BY Fields
<1>2. /\ r \in Seq(Blocks) /\ Len(r) = k + l
      /\ \A i \in 1 .. k + l : r[i] = IF i <= k THEN s[i] ELSE t[i - k]
  BY ConcatProperties
<1>3. PICK e, f : Marks(r, e, f) /\ e[0] = p /\ e[k + l] = q /\ f[k + l] = n
  BY <1>2 DEF Run
<1>4. /\ \A i \in 0 .. k + l : e[i] \in Int /\ f[i] \in Int
      /\ f[0] = 0
      /\ \A i \in 1 .. k + l : /\ r[i].ptr = e[i - 1] /\ e[i] = e[i - 1] + r[i].size
                               /\ f[i] = f[i - 1] + FreeCells(r[i])
  BY <1>2, <1>3 DEF Marks
<1>5. \A i \in 1 .. l : FreeCells(t[i]) \in Int
  BY Fields
<1> HIDE DEF k, l, r
<1>6. k \in 0 .. k + l /\ k + l \in 0 .. k + l /\ k + 0 = k
  BY <1>1
<1>7. f[k] \in Int /\ e[k] \in Int
  BY <1>4, <1>6
<1>8. Run(s, p, e[k], f[k])
  <2> DEFINE e1 == [i \in 0 .. k |-> e[i]]
             f1 == [i \in 0 .. k |-> f[i]]
  <2>1. e1 \in [0 .. k -> Int] /\ f1 \in [0 .. k -> Int] /\ f1[0] = 0 /\ e1[0] = p
        /\ e1[k] = e[k] /\ f1[k] = f[k]
    BY <1>1, <1>3, <1>4
  <2>2. ASSUME NEW i \in 1 .. k
        PROVE  s[i].ptr = e1[i - 1] /\ e1[i] = e1[i - 1] + s[i].size /\ f1[i] = f1[i - 1] + FreeCells(s[i])
    <3>1. i \in 1 .. k + l /\ i <= k /\ i \in 0 .. k /\ i - 1 \in 0 .. k
      BY <1>1
    <3>2. r[i] = s[i]
      BY <1>2, <3>1
    <3>3. e1[i] = e[i] /\ e1[i - 1] = e[i - 1] /\ f1[i] = f[i] /\ f1[i - 1] = f[i - 1]
      BY <3>1
    <3> HIDE DEF e1, f1
    <3> QED
      BY <1>4, <3>1, <3>2, <3>3
  <2> HIDE DEF e1, f1
  <2>3. Marks(s, e1, f1)
    BY <2>1, <2>2 DEF Marks, k
  <2> QED
    BY <2>1, <2>3 DEF Run, k
<1>9. Run(t, e[k], q, n - f[k])
  <2> DEFINE e2 == [i \in 0 .. l |-> e[k + i]]
             f2 == [i \in 0 .. l |-> f[k + i] - f[k]]
  <2>1. \A i \in 0 .. l : k + i \in 0 .. k + l
    BY <1>1
  <2>2. e2 \in [0 .. l -> Int] /\ f2 \in [0 .. l -> Int]
    <3>1. ASSUME NEW i \in 0 .. l PROVE e2[i] \in Int /\ f2[i] \in Int
      <4>1. e[k + i] \in Int /\ f[k + i] \in Int
        BY <1>4, <2>1
      <4> QED
        BY <1>7, <4>1
    <3> QED
      BY <3>1
  <2>3. 0 \in 0 .. l /\ l \in 0 .. l
    BY <1>1
  <2>4. f2[0] = 0 /\ e2[0] = e[k]
    BY <1>6, <1>7, <2>3
  <2>5. e2[l] = q /\ f2[l] = n - f[k]
    BY <1>3, <2>3
  <2>6. ASSUME NEW i \in 1 .. l
        PROVE  t[i].ptr = e2[i - 1] /\ e2[i] = e2[i - 1] + t[i].size /\ f2[i] = f2[i - 1] + FreeCells(t[i])
    <3> DEFINE j == k + i
    <3>1. j \in 1 .. k + l /\ ~(j <= k) /\ j - k = i /\ i \in 0 .. l /\ i - 1 \in 0 .. l
          /\ k + (i - 1) = j - 1 /\ j \in 0 .. k + l /\ j - 1 \in 0 .. k + l
      BY <1>1
    <3>3. e2[i] = e[j] /\ e2[i - 1] = e[k + (i - 1)] /\ f2[i] = f[j] - f[k] /\ f2[i - 1] = f[k + (i - 1)] - f[k]
      BY <3>1
    <3> HIDE DEF e2, f2, j
    <3>2. r[j] = t[i]
      BY <1>2, <3>1
    <3>4. e2[i - 1] = e[j - 1] /\ f2[i - 1] = f[j - 1] - f[k]
      BY <3>1, <3>3, Zenon
    <3>5. /\ t[i].ptr = e[j - 1] /\ e[j] = e[j - 1] + t[i].size
          /\ f[j] = f[j - 1] + FreeCells(t[i]) /\ f[j - 1] \in Int /\ f[j] \in Int
      BY <1>4, <3>1, <3>2
    <3>6. FreeCells(t[i]) \in Int
      BY <1>5
    <3>8. (f[j - 1] + FreeCells(t[i])) - f[k] = (f[j - 1] - f[k]) + FreeCells(t[i])
      <4> DEFINE x == f[j - 1]
                 y == FreeCells(t[i])
                 z == f[k]
      <4>1. x \in Int /\ y \in Int /\ z \in Int
        BY <1>7, <3>5, <3>6, Zenon
      <4> HIDE DEF x, y, z
      <4>2. (x + y) - z = (x - z) + y
        BY ONLY <4>1
      <4> QED
        BY <4>2, Zenon DEF x, y, z
    <3>9. f2[i] = f2[i - 1] + FreeCells(t[i])
      BY <3>3, <3>4, <3>5, <3>8, Zenon
    <3>10. t[i].ptr = e2[i - 1] /\ e2[i] = e2[i - 1] + t[i].size
      BY <3>3, <3>4, <3>5, Zenon
    <3> QED
      BY <3>9, <3>10
  <2> HIDE DEF e2, f2
  <2>7. Marks(t, e2, f2)
    BY <2>2, <2>4, <2>6 DEF Marks, l
  <2> QED
    BY <2>4, <2>5, <2>7 DEF Run, l
<1> QED
  BY <1>7, <1>8, <1>9

\* A run of one block.
LEMMA RunOne ==
  ASSUME NEW b \in Blocks, NEW p \in Int, NEW q, NEW n
  PROVE  Run(<<b>>, p, q, n) <=> p = b.ptr /\ q = b.ptr + b.size /\ n = FreeCells(b)
<1> DEFINE s == <<b>>
<1>1. s \in Seq(Blocks) /\ Len(s) = 1 /\ s[1] = b
  OBVIOUS
<1>2. b.ptr \in Nat /\ b.size \in Nat /\ FreeCells(b) \in Nat
  BY DEF Blocks, FreeCells
<1>3. ASSUME Run(s, p, q, n) PROVE p = b.ptr /\ q = b.ptr + b.size /\ n = FreeCells(b)
  <2> HIDE DEF s
  <2>1. PICK e, f : Marks(s, e, f) /\ e[0] = p /\ e[1] = q /\ f[1] = n
    BY <1>1, <1>3 DEF Run
  <2>2. 1 \in 1 .. 1 /\ 1 - 1 = 0 /\ f[0] = 0
    BY <2>1 DEF Marks
  <2>3. b.ptr = e[0] /\ e[1] = e[0] + b.size /\ f[1] = f[0] + FreeCells(b)
    BY <1>1, <2>1, <2>2 DEF Marks
  <2> QED
    BY <1>2, <2>1, <2>2, <2>3
<1>4. ASSUME p = b.ptr, q = b.ptr + b.size, n = FreeCells(b) PROVE Run(s, p, q, n)
  <2> DEFINE e == [i \in 0 .. 1 |-> IF i = 0 THEN p ELSE q]
             f == [i \in 0 .. 1 |-> IF i = 0 THEN 0 ELSE n]
  <2>1. /\ e \in [0 .. 1 -> Int] /\ f \in [0 .. 1 -> Int]
        /\ f[0] = 0 /\ e[0] = p /\ e[1] = q /\ f[1] = n
    BY <1>2, <1>4
  <2> HIDE DEF e, f, s
  <2>2. ASSUME NEW i \in 1 .. 1
        PROVE  s[i].ptr = e[i - 1] /\ e[i] = e[i - 1] + s[i].size /\ f[i] = f[i - 1] + FreeCells(s[i])
    <3>1. i = 1 /\ i - 1 = 0
      OBVIOUS
    <3>2. n = 0 + FreeCells(b)
      BY <1>2, <1>4
    <3> QED
      BY <1>1, <1>4, <2>1, <3>1, <3>2
  <2>3. Marks(s, e, f)
    BY <1>1, <2>1, <2>2 DEF Marks
  <2> QED
    BY <1>1, <2>1, <2>3 DEF Run
<1> QED
  BY <1>3, <1>4

\* A run of two blocks.
LEMMA RunTwo ==
  ASSUME NEW a \in Blocks, NEW b \in Blocks, NEW p \in Int, NEW q, NEW n \in Int
  PROVE  Run(<<a, b>>, p, q, n) <=>
           /\ p = a.ptr /\ b.ptr = a.ptr + a.size /\ q = b.ptr + b.size
           /\ n = FreeCells(a) + FreeCells(b)
<1>1. <<a>> \in Seq(Blocks) /\ <<b>> \in Seq(Blocks) /\ <<a>> \o <<b>> = <<a, b>>
  <2>1. <<a>> \in Seq(Blocks) /\ <<b>> \in Seq(Blocks)
    OBVIOUS
  <2> DEFINE s == <<a>>
             t == <<b>>
             u == <<a, b>>
  <2>2. /\ u \in Seq(Blocks) /\ Len(u) = 2 /\ u[1] = a /\ u[2] = b
        /\ Len(s) = 1 /\ s[1] = a /\ Len(t) = 1 /\ t[1] = b
    OBVIOUS
  <2> HIDE DEF s, t, u
  <2>3. s \in Seq(Blocks) /\ t \in Seq(Blocks)
    BY <2>1 DEF s, t
  <2>4. /\ s \o t \in Seq(Blocks) /\ Len(s \o t) = Len(s) + Len(t)
        /\ \A i \in 1 .. Len(s) + Len(t) : (s \o t)[i] = IF i <= Len(s) THEN s[i] ELSE t[i - Len(s)]
    BY <2>3, ConcatProperties
  <2>5. Len(s \o t) = Len(u) /\ \A i \in 1 .. Len(s \o t) : (s \o t)[i] = u[i]
    <3>1. Len(s) + Len(t) = 2 /\ 2 - Len(s) = 1
      BY <2>2
    <3>2. (s \o t)[1] = a /\ (s \o t)[2] = b
      BY <2>2, <2>4, <3>1
    <3>3. \A i \in 1 .. 2 : i = 1 \/ i = 2
      OBVIOUS
    <3> QED
      BY <2>2, <2>4, <3>1, <3>2, <3>3
  <2>6. s \o t = u
    BY ONLY <2>2, <2>4, <2>5, SeqEqual
  <2> QED
    BY <2>1, <2>6 DEF s, t, u
<1>2. /\ a.ptr \in Nat /\ a.size \in Nat /\ FreeCells(a) \in Nat
      /\ b.ptr \in Nat /\ b.size \in Nat /\ FreeCells(b) \in Nat
  BY DEF Blocks, FreeCells
<1>3. ASSUME Run(<<a, b>>, p, q, n)
      PROVE  /\ p = a.ptr /\ b.ptr = a.ptr + a.size /\ q = b.ptr + b.size
             /\ n = FreeCells(a) + FreeCells(b)
  <2>1. Run(<<a>> \o <<b>>, p, q, n)
    BY <1>1, <1>3, Zenon
  <2>2. PICK m, x \in Int : Run(<<a>>, p, m, x) /\ Run(<<b>>, m, q, n - x)
    BY <1>1, <2>1, RunCut
  <2>3. p = a.ptr /\ m = a.ptr + a.size /\ x = FreeCells(a)
    BY <2>2, RunOne
  <2>4. m = b.ptr /\ q = b.ptr + b.size /\ n - x = FreeCells(b)
    BY <2>2, RunOne
  <2> QED
    BY <1>2, <2>2, <2>3, <2>4
<1>4. ASSUME p = a.ptr, b.ptr = a.ptr + a.size, q = b.ptr + b.size, n = FreeCells(a) + FreeCells(b)
      PROVE  Run(<<a, b>>, p, q, n)
  <2>1. Run(<<a>>, p, a.ptr + a.size, FreeCells(a))
    BY <1>4, RunOne
  <2>2. Run(<<b>>, a.ptr + a.size, q, FreeCells(b))
    BY <1>2, <1>4, RunOne
  <2>3. Run(<<a>> \o <<b>>, p, q, FreeCells(a) + FreeCells(b))
    BY <1>2, <2>1, <2>2, RunConcat
  <2> QED
    BY <1>1, <1>4, <2>3
<1> QED
  BY <1>3, <1>4

\* The blocks in use of a list that is put together.
LEMMA UsedConcat ==
  ASSUME NEW s \in Seq(Blocks), NEW t \in Seq(Blocks)
  PROVE  /\ Used(s \o t) = Used(s) \cup Used(t)
         /\ Owners(s \o t) = Owners(s) \cup Owners(t)
         /\ Owned(s \o t) <=> Owned(s) /\ Owned(t) /\ Owners(s) \cap Owners(t) = {}
<1> DEFINE r == s \o t
           k == Len(s)
           l == Len(t)
<1>1. k \in Nat /\ l \in Nat
  BY Fields
<1>2. /\ Len(r) = k + l
      /\ \A i \in 1 .. k + l : r[i] = IF i <= k THEN s[i] ELSE t[i - k]
  BY ConcatProperties
<1> HIDE DEF k, l, r
<1>3. \A i \in InUse(s) : i \in 1 .. k /\ i \in InUse(r) /\ r[i] = s[i] /\ i <= k
  <2>1. \A i \in 1 .. k : i \in 1 .. k + l /\ i <= k
    BY <1>1
  <2> QED
    BY <1>2, <2>1 DEF InUse, k
<1>4. \A i \in InUse(t) : /\ k + i \in InUse(r) /\ r[k + i] = t[i] /\ ~(k + i <= k) /\ i \in 1 .. l
  <2>1. \A i \in 1 .. l : k + i \in 1 .. k + l /\ ~(k + i <= k) /\ (k + i) - k = i
    BY <1>1
  <2> QED
    BY <1>2, <2>1 DEF InUse, l
<1>5. \A i \in InUse(r) : \/ i <= k /\ i \in InUse(s) /\ r[i] = s[i]
                          \/ ~(i <= k) /\ i - k \in InUse(t) /\ r[i] = t[i - k] /\ k + (i - k) = i
  <2>1. \A i \in 1 .. k + l : \/ i <= k /\ i \in 1 .. k
                              \/ ~(i <= k) /\ i - k \in 1 .. l /\ k + (i - k) = i
    BY <1>1
  <2> QED
    BY <1>2, <2>1 DEF InUse, k, l
<1>6. Used(r) = Used(s) \cup Used(t)
  BY <1>3, <1>4, <1>5 DEF Used
<1>7. Owners(r) = Owners(s) \cup Owners(t)
  BY <1>3, <1>4, <1>5 DEF Owners
<1>8. ASSUME Owned(r) PROVE Owned(s) /\ Owned(t) /\ Owners(s) \cap Owners(t) = {}
  <2>1. Owned(s)
    BY <1>3, <1>8 DEF Owned
  <2>2. ASSUME NEW i \in InUse(t), NEW j \in InUse(t), t[i].owner = t[j].owner PROVE i = j
    <3>1. k + i = k + j
      BY <1>4, <1>8, <2>2 DEF Owned
    <3>2. i \in 1 .. l /\ j \in 1 .. l
      BY <1>4
    <3> QED
      BY <1>1, <3>1, <3>2
  <2>3. ASSUME NEW h \in Owners(s) \cap Owners(t) PROVE FALSE
    <3>1. PICK i \in InUse(s), j \in InUse(t) : s[i].owner = h /\ t[j].owner = h
      BY <2>3 DEF Owners
    <3>2. i = k + j
      BY <1>3, <1>4, <1>8, <3>1 DEF Owned
    <3> QED
      BY <1>3, <1>4, <3>1, <3>2
  <2> QED
    BY <2>1, <2>2, <2>3 DEF Owned
<1>9. ASSUME Owned(s), Owned(t), Owners(s) \cap Owners(t) = {} PROVE Owned(r)
  <2>1. ASSUME NEW i \in InUse(s), NEW j \in InUse(t) PROVE s[i].owner # t[j].owner
    BY <1>9 DEF Owners
  <2>2. ASSUME NEW i \in InUse(r), NEW j \in InUse(r), r[i].owner = r[j].owner PROVE i = j
    <3>1. CASE i \in InUse(s) /\ r[i] = s[i] /\ j \in InUse(s) /\ r[j] = s[j]
      BY <1>9, <2>2, <3>1 DEF Owned
    <3>2. CASE /\ i - k \in InUse(t) /\ r[i] = t[i - k] /\ k + (i - k) = i
               /\ j - k \in InUse(t) /\ r[j] = t[j - k] /\ k + (j - k) = j
      <4>1. i - k = j - k
        BY <1>9, <2>2, <3>2 DEF Owned
      <4> QED
        BY <3>2, <4>1
    <3> QED
      BY <1>5, <2>1, <2>2, <3>1, <3>2
  <2> QED
    BY <2>2 DEF Owned
<1> QED
  BY <1>6, <1>7, <1>8, <1>9 DEF r

\* In a run one of these lists can take the place of the other, with d free
\* cells more.
Swap(old, new, d) == \A u, v, x \in Int : Run(old, u, v, x) => Run(new, u, v, x + d)

\* The k blocks from the i-th one on are mid, and new may be put in their place.
Replaces(bs, i, k, mid, new, d) ==
  /\ i \in 1 .. Len(bs) /\ k \in 0 .. Len(bs) - i + 1 /\ mid = SubSeq(bs, i, (i + k) - 1)
  /\ new \in Seq(Blocks) /\ Owned(new) /\ Owners(new) \cap (Owners(bs) \ Owners(mid)) = {}
  /\ d \in Int /\ Swap(mid, new, d)

\* The k blocks from the i-th one on are replaced by others that take the same
\* cells; d cells more are free.
LEMMA SpliceRun ==
  ASSUME NEW bs, NEW p \in Int, NEW q, NEW n \in Int, Run(bs, p, q, n), Owned(bs),
         NEW i, NEW k, NEW mid, NEW new, NEW d, Replaces(bs, i, k, mid, new, d),
         NEW r, r = Splice(bs, i, k, new)
  PROVE  /\ Run(r, p, q, n + d) /\ Owned(r)
         /\ Used(r) = (Used(bs) \ Used(mid)) \cup Used(new)
         /\ Owners(r) = (Owners(bs) \ Owners(mid)) \cup Owners(new)
<1> DEFINE a == SubSeq(bs, 1, i - 1)
           c == SubSeq(bs, i + k, Len(bs))
           l == Len(bs)
<1>0. /\ i \in 1 .. Len(bs) /\ k \in 0 .. Len(bs) - i + 1 /\ mid = SubSeq(bs, i, (i + k) - 1)
      /\ new \in Seq(Blocks) /\ Owned(new) /\ Owners(new) \cap (Owners(bs) \ Owners(mid)) = {}
      /\ d \in Int /\ Swap(mid, new, d)
  BY DEF Replaces
<1>1. /\ bs \in Seq(Blocks) /\ l \in Nat /\ i \in Nat /\ 1 <= i /\ i <= l /\ k \in Nat /\ i + k <= l + 1
      /\ \A j \in 1 .. l : bs[j] \in Blocks
  BY <1>0, Fields DEF Run
<1>2. a \in Seq(Blocks) /\ c \in Seq(Blocks) /\ mid \in Seq(Blocks)
  <2> HIDE DEF l
  <2>1. /\ \A j \in 1 .. i - 1 : bs[j] \in Blocks
        /\ \A j \in i .. (i + k) - 1 : bs[j] \in Blocks
        /\ \A j \in i + k .. l : bs[j] \in Blocks
    BY <1>1
  <2>2. 1 \in Int /\ i - 1 \in Int /\ i \in Int /\ (i + k) - 1 \in Int /\ i + k \in Int /\ l \in Int
    BY <1>1
  <2>3. SubSeq(bs, 1, i - 1) \in Seq(Blocks)
    BY ONLY <2>1, <2>2, SubSeqProperties
  <2>4. SubSeq(bs, i, (i + k) - 1) \in Seq(Blocks)
    BY ONLY <2>1, <2>2, SubSeqProperties
  <2>5. SubSeq(bs, i + k, l) \in Seq(Blocks)
    BY ONLY <2>1, <2>2, SubSeqProperties
  <2> QED
    BY <1>0, <2>3, <2>4, <2>5 DEF l
<1>3. bs = (a \o mid) \o c
  <2>1. SubSeq(bs, i, (i + k) - 1) \o SubSeq(bs, ((i + k) - 1) + 1, Len(bs)) = SubSeq(bs, i, Len(bs))
    <3>1. /\ i \in 1 .. Len(bs) + 1 /\ (i + k) - 1 \in i - 1 .. Len(bs)
          /\ Len(bs) \in (i + k) - 1 .. Len(bs) /\ bs \in Seq(Blocks)
      BY <1>1
    <3> QED
      BY ONLY <3>1, ConcatAdjacentSubSeq
  <2>2. SubSeq(bs, 1, i - 1) \o SubSeq(bs, (i - 1) + 1, Len(bs)) = SubSeq(bs, 1, Len(bs))
    <3>1. /\ 1 \in 1 .. Len(bs) + 1 /\ i - 1 \in 1 - 1 .. Len(bs)
          /\ Len(bs) \in i - 1 .. Len(bs) /\ bs \in Seq(Blocks)
      BY <1>1
    <3> QED
      BY ONLY <3>1, ConcatAdjacentSubSeq
  <2>3. SubSeq(bs, 1, Len(bs)) = bs
    BY <1>1, SubSeqFull
  <2>4. ((i + k) - 1) + 1 = i + k /\ (i - 1) + 1 = i
    BY <1>1
  <2>5. bs = a \o (mid \o c)
    BY <1>0, <2>1, <2>2, <2>3, <2>4, Zenon
  <2>6. (a \o mid) \o c = a \o (mid \o c)
    <3> HIDE DEF a, c
    <3>1. Associates(a, mid, c)
      BY ONLY <1>2, Assoc, Zenon
    <3> QED
      BY <3>1, Zenon DEF Associates
  <2> QED
    BY <2>5, <2>6, Zenon
<1>4. r = (a \o new) \o c
  BY DEF Splice
<1> HIDE DEF a, c, l
<1>5. a \o mid \in Seq(Blocks) /\ a \o new \in Seq(Blocks)
  BY <1>0, <1>2, ConcatProperties
<1>6. Run((a \o mid) \o c, p, q, n)
  BY <1>3
<1>7. PICK m, x \in Int : Run(a \o mid, p, m, x) /\ Run(c, m, q, n - x)
  BY <1>2, <1>5, <1>6, RunCut
<1>8. PICK w, y \in Int : Run(a, p, w, y) /\ Run(mid, w, m, x - y)
  BY <1>2, <1>7, RunCut
<1>9. Run(new, w, m, (x - y) + d)
  <2>1. x - y \in Int
    BY <1>7, <1>8
  <2> QED
    BY <1>0, <1>7, <1>8, <2>1 DEF Swap
<1>10. Run(r, p, q, n + d)
  <2>1. (x - y) + d \in Int /\ y + ((x - y) + d) = x + d /\ (x + d) + (n - x) = n + d
        /\ x + d \in Int /\ n - x \in Int
    BY <1>0, <1>7, <1>8
  <2>2. Run(a \o new, p, m, y + ((x - y) + d))
    BY <1>8, <1>9, <2>1, RunConcat
  <2>3. Run(a \o new, p, m, x + d)
    BY <2>1, <2>2, Zenon
  <2>4. Run((a \o new) \o c, p, q, (x + d) + (n - x))
    BY <1>7, <2>1, <2>3, RunConcat
  <2> QED
    BY <1>4, <2>1, <2>4, Zenon
<1>11. /\ Used(bs) = (Used(a) \cup Used(mid)) \cup Used(c)
       /\ Owners(bs) = (Owners(a) \cup Owners(mid)) \cup Owners(c)
       /\ Owned(a) /\ Owned(mid) /\ Owned(c) /\ Owners(a) \cap Owners(mid) = {}
       /\ (Owners(a) \cup Owners(mid)) \cap Owners(c) = {}
  <2>1. /\ Used(a \o mid) = Used(a) \cup Used(mid) /\ Owners(a \o mid) = Owners(a) \cup Owners(mid)
        /\ Owned(a \o mid) <=> Owned(a) /\ Owned(mid) /\ Owners(a) \cap Owners(mid) = {}
    BY ONLY <1>2, UsedConcat
  <2>2. /\ Used(bs) = Used(a \o mid) \cup Used(c) /\ Owners(bs) = Owners(a \o mid) \cup Owners(c)
        /\ Owned(bs) <=> Owned(a \o mid) /\ Owned(c) /\ Owners(a \o mid) \cap Owners(c) = {}
    <3> DEFINE z == a \o mid
    <3>1. z \in Seq(Blocks) /\ bs = z \o c
      BY <1>3, <1>5, Zenon
    <3> HIDE DEF z
    <3>2. /\ Used(z \o c) = Used(z) \cup Used(c) /\ Owners(z \o c) = Owners(z) \cup Owners(c)
          /\ Owned(z \o c) <=> Owned(z) /\ Owned(c) /\ Owners(z) \cap Owners(c) = {}
      BY ONLY <1>2, <3>1, UsedConcat
    <3> QED
      BY <3>1, <3>2, Zenon DEF z
  <2> QED
    BY <2>1, <2>2, Zenon
<1>12. /\ Used(r) = (Used(a) \cup Used(new)) \cup Used(c)
       /\ Owners(r) = (Owners(a) \cup Owners(new)) \cup Owners(c)
       /\ Owned(r) <=> /\ Owned(a) /\ Owned(new) /\ Owners(a) \cap Owners(new) = {}
                       /\ Owned(c) /\ (Owners(a) \cup Owners(new)) \cap Owners(c) = {}
  <2>1. /\ Used(a \o new) = Used(a) \cup Used(new) /\ Owners(a \o new) = Owners(a) \cup Owners(new)
        /\ Owned(a \o new) <=> Owned(a) /\ Owned(new) /\ Owners(a) \cap Owners(new) = {}
    BY ONLY <1>0, <1>2, UsedConcat
  <2>2. /\ Used(r) = Used(a \o new) \cup Used(c) /\ Owners(r) = Owners(a \o new) \cup Owners(c)
        /\ Owned(r) <=> Owned(a \o new) /\ Owned(c) /\ Owners(a \o new) \cap Owners(c) = {}
    <3> DEFINE z == a \o new
    <3>1. z \in Seq(Blocks) /\ r = z \o c
      BY <1>4, <1>5, Zenon
    <3> HIDE DEF z
    <3>2. /\ Used(z \o c) = Used(z) \cup Used(c) /\ Owners(z \o c) = Owners(z) \cup Owners(c)
          /\ Owned(z \o c) <=> Owned(z) /\ Owned(c) /\ Owners(z) \cap Owners(c) = {}
      BY ONLY <1>2, <3>1, UsedConcat
    <3> QED
      BY <3>1, <3>2, Zenon DEF z
  <2> QED
    BY <2>1, <2>2, Zenon
<1>13. \A s, b : b \in Used(s) => b.owner \in Owners(s)
  BY DEF Used, Owners
<1>14. Used(bs) \ Used(mid) = Used(a) \cup Used(c)
  BY <1>11, <1>13, Zenon
<1>15. Owners(bs) \ Owners(mid) = Owners(a) \cup Owners(c)
  BY <1>11
<1>16. Owned(r)
  BY <1>0, <1>11, <1>12, <1>15
<1> QED
  BY <1>10, <1>12, <1>14, <1>15, <1>16

----------------------------------------------------------------------------
(* What the operations on one block do to a run *)

\* A list of one block.
LEMMA UsedOne ==
  ASSUME NEW b \in Blocks
  PROVE  /\ <<b>> \in Seq(Blocks) /\ Owned(<<b>>)
         /\ Used(<<b>>) = IF free(b) THEN {} ELSE {b}
         /\ Owners(<<b>>) = IF free(b) THEN {} ELSE {b.owner}
<1> DEFINE s == <<b>>
<1>1. s \in Seq(Blocks) /\ Len(s) = 1 /\ s[1] = b
  OBVIOUS
<1> HIDE DEF s
<1>2. InUse(s) = IF free(b) THEN {} ELSE {1}
  BY <1>1 DEF InUse
<1>3. Owned(s)
  BY <1>2 DEF Owned
<1>4. Used(s) = IF free(b) THEN {} ELSE {b}
  BY <1>1, <1>2 DEF Used
<1>5. Owners(s) = IF free(b) THEN {} ELSE {b.owner}
  BY <1>1, <1>2 DEF Owners
<1> QED
  BY <1>1, <1>3, <1>4, <1>5 DEF s

\* A list of two blocks of which the second one is free.
LEMMA UsedTwo ==
  ASSUME NEW a \in Blocks, NEW b \in Blocks, free(b)
  PROVE  /\ <<a, b>> \in Seq(Blocks) /\ Owned(<<a, b>>)
         /\ Used(<<a, b>>) = Used(<<a>>) /\ Owners(<<a, b>>) = Owners(<<a>>)
<1> DEFINE s == <<a, b>>
           t == <<a>>
<1>1. /\ s \in Seq(Blocks) /\ Len(s) = 2 /\ s[1] = a /\ s[2] = b
      /\ Len(t) = 1 /\ t[1] = a
  OBVIOUS
<1> HIDE DEF s, t
<1>2. InUse(s) = InUse(t) /\ InUse(s) \subseteq {1}
  BY <1>1 DEF InUse
<1>3. Owned(s)
  BY <1>2 DEF Owned
<1>4. Used(s) = Used(t)
  BY <1>1, <1>2 DEF Used
<1>5. Owners(s) = Owners(t)
  BY <1>1, <1>2 DEF Owners
<1> QED
  BY <1>1, <1>3, <1>4, <1>5 DEF s, t

\* One block, and two, of a list.
LEMMA Pieces ==
  ASSUME NEW bs \in Seq(Blocks), NEW i \in 1 .. Len(bs)
  PROVE  /\ SubSeq(bs, i, (i + 1) - 1) = <<bs[i]>>
         /\ i < Len(bs) => SubSeq(bs, i, (i + 2) - 1) = <<bs[i], bs[i + 1]>>
<1>1. \A j \in 1 .. Len(bs) : bs[j] \in Blocks
  BY Fields
<1>2. Len(bs) \in Nat
  BY Fields
<1>3. SubSeq(bs, i, (i + 1) - 1) = <<bs[i]>>
  <2> DEFINE s == SubSeq(bs, i, i)
             t == <<bs[i]>>
  <2>1. i \in Int /\ \A j \in i .. i : bs[j] \in Blocks
    BY <1>1
  <2>2. s \in Seq(Blocks) /\ Len(s) = (IF i <= i THEN i - i + 1 ELSE 0)
        /\ \A j \in 1 .. i - i + 1 : s[j] = bs[i + j - 1]
    BY <2>1, SubSeqProperties
  <2> HIDE DEF s
  <2>3. Len(s) = 1 /\ s[1] = bs[i]
    BY <2>2
  <2>4. t \in Seq(Blocks) /\ Len(t) = 1 /\ t[1] = bs[i]
    BY <1>1
  <2> HIDE DEF t
  <2>5. Len(s) = Len(t) /\ \A j \in 1 .. Len(s) : s[j] = t[j]
    BY <2>3, <2>4
  <2>6. s = t
    BY ONLY <2>2, <2>4, <2>5, SeqEqual
  <2>7. (i + 1) - 1 = i
    OBVIOUS
  <2> QED
    BY <2>6, <2>7 DEF s, t
<1>4. ASSUME i < Len(bs) PROVE SubSeq(bs, i, (i + 2) - 1) = <<bs[i], bs[i + 1]>>
  <2> DEFINE s == SubSeq(bs, i, i + 1)
             t == <<bs[i], bs[i + 1]>>
  <2>0. bs[i] \in Blocks /\ bs[i + 1] \in Blocks
    <3>1. i + 1 \in 1 .. Len(bs)
      BY <1>2, <1>4
    <3> QED
      BY <1>1, <3>1
  <2>1. i \in Int /\ i + 1 \in Int /\ \A j \in i .. i + 1 : bs[j] \in Blocks
    <3>1. \A j \in i .. i + 1 : j \in 1 .. Len(bs)
      BY <1>2, <1>4
    <3> QED
      BY <1>1, <3>1
  <2>2. s \in Seq(Blocks) /\ Len(s) = (IF i <= i + 1 THEN (i + 1) - i + 1 ELSE 0)
        /\ \A j \in 1 .. (i + 1) - i + 1 : s[j] = bs[i + j - 1]
    BY <2>1, SubSeqProperties
  <2> HIDE DEF s
  <2>3. Len(s) = 2 /\ s[1] = bs[i] /\ s[2] = bs[i + 1]
    <3>1. (i + 1) - i + 1 = 2 /\ i <= i + 1 /\ i + 1 - 1 = i /\ i + 2 - 1 = i + 1
      OBVIOUS
    <3>2. 1 \in 1 .. 2 /\ 2 \in 1 .. 2
      OBVIOUS
    <3>3. s[1] = bs[i + 1 - 1] /\ s[2] = bs[i + 2 - 1]
      BY <2>2, <3>1, <3>2
    <3> QED
      BY <2>2, <3>1, <3>3
  <2>4. t \in Seq(Blocks) /\ Len(t) = 2 /\ t[1] = bs[i] /\ t[2] = bs[i + 1]
    BY <2>0
  <2> HIDE DEF t
  <2>5. Len(s) = Len(t) /\ \A j \in 1 .. Len(s) : s[j] = t[j]
    <3>1. \A j \in 1 .. 2 : j = 1 \/ j = 2
      OBVIOUS
    <3> QED
      BY <2>3, <2>4, <3>1
  <2>6. s = t
    BY ONLY <2>2, <2>4, <2>5, SeqEqual
  <2>7. (i + 2) - 1 = i + 1
    OBVIOUS
  <2> QED
    BY <2>6, <2>7 DEF s, t
<1> QED
  BY <1>3, <1>4

\* The blocks lie from p to q, n cells are free and no handle has two blocks.
Good(bs, p, q, n) == p \in Int /\ n \in Int /\ Run(bs, p, q, n) /\ Owned(bs)

\* The blocks in use are those of bs without those of old, and those of new.
Changed(bs, r, old, new) ==
  /\ Used(r) = (Used(bs) \ Used(old)) \cup Used(new)
  /\ Owners(r) = (Owners(bs) \ Owners(old)) \cup Owners(new)

\* Block i may be cut into a and the free block b, by which d cells more are free.
Cuts(bs, i, a, b, d) ==
  /\ i \in 1 .. Len(bs) /\ a \in Blocks /\ b \in Blocks /\ d \in Int
  /\ a.ptr = bs[i].ptr /\ b.ptr = a.ptr + a.size /\ a.size + b.size = bs[i].size
  /\ free(b) /\ FreeCells(a) + FreeCells(b) = FreeCells(bs[i]) + d
  /\ a.owner \notin Owners(bs) \ Owners(<<bs[i]>>)

\* A block is cut in two; the second half is free, and d cells more are free.
LEMMA CutRun ==
  ASSUME NEW bs, NEW p, NEW q, NEW n, Good(bs, p, q, n),
         NEW i, NEW a, NEW b, NEW d, Cuts(bs, i, a, b, d),
         NEW r, r = Splice(bs, i, 1, <<a, b>>)
  PROVE  Good(r, p, q, n + d) /\ Changed(bs, r, <<bs[i]>>, <<a>>)
<1>0. /\ p \in Int /\ n \in Int /\ Run(bs, p, q, n) /\ Owned(bs)
      /\ i \in 1 .. Len(bs) /\ a \in Blocks /\ b \in Blocks /\ d \in Int
      /\ a.ptr = bs[i].ptr /\ b.ptr = a.ptr + a.size /\ a.size + b.size = bs[i].size
      /\ free(b) /\ FreeCells(a) + FreeCells(b) = FreeCells(bs[i]) + d
      /\ a.owner \notin Owners(bs) \ Owners(<<bs[i]>>)
  BY DEF Good, Cuts
<1> USE <1>0
<1> DEFINE mid == <<bs[i]>>
           new == <<a, b>>
<1>1. /\ bs \in Seq(Blocks) /\ Len(bs) \in Nat /\ bs[i] \in Blocks
      /\ bs[i].ptr \in Nat /\ bs[i].size \in Nat /\ FreeCells(bs[i]) \in Nat
  BY Fields DEF Run
<1>2. /\ a.ptr \in Nat /\ a.size \in Nat /\ FreeCells(a) \in Nat
      /\ b.ptr \in Nat /\ b.size \in Nat /\ FreeCells(b) \in Nat
  BY DEF Blocks, FreeCells
<1>3. mid = SubSeq(bs, i, (i + 1) - 1) /\ 1 \in 0 .. Len(bs) - i + 1
  BY <1>1, Pieces, SMTT(30)
<1>4. /\ new \in Seq(Blocks) /\ Owned(new)
      /\ Used(new) = Used(<<a>>) /\ Owners(new) = Owners(<<a>>)
  BY UsedTwo
<1>5. ASSUME NEW u \in Int, NEW v \in Int, NEW x \in Int, Run(mid, u, v, x)
      PROVE  Run(new, u, v, x + d)
  <2>1. u = bs[i].ptr /\ v = bs[i].ptr + bs[i].size /\ x = FreeCells(bs[i])
    BY <1>1, <1>5, RunOne
  <2>2. u = a.ptr /\ x + d = FreeCells(a) + FreeCells(b)
    BY <2>1
  <2>3. v = b.ptr + b.size
    <3> DEFINE pa == a.ptr
               sa == a.size
               sb == b.size
    <3>1. pa \in Nat /\ sa \in Nat /\ sb \in Nat
      BY <1>2, Zenon
    <3> HIDE DEF pa, sa, sb
    <3>a. (pa + sa) + sb = pa + (sa + sb)
      BY ONLY <3>1
    <3>2. (a.ptr + a.size) + b.size = a.ptr + (a.size + b.size)
      BY <3>a, Zenon DEF pa, sa, sb
    <3>3. v = a.ptr + (a.size + b.size)
      BY <2>1, Zenon
    <3>4. b.ptr + b.size = (a.ptr + a.size) + b.size
      BY b.ptr = a.ptr + a.size, Zenon
    <3> QED
      BY <3>2, <3>3, <3>4, Zenon
  <2>4. x + d \in Int
    OBVIOUS
  <2> QED
    BY <2>2, <2>3, <2>4, RunTwo
<1>6. Owners(new) \cap (Owners(bs) \ Owners(mid)) = {}
  <2>1. Owners(<<a>>) \subseteq {a.owner}
    BY UsedOne
  <2> HIDE DEF new, mid
  <2> QED
    BY <1>4, <2>1 DEF mid
<1>7. r = Splice(bs, i, 1, new)
  OBVIOUS
<1> HIDE DEF mid, new
<1>8. /\ Run(r, p, q, n + d) /\ Owned(r)
      /\ Used(r) = (Used(bs) \ Used(mid)) \cup Used(new)
      /\ Owners(r) = (Owners(bs) \ Owners(mid)) \cup Owners(new)
  <2>1. Swap(mid, new, d)
    BY <1>5 DEF Swap
  <2>2. Replaces(bs, i, 1, mid, new, d)
    BY <1>3, <1>4, <1>6, <2>1 DEF Replaces
  <2> QED
    BY <1>7, <2>2, SpliceRun
<1>9. n + d \in Int
  OBVIOUS
<1> QED
  BY <1>4, <1>8, <1>9 DEF mid, Good, Changed

\* Block i may swallow the free block behind it and become a, by which d cells
\* more are free.
Swallows(bs, i, a, d) ==
  /\ i \in 1 .. Len(bs) - 1 /\ free(bs[i + 1])
  /\ a = [bs[i] EXCEPT !.size = @ + bs[i + 1].size]
  /\ d = IF free(bs[i]) THEN 0 ELSE 0 - bs[i + 1].size

\* Block i became a in r.
Swallowed(bs, r, i, a) ==
  /\ Used(r) = (Used(bs) \ Used(<<bs[i]>>)) \cup Used(<<a>>)
  /\ Owners(r) = Owners(bs)
  /\ a \in Blocks /\ a.ptr = bs[i].ptr /\ a.size = bs[i].size + bs[i + 1].size
  /\ a.owner = bs[i].owner

\* A block swallows the free block behind it; d cells more are free.
LEMMA AppendRun ==
  ASSUME NEW bs, NEW p, NEW q, NEW n, Good(bs, p, q, n),
         NEW i, NEW a, NEW d, Swallows(bs, i, a, d), NEW r, r = appendfollow(bs, i)
  PROVE  Good(r, p, q, n + d) /\ Swallowed(bs, r, i, a)
<1>a. /\ p \in Int /\ n \in Int /\ Run(bs, p, q, n) /\ Owned(bs)
      /\ i \in 1 .. Len(bs) - 1 /\ free(bs[i + 1])
      /\ a = [bs[i] EXCEPT !.size = @ + bs[i + 1].size]
      /\ d = IF free(bs[i]) THEN 0 ELSE 0 - bs[i + 1].size
  BY DEF Good, Swallows
<1> USE <1>a
<1> DEFINE mid == <<bs[i], bs[i + 1]>>
           new == <<a>>
<1>0. i \in 1 .. Len(bs) /\ i + 1 \in 1 .. Len(bs) /\ i < Len(bs) /\ bs \in Seq(Blocks) /\ Len(bs) \in Nat
  BY Fields DEF Run
<1>1. /\ bs[i] \in Blocks /\ bs[i].ptr \in Nat /\ bs[i].size \in Nat /\ FreeCells(bs[i]) \in Nat
      /\ bs[i + 1] \in Blocks /\ bs[i + 1].ptr \in Nat /\ bs[i + 1].size \in Nat
      /\ FreeCells(bs[i + 1]) = bs[i + 1].size
  BY <1>0, Fields DEF FreeCells
<1>2. /\ a \in Blocks /\ a.ptr = bs[i].ptr /\ a.size = bs[i].size + bs[i + 1].size
      /\ a.owner = bs[i].owner
  <2>1. a = [bs[i] EXCEPT !.size = @ + bs[i + 1].size]
    BY <1>a
  <2> QED
    BY ONLY <1>1, <2>1 DEF Blocks
<1>3. FreeCells(a) = (FreeCells(bs[i]) + FreeCells(bs[i + 1])) + d /\ d \in Int /\ FreeCells(a) \in Int
  <2>0. free(a) <=> free(bs[i])
    BY <1>2 DEF free
  <2>1. CASE free(bs[i])
    <3>1. FreeCells(a) = a.size /\ FreeCells(bs[i]) = bs[i].size /\ d = 0
      BY <2>0, <2>1, Zenon DEF FreeCells
    <3>2. \A k, l, m \in Nat : k = l + m => k = (l + m) + 0 /\ 0 \in Int /\ k \in Nat
      OBVIOUS
    <3>3. a.size \in Nat
      BY <1>2 DEF Blocks
    <3>4. a.size = (bs[i].size + bs[i + 1].size) + 0
      BY <1>1, <1>2, <3>2, <3>3, Zenon
    <3>5. d \in Int /\ FreeCells(a) \in Nat
      BY ONLY <3>1, <3>3
    <3>6. (FreeCells(bs[i]) + FreeCells(bs[i + 1])) + d = (bs[i].size + bs[i + 1].size) + 0
      BY <1>1, <3>1, Zenon
    <3> QED
      BY ONLY <3>1, <3>4, <3>5, <3>6
  <2>2. CASE ~free(bs[i])
    <3>1. FreeCells(a) = 0 /\ FreeCells(bs[i]) = 0 /\ d = 0 - bs[i + 1].size
      BY <2>0, <2>2, Zenon DEF FreeCells
    <3>2. \A k \in Nat : 0 = (0 + k) + (0 - k) /\ 0 - k \in Int /\ 0 \in Nat
      OBVIOUS
    <3>3. 0 = (0 + bs[i + 1].size) + (0 - bs[i + 1].size) /\ 0 - bs[i + 1].size \in Int /\ 0 \in Nat
      BY <1>1, <3>2, Zenon
    <3>4. (FreeCells(bs[i]) + FreeCells(bs[i + 1])) + d
          = (0 + bs[i + 1].size) + (0 - bs[i + 1].size)
      BY <1>1, <3>1, Zenon
    <3> QED
      BY ONLY <3>1, <3>3, <3>4
  <2> QED
    BY <2>1, <2>2
<1>4. mid = SubSeq(bs, i, (i + 2) - 1) /\ 2 \in 0 .. Len(bs) - i + 1
  <2>1. 2 \in 0 .. Len(bs) - i + 1
    BY <1>0
  <2>2. SubSeq(bs, i, (i + 2) - 1) = <<bs[i], bs[i + 1]>>
    BY ONLY <1>0, Pieces
  <2> QED
    BY <2>1, <2>2
<1>5. /\ new \in Seq(Blocks) /\ Owned(new) /\ Owners(new) = Owners(<<bs[i]>>)
      /\ Used(mid) = Used(<<bs[i]>>) /\ Owners(mid) = Owners(<<bs[i]>>)
  <2>1. new \in Seq(Blocks) /\ Owned(new) /\ Owners(new) = IF free(a) THEN {} ELSE {a.owner}
    BY <1>2, UsedOne
  <2>2. Owners(<<bs[i]>>) = IF free(bs[i]) THEN {} ELSE {bs[i].owner}
    BY <1>1, UsedOne
  <2>3. Used(mid) = Used(<<bs[i]>>) /\ Owners(mid) = Owners(<<bs[i]>>)
    BY <1>1, UsedTwo
  <2>4. Owners(new) = Owners(<<bs[i]>>)
    BY <1>2, <2>1, <2>2, Zenon DEF free
  <2> QED
    BY <2>1, <2>3, <2>4
<1>6. ASSUME NEW u \in Int, NEW v \in Int, NEW x \in Int, Run(mid, u, v, x)
      PROVE  Run(new, u, v, x + d)
  <2>1. /\ u = bs[i].ptr /\ bs[i + 1].ptr = bs[i].ptr + bs[i].size
        /\ v = bs[i + 1].ptr + bs[i + 1].size /\ x = FreeCells(bs[i]) + FreeCells(bs[i + 1])
    <3>1. u \in Int /\ x \in Int /\ Run(<<bs[i], bs[i + 1]>>, u, v, x)
      BY <1>6
    <3>2. bs[i] \in Blocks /\ bs[i + 1] \in Blocks
      BY <1>1
    <3> QED
      BY ONLY <3>1, <3>2, RunTwo
  <2>2. \A k, l, m \in Nat : (k + l) + m = k + (l + m)
    OBVIOUS
  <2>3. v = a.ptr + a.size
    <3>1. (bs[i].ptr + bs[i].size) + bs[i + 1].size = bs[i].ptr + (bs[i].size + bs[i + 1].size)
      BY <1>1, <2>2, ZenonT(40)
    <3>2. v = (bs[i].ptr + bs[i].size) + bs[i + 1].size
      BY <2>1, Zenon
    <3>3. a.ptr + a.size = bs[i].ptr + (bs[i].size + bs[i + 1].size)
      BY <1>2, Zenon
    <3> QED
      BY <3>1, <3>2, <3>3, Zenon
  <2>4. u = a.ptr /\ x + d = FreeCells(a)
    BY <1>2, <1>3, <2>1, Zenon
  <2>5. Run(<<a>>, u, v, FreeCells(a))
    <3>1. u \in Int
      OBVIOUS
    <3> QED
      BY ONLY <1>2, <2>3, <2>4, <3>1, RunOne
  <2>6. Run(<<a>>, u, v, x + d)
    BY ONLY <2>4, <2>5
  <2> QED
    BY ONLY <2>6
<1>7. r = Splice(bs, i, 2, new)
  BY DEF appendfollow
<1> HIDE DEF mid, new
<1>8. /\ Run(r, p, q, n + d) /\ Owned(r)
      /\ Used(r) = (Used(bs) \ Used(mid)) \cup Used(new)
      /\ Owners(r) = (Owners(bs) \ Owners(mid)) \cup Owners(new)
  <2>1. Owners(new) \cap (Owners(bs) \ Owners(mid)) = {}
    BY <1>5
  <2>2. Swap(mid, new, d)
    BY <1>6 DEF Swap
  <2>3. Replaces(bs, i, 2, mid, new, d)
    BY <1>0, <1>3, <1>4, <1>5, <2>1, <2>2 DEF Replaces
  <2> QED
    BY <1>7, <2>3, SpliceRun
<1>9. Owners(<<bs[i]>>) \subseteq Owners(bs)
  <2>1. Owners(<<bs[i]>>) = IF free(bs[i]) THEN {} ELSE {bs[i].owner}
    BY <1>1, UsedOne
  <2> QED
    BY <1>0, <2>1 DEF Owners, InUse
<1>10. n + d \in Int /\ Owners(r) = Owners(bs)
  <2>1. d \in Int
    BY <1>3
  <2>2. Owners(r) = Owners(bs)
    BY <1>5, <1>8, <1>9
  <2> QED
    BY ONLY <1>a, <2>1, <2>2
<1> QED
  BY <1>2, <1>5, <1>8, <1>10, <1>a, Zenon DEF new, Good, Swallowed

\* Block i may come to the owner o.
MayOwn(bs, i, o) ==
  /\ i \in 1 .. Len(bs) /\ o \in Handles \cup {NoOne}
  /\ o \notin Owners(bs) \ Owners(<<bs[i]>>)

\* The list r is bs but for its i-th block, a.
OnlyAt(bs, r, i, a) ==
  /\ Len(r) = Len(bs) /\ r[i] = a /\ \A k \in 1 .. Len(bs) : k # i => r[k] = bs[k]

\* A block changes hands.
LEMMA OwnerRun ==
  ASSUME NEW bs, NEW p, NEW q, NEW n, Good(bs, p, q, n),
         NEW i, NEW o, MayOwn(bs, i, o), NEW a, a = [bs[i] EXCEPT !.owner = o],
         NEW r, r = [bs EXCEPT ![i].owner = o]
  PROVE  /\ Good(r, p, q, n + (FreeCells(a) - FreeCells(bs[i])))
         /\ Changed(bs, r, <<bs[i]>>, <<a>>) /\ OnlyAt(bs, r, i, a)
<1>0. /\ p \in Int /\ n \in Int /\ Run(bs, p, q, n) /\ Owned(bs)
      /\ i \in 1 .. Len(bs) /\ o \in Handles \cup {NoOne}
      /\ o \notin Owners(bs) \ Owners(<<bs[i]>>)
  BY DEF Good, MayOwn
<1> USE <1>0
<1> DEFINE mid == <<bs[i]>>
           new == <<a>>
<1>1. /\ bs \in Seq(Blocks) /\ Len(bs) \in Nat /\ bs[i] \in Blocks
      /\ bs[i].ptr \in Nat /\ bs[i].size \in Nat /\ FreeCells(bs[i]) \in Nat
  BY Fields DEF Run
<1>2. a \in Blocks /\ a.ptr = bs[i].ptr /\ a.size = bs[i].size /\ a.owner = o /\ FreeCells(a) \in Nat
  BY <1>1 DEF Blocks, FreeCells
<1>3. r \in Seq(Blocks) /\ Len(r) = Len(bs) /\ r[i] = a /\ \A k \in 1 .. Len(bs) : k # i => r[k] = bs[k]
  <2>1. r = [bs EXCEPT ![i] = a]
    OBVIOUS
  <2>2. /\ [bs EXCEPT ![i] = a] \in Seq(Blocks) /\ Len([bs EXCEPT ![i] = a]) = Len(bs)
        /\ \A k \in 1 .. Len(bs) : [bs EXCEPT ![i] = a][k] = IF k = i THEN a ELSE bs[k]
    BY ONLY <1>0, <1>1, <1>2, ExceptSeq
  <2> QED
    BY <2>1, <2>2
<1>4. /\ new \in Seq(Blocks) /\ Owned(new) /\ Owners(new) = IF free(a) THEN {} ELSE {o}
      /\ Len(new) = 1 /\ new[1] = a
  BY <1>2, UsedOne
<1>5. mid = SubSeq(bs, i, (i + 1) - 1) /\ 1 \in 0 .. Len(bs) - i + 1
  BY <1>1, Pieces, SMTT(30)
<1>6. ASSUME NEW u \in Int, NEW v \in Int, NEW x \in Int, Run(mid, u, v, x)
      PROVE  Run(new, u, v, x + (FreeCells(a) - FreeCells(bs[i])))
  <2>1. u = bs[i].ptr /\ v = bs[i].ptr + bs[i].size /\ x = FreeCells(bs[i])
    BY <1>1, <1>6, RunOne
  <2>2. x + (FreeCells(a) - FreeCells(bs[i])) = FreeCells(a)
    <3>1. \A k, l \in Nat : l + (k - l) = k
      OBVIOUS
    <3> QED
      BY <1>1, <1>2, <2>1, <3>1, Zenon
  <2>3. u = a.ptr /\ v = a.ptr + a.size
    BY <1>2, <2>1, Zenon
  <2>4. Run(<<a>>, u, v, FreeCells(a))
    <3>1. u \in Int
      BY <1>1, <2>1
    <3> QED
      BY ONLY <1>2, <2>3, <3>1, RunOne
  <2>5. Run(<<a>>, u, v, x + (FreeCells(a) - FreeCells(bs[i])))
    BY ONLY <2>2, <2>4
  <2> QED
    BY ONLY <2>5
<1> HIDE DEF mid, new
<1>7. r = Splice(bs, i, 1, new)
  <2> DEFINE s == Splice(bs, i, 1, new)
  <2>0. Spliced(bs, i, 1, new, s)
    BY <1>0, <1>1, <1>4, <1>5, SplicesTo, Zenon
  <2>1. /\ s \in Seq(Blocks) /\ Len(s) = (Len(bs) - 1) + Len(new)
        /\ \A k \in 1 .. i - 1 : s[k] = bs[k]
        /\ \A k \in 1 .. Len(new) : s[(i - 1) + k] = new[k]
        /\ \A k \in i + 1 .. Len(bs) : s[(k - 1) + Len(new)] = bs[k]
    BY ONLY <2>0 DEF Spliced
  <2> HIDE DEF s
  <2>2. Len(s) = Len(bs) /\ (i - 1) + 1 = i /\ \A k \in 1 .. Len(bs) : (k - 1) + 1 = k
    BY <1>1, <1>4, <2>1
  <2>3. ASSUME NEW k \in 1 .. Len(bs) PROVE s[k] = r[k]
    <3>1. CASE k < i
      <4>1. k \in 1 .. i - 1 /\ k # i
        BY <1>1, <3>1
      <4> QED
        BY <1>3, <2>1, <4>1
    <3>2. CASE k = i
      <4>1. 1 \in 1 .. Len(new)
        BY <1>4
      <4> QED
        BY <1>3, <1>4, <2>1, <2>2, <3>2, <4>1
    <3>3. CASE k > i
      <4>1. k \in i + 1 .. Len(bs) /\ (k - 1) + Len(new) = k
        BY <1>1, <1>4, <3>3
      <4> QED
        BY <1>3, <2>1, <3>3, <4>1, SMTT(30)
    <3> QED
      BY <1>1, <3>1, <3>2, <3>3
  <2>4. r = s
    <3>1. Len(r) = Len(s) /\ \A k \in 1 .. Len(r) : r[k] = s[k]
      BY <1>3, <2>2, <2>3
    <3> QED
      BY ONLY <1>3, <2>1, <3>1, SeqEqual
  <2> QED
    BY <2>4 DEF s
<1>8. /\ Run(r, p, q, n + (FreeCells(a) - FreeCells(bs[i]))) /\ Owned(r)
      /\ n + (FreeCells(a) - FreeCells(bs[i])) \in Int
      /\ Used(r) = (Used(bs) \ Used(mid)) \cup Used(new)
      /\ Owners(r) = (Owners(bs) \ Owners(mid)) \cup Owners(new)
  <2>1. Owners(new) \cap (Owners(bs) \ Owners(mid)) = {}
    BY <1>4 DEF mid
  <2>2. FreeCells(a) - FreeCells(bs[i]) \in Int
    BY <1>1, <1>2
  <2> DEFINE d == FreeCells(a) - FreeCells(bs[i])
  <2>3. Swap(mid, new, d)
    BY <1>6 DEF Swap
  <2>5. Replaces(bs, i, 1, mid, new, d)
    BY <1>4, <1>5, <2>1, <2>2, <2>3 DEF Replaces
  <2> HIDE DEF d
  <2>4. /\ Run(r, p, q, n + d) /\ Owned(r)
        /\ Used(r) = (Used(bs) \ Used(mid)) \cup Used(new)
        /\ Owners(r) = (Owners(bs) \ Owners(mid)) \cup Owners(new)
    <3>1. p \in Int /\ n \in Int /\ Run(bs, p, q, n) /\ Owned(bs)
      OBVIOUS
    <3> QED
      BY ONLY <1>7, <2>5, <3>1, SpliceRun
  <2>6. n + d \in Int
    BY <2>2 DEF d
  <2> QED
    BY <2>4, <2>6 DEF d
<1> QED
  BY <1>2, <1>3, <1>8 DEF mid, new, Good, Changed, OnlyAt

----------------------------------------------------------------------------
(* Free neighbours *)

\* A block changes hands.
LEMMA OwnerJoined ==
  ASSUME NEW bs \in Seq(Blocks), NEW r \in Seq(Blocks), NEW i \in 1 .. Len(bs), NEW S,
         JoinedBut(bs, S), Len(r) = Len(bs), \A k \in 1 .. Len(bs) : k # i => r[k] = bs[k]
  PROVE  /\ JoinedBut(r, S \cup {i - 1, i})
         /\ ~free(r[i]) => JoinedBut(r, S \ {i - 1, i})
<1>1. Len(bs) \in Nat
  BY Fields
<1>2. \A k \in (1 .. Len(r) - 1) \ (S \cup {i - 1, i}) : ~(free(r[k]) /\ free(r[k + 1]))
  <2> TAKE k \in (1 .. Len(r) - 1) \ (S \cup {i - 1, i})
  <2>1. /\ k \in 1 .. Len(bs) /\ k + 1 \in 1 .. Len(bs) /\ k # i /\ k + 1 # i
        /\ k \in (1 .. Len(bs) - 1) \ S
    BY <1>1
  <2> QED
    BY <2>1 DEF JoinedBut
<1>3. ASSUME ~free(r[i])
      PROVE  \A k \in (1 .. Len(r) - 1) \ (S \ {i - 1, i}) : ~(free(r[k]) /\ free(r[k + 1]))
  <2> TAKE k \in (1 .. Len(r) - 1) \ (S \ {i - 1, i})
  <2>1. CASE k = i
    BY <1>3, <2>1
  <2>2. CASE k = i - 1
    <3>1. k + 1 = i
      BY <2>2
    <3> QED
      BY <1>3, <3>1
  <2>3. CASE k # i /\ k # i - 1
    <3>1. k \in (1 .. Len(r) - 1) \ (S \cup {i - 1, i})
      BY <2>3
    <3> QED
      BY <1>2, <3>1
  <2> QED
    BY <2>1, <2>2, <2>3
<1> QED
  BY <1>2, <1>3 DEF JoinedBut

\* A block is cut in two.
LEMMA CutJoined ==
  ASSUME NEW bs \in Seq(Blocks), JoinedBut(bs, {}), NEW i \in 1 .. Len(bs),
         NEW a \in Blocks, NEW b \in Blocks, free(b), free(a) => free(bs[i]),
         NEW r, r = Splice(bs, i, 1, <<a, b>>)
  PROVE  /\ ~free(a) /\ free(bs[i]) => JoinedBut(r, {})
         /\ free(a) => JoinedBut(r, {i})
         /\ ~free(bs[i]) => JoinedBut(r, {i + 1})
<1>1. /\ r \in Seq(Blocks) /\ Len(r) = Len(bs) + 1
      /\ \A k \in 1 .. i - 1 : r[k] = bs[k]
      /\ r[i] = a /\ r[i + 1] = b
      /\ \A k \in i + 1 .. Len(bs) : r[k + 1] = bs[k]
  BY SplitIs, SMTT(30)
<1>2. Len(bs) \in Nat
  BY Fields
<1>3. \A k \in 1 .. Len(bs) - 1 : ~(free(bs[k]) /\ free(bs[k + 1]))
  BY DEF JoinedBut
<1>4. ASSUME NEW k \in 1 .. Len(r) - 1, free(r[k]), free(r[k + 1])
      PROVE  \/ k = i /\ free(a)
             \/ k = i + 1 /\ ~free(bs[i])
  <2>1. CASE k < i - 1
    <3>1. k \in 1 .. i - 1 /\ k + 1 \in 1 .. i - 1 /\ k \in 1 .. Len(bs) - 1
      BY <1>2, <2>1
    <3> QED
      BY <1>1, <1>3, <1>4, <3>1
  <2>2. CASE k = i - 1
    <3>1. k \in 1 .. i - 1 /\ k + 1 = i /\ k \in 1 .. Len(bs) - 1
      BY <1>2, <2>2
    <3>2. r[k] = bs[k] /\ r[k + 1] = a
      BY <1>1, <3>1
    <3> QED
      BY <1>3, <1>4, <3>1, <3>2
  <2>3. CASE k = i
    BY <1>1, <1>4, <2>3
  <2>4. CASE k = i + 1
    <3>1. i \in 1 .. Len(bs) - 1 /\ i + 1 \in i + 1 .. Len(bs) /\ k + 1 = (i + 1) + 1
      BY <1>1, <1>2, <2>4
    <3>2. r[k + 1] = bs[i + 1]
      BY <1>1, <3>1
    <3> QED
      BY <1>3, <1>4, <2>4, <3>1, <3>2
  <2>5. CASE k > i + 1
    <3> DEFINE j == k - 1
    <3>1. j \in i + 1 .. Len(bs) /\ k \in i + 1 .. Len(bs) /\ j + 1 = k /\ j \in 1 .. Len(bs) - 1
      BY <1>1, <1>2, <2>5
    <3> HIDE DEF j
    <3>2. r[k] = bs[j] /\ r[k + 1] = bs[k]
      BY <1>1, <3>1
    <3> QED
      BY <1>3, <1>4, <3>1, <3>2
  <2> QED
    BY <1>2, <2>1, <2>2, <2>3, <2>4, <2>5
<1> QED
  BY <1>4 DEF JoinedBut

\* A block swallows the free block behind it.
LEMMA AppendJoined ==
  ASSUME NEW bs \in Seq(Blocks), NEW i \in 1 .. Len(bs) - 1, free(bs[i + 1]),
         NEW r, r = appendfollow(bs, i)
  PROVE  /\ Len(r) = Len(bs) - 1 /\ (free(r[i]) <=> free(bs[i]))
         /\ JoinedBut(bs, {i}) => JoinedBut(r, {})
         /\ JoinedBut(bs, {i, i + 1}) => JoinedBut(r, {i})
         /\ ~free(bs[i]) /\ JoinedBut(bs, {i + 1}) => JoinedBut(r, {})
<1> DEFINE a == [bs[i] EXCEPT !.size = @ + bs[i + 1].size]
<1>1. Len(bs) \in Nat /\ i \in 1 .. Len(bs) /\ i + 1 \in 1 .. Len(bs)
  BY Fields
<1>2. a \in Blocks /\ a.owner = bs[i].owner
  <2>1. /\ bs[i] \in Blocks /\ bs[i].ptr \in Nat /\ bs[i].size \in Nat
        /\ bs[i + 1].size \in Nat
    BY <1>1, Fields
  <2>2. bs[i].size + bs[i + 1].size \in Nat
    BY <2>1
  <2> QED
    BY <2>1, <2>2 DEF Blocks
<1>3. /\ r \in Seq(Blocks) /\ Len(r) = Len(bs) - 1
      /\ \A k \in 1 .. i - 1 : r[k] = bs[k]
      /\ r[i] = a
      /\ \A k \in i + 2 .. Len(bs) : r[k - 1] = bs[k]
  <2> HIDE DEF a
  <2>1. r = Splice(bs, i, 2, <<a>>)
    BY DEF appendfollow, a
  <2>2. bs \in Seq(Blocks) /\ i \in 1 .. Len(bs) - 1
    OBVIOUS
  <2>3. Merged(bs, i, a, r)
    BY <1>2, <2>1, <2>2, MergeIs, Zenon
  <2> QED
    BY ONLY <2>3 DEF Merged
<1>4. free(r[i]) <=> free(bs[i])
  BY <1>2, <1>3 DEF free
<1>5. ASSUME NEW k \in 1 .. Len(r) - 1, free(r[k]), free(r[k + 1])
      PROVE  \/ k < i /\ k \in 1 .. Len(bs) - 1 /\ free(bs[k]) /\ free(bs[k + 1])
             \/ k = i /\ i + 1 \in 1 .. Len(bs) - 1 /\ free(bs[(i + 1) + 1])
             \/ k > i /\ k + 1 \in 1 .. Len(bs) - 1 /\ free(bs[k + 1]) /\ free(bs[(k + 1) + 1])
  <2>1. CASE k < i - 1
    <3>1. k \in 1 .. i - 1 /\ k + 1 \in 1 .. i - 1 /\ k \in 1 .. Len(bs) - 1 /\ k < i
      BY <1>1, <2>1
    <3> QED
      BY <1>3, <1>5, <3>1
  <2>2. CASE k = i - 1
    <3>1. k \in 1 .. i - 1 /\ k + 1 = i /\ k \in 1 .. Len(bs) - 1 /\ k < i
      BY <1>1, <2>2
    <3>2. r[k] = bs[k]
      BY <1>3, <3>1
    <3> QED
      BY <1>4, <1>5, <3>1, <3>2
  <2>3. CASE k = i
    <3>1. i + 1 \in 1 .. Len(bs) - 1 /\ (i + 1) + 1 \in i + 2 .. Len(bs) /\ ((i + 1) + 1) - 1 = k + 1
      BY <1>1, <1>3, <2>3, SMTT(30)
    <3>2. r[k + 1] = bs[(i + 1) + 1]
      BY <1>3, <3>1
    <3> QED
      BY <1>5, <2>3, <3>1, <3>2
  <2>4. CASE k > i
    <3>1. /\ k + 1 \in 1 .. Len(bs) - 1 /\ k + 1 \in i + 2 .. Len(bs) /\ (k + 1) - 1 = k
          /\ (k + 1) + 1 \in i + 2 .. Len(bs) /\ ((k + 1) + 1) - 1 = k + 1
      BY <1>1, <1>3, <2>4
    <3>2. r[k] = bs[k + 1] /\ r[k + 1] = bs[(k + 1) + 1]
      BY <1>3, <3>1
    <3> QED
      BY <1>5, <2>4, <3>1, <3>2
  <2> QED
    BY <1>1, <2>1, <2>2, <2>3, <2>4
<1>6. ASSUME NEW S, NEW T, JoinedBut(bs, S), S \subseteq {i, i + 1},
             i + 1 \in S => i \in T \/ ~free(bs[i])
      PROVE  JoinedBut(r, T)
  <2> SUFFICES ASSUME NEW k \in (1 .. Len(r) - 1) \ T, free(r[k]), free(r[k + 1]) PROVE FALSE
    BY DEF JoinedBut
  <2>1. CASE k < i /\ k \in 1 .. Len(bs) - 1 /\ free(bs[k]) /\ free(bs[k + 1])
    <3>1. k \notin S
      BY <1>6, <2>1
    <3> QED
      BY <1>6, <2>1, <3>1 DEF JoinedBut
  <2>2. CASE k = i /\ i + 1 \in 1 .. Len(bs) - 1 /\ free(bs[(i + 1) + 1])
    <3>1. i + 1 \in S
      BY <1>6, <2>2 DEF JoinedBut
    <3> QED
      BY <1>4, <1>6, <2>2, <3>1
  <2>3. CASE k > i /\ k + 1 \in 1 .. Len(bs) - 1 /\ free(bs[k + 1]) /\ free(bs[(k + 1) + 1])
    <3>1. k + 1 \notin S
      BY <1>6, <2>3
    <3> QED
      BY <1>6, <2>3, <3>1 DEF JoinedBut
  <2> QED
    BY <1>5, <2>1, <2>2, <2>3
<1>7. JoinedBut(bs, {i}) => JoinedBut(r, {})
  <2>1. {i} \subseteq {i, i + 1} /\ i + 1 \notin {i}
    BY <1>1
  <2> QED
    BY <1>6, <2>1
<1>8. JoinedBut(bs, {i, i + 1}) => JoinedBut(r, {i})
  BY <1>6
<1>9. ~free(bs[i]) /\ JoinedBut(bs, {i + 1}) => JoinedBut(r, {})
  BY <1>6
<1> QED
  BY <1>3, <1>4, <1>7, <1>8, <1>9

\* Block i is free, and nobody else has a free neighbour.
MayJoin(bs, i) == i \in 1 .. Len(bs) /\ free(bs[i]) /\ JoinedBut(bs, {i - 1, i})

\* A freed block is joined with its free neighbours; nothing else changes.
LEMMA JoinfreeIs ==
  ASSUME NEW bs, NEW p, NEW q, NEW n, Good(bs, p, q, n), NEW i, MayJoin(bs, i),
         NEW r, r = joinfree(bs, i)
  PROVE  /\ Good(r, p, q, n) /\ Len(r) # 0 /\ JoinedBut(r, {})
         /\ Used(r) = Used(bs) /\ Owners(r) = Owners(bs)
<1>0. /\ p \in Int /\ n \in Int /\ Run(bs, p, q, n) /\ Owned(bs)
      /\ i \in 1 .. Len(bs) /\ free(bs[i]) /\ JoinedBut(bs, {i - 1, i})
  BY DEF Good, MayJoin
<1> USE <1>0
<1>1. bs \in Seq(Blocks) /\ Len(bs) \in Nat
  BY Fields DEF Run
<1>2. ASSUME NEW s, Run(s, p, q, n), Owned(s), NEW j \in 1 .. Len(s) - 1,
             free(s[j]), free(s[j + 1]), NEW t, t = appendfollow(s, j)
      PROVE  /\ Run(t, p, q, n) /\ Owned(t) /\ Used(t) = Used(s) /\ Owners(t) = Owners(s)
             /\ Len(t) = Len(s) - 1 /\ Len(t) # 0 /\ free(t[j])
             /\ JoinedBut(s, {j}) => JoinedBut(t, {})
             /\ JoinedBut(s, {j, j + 1}) => JoinedBut(t, {j})
  <2> DEFINE a == [s[j] EXCEPT !.size = @ + s[j + 1].size]
  <2>1. s \in Seq(Blocks) /\ Len(s) \in Nat /\ j \in 1 .. Len(s) /\ s[j] \in Blocks
    BY <1>2, Fields DEF Run
  <2> DEFINE d == 0
  <2>2. Swallows(s, j, a, d) /\ Good(s, p, q, n)
    BY <1>2 DEF Swallows, Good
  <2>3. n + d = n
    OBVIOUS
  <2>4. /\ Run(t, p, q, n + d) /\ Owned(t)
        /\ Used(t) = (Used(s) \ Used(<<s[j]>>)) \cup Used(<<a>>)
        /\ Owners(t) = Owners(s) /\ a \in Blocks /\ a.owner = s[j].owner
    <3> HIDE DEF a, d
    <3>1. Good(t, p, q, n + d) /\ Swallowed(s, t, j, a)
      BY <1>2, <2>2, AppendRun, Zenon
    <3> QED
      BY <3>1 DEF Good, Swallowed
  <2>5. Used(<<s[j]>>) = {} /\ Used(<<a>>) = {}
    BY <1>2, <2>1, <2>4, UsedOne DEF free
  <2>6. /\ Len(t) = Len(s) - 1 /\ (free(t[j]) <=> free(s[j]))
        /\ JoinedBut(s, {j}) => JoinedBut(t, {})
        /\ JoinedBut(s, {j, j + 1}) => JoinedBut(t, {j})
    BY <1>2, <2>1, AppendJoined
  <2>7. Len(t) # 0
    BY <2>1, <2>6
  <2> HIDE DEF a
  <2> QED
    BY <1>2, <2>3, <2>4, <2>5, <2>6, <2>7
<1> DEFINE before == i > 1 /\ free(bs[i - 1])
           j      == IF before THEN i - 1 ELSE i
           s      == IF before THEN appendfollow(bs, j) ELSE bs
<1>3. /\ Run(s, p, q, n) /\ Owned(s) /\ Used(s) = Used(bs) /\ Owners(s) = Owners(bs)
      /\ Len(s) # 0 /\ j \in 1 .. Len(s) /\ free(s[j]) /\ JoinedBut(s, {j})
  <2>1. CASE before
    <3>1. j = i - 1 /\ j \in 1 .. Len(bs) - 1 /\ j + 1 = i /\ s = appendfollow(bs, j) /\ free(bs[j])
      BY <1>1, <2>1
    <3> HIDE DEF j, s
    <3>2. /\ Run(s, p, q, n) /\ Owned(s) /\ Used(s) = Used(bs) /\ Owners(s) = Owners(bs)
          /\ Len(s) = Len(bs) - 1 /\ Len(s) # 0 /\ free(s[j])
          /\ JoinedBut(bs, {j, j + 1}) => JoinedBut(s, {j})
      BY <1>2, <3>1
    <3>3. JoinedBut(bs, {j, j + 1})
      BY <3>1
    <3> QED
      BY <3>1, <3>2, <3>3
  <2>2. CASE ~before
    <3>1. j = i /\ s = bs
      BY <2>2
    <3>2. JoinedBut(bs, {i})
      <4>1. ASSUME NEW k \in (1 .. Len(bs) - 1) \ {i}, free(bs[k]), free(bs[k + 1]) PROVE FALSE
        <5>1. CASE k = i - 1
          BY <2>2, <4>1, <5>1
        <5>2. CASE k # i - 1
          BY <4>1, <5>2 DEF JoinedBut
        <5> QED
          BY <5>1, <5>2
      <4> QED
        BY <4>1 DEF JoinedBut
    <3> HIDE DEF before, j, s
    <3> QED
      BY <1>1, <3>1, <3>2
  <2> HIDE DEF before, j, s
  <2> QED
    BY <2>1, <2>2
<1>4. r = IF j < Len(s) /\ free(s[j + 1]) THEN appendfollow(s, j) ELSE s
  BY DEF joinfree
<1> HIDE DEF before, j, s
<1>5. s \in Seq(Blocks) /\ Len(s) \in Nat
  BY <1>3, Fields DEF Run
<1> SUFFICES /\ Run(r, p, q, n) /\ Owned(r) /\ Len(r) # 0 /\ JoinedBut(r, {})
             /\ Used(r) = Used(bs) /\ Owners(r) = Owners(bs)
  BY DEF Good
<1>6. CASE j < Len(s) /\ free(s[j + 1])
  <2>1. j \in 1 .. Len(s) - 1 /\ r = appendfollow(s, j)
    BY <1>3, <1>4, <1>5, <1>6
  <2> QED
    BY <1>2, <1>3, <1>6, <2>1, ZenonT(40)
<1>7. CASE ~(j < Len(s) /\ free(s[j + 1]))
  <2>1. r = s
    BY <1>4, <1>7
  <2>2. JoinedBut(s, {})
    <3>1. ASSUME NEW k \in 1 .. Len(s) - 1, free(s[k]), free(s[k + 1]) PROVE FALSE
      <4>1. k = j
        BY <1>3, <3>1 DEF JoinedBut
      <4> QED
        BY <1>3, <1>5, <1>7, <3>1, <4>1
    <3> QED
      BY <3>1 DEF JoinedBut
  <2> QED
    BY <1>3, <2>1, <2>2
<1> QED
  BY <1>6, <1>7

----------------------------------------------------------------------------
(* Searching the list *)

\* The block of a handle is found, and it is the only one.
LEMMA FindIs ==
  ASSUME NEW bs \in Seq(Blocks), Owned(bs), NEW h \in Handles
  PROVE  /\ Live(bs, h) <=> h \in Owners(bs)
         /\ Live(bs, h) => /\ Find(bs, h) \in InUse(bs) /\ Find(bs, h) \in 1 .. Len(bs)
                           /\ bs[Find(bs, h)].owner = h /\ bs[Find(bs, h)] \in Used(bs)
         /\ \A j \in 1 .. Len(bs) : bs[j].owner = h => j = Find(bs, h)
         /\ \A b \in Used(bs) : b.owner = h => b = bs[Find(bs, h)]
<1>1. h # NoOne
  BY AllocatorAssumption
<1>2. \A j \in 1 .. Len(bs) : bs[j].owner = h => j \in InUse(bs)
  BY <1>1 DEF InUse, free
<1>3. Live(bs, h) <=> h \in Owners(bs)
  BY <1>2 DEF Live, Owners, InUse
<1>4. Live(bs, h) => Find(bs, h) \in 1 .. Len(bs) /\ bs[Find(bs, h)].owner = h
  BY Zenon DEF Live, Find
<1>5. Live(bs, h) => Find(bs, h) \in InUse(bs) /\ bs[Find(bs, h)] \in Used(bs)
  BY <1>2, <1>4 DEF Used
<1>6. ASSUME NEW j \in 1 .. Len(bs), bs[j].owner = h PROVE j = Find(bs, h)
  <2>1. Live(bs, h)
    BY <1>6 DEF Live
  <2> QED
    BY <1>2, <1>4, <1>5, <1>6, <2>1 DEF Owned
<1>7. ASSUME NEW b \in Used(bs), b.owner = h PROVE b = bs[Find(bs, h)]
  <2>1. PICK j \in InUse(bs) : b = bs[j]
    BY DEF Used
  <2>2. j \in 1 .. Len(bs) /\ bs[j].owner = h
    BY <1>7, <2>1 DEF InUse
  <2> QED
    BY <1>6, <2>1, <2>2
<1> QED
  BY <1>3, <1>4, <1>5, <1>6, <1>7

\* findblock finds a free block that is large enough when there is one.
LEMMA FindblockIs ==
  ASSUME NEW bs \in Seq(Blocks), NEW N \in Nat
  PROVE  /\ findblock(bs, N) # 0 =>
              /\ findblock(bs, N) \in 1 .. Len(bs)
              /\ free(bs[findblock(bs, N)]) /\ bs[findblock(bs, N)].size >= N
         /\ \A i \in 1 .. Len(bs) : free(bs[i]) /\ bs[i].size >= N => findblock(bs, N) # 0
<1> DEFINE fits == {i \in 1 .. Len(bs) : free(bs[i]) /\ bs[i].size >= N}
<1>1. findblock(bs, N) = IF fits = {} THEN 0 ELSE CHOOSE i \in fits : \A j \in fits : i <= j
  BY DEF findblock
<1>2. fits # {} => \E i \in fits : \A j \in fits : i <= j
  <2>1. fits \in SUBSET Nat
    BY Fields
  <2> HIDE DEF fits
  <2> QED
    BY <2>1, LeastNatural
<1>3. fits # {} => findblock(bs, N) \in fits
  <2> HIDE DEF fits
  <2> QED
    BY <1>1, <1>2, Zenon
<1>4. fits = {} => findblock(bs, N) = 0
  BY <1>1
<1>5. \A i \in fits : i # 0
  OBVIOUS
<1> QED
  BY <1>3, <1>4, <1>5

----------------------------------------------------------------------------
(* What the handles see *)

\* Blocks in a row do not overlap.
LEMMA InRow ==
  ASSUME NEW bs \in Seq(Blocks),
         \A i \in 1 .. Len(bs) - 1 : bs[i + 1].ptr = bs[i].ptr + bs[i].size
  PROVE  \A i, j \in 1 .. Len(bs) : i < j => bs[i].ptr + bs[i].size <= bs[j].ptr
<1> DEFINE l == Len(bs)
           S == {d \in 0 .. l : \A i \in 1 .. l : (i + d) + 1 <= l =>
                                  bs[i].ptr + bs[i].size <= bs[(i + d) + 1].ptr}
<1>1. l \in Nat /\ \A i \in 1 .. l : bs[i].ptr \in Nat /\ bs[i].size \in Nat
  BY Fields
<1>2. \A i \in 1 .. l - 1 : bs[i + 1].ptr = bs[i].ptr + bs[i].size
  OBVIOUS
<1> HIDE DEF l
<1>3. 0 \in S
  <2>1. ASSUME NEW i \in 1 .. l, (i + 0) + 1 <= l
        PROVE  bs[i].ptr + bs[i].size <= bs[(i + 0) + 1].ptr
    <3>1. i \in 1 .. l - 1 /\ (i + 0) + 1 = i + 1
      BY <1>1, <2>1
    <3>2. bs[i + 1].ptr = bs[i].ptr + bs[i].size /\ bs[i].ptr \in Nat /\ bs[i].size \in Nat
      BY <1>1, <1>2, <3>1
    <3> QED
      BY <3>1, <3>2
  <2> QED
    BY <1>1, <2>1
<1>4. ASSUME NEW d \in 0 .. l - 1, d \in S PROVE d + 1 \in S
  <2>1. ASSUME NEW i \in 1 .. l, (i + (d + 1)) + 1 <= l
        PROVE  bs[i].ptr + bs[i].size <= bs[(i + (d + 1)) + 1].ptr
    <3> DEFINE j == (i + d) + 1
    <3>1. j \in 1 .. l - 1 /\ j <= l /\ (i + (d + 1)) + 1 = j + 1 /\ j \in 1 .. l
      BY <1>1, <2>1
    <3>2. bs[i].ptr + bs[i].size <= bs[j].ptr
      BY <1>4, <3>1
    <3> HIDE DEF j
    <3>3. /\ bs[j + 1].ptr = bs[j].ptr + bs[j].size /\ bs[j].ptr \in Nat /\ bs[j].size \in Nat
          /\ bs[i].ptr \in Nat /\ bs[i].size \in Nat
      BY <1>1, <1>2, <3>1
    <3>4. bs[i].ptr + bs[i].size <= bs[j + 1].ptr
      <4>1. \A x, y, z, u, v \in Nat : x + y <= z /\ u = z + v => x + y <= u
        OBVIOUS
      <4>2. bs[j + 1].ptr \in Nat
        BY <3>3, SMTT(30)
      <4> QED
        BY <3>2, <3>3, <4>1, <4>2, Zenon
    <3>5. (i + (d + 1)) + 1 = j + 1
      BY <3>1
    <3> QED
      BY <3>4, <3>5, Zenon
  <2>2. d + 1 \in 0 .. l
    BY <1>1
  <2> QED
    BY <2>1, <2>2
<1> HIDE DEF S
<1>5. 0 .. l \subseteq S
  BY <1>1, <1>3, <1>4, UpTo
<1>6. ASSUME NEW i \in 1 .. l, NEW j \in 1 .. l, i < j
      PROVE  bs[i].ptr + bs[i].size <= bs[j].ptr
  <2> DEFINE d == (j - i) - 1
  <2>1. d \in 0 .. l /\ (i + d) + 1 = j /\ (i + d) + 1 <= l
    BY <1>1, <1>6
  <2> HIDE DEF d
  <2>2. d \in S
    BY <1>5, <2>1
  <2>3. bs[i].ptr + bs[i].size <= bs[(i + d) + 1].ptr
    BY <2>1, <2>2 DEF S
  <2> QED
    BY <2>1, <2>3
<1> QED
  BY <1>6 DEF l

\* No cell is in two blocks.
Apart(bs) ==
  \A b, c \in Used(bs) :
    b.owner # c.owner => b.ptr + b.size <= c.ptr \/ c.ptr + c.size <= b.ptr

LEMMA RunApart ==
  ASSUME NEW bs, NEW p \in Int, NEW q, NEW n, Run(bs, p, q, n)
  PROVE  Apart(bs)
<1>1. bs \in Seq(Blocks) /\ Len(bs) \in Nat
  BY Fields DEF Run
<1>2. \A i, j \in 1 .. Len(bs) : i < j => bs[i].ptr + bs[i].size <= bs[j].ptr
  <2>1. \A i \in 1 .. Len(bs) - 1 : bs[i + 1].ptr = bs[i].ptr + bs[i].size
    BY RunFacts
  <2> QED
    BY <1>1, <2>1, InRow
<1> SUFFICES ASSUME NEW b \in Used(bs), NEW c \in Used(bs), b.owner # c.owner
             PROVE  b.ptr + b.size <= c.ptr \/ c.ptr + c.size <= b.ptr
  BY DEF Apart
<1>3. PICK i \in 1 .. Len(bs) : b = bs[i]
  BY DEF Used, InUse
<1>4. PICK j \in 1 .. Len(bs) : c = bs[j]
  BY DEF Used, InUse
<1>5. i < j \/ j < i
  BY <1>1, <1>3, <1>4
<1> QED
  BY <1>2, <1>3, <1>4, <1>5

\* The cells of a block, in order.
Row(mem, b) == [i \in 1 .. b.size |-> mem[b.ptr + (i - 1)]]

\* What h sees of the heap hp.
See(hp, h) == IF Live(hp.blocks, h) THEN Row(hp.mem, hp.blocks[Find(hp.blocks, h)]) ELSE NoOne

\* A handle sees its block.
LEMMA SeeIs ==
  ASSUME NEW hp, hp.blocks \in Seq(Blocks), Owned(hp.blocks), NEW h \in Handles
  PROVE  /\ \A b \in Used(hp.blocks) : b.owner = h => Live(hp.blocks, h) /\ See(hp, h) = Row(hp.mem, b)
         /\ (\A b \in Used(hp.blocks) : b.owner # h) => ~Live(hp.blocks, h) /\ See(hp, h) = NoOne
<1> DEFINE bs == hp.blocks
<1>1. ASSUME NEW b \in Used(bs), b.owner = h PROVE Live(bs, h) /\ See(hp, h) = Row(hp.mem, b)
  <2>1. b = bs[Find(bs, h)]
    BY <1>1, FindIs
  <2>2. Live(bs, h)
    BY <1>1, FindIs DEF Used, Owners
  <2> QED
    BY <2>1, <2>2, Zenon DEF See
<1>2. ASSUME \A b \in Used(bs) : b.owner # h PROVE ~Live(bs, h) /\ See(hp, h) = NoOne
  <2>1. ~Live(bs, h)
    BY <1>2, FindIs
  <2> QED
    BY <2>1 DEF See
<1> QED
  BY <1>1, <1>2

\* Every handle sees in r what it sees in hp.
SeesTheSame(hp, r) ==
  \A h \in Handles : See(r, h) = See(hp, h) /\ (Live(r.blocks, h) <=> Live(hp.blocks, h))

----------------------------------------------------------------------------
(* Defragmentation *)

CopyStart(hp) == [blocks |-> <<>>, at |-> IF hp.ping_pong THEN 0 ELSE Half]
CopyStep(hp, places, copy, k) == IF k \in places THEN Behind(copy, hp.blocks[k]) ELSE copy

\* f is the loop of the defragmentation up to the n-th block.
Copies(f, hp, places, n) ==
  f = [k \in 0 .. n |-> IF k = 0 THEN CopyStart(hp) ELSE CopyStep(hp, places, f[k - 1], k)]

\* The loop comes to its end.
LEMMA CopiedIs ==
  ASSUME NEW hp, NEW places, Len(hp.blocks) \in Nat
  PROVE  \E f : /\ f[0] = CopyStart(hp) /\ Copied(hp, places) = f[Len(hp.blocks)]
                /\ \A k \in 1 .. Len(hp.blocks) : f[k] = CopyStep(hp, places, f[k - 1], k)
<1> DEFINE n == Len(hp.blocks)
           K == {k \in 0 .. n : \E f : Copies(f, hp, places, k)}
<1>0. n \in Nat
  OBVIOUS
<1> HIDE DEF n
<1>1. 0 \in K
  <2> DEFINE g == [k \in 0 .. 0 |-> CopyStart(hp)]
             h == [k \in 0 .. 0 |-> IF k = 0 THEN CopyStart(hp) ELSE CopyStep(hp, places, g[k - 1], k)]
  <2>1. ASSUME NEW k \in 0 .. 0 PROVE g[k] = h[k]
    <3>1. k = 0
      OBVIOUS
    <3> QED
      BY <3>1, Zenon
  <2>2. g = h
    BY <2>1, Zenon
  <2>3. Copies(g, hp, places, 0)
    BY <2>2, Zenon DEF Copies
  <2> HIDE DEF g
  <2> QED
    BY <1>0, <2>3
<1>2. ASSUME NEW k \in 0 .. n - 1, k \in K PROVE k + 1 \in K
  <2>1. PICK f : Copies(f, hp, places, k)
    BY <1>2
  <2> DEFINE g == [i \in 0 .. k + 1 |-> IF i = k + 1 THEN CopyStep(hp, places, f[k], k + 1) ELSE f[i]]
             h == [i \in 0 .. k + 1 |-> IF i = 0 THEN CopyStart(hp)
                                        ELSE CopyStep(hp, places, g[i - 1], i)]
  <2>2. k + 1 \in 0 .. n /\ k \in Nat /\ k + 1 # 0
    BY <1>0
  <2>3. ASSUME NEW i \in 0 .. k + 1 PROVE g[i] = h[i]
    <3>1. CASE i = k + 1
      <4>1. i - 1 = k /\ i # 0 /\ k \in 0 .. k + 1 /\ k # k + 1
        BY <2>2, <3>1
      <4>2. g[k] = f[k]
        BY <4>1, Zenon
      <4> QED
        BY <3>1, <4>1, <4>2, Zenon
    <3>2. CASE i # k + 1
      <4>1. i \in 0 .. k /\ (i # 0 => i - 1 \in 0 .. k + 1 /\ i - 1 # k + 1)
        BY <2>2, <3>2
      <4>2. f[i] = IF i = 0 THEN CopyStart(hp) ELSE CopyStep(hp, places, f[i - 1], i)
        BY <2>1, <4>1, Zenon DEF Copies
      <4> QED
        BY <3>2, <4>1, <4>2, Zenon
    <3> QED
      BY <3>1, <3>2
  <2>4. g = h
    BY <2>3, Zenon
  <2>5. Copies(g, hp, places, k + 1)
    BY <2>4, Zenon DEF Copies
  <2> HIDE DEF g, h
  <2> QED
    BY <2>2, <2>5
<1> HIDE DEF K
<1>3. 0 .. n \subseteq K
  BY <1>0, <1>1, <1>2, UpTo, Zenon
<1>4. \E f : Copies(f, hp, places, n)
  BY <1>0, <1>3 DEF K
<1> DEFINE F == CHOOSE f : Copies(f, hp, places, n)
<1>5. Copies(F, hp, places, n)
  BY <1>4, Zenon
<1>6. Copied(hp, places) = F[n]
  BY Zenon DEF Copied, Copies, CopyStart, CopyStep, n
<1> HIDE DEF F
<1>7. F[0] = CopyStart(hp)
  <2>1. 0 \in 0 .. n
    BY <1>0
  <2> QED
    BY <1>5, <2>1, Zenon DEF Copies
<1>8. ASSUME NEW k \in 1 .. n PROVE F[k] = CopyStep(hp, places, F[k - 1], k)
  <2>1. k \in 0 .. n /\ k # 0
    BY <1>0
  <2> QED
    BY <1>5, <2>1, Zenon DEF Copies
<1> QED
  BY <1>6, <1>7, <1>8 DEF n

\* Block b may come behind the last one.
Follows(bs, p, n, b) ==
  /\ p \in Int /\ n \in Int /\ b \in Blocks
  /\ Run(bs, p, b.ptr, n) /\ Owned(bs) /\ b.owner \notin Owners(bs)

\* The list r is bs with b behind it.
Followed(bs, p, n, b, r) ==
  /\ Run(r, p, b.ptr + b.size, n + FreeCells(b)) /\ Owned(r)
  /\ InUse(r) = IF free(b) THEN InUse(bs) ELSE InUse(bs) \cup {Len(bs) + 1}
  /\ Sizes(r) = IF free(b) THEN Sizes(bs) ELSE Sizes(bs) \cup {<<b.owner, b.size>>}
  /\ Owners(r) = IF free(b) THEN Owners(bs) ELSE Owners(bs) \cup {b.owner}
  /\ Len(r) = Len(bs) + 1 /\ r[Len(bs) + 1] = b /\ \A i \in 1 .. Len(bs) : r[i] = bs[i]

\* A block is put behind the last one.
LEMMA AppendOne ==
  ASSUME NEW bs, NEW p, NEW n, NEW b, Follows(bs, p, n, b), NEW r, r = Append(bs, b)
  PROVE  Followed(bs, p, n, b, r)
<1>0. /\ p \in Int /\ n \in Int /\ b \in Blocks
      /\ Run(bs, p, b.ptr, n) /\ Owned(bs) /\ b.owner \notin Owners(bs)
  BY DEF Follows
<1>1. bs \in Seq(Blocks) /\ Len(bs) \in Nat
  BY <1>0, Fields DEF Run
<1>2. r \in Seq(Blocks) /\ Len(r) = Len(bs) + 1 /\ r[Len(bs) + 1] = b /\ \A i \in 1 .. Len(bs) : r[i] = bs[i]
  BY <1>0, <1>1, AppendProperties
<1>3. r = bs \o <<b>>
  BY <1>0, <1>1, AppendIsConcat
<1>4. FreeCells(b) \in Nat /\ b.size \in Nat
  BY <1>0 DEF FreeCells, Blocks
<1>5. Run(r, p, b.ptr + b.size, n + FreeCells(b))
  <2> DEFINE t == <<b>>
             q == b.ptr
  <2>1. Run(t, q, q + b.size, FreeCells(b)) /\ Run(bs, p, q, n)
    <3>1. q \in Int
      BY <1>0 DEF Blocks
    <3> QED
      BY <1>0, <3>1, RunOne
  <2> HIDE DEF t, q
  <2>2. Run(bs \o t, p, q + b.size, n + FreeCells(b))
    BY <1>0, <1>4, <2>1, RunConcat
  <2> QED
    BY <1>3, <2>2 DEF t, q
<1>6. Owned(r) /\ Owners(r) = IF free(b) THEN Owners(bs) ELSE Owners(bs) \cup {b.owner}
  <2> DEFINE t == <<b>>
  <2>1. t \in Seq(Blocks) /\ Owned(t) /\ Owners(t) = IF free(b) THEN {} ELSE {b.owner}
    BY <1>0, UsedOne
  <2> HIDE DEF t
  <2>2. /\ Owners(bs \o t) = Owners(bs) \cup Owners(t)
        /\ Owned(bs \o t) <=> Owned(bs) /\ Owned(t) /\ Owners(bs) \cap Owners(t) = {}
    BY ONLY <1>1, <2>1, UsedConcat
  <2>3. r = bs \o t
    BY <1>3 DEF t
  <2> QED
    BY <1>0, <2>1, <2>2, <2>3
<1>7. InUse(r) = IF free(b) THEN InUse(bs) ELSE InUse(bs) \cup {Len(bs) + 1}
  <2>1. 1 .. Len(r) = (1 .. Len(bs)) \cup {Len(bs) + 1} /\ Len(bs) + 1 \notin 1 .. Len(bs)
    BY <1>1, <1>2
  <2> QED
    BY <1>2, <2>1 DEF InUse
<1>8. Sizes(r) = IF free(b) THEN Sizes(bs) ELSE Sizes(bs) \cup {<<b.owner, b.size>>}
  <2>1. \A i \in InUse(bs) : r[i].owner = bs[i].owner /\ r[i].size = bs[i].size
    BY <1>2 DEF InUse
  <2>2. r[Len(bs) + 1].owner = b.owner /\ r[Len(bs) + 1].size = b.size
    BY <1>2
  <2>3. CASE free(b)
    BY <1>7, <2>1, <2>3 DEF Sizes
  <2>4. CASE ~free(b)
    BY <1>7, <2>1, <2>2, <2>4, ZenonT(60) DEF Sizes
  <2> QED
    BY <2>3, <2>4
<1> QED
  BY <1>2, <1>5, <1>6, <1>7, <1>8 DEF Followed

\* Block b in use is not yet in the copy c.
MayCopy(c, p, b) ==
  /\ p \in Int /\ c.at \in Nat /\ Packed(c.blocks, p, c.at)
  /\ b \in Blocks /\ ~free(b) /\ b.owner \notin Owners(c.blocks)

\* The copy d is c with b behind it.
HasCopy(c, p, b, d) ==
  /\ d.at = c.at + b.size /\ d.at \in Nat /\ Packed(d.blocks, p, d.at)
  /\ Sizes(d.blocks) = Sizes(c.blocks) \cup {<<b.owner, b.size>>}
  /\ Len(d.blocks) = Len(c.blocks) + 1
  /\ d.blocks[Len(c.blocks) + 1] = [b EXCEPT !.ptr = c.at]

\* A block in use is copied behind the others.
LEMMA BehindIs ==
  ASSUME NEW c, NEW p, NEW b, MayCopy(c, p, b), NEW d, d = Behind(c, b)
  PROVE  HasCopy(c, p, b, d)
<1> DEFINE a == [b EXCEPT !.ptr = c.at]
           s == c.blocks
           r == Append(s, a)
<1>0. /\ p \in Int /\ c.at \in Nat /\ Packed(c.blocks, p, c.at)
      /\ b \in Blocks /\ ~free(b) /\ b.owner \notin Owners(c.blocks)
  BY DEF MayCopy
<1>1. a \in Blocks /\ a.ptr = c.at /\ a.size = b.size /\ a.owner = b.owner /\ b.size \in Nat
  BY <1>0 DEF Blocks
<1>2. d.blocks = r /\ d.at = c.at + b.size
  BY DEF Behind
<1>3. /\ Run(s, p, c.at, 0) /\ Owned(s) /\ InUse(s) = 1 .. Len(s) /\ ~free(a) /\ FreeCells(a) = 0
      /\ a.owner \notin Owners(s)
  BY <1>0, <1>1 DEF Packed, free, FreeCells
<1>4. s \in Seq(Blocks) /\ Len(s) \in Nat
  BY <1>3, Fields DEF Run
<1> HIDE DEF a, s, r
<1> DEFINE z == 0
<1>9. Follows(s, p, z, a) /\ r = Append(s, a)
  BY <1>0, <1>1, <1>3 DEF r, Follows
<1> HIDE DEF z
<1>5. /\ Run(r, p, a.ptr + a.size, z + FreeCells(a)) /\ Owned(r)
      /\ InUse(r) = IF free(a) THEN InUse(s) ELSE InUse(s) \cup {Len(s) + 1}
      /\ Sizes(r) = IF free(a) THEN Sizes(s) ELSE Sizes(s) \cup {<<a.owner, a.size>>}
      /\ Len(r) = Len(s) + 1 /\ r[Len(s) + 1] = a
  <2>1. Followed(s, p, z, a, r)
    BY <1>9, AppendOne, Zenon
  <2> QED
    BY <2>1 DEF Followed
<1>6. InUse(r) = 1 .. Len(r)
  BY <1>3, <1>4, <1>5
<1>7. Run(r, p, c.at + b.size, 0)
  <2>1. z + FreeCells(a) = 0 /\ a.ptr + a.size = c.at + b.size
    BY <1>1, <1>3 DEF z
  <2> QED
    BY <1>5, <2>1, Zenon
<1>8. c.at + b.size \in Nat
  BY <1>0, <1>1
<1> QED
  BY <1>1, <1>2, <1>3, <1>5, <1>6, <1>7, <1>8 DEF Packed, s, a, HasCopy

\* The active half begins at the cell Start, the other at the cell Other.
Start(hp) == IF hp.ping_pong THEN Half ELSE 0
Other(hp) == IF hp.ping_pong THEN 0 ELSE Half

\* What a cell may hold.
Values == {Junk} \cup {Value(h, i) : h \in Handles, i \in 0 .. Half}

\* The blocks of hp tile the active half, n cells are free, no two free blocks
\* are neighbours and no handle has two blocks.
Sound(hp, n) ==
  /\ hp \in [blocks : Seq(Blocks), mem : [Cells -> Values], ping_pong : BOOLEAN]
  /\ n \in Int /\ Run(hp.blocks, Start(hp), Start(hp) + Half, n)
  /\ Owned(hp.blocks) /\ JoinedBut(hp.blocks, {}) /\ Len(hp.blocks) # 0

\* c is a copy of the blocks in use of hp but the x-th.
CopyBut(hp, n, x, c) ==
  /\ c.at \in Nat /\ Packed(c.blocks, Other(hp), c.at)
  /\ Sizes(c.blocks) = {<<hp.blocks[i].owner, hp.blocks[i].size>> : i \in InUse(hp.blocks) \ {x}}
  /\ (c.at + (IF x \in InUse(hp.blocks) THEN hp.blocks[x].size ELSE 0)) + n = Other(hp) + Half

\* The loop of a defragmentation makes such a copy.
LEMMA PackedIs ==
  ASSUME NEW hp, NEW n, Sound(hp, n), NEW x \in 0 .. Len(hp.blocks),
         NEW c, c = Copied(hp, InUse(hp.blocks) \ {x})
  PROVE  CopyBut(hp, n, x, c)
<1> DEFINE p == Start(hp)
           q == Start(hp) + Half
           nb == Other(hp)
           places == InUse(hp.blocks) \ {x}
<1>0. /\ p \in Int /\ n \in Int /\ nb \in Nat /\ q = p + Half
      /\ Run(hp.blocks, p, q, n) /\ Owned(hp.blocks)
      /\ places = InUse(hp.blocks) \ {x} /\ c = Copied(hp, places)
      /\ nb = IF hp.ping_pong THEN 0 ELSE Half
  BY AllocatorAssumption DEF Sound, Start, Other
<1> HIDE DEF p, q, nb, places
<1> USE <1>0
<1> DEFINE bs == hp.blocks
           l == Len(bs)
<1>1. bs \in Seq(Blocks) /\ l \in Nat
  BY Fields DEF Run
<1>2. \A i \in 1 .. l : /\ bs[i] \in Blocks /\ bs[i].size \in Nat /\ FreeCells(bs[i]) \in Nat
  BY <1>1, Fields
<1>3. PICK e, f : Marks(bs, e, f) /\ e[0] = p /\ e[l] = q /\ f[l] = n
  BY DEF Run
<1>4. /\ \A i \in 0 .. l : e[i] \in Int /\ f[i] \in Int
      /\ f[0] = 0 /\ e[0] = p
      /\ \A i \in 1 .. l : e[i] = e[i - 1] + bs[i].size /\ f[i] = f[i - 1] + FreeCells(bs[i])
  BY <1>3 DEF Marks
<1>5. PICK F : /\ F[0] = CopyStart(hp) /\ c = F[l]
               /\ \A k \in 1 .. l : F[k] = CopyStep(hp, places, F[k - 1], k)
  <2>1. \E F : /\ F[0] = CopyStart(hp) /\ Copied(hp, places) = F[Len(hp.blocks)]
               /\ \A k \in 1 .. Len(hp.blocks) : F[k] = CopyStep(hp, places, F[k - 1], k)
    BY ONLY <1>1, CopiedIs
  <2> QED
    BY <2>1, Zenon
<1> DEFINE W(k) == IF x \in InUse(bs) /\ x <= k THEN bs[x].size ELSE 0
           G(k) == {<<bs[i].owner, bs[i].size>> : i \in {j \in places : j <= k}}
           S == {k \in 0 .. l : /\ F[k].at \in Nat /\ Packed(F[k].blocks, nb, F[k].at)
                                /\ Sizes(F[k].blocks) = G(k)
                                /\ (F[k].at + W(k)) + f[k] = e[k] + (nb - p)}
<1>6. InUse(bs) \subseteq 1 .. l /\ places \subseteq 1 .. l
  BY DEF InUse
<1>7. 0 \in S
  <2>1. F[0].at = nb /\ F[0].blocks = <<>>
    BY <1>5 DEF CopyStart
  <2>2. InUse(<<>>) = {} /\ Len(<<>>) = 0 /\ <<>> \in Seq(Blocks)
    BY EmptySeq DEF InUse
  <2>3. Owned(<<>>) /\ Sizes(<<>>) = {}
    BY <2>2 DEF Owned, Sizes
  <2>4. Run(<<>>, nb, nb, 0)
    <3> DEFINE u == [i \in 0 .. 0 |-> nb]
               v == [i \in 0 .. 0 |-> 0]
    <3>1. u \in [0 .. 0 -> Int] /\ v \in [0 .. 0 -> Int] /\ u[0] = nb /\ v[0] = 0
      OBVIOUS
    <3> HIDE DEF u, v
    <3>2. Marks(<<>>, u, v)
      BY <2>2, <3>1 DEF Marks
    <3> QED
      BY <2>2, <3>1, <3>2 DEF Run
  <2>5. G(0) = {} /\ W(0) = 0
    BY <1>6
  <2>6. Packed(<<>>, nb, nb)
    BY <2>2, <2>3, <2>4 DEF Packed
  <2>7. (nb + 0) + f[0] = e[0] + (nb - p)
    BY <1>4
  <2> HIDE DEF G, W
  <2>8. /\ F[0].at \in Nat /\ Packed(F[0].blocks, nb, F[0].at)
        /\ Sizes(F[0].blocks) = G(0) /\ (F[0].at + W(0)) + f[0] = e[0] + (nb - p)
    BY <2>1, <2>3, <2>5, <2>6, <2>7
  <2> QED
    BY <1>1, <2>8
<1>8. ASSUME NEW k \in 0 .. l - 1, k \in S PROVE k + 1 \in S
  <2> DEFINE m == k + 1
             b == bs[m]
  <2>1. m \in 1 .. l /\ m \in 0 .. l /\ m - 1 = k /\ k \in Nat /\ k \in 0 .. l /\ m \in Nat /\ m = k + 1
    BY <1>1
  <2>2. /\ F[k].at \in Nat /\ Packed(F[k].blocks, nb, F[k].at)
        /\ Sizes(F[k].blocks) = G(k)
        /\ (F[k].at + W(k)) + f[k] = e[k] + (nb - p)
    BY <1>8
  <2> HIDE DEF m, S
  <2>3. /\ F[m] = CopyStep(hp, places, F[k], m) /\ b \in Blocks /\ b.size \in Nat
        /\ e[m] = e[k] + b.size /\ f[m] = f[k] + FreeCells(b)
        /\ e[k] \in Int /\ f[k] \in Int /\ FreeCells(b) \in Nat
    BY <1>2, <1>4, <1>5, <2>1
  <2>4. CASE m \in places
    <3>1. ~free(b) /\ m # x /\ m \in InUse(bs)
      BY <2>4 DEF InUse
    <3>2. F[m] = Behind(F[k], b)
      BY <2>3, <2>4 DEF CopyStep
    <3>3. b.owner \notin Owners(F[k].blocks)
      <4>1. SUFFICES ASSUME b.owner \in Owners(F[k].blocks) PROVE FALSE
        OBVIOUS
      <4>2. PICK j \in InUse(F[k].blocks) : F[k].blocks[j].owner = b.owner
        BY <4>1 DEF Owners
      <4>3. <<b.owner, F[k].blocks[j].size>> \in G(k)
        BY <2>2, <4>2 DEF Sizes
      <4>4. PICK i \in places : i <= k /\ bs[i].owner = b.owner
        BY <4>3
      <4>5. i = m
        BY <3>1, <4>4 DEF Owned
      <4> QED
        BY <2>1, <4>4, <4>5
    <3>4. /\ F[m].at = F[k].at + b.size /\ F[m].at \in Nat /\ Packed(F[m].blocks, nb, F[m].at)
          /\ Sizes(F[m].blocks) = Sizes(F[k].blocks) \cup {<<b.owner, b.size>>}
      <4> DEFINE u == F[k]
                 v == F[m]
      <4>1. MayCopy(u, nb, b) /\ v = Behind(u, b)
        BY <2>2, <2>3, <3>1, <3>2, <3>3 DEF MayCopy
      <4> HIDE DEF u, v, b
      <4>2. /\ v.at = u.at + b.size /\ v.at \in Nat /\ Packed(v.blocks, nb, v.at)
            /\ Sizes(v.blocks) = Sizes(u.blocks) \cup {<<b.owner, b.size>>}
        <5>1. HasCopy(u, nb, b, v)
          BY <4>1, BehindIs, Zenon
        <5> QED
          BY <5>1 DEF HasCopy
      <4> QED
        BY <4>2 DEF u, v
    <3>5. G(m) = G(k) \cup {<<b.owner, b.size>>}
      <4>1. {j \in places : j <= m} = {j \in places : j <= k} \cup {m}
        BY <1>6, <2>1, <2>4
      <4> HIDE DEF bs
      <4> QED
        BY <4>1
    <3>6. W(m) = W(k)
      BY <2>1, <3>1
    <3>7. FreeCells(b) = 0
      BY <3>1 DEF FreeCells
    <3>8. (F[m].at + W(m)) + f[m] = e[m] + (nb - p)
      <4> DEFINE w == W(k)
                 t == nb - p
      <4>1. w \in Int /\ t \in Int
        BY <1>2, <1>6
      <4> HIDE DEF w, t
      <4>2. (F[k].at + w) + f[k] = e[k] + t
        BY <2>2 DEF w, t
      <4>4. ((F[k].at + b.size) + w) + (f[k] + 0) = (e[k] + b.size) + t
        <5> DEFINE a1 == F[k].at
                   b1 == b.size
                   c1 == e[k]
                   d1 == f[k]
        <5>1. a1 \in Int /\ b1 \in Int /\ c1 \in Int /\ d1 \in Int /\ (a1 + w) + d1 = c1 + t
          BY <2>2, <2>3, <4>2, SMTT(60)
        <5> HIDE DEF a1, b1, c1, d1
        <5>2. ((a1 + b1) + w) + (d1 + 0) = (c1 + b1) + t
          BY ONLY <4>1, <5>1
        <5> QED
          BY <5>2, Zenon DEF a1, b1, c1, d1
      <4>5. W(m) = w
        BY <3>6 DEF w
      <4> HIDE DEF W, G, b
      <4>6. F[m].at = F[k].at + b.size /\ f[m] = f[k] + 0 /\ e[m] = e[k] + b.size
        BY <2>3, <3>4, <3>7, Zenon
      <4>7. (F[m].at + W(m)) + f[m] = e[m] + t
        BY <4>4, <4>5, <4>6, Zenon
      <4> QED
        BY <4>7 DEF t
    <3> HIDE DEF G, W, b
    <3>9. m \in S
      BY <2>1, <2>2, <3>4, <3>5, <3>8 DEF S
    <3> QED
      BY <3>9 DEF m
  <2>5. CASE m \notin places
    <3>1. F[m] = F[k]
      BY <2>3, <2>5 DEF CopyStep
    <3>2. G(m) = G(k)
      <4>1. {j \in places : j <= m} = {j \in places : j <= k}
        BY <1>6, <2>1, <2>5
      <4> QED
        BY <4>1
    <3>3. W(m) + FreeCells(b) = W(k) + b.size /\ W(m) \in Nat /\ W(k) \in Nat
      <4>0. W(m) \in Nat /\ W(k) \in Nat
        BY <1>2, <1>6
      <4>1. CASE m \in InUse(bs)
        <5>1. x = m /\ ~free(b) /\ ~(x <= k) /\ x <= m
          BY <2>1, <2>5, <4>1 DEF InUse
        <5>2. W(m) = b.size /\ W(k) = 0 /\ FreeCells(b) = 0
          BY <4>1, <5>1 DEF FreeCells
        <5> QED
          BY <2>3, <4>0, <5>2
      <4>2. CASE m \notin InUse(bs)
        <5>1. free(b) /\ (x \in InUse(bs) => x # m)
          BY <2>1, <4>2 DEF InUse
        <5>2. W(m) = W(k)
          BY <1>6, <2>1, <5>1
        <5>3. FreeCells(b) = b.size
          BY <5>1 DEF FreeCells
        <5> QED
          BY <4>0, <5>2, <5>3
      <4> QED
        BY <4>1, <4>2
    <3>4. (F[m].at + W(m)) + f[m] = e[m] + (nb - p)
      <4> DEFINE w == W(k)
                 y == W(m)
                 z == FreeCells(b)
                 t == b.size
                 d == nb - p
      <4>1. /\ y + z = w + t /\ (F[k].at + w) + f[k] = e[k] + d
            /\ w \in Int /\ y \in Int /\ z \in Int /\ t \in Int /\ d \in Int
            /\ e[m] = e[k] + t /\ f[m] = f[k] + z /\ F[k].at \in Int
        <5>1. y + z = w + t /\ w \in Int /\ y \in Int
          BY <3>3
        <5>2. /\ (F[k].at + w) + f[k] = e[k] + d /\ z \in Int /\ t \in Int /\ d \in Int
              /\ e[m] = e[k] + t /\ f[m] = f[k] + z /\ F[k].at \in Int
          <6>1. (F[k].at + w) + f[k] = e[k] + d /\ e[m] = e[k] + t /\ f[m] = f[k] + z
            BY <2>2, <2>3, Zenon
          <6>2. d \in Int
            OBVIOUS
          <6> HIDE DEF W, G, d, bs
          <6>3. z \in Int /\ t \in Int /\ F[k].at \in Int
            BY <2>2, <2>3, SMTT(30)
          <6> QED
            BY <6>1, <6>2, <6>3
        <5> QED
          BY <5>1, <5>2
      <4> HIDE DEF w, y, z, t, d
      <4>3. (F[k].at + y) + (f[k] + z) = (e[k] + t) + d
        <5> DEFINE a1 == F[k].at
                   c1 == e[k]
                   d1 == f[k]
        <5>1. a1 \in Int /\ c1 \in Int /\ d1 \in Int /\ (a1 + w) + d1 = c1 + d
          BY <2>3, <4>1
        <5> HIDE DEF a1, c1, d1
        <5>2. (a1 + y) + (d1 + z) = (c1 + t) + d
          BY ONLY <4>1, <5>1
        <5> QED
          BY <5>2, Zenon DEF a1, c1, d1
      <4>4. (F[m].at + y) + f[m] = e[m] + d
        BY <3>1, <4>1, <4>3, Zenon
      <4> QED
        BY <4>4 DEF y, d
    <3> HIDE DEF G, W, b
    <3>5. m \in S
      BY <2>1, <2>2, <3>1, <3>2, <3>4 DEF S
    <3> QED
      BY <3>5 DEF m
  <2> QED
    BY <2>4, <2>5
<1>9. l \in S
  <2> HIDE DEF S, l
  <2>1. 0 .. l \subseteq S
    BY <1>1, <1>7, <1>8, UpTo
  <2> QED
    BY <1>1, <2>1
<1>10. /\ c.at \in Nat /\ Packed(c.blocks, nb, c.at) /\ Sizes(c.blocks) = G(l)
       /\ (c.at + W(l)) + f[l] = e[l] + (nb - p)
  BY <1>5, <1>9
<1>11. {j \in places : j <= l} = places
  BY <1>6
<1>12. W(l) = IF x \in InUse(bs) THEN bs[x].size ELSE 0
  BY <1>6
<1>13. G(l) = {<<bs[i].owner, bs[i].size>> : i \in places}
  BY <1>11
<1>14. (c.at + W(l)) + n = nb + Half
  <2> DEFINE w == W(l)
             a == c.at
  <2>1. w \in Int
    BY <1>2, <1>6
  <2>2. (a + w) + n = q + (nb - p) /\ a \in Int
    BY <1>3, <1>10
  <2> HIDE DEF w, a
  <2>3. (a + w) + n = nb + Half
    BY <2>1, <2>2, AllocatorAssumption
  <2> QED
    BY <2>3 DEF w, a
<1> HIDE DEF G, W
<1> QED
  BY <1>10, <1>12, <1>13, <1>14 DEF CopyBut, nb, places

\* c is a copy of all the blocks in use of hp.
FullCopy(hp, n, c) ==
  /\ c.at \in Nat /\ Packed(c.blocks, Other(hp), c.at)
  /\ Sizes(c.blocks) = Sizes(hp.blocks) /\ c.at + n = Other(hp) + Half

\* r is hp defragmented: all that is free is in the last block.
Compacted(hp, n, r) ==
  /\ Sound(r, n) /\ Sizes(r.blocks) = Sizes(hp.blocks) /\ r.ping_pong = ~hp.ping_pong
  /\ free(r.blocks[Len(r.blocks)]) /\ r.blocks[Len(r.blocks)].size = n
  /\ SeesTheSame(hp, r)

\* The facts of a sound heap that the other proofs use.
LEMMA SoundFacts ==
  ASSUME NEW hp, NEW n, Sound(hp, n)
  PROVE  /\ hp.blocks \in Seq(Blocks) /\ Len(hp.blocks) \in Nat \ {0} /\ Owned(hp.blocks)
         /\ n \in 0 .. Half /\ Start(hp) \in {0, Half} /\ Other(hp) \in {0, Half}
         /\ hp.mem \in [Cells -> Values] /\ hp.ping_pong \in BOOLEAN
         /\ \A i \in 1 .. Len(hp.blocks) :
              /\ hp.blocks[i] \in Blocks
              /\ hp.blocks[i].ptr \in Nat /\ hp.blocks[i].size \in 0 .. Half
              /\ Start(hp) <= hp.blocks[i].ptr
              /\ hp.blocks[i].ptr + hp.blocks[i].size <= Start(hp) + Half
<1>1. /\ hp.blocks \in Seq(Blocks) /\ Owned(hp.blocks) /\ Len(hp.blocks) # 0
      /\ hp.mem \in [Cells -> Values] /\ hp.ping_pong \in BOOLEAN
  BY DEF Sound
<1>2. Start(hp) \in {0, Half} /\ Other(hp) \in {0, Half} /\ Half \in Nat
  BY AllocatorAssumption DEF Start, Other
<1> DEFINE p == Start(hp)
           q == Start(hp) + Half
           bs == hp.blocks
<1>3. Run(bs, p, q, n) /\ p \in Int /\ q = p + Half
  BY <1>2 DEF Sound
<1>4. Len(bs) \in Nat /\ \A i \in 1 .. Len(bs) : bs[i] \in Blocks /\ bs[i].ptr \in Nat /\ bs[i].size \in Nat
  BY <1>1, Fields
<1> HIDE DEF p, q, bs
<1>5. /\ n \in Int /\ 0 <= n /\ n <= q - p
      /\ \A i \in 1 .. Len(bs) : p <= bs[i].ptr /\ bs[i].ptr + bs[i].size <= q
  BY <1>3, RunFacts
<1>6. n \in 0 .. Half
  BY <1>2, <1>3, <1>5
<1>7. \A i \in 1 .. Len(bs) : bs[i].size \in 0 .. Half
  BY <1>2, <1>3, <1>4, <1>5, SMTT(30)
<1> QED
  BY <1>1, <1>2, <1>4, <1>5, <1>6, <1>7 DEF p, q, bs

\* Nobody owns a free block.
LEMMA NobodyOwns ==
  ASSUME NEW bs
  PROVE  NoOne \notin Owners(bs)
BY DEF Owners, InUse, free

\* The cells are copied from cells.
LEMMA CopiedMemIs ==
  ASSUME NEW hp, NEW n, Sound(hp, n), NEW s \in Seq(Blocks), Sizes(s) = Sizes(hp.blocks),
         InUse(s) = 1 .. Len(s)
  PROVE  CopiedMem(hp, s) \in [Cells -> Values]
<1> DEFINE In(c, i) == s[i].ptr <= c /\ c < s[i].ptr + s[i].size
           bs == hp.blocks
<1>1. ASSUME NEW c \in Cells, NEW i \in 1 .. Len(s), In(c, i)
      PROVE  hp.mem[bs[Find(bs, s[i].owner)].ptr + (c - s[i].ptr)] \in Values
  <2>1. s[i].ptr \in Nat /\ s[i].size \in Nat /\ s[i].owner \in Handles \cup {NoOne} /\ ~free(s[i])
    BY Fields DEF InUse
  <2>2. s[i].owner \in Handles /\ <<s[i].owner, s[i].size>> \in Sizes(bs)
    BY <2>1 DEF Sizes, free
  <2>3. PICK k \in InUse(bs) : bs[k].owner = s[i].owner /\ bs[k].size = s[i].size
    BY <2>2 DEF Sizes
  <2>4. k \in 1 .. Len(bs) /\ bs \in Seq(Blocks) /\ Owned(bs)
    BY <2>3, SoundFacts DEF InUse
  <2>5. k = Find(bs, s[i].owner)
    BY <2>2, <2>3, <2>4, FindIs
  <2>6. /\ hp.mem \in [Cells -> Values] /\ Start(hp) \in {0, Half} /\ bs[k].ptr \in Nat
        /\ Start(hp) <= bs[k].ptr /\ bs[k].ptr + bs[k].size <= Start(hp) + Half
    BY <2>4, SoundFacts
  <2>7. bs[k].ptr + (c - s[i].ptr) \in Cells
    <3> DEFINE a == bs[k].ptr
               b == s[i].ptr
               d == s[i].size
               e == Start(hp)
    <3>1. /\ a \in Nat /\ b \in Nat /\ d \in Nat /\ e \in {0, Half} /\ e <= a /\ a + d <= e + Half
          /\ b <= c /\ c < b + d /\ c \in Int /\ Half \in Nat
      BY <1>1, <2>1, <2>3, <2>6, AllocatorAssumption DEF Cells
    <3> HIDE DEF a, b, d, e
    <3>2. a + (c - b) \in 0 .. 2 * Half - 1
      BY ONLY <3>1
    <3> QED
      BY <3>2 DEF a, b, Cells
  <2> QED
    BY <2>5, <2>6, <2>7
<1>2. ASSUME NEW c \in Cells PROVE CopiedMem(hp, s)[c] \in Values
  <2>1. CASE \E i \in 1 .. Len(s) : In(c, i)
    <3> DEFINE i == CHOOSE i \in 1 .. Len(s) : In(c, i)
    <3>1. i \in 1 .. Len(s) /\ In(c, i)
      BY <2>1, SMTT(30)
    <3>2. CopiedMem(hp, s)[c] = hp.mem[bs[Find(bs, s[i].owner)].ptr + (c - s[i].ptr)]
      BY <2>1, ZenonT(40) DEF CopiedMem
    <3> HIDE DEF i
    <3> QED
      BY <1>1, <3>1, <3>2
  <2>2. CASE ~\E i \in 1 .. Len(s) : In(c, i)
    <3>1. CopiedMem(hp, s)[c] = Junk
      BY <2>2, ZenonT(40) DEF CopiedMem
    <3> QED
      BY <3>1 DEF Values
  <2> QED
    BY <2>1, <2>2
<1>3. CopiedMem(hp, s) = [c \in Cells |-> CopiedMem(hp, s)[c]]
  BY ZenonT(40) DEF CopiedMem
<1> QED
  BY <1>2, <1>3

\* s is a list of copies of the blocks in use of hp, as Compact finds it.
CopyOf(hp, s) ==
  /\ s \in Seq(Blocks) /\ Sizes(s) = Sizes(hp.blocks) /\ InUse(s) = 1 .. Len(s)
  /\ Owned(s) /\ Apart(s) /\ \A b \in Used(s) : b.ptr + b.size <= 2 * Half

\* A cell of a copied block is copied from that block.
LEMMA CopiedCell ==
  ASSUME NEW hp, NEW s, CopyOf(hp, s), NEW j \in 1 .. Len(s), NEW i \in 1 .. s[j].size
  PROVE  CopiedMem(hp, s)[s[j].ptr + (i - 1)]
           = hp.mem[hp.blocks[Find(hp.blocks, s[j].owner)].ptr + (i - 1)]
<1> DEFINE In(c, k) == s[k].ptr <= c /\ c < s[k].ptr + s[k].size
           d == s[j].ptr + (i - 1)
           k == CHOOSE x \in 1 .. Len(s) : In(d, x)
<1>1. /\ s \in Seq(Blocks) /\ InUse(s) = 1 .. Len(s) /\ Owned(s) /\ Apart(s)
      /\ \A b \in Used(s) : b.ptr + b.size <= 2 * Half
  BY DEF CopyOf
<1>2. /\ \A x \in 1 .. Len(s) : s[x].ptr \in Nat /\ s[x].size \in Nat /\ s[x] \in Used(s)
      /\ s[j].ptr + s[j].size <= 2 * Half /\ Half \in Nat
  BY <1>1, Fields, AllocatorAssumption DEF Used
<1>3. d \in Cells /\ In(d, j) /\ d - s[j].ptr = i - 1
  BY <1>2, SMTT(30) DEF Cells
<1> HIDE DEF d
<1>4. k \in 1 .. Len(s) /\ In(d, k)
  BY <1>3, Zenon
<1>5. CopiedMem(hp, s)[d] = hp.mem[hp.blocks[Find(hp.blocks, s[k].owner)].ptr + (d - s[k].ptr)]
  <2>1. \E x \in 1 .. Len(s) : In(d, x)
    BY <1>3
  <2> QED
    BY <1>3, <2>1, ZenonT(40) DEF CopiedMem
<1> HIDE DEF k
<1>6. s[k].owner = s[j].owner
  <2>1. ~(s[k].ptr + s[k].size <= s[j].ptr \/ s[j].ptr + s[j].size <= s[k].ptr)
    <3>1. \A a, b, x, y \in Nat, c \in Int : a <= c /\ c < a + b /\ x <= c /\ c < x + y
             => ~(a + b <= x \/ x + y <= a)
      OBVIOUS
    <3>2. d \in Int
      BY <1>3 DEF Cells
    <3> QED
      BY <1>2, <1>3, <1>4, <3>1, <3>2, Zenon
  <2> QED
    BY <1>1, <1>2, <1>4, <2>1, Zenon DEF Apart
<1>7. k = j
  BY <1>1, <1>4, <1>6 DEF Owned
<1> QED
  BY <1>3, <1>5, <1>7, Zenon DEF d

\* A defragmentation changes what no handle sees.
LEMMA CopiesSeen ==
  ASSUME NEW hp, hp.blocks \in Seq(Blocks), Owned(hp.blocks), NEW s, CopyOf(hp, s),
         NEW r, r.blocks \in Seq(Blocks), Owned(r.blocks), Used(r.blocks) = Used(s),
         r.mem = CopiedMem(hp, s)
  PROVE  SeesTheSame(hp, r)
<1> DEFINE bs == hp.blocks
<1> SUFFICES ASSUME NEW h \in Handles
             PROVE  See(r, h) = See(hp, h) /\ (Live(r.blocks, h) <=> Live(hp.blocks, h))
  BY DEF SeesTheSame
<1>1. /\ s \in Seq(Blocks) /\ InUse(s) = 1 .. Len(s) /\ Sizes(s) = Sizes(bs)
  BY DEF CopyOf
<1>2. CASE \E b \in Used(bs) : b.owner = h
  <2>1. PICK b \in Used(bs) : b.owner = h
    BY <1>2
  <2>2. b = bs[Find(bs, h)] /\ See(hp, h) = Row(hp.mem, b) /\ b \in Blocks
    BY <2>1, FindIs, SeeIs, Fields DEF Used, InUse
  <2>3. <<h, b.size>> \in Sizes(s)
    BY <1>1, <2>1 DEF Sizes, Used
  <2>4. PICK j \in 1 .. Len(s) : s[j].owner = h /\ s[j].size = b.size
    BY <1>1, <2>3 DEF Sizes
  <2>5. s[j] \in Blocks /\ s[j] \in Used(s)
    BY <1>1, Fields DEF Used
  <2>6. See(r, h) = Row(r.mem, s[j]) /\ Live(r.blocks, h) /\ Live(bs, h)
    BY <2>1, <2>4, <2>5, SeeIs
  <2>7. \A i \in 1 .. s[j].size : r.mem[s[j].ptr + (i - 1)] = hp.mem[b.ptr + (i - 1)]
    <3>1. \A i \in 1 .. s[j].size :
            CopiedMem(hp, s)[s[j].ptr + (i - 1)] = hp.mem[bs[Find(bs, s[j].owner)].ptr + (i - 1)]
      BY CopiedCell
    <3> QED
      BY <2>2, <2>4, <3>1, Zenon
  <2>8. Row(r.mem, s[j]) = Row(hp.mem, b)
    <3> DEFINE a == s[j]
    <3>1. a \in Blocks /\ a.size = b.size /\ \A i \in 1 .. a.size : r.mem[a.ptr + (i - 1)] = hp.mem[b.ptr + (i - 1)]
      BY <2>4, <2>5, <2>7
    <3> HIDE DEF a
    <3>2. Row(r.mem, a) = Row(hp.mem, b)
      BY <3>1, Zenon DEF Row
    <3> QED
      BY <3>2 DEF a
  <2> QED
    BY <2>2, <2>6, <2>8
<1>3. CASE \A b \in Used(bs) : b.owner # h
  <2>1. \A b \in Used(s) : b.owner # h
    <3> SUFFICES ASSUME NEW b \in Used(s), b.owner = h PROVE FALSE
      OBVIOUS
    <3>1. <<h, b.size>> \in Sizes(bs)
      BY <1>1 DEF Sizes, Used
    <3> QED
      BY <1>3, <3>1 DEF Sizes, Used
  <2> QED
    BY <1>3, <2>1, SeeIs
<1> QED
  BY <1>2, <1>3

\* The end of a defragmentation.
LEMMA CompactIs ==
  ASSUME NEW hp, NEW n, Sound(hp, n), NEW c, FullCopy(hp, n, c), NEW r, r = Compact(hp, c, n)
  PROVE  Compacted(hp, n, r)
<1> DEFINE s == c.blocks
           b == Block(c.at, n, NoOne)
           t == Append(s, b)
           nb == Other(hp)
           z == 0
<1>1. r = [blocks |-> t, mem |-> CopiedMem(hp, s), ping_pong |-> ~hp.ping_pong]
  BY DEF Compact
<1>2. /\ n \in 0 .. Half /\ nb \in {0, Half} /\ hp.ping_pong \in BOOLEAN
      /\ Half \in Nat
  BY SoundFacts, AllocatorAssumption
<1>3. /\ c.at \in Nat /\ Run(s, nb, c.at, z) /\ Owned(s) /\ InUse(s) = 1 .. Len(s)
      /\ Sizes(s) = Sizes(hp.blocks) /\ c.at + n = nb + Half
  BY DEF FullCopy, Packed
<1>4. s \in Seq(Blocks) /\ Len(s) \in Nat
  BY <1>3, Fields DEF Run
<1>5. b \in Blocks /\ b.ptr = c.at /\ b.size = n /\ free(b) /\ FreeCells(b) = n /\ b.owner = NoOne
  BY <1>2, <1>3 DEF Blocks, Block, free, FreeCells
<1> HIDE DEF s, b, nb
<1>6. Follows(s, nb, z, b)
  BY <1>2, <1>3, <1>5, NobodyOwns DEF Follows
<1> HIDE DEF z, t
<1>7. Followed(s, nb, z, b, t)
  BY <1>6, AppendOne, Zenon DEF t
<1>8. /\ Run(t, nb, c.at + n, z + n) /\ Owned(t) /\ Sizes(t) = Sizes(s)
      /\ Len(t) = Len(s) + 1 /\ t[Len(s) + 1] = b /\ \A i \in 1 .. Len(s) : t[i] = s[i]
  BY <1>5, <1>7 DEF Followed
<1>9. Run(t, nb, nb + Half, n)
  <2>1. z + n = n
    BY <1>2 DEF z
  <2> QED
    BY <1>3, <1>8, <2>1, Zenon
<1>10. JoinedBut(t, {})
  <2>1. ASSUME NEW k \in (1 .. Len(t) - 1) \ {} PROVE ~free(t[k])
    <3>1. k \in 1 .. Len(s)
      BY <1>4, <1>8
    <3> QED
      BY <1>3, <1>8, <3>1 DEF InUse
  <2> QED
    BY <2>1 DEF JoinedBut
<1>11. CopiedMem(hp, s) \in [Cells -> Values]
  BY <1>3, <1>4, CopiedMemIs
<1>12. Start(r) = nb
  <2>1. r.ping_pong = ~hp.ping_pong
    BY <1>1
  <2>2. CASE hp.ping_pong
    BY <2>1, <2>2, Zenon DEF Start, Other, nb
  <2>3. CASE ~hp.ping_pong
    BY <2>1, <2>3, Zenon DEF Start, Other, nb
  <2> QED
    BY <2>2, <2>3
<1>13. t \in Seq(Blocks) /\ Len(t) # 0
  BY <1>4, <1>8, <1>9 DEF Run
<1>14. r \in [blocks : Seq(Blocks), mem : [Cells -> Values], ping_pong : BOOLEAN]
  BY <1>1, <1>2, <1>11, <1>13
<1>15. r.blocks = t /\ r.ping_pong = ~hp.ping_pong
  BY <1>1
<1>16. Sound(r, n)
  BY <1>2, <1>8, <1>9, <1>10, <1>12, <1>13, <1>14, <1>15 DEF Sound
<1>17. CopyOf(hp, s)
  <2>1. nb \in Int /\ Apart(s)
    BY <1>2, <1>3, RunApart
  <2>2. ASSUME NEW a \in Used(s) PROVE a.ptr + a.size <= 2 * Half
    <3>1. PICK i \in 1 .. Len(s) : a = s[i]
      BY DEF Used, InUse
    <3>2. s[i].ptr + s[i].size <= c.at
      BY <1>3, <2>1, <3>1, RunFacts
    <3>3. c.at <= 2 * Half
      BY <1>2, <1>3
    <3>4. s[i].ptr \in Nat /\ s[i].size \in Nat
      BY <1>4, <3>1, Fields
    <3> QED
      BY <1>2, <1>3, <3>1, <3>2, <3>3, <3>4, SMTT(30)
  <2> QED
    BY <1>3, <1>4, <2>1, <2>2 DEF CopyOf
<1>18. Used(t) = Used(s)
  <2>1. InUse(t) = InUse(s)
    BY <1>5, <1>7 DEF Followed
  <2> QED
    BY <1>3, <1>8, <2>1 DEF Used
<1>19. SeesTheSame(hp, r)
  <2>1. r.mem = CopiedMem(hp, s)
    BY <1>1
  <2>2. hp.blocks \in Seq(Blocks) /\ Owned(hp.blocks)
    BY SoundFacts
  <2> QED
    BY <1>8, <1>13, <1>15, <1>17, <1>18, <2>1, <2>2, CopiesSeen
<1> QED
  BY <1>3, <1>5, <1>8, <1>15, <1>16, <1>19 DEF Compacted

\* A defragmentation.
LEMMA DefragIs ==
  ASSUME NEW hp, Sound(hp, size_free), NEW r, r = defrag(hp)
  PROVE  Compacted(hp, size_free, r)
<1> DEFINE bs == hp.blocks
           c == Copied(hp, InUse(bs))
           x == 0
<1>1. InUse(bs) \ {x} = InUse(bs) /\ x \notin InUse(bs) /\ x \in 0 .. Len(bs)
  BY SoundFacts DEF InUse
<1>2. c = Copied(hp, InUse(bs) \ {x})
  BY <1>1
<1> HIDE DEF x, c
<1>3. CopyBut(hp, size_free, x, c)
  BY <1>1, <1>2, PackedIs
<1>4. /\ c.at \in Nat /\ Packed(c.blocks, Other(hp), c.at) /\ Sizes(c.blocks) = Sizes(bs)
      /\ (c.at + 0) + size_free = Other(hp) + Half
  BY <1>1, <1>3, Zenon DEF CopyBut, Sizes
<1>5. FullCopy(hp, size_free, c)
  BY <1>4 DEF FullCopy
<1> QED
  BY <1>5, CompactIs DEF defrag, c

\* A defragmentation that puts the block of h in front of the free one.
LEMMA LastIs ==
  ASSUME NEW hp, Sound(hp, size_free), NEW h \in Handles, Live(hp.blocks, h),
         NEW r, r = defragWithLast(hp, h)
  PROVE  /\ Compacted(hp, size_free, r)
         /\ Len(r.blocks) > 1 /\ Find(r.blocks, h) = Len(r.blocks) - 1
<1> DEFINE bs == hp.blocks
           x == Find(bs, h)
           b == bs[x]
           c == Copied(hp, InUse(bs) \ {x})
           d == Behind(c, b)
           nb == Other(hp)
<1>1. bs \in Seq(Blocks) /\ Len(bs) \in Nat /\ Owned(bs) /\ nb \in Int
  BY SoundFacts, AllocatorAssumption
<1>2. x \in InUse(bs) /\ x \in 1 .. Len(bs) /\ b.owner = h /\ b \in Blocks /\ ~free(b) /\ b.size \in Nat
  BY <1>1, FindIs, Fields DEF InUse
<1>3. x \in 0 .. Len(bs)
  BY <1>1, <1>2
<1>4. r = Compact(hp, d, size_free)
  BY DEF defragWithLast
<1> HIDE DEF c, d, x
<1>5. CopyBut(hp, size_free, x, c)
  BY <1>3, PackedIs DEF c
<1>6. /\ c.at \in Nat /\ Packed(c.blocks, nb, c.at)
      /\ Sizes(c.blocks) = {<<bs[i].owner, bs[i].size>> : i \in InUse(bs) \ {x}}
      /\ (c.at + b.size) + size_free = nb + Half
  BY <1>2, <1>5, Zenon DEF CopyBut
<1>7. b.owner \notin Owners(c.blocks)
  <2> SUFFICES ASSUME b.owner \in Owners(c.blocks) PROVE FALSE
    OBVIOUS
  <2>1. PICK j \in InUse(c.blocks) : c.blocks[j].owner = b.owner
    BY DEF Owners
  <2>2. <<b.owner, c.blocks[j].size>> \in Sizes(c.blocks)
    BY <2>1 DEF Sizes
  <2>3. PICK i \in InUse(bs) \ {x} : bs[i].owner = b.owner
    BY <1>6, <2>2
  <2> QED
    BY <1>1, <1>2, <2>3 DEF Owned
<1> HIDE DEF b, nb, bs
<1>8. MayCopy(c, nb, b)
  BY <1>1, <1>2, <1>6, <1>7 DEF MayCopy
<1>9. HasCopy(c, nb, b, d)
  BY <1>8, BehindIs, Zenon DEF d
<1>10. /\ d.at = c.at + b.size /\ d.at \in Nat /\ Packed(d.blocks, nb, d.at)
       /\ Sizes(d.blocks) = Sizes(c.blocks) \cup {<<b.owner, b.size>>}
       /\ Len(d.blocks) = Len(c.blocks) + 1
       /\ d.blocks[Len(c.blocks) + 1].owner = h
  BY <1>2, <1>9 DEF HasCopy, Blocks
<1>11. Sizes(d.blocks) = Sizes(bs)
  BY <1>2, <1>6, <1>10 DEF Sizes, b
<1>12. FullCopy(hp, size_free, d)
  BY <1>6, <1>10, <1>11 DEF FullCopy, nb, bs
<1>13. Compacted(hp, size_free, r)
  BY <1>4, <1>12, CompactIs
<1>14. r.blocks = Append(d.blocks, Block(d.at, size_free, NoOne))
  BY <1>4 DEF Compact
<1>15. d.blocks \in Seq(Blocks) /\ c.blocks \in Seq(Blocks)
  BY <1>6, <1>10 DEF Packed, Run
<1>16. /\ Len(c.blocks) \in Nat /\ Len(r.blocks) = Len(d.blocks) + 1
       /\ r.blocks[Len(d.blocks)] = d.blocks[Len(d.blocks)]
  <2> DEFINE e == Block(d.at, size_free, NoOne)
  <2>1. e \in Blocks
    BY <1>10, SoundFacts DEF Blocks, Block
  <2> HIDE DEF e
  <2> QED
    BY <1>10, <1>14, <1>15, <2>1, AppendProperties, LenProperties DEF e
<1>17. r.blocks \in Seq(Blocks) /\ Owned(r.blocks)
  BY <1>13, SoundFacts DEF Compacted
<1>18. Len(r.blocks) - 1 \in 1 .. Len(r.blocks) /\ r.blocks[Len(r.blocks) - 1].owner = h
  BY <1>10, <1>16
<1>19. Find(r.blocks, h) = Len(r.blocks) - 1
  BY <1>17, <1>18, FindIs
<1> QED
  BY <1>10, <1>13, <1>16, <1>19

----------------------------------------------------------------------------
(* What the calls do to the list *)

\* The blocks of bs may be those of hp, with m cells free.
Tile(hp, bs, m) ==
  Good(bs, Start(hp), Start(hp) + Half, m) /\ JoinedBut(bs, {}) /\ Len(bs) # 0

\* A handle that has a block in both has it in one place, or has a larger one.
Kept(old, new) ==
  \A b \in Used(old), c \in Used(new) : b.owner = c.owner => c.ptr = b.ptr \/ c.size > b.size

\* Of the blocks of h, r has only the one at x, of size N; the others have theirs.
Gives(bs, r, h, x, N) == Used(r) = {b \in Used(bs) : b.owner # h} \cup {Block(x, N, h)}

\* The list of a sound heap is such a list.
LEMMA TileIs ==
  ASSUME NEW hp, NEW n, Sound(hp, n)
  PROVE  Tile(hp, hp.blocks, n)
<1>1. Start(hp) \in Int
  BY AllocatorAssumption DEF Start
<1> QED
  BY <1>1 DEF Sound, Tile, Good

\* A heap with such a list is sound.
LEMMA SoundIf ==
  ASSUME NEW hp, NEW n, Sound(hp, n), NEW bs, NEW m, Tile(hp, bs, m),
         NEW mem \in [Cells -> Values],
         NEW r, r = [blocks |-> bs, mem |-> mem, ping_pong |-> hp.ping_pong]
  PROVE  Sound(r, m)
<1>1. r.blocks = bs /\ r.ping_pong = hp.ping_pong /\ r.mem = mem /\ hp.ping_pong \in BOOLEAN
  BY SoundFacts
<1>2. Start(r) = Start(hp)
  BY <1>1 DEF Start
<1>3. /\ m \in Int /\ Run(bs, Start(hp), Start(hp) + Half, m) /\ Owned(bs)
      /\ JoinedBut(bs, {}) /\ Len(bs) # 0 /\ bs \in Seq(Blocks)
  BY DEF Tile, Good, Run
<1>4. r \in [blocks : Seq(Blocks), mem : [Cells -> Values], ping_pong : BOOLEAN]
  BY <1>1, <1>3
<1> QED
  BY <1>1, <1>2, <1>3, <1>4 DEF Sound

\* One block changed.
LEMMA KeptIf ==
  ASSUME NEW bs \in Seq(Blocks), Owned(bs), NEW r, NEW a, Used(r) \subseteq Used(bs) \cup {a},
         \A b \in Used(bs) : b.owner = a.owner => a.ptr = b.ptr \/ a.size > b.size
  PROVE  Kept(bs, r)
<1> SUFFICES ASSUME NEW b \in Used(bs), NEW c \in Used(r), b.owner = c.owner
             PROVE  c.ptr = b.ptr \/ c.size > b.size
  BY DEF Kept
<1>1. CASE c \in Used(bs)
  <2>1. PICK i \in InUse(bs) : b = bs[i]
    BY DEF Used
  <2>2. PICK j \in InUse(bs) : c = bs[j]
    BY <1>1 DEF Used
  <2>3. i = j
    BY <2>1, <2>2 DEF Owned
  <2> QED
    BY <2>1, <2>2, <2>3
<1>2. CASE c = a
  BY <1>2
<1> QED
  BY <1>1, <1>2

\* A block of h takes the place of another.
LEMMA GivesIf ==
  ASSUME NEW bs \in Seq(Blocks), Owned(bs), NEW i \in 1 .. Len(bs), NEW h \in Handles,
         bs[i].owner = h, NEW a \in Blocks, a.owner = h, NEW r,
         Used(r) = (Used(bs) \ {bs[i]}) \cup {a}
  PROVE  Gives(bs, r, h, a.ptr, a.size)
<1>1. a = Block(a.ptr, a.size, h)
  BY DEF Blocks, Block
<1>2. ~free(bs[i]) /\ i \in InUse(bs)
  BY AllocatorAssumption DEF free, InUse
<1>3. Used(bs) \ {bs[i]} = {b \in Used(bs) : b.owner # h}
  <2>1. \A b \in Used(bs) : b.owner = h <=> b = bs[i]
    BY <1>2 DEF Used, Owned
  <2> QED
    BY <2>1
<1> QED
  BY <1>1, <1>3, Zenon DEF Gives

\* alloc: a free block, or its front, is taken.
LEMMA TakeIs ==
  ASSUME NEW hp, NEW n, Sound(hp, n), NEW h \in Handles, ~Live(hp.blocks, h), NEW N \in Nat,
         NEW i \in 1 .. Len(hp.blocks), free(hp.blocks[i]), hp.blocks[i].size >= N, NEW r,
         r = IF hp.blocks[i].size = N THEN [hp.blocks EXCEPT ![i].owner = h]
             ELSE Splice(hp.blocks, i, 1, <<Block(hp.blocks[i].ptr, N, h),
                           Block(hp.blocks[i].ptr + N, hp.blocks[i].size - N, NoOne)>>)
  PROVE  /\ Tile(hp, r, n - N) /\ Kept(hp.blocks, r)
         /\ \E x \in Nat : Gives(hp.blocks, r, h, x, N)
<1> DEFINE bs == hp.blocks
           p == Start(hp)
           q == Start(hp) + Half
           d == 0 - N
<1>1. Good(bs, p, q, n) /\ JoinedBut(bs, {}) /\ bs \in Seq(Blocks) /\ Owned(bs)
  BY TileIs, SoundFacts DEF Tile
<1>2. bs[i] \in Blocks /\ bs[i].ptr \in Nat /\ bs[i].size \in Nat /\ FreeCells(bs[i]) = bs[i].size
  BY <1>1, Fields DEF FreeCells
<1>3. h \notin Owners(bs) /\ h # NoOne
  BY <1>1, FindIs, AllocatorAssumption
<1>4. n \in Int /\ Len(bs) \in Nat \ {0}
  BY SoundFacts
<1>5. d \in Int /\ n + d = n - N
  BY <1>4
<1> HIDE DEF bs, p, q, d
<1>6. ASSUME NEW a, a \in Blocks, a.owner = h, a.size = N, Good(r, p, q, n + d),
             Changed(bs, r, <<bs[i]>>, <<a>>), JoinedBut(r, {}), Len(r) # 0
      PROVE  /\ Tile(hp, r, n - N) /\ Kept(bs, r)
             /\ \E x \in Nat : Gives(bs, r, h, x, N)
  <2>1. Used(<<a>>) = {a} /\ Used(<<bs[i]>>) = {}
    BY <1>2, <1>3, <1>6, UsedOne DEF free, bs
  <2>2. Used(r) \subseteq Used(bs) \cup {a}
    BY <1>6, <2>1 DEF Changed
  <2>3. \A b \in Used(bs) : b.owner = a.owner => a.ptr = b.ptr \/ a.size > b.size
    BY <1>3, <1>6 DEF Used, Owners
  <2>4. Kept(bs, r)
    BY ONLY <1>1, <2>2, <2>3, KeptIf
  <2>5. Gives(bs, r, h, a.ptr, N) /\ a.ptr \in Nat
    <3>1. a = Block(a.ptr, N, h) /\ a.ptr \in Nat
      BY <1>6 DEF Blocks, Block
    <3>2. Used(r) = Used(bs) \cup {a}
      BY <1>6, <2>1 DEF Changed
    <3>3. {b \in Used(bs) : b.owner # h} = Used(bs)
      BY <1>3 DEF Used, Owners
    <3> QED
      BY <3>1, <3>2, <3>3, Zenon DEF Gives
  <2> QED
    <3>1. Good(r, p, q, n + d) /\ JoinedBut(r, {}) /\ Len(r) # 0
      BY <1>6
    <3>2. Good(r, p, q, n - N)
      BY ONLY <1>5, <3>1
    <3> QED
      BY <2>4, <2>5, <3>1, <3>2, Zenon DEF Tile, p, q
<1>7. CASE bs[i].size = N
  <2> DEFINE a == [bs[i] EXCEPT !.owner = h]
             e == FreeCells(a) - FreeCells(bs[i])
  <2>1. r = [bs EXCEPT ![i].owner = h]
    BY <1>7 DEF bs
  <2>2. MayOwn(bs, i, h)
    BY <1>3 DEF MayOwn, bs
  <2>3. a \in Blocks /\ a.owner = h /\ a.size = N /\ ~free(a) /\ e = d
    BY <1>2, <1>3, <1>7 DEF Blocks, FreeCells, free, d
  <2>4. a = [bs[i] EXCEPT !.owner = h]
    OBVIOUS
  <2> HIDE DEF a
  <2>5. Good(r, p, q, n + e) /\ Changed(bs, r, <<bs[i]>>, <<a>>) /\ OnlyAt(bs, r, i, a)
    BY <1>1, <2>1, <2>2, <2>4, OwnerRun, Zenon
  <2> HIDE DEF e
  <2>6. Good(r, p, q, n + d)
    BY <2>3, <2>5
  <2>7. JoinedBut(r, {}) /\ Len(r) # 0
    <3> DEFINE S == {}
    <3>1. i \in 1 .. Len(bs) /\ r \in Seq(Blocks) /\ ~free(r[i]) /\ S \ {i - 1, i} = {}
      BY <2>3, <2>5 DEF bs, Good, Run, OnlyAt
    <3>2. Len(r) = Len(bs) /\ \A k \in 1 .. Len(bs) : k # i => r[k] = bs[k]
      BY <2>5 DEF OnlyAt
    <3>3. JoinedBut(bs, S)
      BY <1>1
    <3> HIDE DEF S
    <3>4. JoinedBut(r, S \ {i - 1, i})
      BY ONLY <1>1, <3>1, <3>2, <3>3, OwnerJoined
    <3> QED
      BY <1>4, <3>1, <3>2, <3>4
  <2> QED
    BY <1>6, <2>3, <2>5, <2>6, <2>7 DEF bs
<1>8. CASE bs[i].size # N
  <2> DEFINE a == Block(bs[i].ptr, N, h)
             b == Block(bs[i].ptr + N, bs[i].size - N, NoOne)
  <2>1. r = Splice(bs, i, 1, <<a, b>>)
    BY <1>8 DEF bs
  <2>2. bs[i].size - N \in Nat /\ i \in 1 .. Len(bs) /\ free(bs[i])
    BY <1>2, <1>8 DEF bs
  <2>3. /\ a \in Blocks /\ b \in Blocks /\ a.owner = h /\ a.size = N /\ ~free(a) /\ free(b)
        /\ a.ptr = bs[i].ptr /\ b.ptr = a.ptr + a.size /\ a.size + b.size = bs[i].size
        /\ FreeCells(a) = 0 /\ FreeCells(b) = bs[i].size - N
    <3>1. a.ptr = bs[i].ptr /\ a.size = N /\ a.owner = h
      BY DEF Block
    <3>2. b.ptr = bs[i].ptr + N /\ b.size = bs[i].size - N /\ b.owner = NoOne
      BY DEF Block
    <3>3. a \in Blocks /\ b \in Blocks
      BY <1>2, <2>2 DEF Blocks, Block
    <3>4. N + (bs[i].size - N) = bs[i].size
      BY <1>2
    <3> HIDE DEF a, b
    <3> QED
      BY <1>3, <3>1, <3>2, <3>3, <3>4, Zenon DEF free, FreeCells
  <2> HIDE DEF a, b
  <2>4. Cuts(bs, i, a, b, d)
    <3>1. FreeCells(a) + FreeCells(b) = FreeCells(bs[i]) + d
      BY <1>2, <2>3 DEF d
    <3> QED
      BY <1>3, <1>5, <2>2, <2>3, <3>1 DEF Cuts
  <2>5. Good(r, p, q, n + d) /\ Changed(bs, r, <<bs[i]>>, <<a>>)
    BY <1>1, <2>1, <2>4, CutRun, Zenon
  <2>6. JoinedBut(r, {})
    BY <1>1, <2>1, <2>2, <2>3, CutJoined
  <2>7. Len(r) # 0
    BY <1>1, <1>4, <2>1, <2>2, <2>3, SplitIs
  <2> QED
    BY <1>6, <2>3, <2>5, <2>6, <2>7 DEF bs
<1> QED
  BY <1>7, <1>8 DEF bs

\* free: the block is joined with its free neighbours.
LEMMA FreeIs ==
  ASSUME NEW hp, NEW n, Sound(hp, n), NEW h \in Handles, Live(hp.blocks, h),
         NEW i, i = Find(hp.blocks, h),
         NEW r, r = joinfree([hp.blocks EXCEPT ![i].owner = NoOne], i)
  PROVE  /\ Tile(hp, r, n + hp.blocks[i].size) /\ Kept(hp.blocks, r)
         /\ Used(r) = {b \in Used(hp.blocks) : b.owner # h}
<1> DEFINE bs == hp.blocks
           p == Start(hp)
           q == Start(hp) + Half
           o == NoOne
           a == [bs[i] EXCEPT !.owner = o]
           s == [bs EXCEPT ![i].owner = o]
           e == FreeCells(a) - FreeCells(bs[i])
<1>1. Good(bs, p, q, n) /\ JoinedBut(bs, {}) /\ bs \in Seq(Blocks) /\ Owned(bs) /\ n \in Int
  BY TileIs, SoundFacts DEF Tile
<1>2. i \in 1 .. Len(bs) /\ bs[i].owner = h /\ ~free(bs[i]) /\ bs[i] \in Blocks /\ bs[i].size \in Nat
  BY <1>1, FindIs, Fields DEF InUse
<1>3. MayOwn(bs, i, o)
  BY <1>2, NobodyOwns DEF MayOwn
<1>4. a = [bs[i] EXCEPT !.owner = o] /\ s = [bs EXCEPT ![i].owner = o]
  OBVIOUS
<1>5. e = bs[i].size /\ free(a) /\ a \in Blocks
  BY <1>2 DEF Blocks, FreeCells, free
<1> HIDE DEF p, q, a, s, bs, o
<1>6. Good(s, p, q, n + e) /\ Changed(bs, s, <<bs[i]>>, <<a>>) /\ OnlyAt(bs, s, i, a)
  BY <1>1, <1>3, <1>4, OwnerRun, Zenon
<1>7. MayJoin(s, i)
  <2> DEFINE S == {}
  <2>1. Len(s) = Len(bs) /\ s[i] = a /\ \A k \in 1 .. Len(bs) : k # i => s[k] = bs[k]
    BY <1>6 DEF OnlyAt
  <2>2. JoinedBut(bs, S) /\ s \in Seq(Blocks) /\ S \cup {i - 1, i} = {i - 1, i}
    BY <1>1, <1>6 DEF Good, Run
  <2> HIDE DEF S
  <2>3. JoinedBut(s, S \cup {i - 1, i})
    BY ONLY <1>1, <1>2, <2>1, <2>2, OwnerJoined
  <2> QED
    BY <1>2, <1>5, <2>1, <2>2, <2>3 DEF MayJoin
<1> HIDE DEF e
<1>8. r = joinfree(s, i)
  BY DEF s, o, bs
<1>9. /\ Good(r, p, q, n + e) /\ Len(r) # 0 /\ JoinedBut(r, {}) /\ Used(r) = Used(s)
  BY ONLY <1>6, <1>7, <1>8, JoinfreeIs
<1>10. Used(r) \subseteq Used(bs)
  <2>1. Used(<<a>>) = {}
    BY <1>5, UsedOne
  <2> QED
    BY <1>6, <1>9, <2>1 DEF Changed
<1>11. Kept(bs, r)
  <2>1. Used(r) \subseteq Used(bs) \cup {bs[i]}
    BY <1>10
  <2>2. \A b \in Used(bs) : b.owner = bs[i].owner => bs[i].ptr = b.ptr
    BY <1>1, <1>2, FindIs DEF bs
  <2> QED
    BY <1>1, <2>1, <2>2, KeptIf
<1>12. Used(r) = {b \in Used(bs) : b.owner # h}
  <2>1. Used(<<a>>) = {} /\ Used(<<bs[i]>>) = {bs[i]}
    BY <1>2, <1>5, UsedOne
  <2>2. Used(r) = Used(bs) \ {bs[i]}
    BY <1>6, <1>9, <2>1 DEF Changed
  <2>3. \A b \in Used(bs) : b.owner = h <=> b = bs[i]
    BY <1>1, <1>2, FindIs DEF bs
  <2> QED
    BY <2>2, <2>3
<1> QED
  BY <1>5, <1>9, <1>11, <1>12 DEF Tile, p, q, bs

\* realloc to fewer cells: the rest of the block becomes free.
LEMMA ShortIs ==
  ASSUME NEW hp, NEW n, Sound(hp, n), NEW h \in Handles, Live(hp.blocks, h),
         NEW i, i = Find(hp.blocks, h), NEW N \in Nat, hp.blocks[i].size > N,
         NEW r, r = joinfree(shortSizeBlock(hp.blocks, i, N), i + 1)
  PROVE  /\ Tile(hp, r, n + (hp.blocks[i].size - N)) /\ Kept(hp.blocks, r)
         /\ Gives(hp.blocks, r, h, hp.blocks[i].ptr, N)
<1> DEFINE bs == hp.blocks
           p == Start(hp)
           q == Start(hp) + Half
           a == [bs[i] EXCEPT !.size = N]
           b == Block(bs[i].ptr + N, bs[i].size - N, NoOne)
           d == bs[i].size - N
           s == shortSizeBlock(bs, i, N)
           j == i + 1
<1>1. Good(bs, p, q, n) /\ JoinedBut(bs, {}) /\ bs \in Seq(Blocks) /\ Owned(bs) /\ n \in Int
  BY TileIs, SoundFacts DEF Tile
<1>2. /\ i \in 1 .. Len(bs) /\ bs[i].owner = h /\ ~free(bs[i]) /\ bs[i] \in Blocks
      /\ bs[i].size \in Nat /\ bs[i].ptr \in Nat
  BY <1>1, FindIs, Fields DEF InUse
<1>3. d \in Nat /\ s = Splice(bs, i, 1, <<a, b>>)
  BY <1>2, SMTT(30) DEF shortSizeBlock
<1>4. /\ a \in Blocks /\ b \in Blocks /\ a.owner = h /\ a.size = N /\ ~free(a) /\ free(b)
      /\ a.ptr = bs[i].ptr /\ b.ptr = a.ptr + a.size /\ a.size + b.size = bs[i].size
      /\ FreeCells(a) = 0 /\ FreeCells(b) = d /\ FreeCells(bs[i]) = 0
  BY <1>2, <1>3, SMTT(30) DEF Blocks, Block, free, FreeCells
<1> HIDE DEF p, q, a, b, bs, d, s
<1>5. Cuts(bs, i, a, b, d)
  <2>1. FreeCells(a) + FreeCells(b) = FreeCells(bs[i]) + d /\ d \in Int
    BY <1>3, <1>4
  <2>2. a.owner \notin Owners(bs) \ Owners(<<bs[i]>>)
    BY <1>2, <1>4, UsedOne
  <2> QED
    BY <1>2, <1>4, <2>1, <2>2 DEF Cuts
<1>6. Good(s, p, q, n + d) /\ Changed(bs, s, <<bs[i]>>, <<a>>)
  BY <1>1, <1>3, <1>5, CutRun, Zenon
<1>7. MayJoin(s, j)
  <2>1. JoinedBut(s, {i + 1})
    BY <1>1, <1>2, <1>3, <1>4, CutJoined
  <2>2. Len(s) = Len(bs) + 1 /\ s[i + 1] = b /\ Len(bs) \in Nat
    BY <1>1, <1>2, <1>3, <1>4, SplitIs, SMTT(30)
  <2>3. s[i] = a
    BY <1>1, <1>2, <1>3, <1>4, SplitIs
  <2>4. JoinedBut(s, {j - 1, j})
    BY <2>1, <1>2, <2>3, <1>4 DEF JoinedBut
  <2> QED
    BY <1>2, <1>4, <2>2, <2>4 DEF MayJoin
<1> HIDE DEF j
<1>8. r = joinfree(s, j)
  BY DEF s, j, bs
<1>9. /\ Good(r, p, q, n + d) /\ Len(r) # 0 /\ JoinedBut(r, {}) /\ Used(r) = Used(s)
  BY <1>6, <1>7, <1>8, JoinfreeIs, Zenon
<1>10. Kept(bs, r)
  <2>1. Used(<<a>>) = {a}
    BY <1>4, UsedOne
  <2>2. Used(r) \subseteq Used(bs) \cup {a}
    BY <1>6, <1>9, <2>1 DEF Changed
  <2>3. \A c \in Used(bs) : c.owner = a.owner => a.ptr = c.ptr
    BY <1>1, <1>2, <1>4, FindIs DEF bs
  <2> QED
    BY <1>1, <2>2, <2>3, KeptIf
<1>11. Gives(bs, r, h, bs[i].ptr, N)
  <2>1. Used(<<a>>) = {a} /\ Used(<<bs[i]>>) = {bs[i]}
    BY <1>2, <1>4, UsedOne
  <2>2. Used(r) = (Used(bs) \ {bs[i]}) \cup {a}
    BY <1>6, <1>9, <2>1 DEF Changed
  <2>3. Gives(bs, r, h, a.ptr, a.size)
    BY ONLY <1>1, <1>2, <1>4, <2>2, GivesIf
  <2> QED
    BY <1>4, <2>3
<1> QED
  BY <1>9, <1>10, <1>11 DEF Tile, p, q, bs, d

\* Block f of hp is free and has N cells or more.
Fits(hp, f, N) ==
  f \in 1 .. Len(hp.blocks) /\ free(hp.blocks[f]) /\ N \in Nat /\ hp.blocks[f].size >= N

\* The list s is that of hp, but its f-th block has N cells and the rest may be
\* behind it.
FreeCut(hp, n, f, N, s) ==
  /\ Good(s, Start(hp), Start(hp) + Half, n) /\ JoinedBut(s, {f})
  /\ Used(s) = Used(hp.blocks) /\ Owners(s) = Owners(hp.blocks)
  /\ f \in 1 .. Len(s) /\ free(s[f]) /\ s[f].size = N
  /\ \A k \in 1 .. f - 1 : s[k] = hp.blocks[k]

\* A free block is cut after N cells: both parts are free.
LEMMA CutFree ==
  ASSUME NEW hp, NEW n, Sound(hp, n), NEW f, NEW N, Fits(hp, f, N), NEW s,
         s = IF hp.blocks[f].size = N THEN hp.blocks ELSE shortSizeBlock(hp.blocks, f, N)
  PROVE  FreeCut(hp, n, f, N, s)
<1> DEFINE bs == hp.blocks
           p == Start(hp)
           q == Start(hp) + Half
<1>0. /\ f \in 1 .. Len(hp.blocks) /\ free(hp.blocks[f])
      /\ N \in Nat /\ hp.blocks[f].size >= N
  BY DEF Fits
<1> USE <1>0
<1>1. /\ Good(bs, p, q, n) /\ JoinedBut(bs, {}) /\ bs \in Seq(Blocks) /\ Owned(bs) /\ n \in Int
      /\ Len(bs) \in Nat
  BY TileIs, SoundFacts DEF Tile
<1>2. bs[f] \in Blocks /\ bs[f].ptr \in Nat /\ bs[f].size \in Nat /\ FreeCells(bs[f]) = bs[f].size
  BY <1>1, Fields DEF FreeCells
<1>3. CASE bs[f].size = N
  <2>1. s = bs
    BY <1>3
  <2>2. JoinedBut(bs, {f})
    BY <1>1 DEF JoinedBut
  <2> QED
    BY <1>1, <1>3, <2>1, <2>2 DEF FreeCut
<1>4. CASE bs[f].size # N
  <2> DEFINE a == [bs[f] EXCEPT !.size = N]
             b == Block(bs[f].ptr + N, bs[f].size - N, NoOne)
             d == 0
  <2>1. bs[f].size - N \in Nat /\ s = Splice(bs, f, 1, <<a, b>>)
    BY <1>2, <1>4 DEF shortSizeBlock
  <2>2. /\ a \in Blocks /\ a.ptr = bs[f].ptr /\ a.size = N /\ free(a)
        /\ b \in Blocks /\ b.ptr = bs[f].ptr + N /\ b.size = bs[f].size - N /\ free(b)
    BY <1>2, <2>1, SMTT(30) DEF Blocks, Block, free
  <2>3. free(bs[f]) /\ f \in 1 .. Len(bs)
    OBVIOUS
  <2> HIDE DEF a, b, bs
  <2>4. FreeCells(a) = N /\ FreeCells(b) = bs[f].size - N
    BY <2>2 DEF FreeCells
  <2>5. Cuts(bs, f, a, b, d)
    <3>1. N + (bs[f].size - N) = bs[f].size /\ bs[f].size + d = bs[f].size
      BY <1>2
    <3>2. a.owner \notin Owners(bs)
      BY <2>2, NobodyOwns DEF free
    <3> QED
      BY <1>2, <2>2, <2>3, <2>4, <3>1, <3>2 DEF Cuts
  <2> HIDE DEF p, q, d
  <2>6. Good(s, p, q, n + d) /\ Changed(bs, s, <<bs[f]>>, <<a>>)
    BY <1>1, <2>1, <2>5, CutRun, Zenon
  <2>7. n + d = n
    BY <1>1 DEF d
  <2>8. JoinedBut(s, {f})
    BY <1>1, <2>1, <2>2, <2>3, CutJoined
  <2>9. s[f] = a /\ Len(s) = Len(bs) + 1 /\ \A k \in 1 .. f - 1 : s[k] = bs[k]
    BY ONLY <1>1, <2>1, <2>2, <2>3, SplitIs
  <2>10. Used(s) = Used(bs) /\ Owners(s) = Owners(bs)
    <3>1. /\ Used(<<bs[f]>>) = {} /\ Owners(<<bs[f]>>) = {}
          /\ Used(<<a>>) = {} /\ Owners(<<a>>) = {}
      BY <1>2, <2>2, <2>3, UsedOne
    <3> QED
      BY <2>6, <3>1 DEF Changed
  <2>11. f \in 1 .. Len(s)
    BY <1>1, <2>3, <2>9
  <2>12. Good(s, p, q, n)
    BY <2>6, <2>7, Zenon
  <2> QED
    BY <2>2, <2>8, <2>9, <2>10, <2>11, <2>12 DEF bs, p, q, FreeCut
<1> QED
  BY <1>3, <1>4

\* realloc to more cells: the block grows into the free block behind it.
LEMMA GrowIs ==
  ASSUME NEW hp, NEW n, Sound(hp, n), NEW h \in Handles, Live(hp.blocks, h),
         NEW i, i = Find(hp.blocks, h), NEW d \in Nat \ {0}, RoomBehind(hp.blocks, i, d),
         NEW r, r = GrowInPlace(hp.blocks, i, d)
  PROVE  /\ Tile(hp, r, n - d) /\ Kept(hp.blocks, r)
         /\ Gives(hp.blocks, r, h, hp.blocks[i].ptr, hp.blocks[i].size + d)
<1> DEFINE bs == hp.blocks
           p == Start(hp)
           q == Start(hp) + Half
           f == i + 1
           s == IF bs[f].size = d THEN bs ELSE shortSizeBlock(bs, f, d)
           a == [s[i] EXCEPT !.size = @ + s[i + 1].size]
           e == 0 - s[i + 1].size
<1>1. bs \in Seq(Blocks) /\ Owned(bs) /\ n \in Int /\ Len(bs) \in Nat
  BY SoundFacts
<1>2. i \in 1 .. Len(bs) /\ bs[i].owner = h /\ ~free(bs[i]) /\ bs[i] \in Blocks /\ bs[i].size \in Nat
  BY <1>1, FindIs, Fields DEF InUse
<1>3. f \in 1 .. Len(bs) /\ free(bs[f]) /\ bs[f].size >= d
  BY <1>1, <1>2 DEF RoomBehind
<1>4. r = appendfollow(s, i)
  BY DEF GrowInPlace
<1> HIDE DEF f, s
<1>5. /\ Good(s, p, q, n) /\ JoinedBut(s, {f}) /\ Used(s) = Used(bs) /\ Owners(s) = Owners(bs)
      /\ f \in 1 .. Len(s) /\ free(s[f]) /\ s[f].size = d
      /\ \A k \in 1 .. f - 1 : s[k] = bs[k]
  <2>1. Fits(hp, f, d)
    BY <1>3 DEF Fits
  <2>2. FreeCut(hp, n, f, d, s)
    BY <2>1, CutFree DEF s
  <2> QED
    BY <2>2 DEF FreeCut
<1>6. /\ s \in Seq(Blocks) /\ Len(s) \in Nat /\ i \in 1 .. Len(s) - 1 /\ f = i + 1
      /\ s[i] = bs[i] /\ p \in Int /\ Run(s, p, q, n) /\ Owned(s)
  <2>1. f = i + 1 /\ i \in 1 .. f - 1
    BY <1>2 DEF f
  <2>2. s \in Seq(Blocks) /\ Len(s) \in Nat /\ p \in Int /\ Run(s, p, q, n) /\ Owned(s)
    BY <1>5, Fields DEF Good, Run
  <2> QED
    BY <1>2, <1>5, <2>1, <2>2
<1> HIDE DEF p, q, bs
<1>7. e = 0 - d /\ Swallows(s, i, a, e)
  BY <1>2, <1>5, <1>6 DEF Swallows
<1> HIDE DEF a, e
<1>9. /\ Run(r, p, q, n + e) /\ Owned(r)
      /\ Used(r) = (Used(s) \ Used(<<s[i]>>)) \cup Used(<<a>>)
      /\ a.ptr = s[i].ptr /\ a.size = s[i].size + s[i + 1].size /\ a.owner = s[i].owner
      /\ a \in Blocks
  <2>1. Good(r, p, q, n + e) /\ Swallowed(s, r, i, a)
    BY <1>4, <1>5, <1>7, AppendRun, Zenon
  <2> QED
    BY <2>1 DEF Good, Swallowed
<1>10. Len(r) = Len(s) - 1 /\ JoinedBut(r, {})
  <2>1. free(s[i + 1]) /\ ~free(s[i]) /\ JoinedBut(s, {i + 1})
    BY <1>2, <1>5, <1>6
  <2> QED
    BY <1>4, <1>6, <2>1, AppendJoined
<1>11. n + e = n - d /\ n - d \in Int
  BY <1>1, <1>7
<1>12. Tile(hp, r, n - d)
  <2>1. Run(r, p, q, n - d)
    BY <1>9, <1>11, Zenon
  <2>2. Len(r) # 0
    BY <1>6, <1>10
  <2> QED
    BY <1>6, <1>9, <1>10, <1>11, <2>1, <2>2 DEF Tile, Good, p, q
<1>13. Kept(bs, r)
  <2>1. Used(<<a>>) = {a} /\ a.size > bs[i].size
    <3>1. ~free(a)
      BY <1>2, <1>6, <1>9 DEF free
    <3>2. a.size > bs[i].size
      BY <1>2, <1>5, <1>6, <1>9
    <3> QED
      BY <1>9, <3>1, <3>2, UsedOne
  <2>2. Used(r) \subseteq Used(bs) \cup {a}
    BY <1>5, <1>9, <2>1
  <2>3. \A c \in Used(bs) : c.owner = a.owner => a.size > c.size
    <3>1. \A c \in Used(bs) : c.owner = h => c = bs[i]
      BY <1>1, FindIs, SMTT(30) DEF bs
    <3> QED
      BY <1>2, <1>6, <1>9, <2>1, <3>1
  <2> QED
    BY <1>1, <2>2, <2>3, KeptIf
<1>14. Gives(bs, r, h, bs[i].ptr, bs[i].size + d)
  <2>1. a.owner = h /\ a.ptr = bs[i].ptr /\ a.size = bs[i].size + d /\ ~free(a) /\ a \in Blocks
    BY <1>2, <1>5, <1>6, <1>9 DEF free
  <2>2. Used(<<a>>) = {a} /\ Used(<<bs[i]>>) = {bs[i]}
    BY <1>2, <2>1, UsedOne
  <2>3. Used(r) = (Used(bs) \ {bs[i]}) \cup {a}
    BY <1>5, <1>6, <1>9, <2>2
  <2>4. Gives(bs, r, h, a.ptr, a.size)
    BY ONLY <1>1, <1>2, <2>1, <2>3, GivesIf
  <2> QED
    BY <2>1, <2>4
<1> QED
  BY <1>12, <1>13, <1>14 DEF bs

\* Block b of h is smaller than N, and block f is free and is not.
MayMove(hp, n, h, b, N, f) ==
  /\ Sound(hp, n) /\ h \in Handles /\ Live(hp.blocks, h) /\ b = hp.blocks[Find(hp.blocks, h)]
  /\ N > b.size /\ Fits(hp, f, N)

\* In the list s block b is the i-th; in r it has moved to where f is in s.
Moved(hp, m, h, b, N, s, i, f, r) ==
  /\ Tile(hp, r, m) /\ Kept(hp.blocks, r) /\ s[i] = b /\ s[f].ptr \in Nat
  /\ Gives(hp.blocks, r, h, s[f].ptr, N)

\* The list r is s but for its i-th block, and has the blocks in use of s, those of A, and not those of R.
Swapped(s, r, i, R, A) ==
  /\ r \in Seq(Blocks) /\ Len(r) = Len(s) /\ i \in 1 .. Len(s)
  /\ \A k \in 1 .. Len(s) : k # i => r[k] = s[k]
  /\ Used(r) = (Used(s) \ R) \cup A

\* In t the i-th block of s, which was h's, is nobody's.
Vacated(s, i, h, t) ==
  /\ Swapped(s, t, i, {s[i]}, {}) /\ t[i] = [s[i] EXCEPT !.owner = NoOne]
  /\ free(t[i]) /\ t[i] \in Blocks /\ Owners(t) = Owners(s) \ {h}

\* A block of h becomes nobody's.
LEMMA VacateIs ==
  ASSUME NEW s, NEW p, NEW q, NEW n, Good(s, p, q, n), NEW h \in Handles,
         NEW i \in 1 .. Len(s), s[i].owner = h, NEW t, t = [s EXCEPT ![i].owner = NoOne]
  PROVE  Good(t, p, q, n + s[i].size) /\ Vacated(s, i, h, t)
<1> DEFINE a == [s[i] EXCEPT !.owner = NoOne]
<1>1. s \in Seq(Blocks) /\ n \in Int
  BY Zenon DEF Good, Run
<1>2. s[i] \in Blocks /\ s[i].size \in Nat /\ ~free(s[i])
  BY <1>1, Fields, AllocatorAssumption DEF free
<1>3. a \in Blocks /\ free(a) /\ FreeCells(a) = s[i].size /\ FreeCells(s[i]) = 0
  BY ONLY <1>2 DEF Blocks, free, FreeCells
<1>4. MayOwn(s, i, NoOne)
  BY NobodyOwns DEF MayOwn
<1>5. a = [s[i] EXCEPT !.owner = NoOne]
  OBVIOUS
<1> HIDE DEF a
<1>6. /\ Good(t, p, q, n + (FreeCells(a) - FreeCells(s[i])))
      /\ Changed(s, t, <<s[i]>>, <<a>>) /\ OnlyAt(s, t, i, a)
  BY <1>4, <1>5, OwnerRun, Zenon
<1>7. Good(t, p, q, n + s[i].size)
  <2>1. n + (FreeCells(a) - FreeCells(s[i])) = n + s[i].size
    BY ONLY <1>1, <1>2, <1>3
  <2> QED
    BY ONLY <1>6, <2>1, Zenon
<1>8. Used(<<a>>) = {} /\ Owners(<<a>>) = {} /\ Used(<<s[i]>>) = {s[i]} /\ Owners(<<s[i]>>) = {h}
  BY <1>2, <1>3, UsedOne, Zenon
<1>9. Used(t) = (Used(s) \ {s[i]}) \cup {} /\ Owners(t) = Owners(s) \ {h}
  BY ONLY <1>6, <1>8, Zenon DEF Changed
<1>10. /\ t \in Seq(Blocks) /\ Len(t) = Len(s) /\ t[i] = a
       /\ \A k \in 1 .. Len(s) : k # i => t[k] = s[k]
  BY ONLY <1>6, <1>7, Zenon DEF Good, Run, OnlyAt
<1>11. Vacated(s, i, h, t)
  BY <1>3, <1>5, <1>9, <1>10, Zenon DEF Vacated, Swapped
<1> QED
  BY <1>7, <1>11

\* In u the free block f of t is h's.
Settled(t, f, h, u) ==
  /\ Swapped(t, u, f, {}, {u[f]}) /\ u[f] = [t[f] EXCEPT !.owner = h]
  /\ ~free(u[f]) /\ u[f] \in Blocks /\ u[f].owner = h
  /\ u[f].size = t[f].size /\ u[f].ptr = t[f].ptr

\* A free block becomes h's, who has none.
LEMMA SettleIs ==
  ASSUME NEW t, NEW p, NEW q, NEW n, Good(t, p, q, n), NEW h \in Handles, h \notin Owners(t),
         NEW f \in 1 .. Len(t), free(t[f]), NEW u, u = [t EXCEPT ![f].owner = h]
  PROVE  Good(u, p, q, n - t[f].size) /\ Settled(t, f, h, u)
<1> DEFINE c == [t[f] EXCEPT !.owner = h]
<1>1. t \in Seq(Blocks) /\ n \in Int
  BY Zenon DEF Good, Run
<1>2. t[f] \in Blocks /\ t[f].size \in Nat /\ h # NoOne
  BY <1>1, Fields, AllocatorAssumption
<1>3. c \in Blocks /\ c.owner = h /\ c.size = t[f].size /\ c.ptr = t[f].ptr
  BY ONLY <1>2, h \in Handles DEF Blocks
<1>4. ~free(c) /\ FreeCells(c) = 0 /\ FreeCells(t[f]) = t[f].size
  <2> HIDE DEF c
  <2> QED
    BY <1>2, <1>3, Zenon DEF free, FreeCells
<1>5. MayOwn(t, f, h)
  BY Zenon DEF MayOwn
<1>6. c = [t[f] EXCEPT !.owner = h]
  OBVIOUS
<1> HIDE DEF c
<1>7. /\ Good(u, p, q, n + (FreeCells(c) - FreeCells(t[f])))
      /\ Changed(t, u, <<t[f]>>, <<c>>) /\ OnlyAt(t, u, f, c)
  BY <1>5, <1>6, OwnerRun, Zenon
<1>8. Good(u, p, q, n - t[f].size)
  <2>1. n + (FreeCells(c) - FreeCells(t[f])) = n - t[f].size
    BY ONLY <1>1, <1>2, <1>4
  <2> QED
    BY ONLY <1>7, <2>1, Zenon
<1>9. Used(<<c>>) = {c} /\ Used(<<t[f]>>) = {}
  BY <1>2, <1>3, <1>4, UsedOne, Zenon
<1>10. Used(u) = (Used(t) \ {}) \cup {c}
  BY ONLY <1>7, <1>9, Zenon DEF Changed
<1>11. /\ u \in Seq(Blocks) /\ Len(u) = Len(t) /\ u[f] = c
       /\ \A k \in 1 .. Len(t) : k # f => u[k] = t[k]
  BY ONLY <1>7, <1>8, Zenon DEF Good, Run, OnlyAt
<1>12. Settled(t, f, h, u)
  BY <1>3, <1>4, <1>6, <1>10, <1>11, Zenon DEF Settled, Swapped
<1> QED
  BY <1>8, <1>12

\* The two changes in one.
LEMMA TwoOwners ==
  ASSUME NEW s \in Seq(Blocks), NEW i \in 1 .. Len(s), NEW f \in 1 .. Len(s), i # f, NEW h,
         NEW t, Len(t) = Len(s), t[i] = [s[i] EXCEPT !.owner = NoOne], t[i] \in Blocks,
         \A k \in 1 .. Len(s) : k # i => t[k] = s[k],
         NEW u \in Seq(Blocks), Len(u) = Len(t), u[f] = [t[f] EXCEPT !.owner = h], u[f] \in Blocks,
         \A k \in 1 .. Len(t) : k # f => u[k] = t[k]
  PROVE  [s EXCEPT ![f].owner = h, ![i].owner = NoOne] = u
<1> DEFINE a == [s[i] EXCEPT !.owner = NoOne]
           c == [s[f] EXCEPT !.owner = h]
           v == [s EXCEPT ![f] = c]
           w == [v EXCEPT ![i] = a]
<1>1. a = t[i] /\ a \in Blocks
  BY Zenon
<1>2. c = u[f] /\ c \in Blocks
  <2>1. t[f] = s[f]
    BY Zenon
  <2> QED
    BY <2>1, Zenon
<1>3. [s EXCEPT ![f].owner = h, ![i].owner = NoOne] = w
  BY ZenonT(60)
<1> HIDE DEF a, c
<1>4. v \in Seq(Blocks) /\ Len(v) = Len(s) /\ \A k \in 1 .. Len(s) : v[k] = IF k = f THEN c ELSE s[k]
  BY ONLY <1>2, s \in Seq(Blocks), f \in 1 .. Len(s), ExceptSeq
<1> HIDE DEF v
<1>5. w \in Seq(Blocks) /\ Len(w) = Len(v) /\ \A k \in 1 .. Len(v) : w[k] = IF k = i THEN a ELSE v[k]
  <2>1. i \in 1 .. Len(v)
    BY <1>4, Zenon
  <2> QED
    BY ONLY <1>1, <1>4, <2>1, ExceptSeq
<1> HIDE DEF w
<1>6. \A k \in 1 .. Len(u) : u[k] = w[k]
  <2> TAKE k \in 1 .. Len(u)
  <2>1. k \in 1 .. Len(s) /\ k \in 1 .. Len(t) /\ k \in 1 .. Len(v)
    BY <1>4, Zenon
  <2>2. CASE k = f
    BY <1>2, <1>4, <1>5, <2>1, <2>2, Zenon
  <2>3. CASE k = i
    BY <1>1, <1>5, <2>1, <2>3, Zenon
  <2>4. CASE k # f /\ k # i
    BY <1>4, <1>5, <2>1, <2>4, Zenon
  <2> QED
    BY <2>2, <2>3, <2>4, Zenon
<1>7. Len(u) = Len(w)
  BY <1>4, <1>5, Zenon
<1>8. u = w
  BY ONLY u \in Seq(Blocks), <1>5, <1>6, <1>7, SeqEqual
<1> QED
  BY <1>3, <1>8, Zenon

\* What realloc makes of s when the block i of h moves to the free block f.
Relocated(s, h, f, i, r) == r = joinfree([s EXCEPT ![f].owner = h, ![i].owner = NoOne], i)

\* In r the block i of s has become c, which is h's and where f was.
InPlaceOf(s, p, q, n, h, f, i, r, c) ==
  /\ c \in Blocks /\ c.owner = h /\ c.size = s[f].size /\ c.ptr = s[f].ptr /\ ~free(c)
  /\ Good(r, p, q, (n + s[i].size) - s[f].size) /\ Len(r) # 0 /\ JoinedBut(r, {})
  /\ Used(r) = (Used(s) \ {s[i]}) \cup {c}

\* In a list the block of h is moved to the free block f.
LEMMA RelocateIs ==
  ASSUME NEW s, NEW p, NEW q, NEW n, Good(s, p, q, n), NEW h \in Handles,
         NEW f \in 1 .. Len(s), free(s[f]), JoinedBut(s, {f}),
         NEW i \in 1 .. Len(s), s[i].owner = h, NEW r, Relocated(s, h, f, i, r)
  PROVE  \E c : InPlaceOf(s, p, q, n, h, f, i, r, c)
<1> DEFINE t == [s EXCEPT ![i].owner = NoOne]
           u == [t EXCEPT ![f].owner = h]
           m == n + s[i].size
           w == [s EXCEPT ![f].owner = h, ![i].owner = NoOne]
<1>1. s \in Seq(Blocks) /\ Len(s) \in Nat /\ i # f
  <2>1. s \in Seq(Blocks)
    BY Zenon DEF Good, Run
  <2> QED
    BY <2>1, Fields, AllocatorAssumption, Zenon DEF free
<1>2. r = joinfree(w, i)
  BY Zenon DEF Relocated
<1>3. t = [s EXCEPT ![i].owner = NoOne] /\ u = [t EXCEPT ![f].owner = h]
  OBVIOUS
<1>4. w = [s EXCEPT ![f].owner = h, ![i].owner = NoOne]
  OBVIOUS
<1> HIDE DEF t, u, w
<1>5. Good(t, p, q, m) /\ Vacated(s, i, h, t)
  BY <1>3, VacateIs, Zenon
<1> HIDE DEF m
<1>6. /\ t \in Seq(Blocks) /\ Len(t) = Len(s) /\ \A k \in 1 .. Len(s) : k # i => t[k] = s[k]
      /\ t[i] = [s[i] EXCEPT !.owner = NoOne] /\ free(t[i]) /\ t[i] \in Blocks
      /\ Used(t) = (Used(s) \ {s[i]}) \cup {} /\ Owners(t) = Owners(s) \ {h}
  BY <1>5, Zenon DEF Vacated, Swapped
<1>7. f \in 1 .. Len(t) /\ t[f] = s[f] /\ free(t[f]) /\ h \notin Owners(t)
  BY <1>1, <1>6, Zenon
<1>8. Good(u, p, q, m - t[f].size) /\ Settled(t, f, h, u)
  BY <1>3, <1>5, <1>7, SettleIs, Zenon
<1>9. /\ u \in Seq(Blocks) /\ Len(u) = Len(t) /\ \A k \in 1 .. Len(t) : k # f => u[k] = t[k]
      /\ u[f] = [t[f] EXCEPT !.owner = h] /\ ~free(u[f]) /\ u[f] \in Blocks /\ u[f].owner = h
      /\ u[f].size = t[f].size /\ u[f].ptr = t[f].ptr
      /\ Used(u) = (Used(t) \ {}) \cup {u[f]}
  BY <1>8, Zenon DEF Settled, Swapped
<1>10. MayJoin(u, i)
  <2> DEFINE S == {f} \cup {i - 1, i}
  <2>1. JoinedBut(t, S)
    BY ONLY <1>1, <1>6, i \in 1 .. Len(s), JoinedBut(s, {f}), OwnerJoined
  <2>2. S \ {f - 1, f} \subseteq {i - 1, i}
    BY ONLY TRUE
  <2> HIDE DEF S
  <2>3. JoinedBut(u, S \ {f - 1, f})
    BY ONLY <1>6, <1>7, <1>9, <2>1, OwnerJoined
  <2>4. JoinedBut(u, {i - 1, i})
    BY ONLY <2>2, <2>3, Zenon DEF JoinedBut
  <2>5. u[i] = t[i] /\ i \in 1 .. Len(u)
    BY <1>1, <1>6, <1>9, Zenon
  <2> QED
    BY <1>6, <2>4, <2>5, Zenon DEF MayJoin
<1>11. w = u
  BY ONLY <1>1, <1>4, <1>6, <1>9, i \in 1 .. Len(s), f \in 1 .. Len(s), TwoOwners
<1>12. r = joinfree(u, i)
  BY <1>2, <1>11, Zenon
<1>13. Good(r, p, q, m - t[f].size) /\ Len(r) # 0 /\ JoinedBut(r, {}) /\ Used(r) = Used(u)
  BY ONLY <1>8, <1>10, <1>12, JoinfreeIs
<1>14. Used(r) = (Used(s) \ {s[i]}) \cup {u[f]}
  BY ONLY <1>6, <1>9, <1>13, Zenon
<1>15. Good(r, p, q, m - s[f].size)
  BY ONLY <1>7, <1>13, Zenon
<1>16. InPlaceOf(s, p, q, n, h, f, i, r, u[f])
  BY <1>7, <1>9, <1>13, <1>14, <1>15, Zenon DEF m, InPlaceOf
<1> QED
  BY <1>16

\* realloc to more cells: the block moves to the free block f.
LEMMA MoveIs ==
  ASSUME NEW hp, NEW n, NEW h, NEW b, NEW N, NEW f, MayMove(hp, n, h, b, N, f),
         NEW s, FreeCut(hp, n, f, N, s),
         NEW i, i = Find(s, h), NEW r, Relocated(s, h, f, i, r)
  PROVE  Moved(hp, n - (N - b.size), h, b, N, s, i, f, r)
<1> DEFINE bs == hp.blocks
           p == Start(hp)
           q == Start(hp) + Half
           j == Find(bs, h)
<1>1. /\ h \in Handles /\ N \in Nat /\ N > b.size /\ Live(bs, h) /\ b = bs[j]
  BY Zenon DEF MayMove, Fits
<1>2. bs \in Seq(Blocks) /\ Owned(bs) /\ n \in Int
  BY SoundFacts, SMTT(30) DEF MayMove
<1>3. /\ Good(s, p, q, n) /\ JoinedBut(s, {f}) /\ Used(s) = Used(bs) /\ Owners(s) = Owners(bs)
      /\ f \in 1 .. Len(s) /\ free(s[f]) /\ s[f].size = N
  BY Zenon DEF FreeCut
<1> HIDE DEF bs, p, q
<1>4. s \in Seq(Blocks) /\ Owned(s)
  BY <1>3, Zenon DEF Good, Run
<1>5. i \in 1 .. Len(s) /\ s[i].owner = h /\ s[i] \in Used(bs)
  <2>1. h \in Owners(bs)
    BY ONLY <1>1, <1>2, FindIs
  <2>2. Live(s, h)
    BY ONLY <1>1, <1>3, <1>4, <2>1, FindIs
  <2> QED
    BY ONLY <1>1, <1>3, <1>4, <2>2, i = Find(s, h), FindIs
<1>6. /\ \A d \in Used(bs) : d.owner = h => d = b
      /\ j \in 1 .. Len(bs) /\ b.owner = h /\ b \in Blocks
  <2> HIDE DEF j
  <2>1. j = Find(bs, h)
    BY DEF j
  <2>2. \A d \in Used(bs) : d.owner = h => d = b
    BY ONLY <1>1, <1>2, <2>1, FindIs
  <2>3. j \in 1 .. Len(bs) /\ b.owner = h
    BY ONLY <1>1, <1>2, <2>1, FindIs
  <2> QED
    BY ONLY <1>1, <1>2, <2>2, <2>3, Fields
<1> HIDE DEF j
<1>7. s[i] = b
  BY ONLY <1>5, <1>6
<1>8. \E c : InPlaceOf(s, p, q, n, h, f, i, r, c)
  BY ONLY <1>1, <1>3, <1>5, Relocated(s, h, f, i, r), RelocateIs
<1>9. PICK c : InPlaceOf(s, p, q, n, h, f, i, r, c)
  BY ONLY <1>8
<1>10. /\ c \in Blocks /\ c.owner = h /\ c.size = s[f].size /\ c.ptr = s[f].ptr /\ ~free(c)
       /\ Good(r, p, q, (n + s[i].size) - s[f].size) /\ Len(r) # 0 /\ JoinedBut(r, {})
       /\ Used(r) = (Used(s) \ {s[i]}) \cup {c}
  BY ONLY <1>9, Zenon DEF InPlaceOf
<1>11. Used(r) = (Used(bs) \ {b}) \cup {c}
  BY ONLY <1>3, <1>7, <1>10
<1>12. Tile(hp, r, n - (N - b.size))
  <2>1. (n + s[i].size) - s[f].size = n - (N - b.size)
    <3>1. b.size \in Int
      BY ONLY <1>6 DEF Blocks
    <3> QED
      BY ONLY <1>1, <1>2, <1>3, <1>7, <3>1
  <2> QED
    BY <1>10, <2>1, Zenon DEF Tile, p, q
<1>13. Kept(bs, r)
  <2>1. \A d \in Used(bs) : d.owner = c.owner => c.ptr = d.ptr \/ c.size > d.size
    BY ONLY <1>1, <1>3, <1>6, <1>10
  <2>2. Used(r) \subseteq Used(bs) \cup {c}
    BY ONLY <1>11, Zenon
  <2> QED
    BY ONLY <1>2, <2>1, <2>2, KeptIf
<1>14. s[f].ptr \in Nat
  BY ONLY <1>3, <1>4, Fields
<1>15. Gives(bs, r, h, s[f].ptr, N)
  <2>1. bs[j].owner = h /\ Used(r) = (Used(bs) \ {bs[j]}) \cup {c}
    BY ONLY <1>1, <1>6, <1>11, Zenon
  <2>2. Gives(bs, r, h, c.ptr, c.size)
    BY ONLY <1>1, <1>2, <1>6, <1>10, <2>1, GivesIf
  <2> QED
    BY ONLY <1>3, <1>10, <2>2
<1> QED
  BY <1>7, <1>12, <1>13, <1>14, <1>15, Zenon DEF bs, Moved

----------------------------------------------------------------------------
(* What the calls do to what is seen *)

\* A handle sees the same when it has the same block with the same cells.
LEMMA SeesSame ==
  ASSUME NEW hp, hp.blocks \in Seq(Blocks), Owned(hp.blocks),
         NEW r, r.blocks \in Seq(Blocks), Owned(r.blocks), NEW h \in Handles,
         \A b \in Blocks : b.owner = h => (b \in Used(r.blocks) <=> b \in Used(hp.blocks)),
         \A b \in Used(hp.blocks) : b.owner = h =>
           \A i \in 1 .. b.size : r.mem[b.ptr + (i - 1)] = hp.mem[b.ptr + (i - 1)]
  PROVE  See(r, h) = See(hp, h)
<1>1. Used(hp.blocks) \subseteq Blocks /\ Used(r.blocks) \subseteq Blocks
  BY Fields DEF Used, InUse
<1>2. CASE \E b \in Used(hp.blocks) : b.owner = h
  <2>1. PICK b \in Used(hp.blocks) : b.owner = h
    BY <1>2
  <2>2. See(hp, h) = Row(hp.mem, b)
    BY <2>1, SeeIs
  <2>3. b \in Used(r.blocks)
    BY <1>1, <2>1
  <2>4. See(r, h) = Row(r.mem, b)
    BY <2>1, <2>3, SeeIs
  <2>5. Row(r.mem, b) = Row(hp.mem, b)
    BY <2>1, Zenon DEF Row
  <2> QED
    BY <2>2, <2>4, <2>5
<1>3. CASE \A b \in Used(hp.blocks) : b.owner # h
  <2>1. \A b \in Used(r.blocks) : b.owner # h
    BY <1>1, <1>3
  <2> QED
    BY <1>3, <2>1, SeeIs
<1> QED
  BY <1>2, <1>3

\* In r, h sees the cells it saw in hp as far as both reach, and the others see
\* what they saw.
Resized(hp, r, h) ==
  /\ \A g \in Handles \ {h} : See(r, g) = See(hp, g)
  /\ Live(r.blocks, h)
  /\ Live(hp.blocks, h) => \A i \in 1 .. Len(See(hp, h)) :
                             i <= Len(See(r, h)) => See(r, h)[i] = See(hp, h)[i]

LEMMA RowIs ==
  ASSUME NEW b \in Blocks, NEW m
  PROVE  /\ Len(Row(m, b)) = b.size
         /\ \A i \in 1 .. b.size : Row(m, b)[i] = m[b.ptr + (i - 1)]
<1> DEFINE S == {m[b.ptr + (i - 1)] : i \in 1 .. b.size}
<1>1. b.size \in Nat
  BY DEF Blocks
<1>2. Row(m, b) \in [1 .. b.size -> S]
  BY DEF Row
<1>3. Row(m, b) \in Seq(S)
  BY <1>1, <1>2, SeqDef
<1>4. Len(Row(m, b)) = b.size
  <2>1. DOMAIN Row(m, b) = 1 .. b.size
    BY <1>2
  <2>2. Len(Row(m, b)) \in Nat /\ DOMAIN Row(m, b) = 1 .. Len(Row(m, b))
    BY <1>3, LenProperties
  <2> QED
    BY <1>1, <2>1, <2>2
<1> QED
  BY <1>4 DEF Row

\* The block of h is replaced by one of N cells at x.
LEMMA ResizedIf ==
  ASSUME NEW hp, hp.blocks \in Seq(Blocks), Owned(hp.blocks),
         NEW r, r.blocks \in Seq(Blocks), Owned(r.blocks), NEW h \in Handles,
         NEW x \in Nat, NEW N \in Nat, Gives(hp.blocks, r.blocks, h, x, N),
         \A b \in Used(hp.blocks) : b.owner # h =>
           \A i \in 1 .. b.size : r.mem[b.ptr + (i - 1)] = hp.mem[b.ptr + (i - 1)],
         \A b \in Used(hp.blocks) : b.owner = h =>
           \A i \in 1 .. b.size : i <= N => r.mem[x + (i - 1)] = hp.mem[b.ptr + (i - 1)]
  PROVE  Resized(hp, r, h)
<1> DEFINE a == Block(x, N, h)
<1>1. a \in Blocks /\ a.ptr = x /\ a.size = N /\ a.owner = h
  BY DEF Block, Blocks
<1>2. Used(hp.blocks) \subseteq Blocks
  BY Fields DEF Used, InUse
<1> HIDE DEF a
<1>3. Used(r.blocks) = {b \in Used(hp.blocks) : b.owner # h} \cup {a}
  BY DEF Gives, a
<1>4. ASSUME NEW g \in Handles \ {h} PROVE See(r, g) = See(hp, g)
  <2>1. \A b \in Blocks : b.owner = g => (b \in Used(r.blocks) <=> b \in Used(hp.blocks))
    BY <1>1, <1>3
  <2>2. \A b \in Used(hp.blocks) : b.owner = g =>
          \A i \in 1 .. b.size : r.mem[b.ptr + (i - 1)] = hp.mem[b.ptr + (i - 1)]
    OBVIOUS
  <2> QED
    BY <2>1, <2>2, SeesSame
<1>5. Live(r.blocks, h) /\ See(r, h) = Row(r.mem, a)
  BY <1>1, <1>3, SeeIs
<1>6. ASSUME Live(hp.blocks, h), NEW i \in 1 .. Len(See(hp, h)), i <= Len(See(r, h))
      PROVE  See(r, h)[i] = See(hp, h)[i]
  <2>1. PICK b \in Used(hp.blocks) : b.owner = h
    BY <1>6, FindIs
  <2>2. See(hp, h) = Row(hp.mem, b) /\ b \in Blocks
    BY <1>2, <2>1, SeeIs
  <2>3. i \in 1 .. b.size /\ i <= N /\ i \in 1 .. N
    BY <1>1, <1>5, <1>6, <2>2, RowIs
  <2>4. See(hp, h)[i] = hp.mem[b.ptr + (i - 1)]
    BY <2>2, <2>3, RowIs
  <2>5. See(r, h)[i] = r.mem[x + (i - 1)]
    <3>1. Row(r.mem, a)[i] = r.mem[a.ptr + (i - 1)]
      BY <1>1, <2>3, RowIs
    <3> QED
      BY <1>1, <1>5, <3>1
  <2> QED
    BY <2>1, <2>3, <2>4, <2>5
<1> QED
  BY <1>4, <1>5, <1>6 DEF Resized

\* What was seen before the memory was defragmented.
LEMMA ResizedAfter ==
  ASSUME NEW hp, NEW s, SeesTheSame(hp, s), NEW r, NEW h \in Handles, Resized(s, r, h)
  PROVE  Resized(hp, r, h)
<1>1. \A g \in Handles : See(s, g) = See(hp, g)
  BY DEF SeesTheSame
<1>2. Live(s.blocks, h) <=> Live(hp.blocks, h)
  BY DEF SeesTheSame
<1> QED
  BY <1>1, <1>2, Zenon DEF Resized

\* The i-th cell of b lies in no other block.
LEMMA CellApart ==
  ASSUME NEW hp, NEW n, Sound(hp, n), NEW b \in Used(hp.blocks), NEW i \in 1 .. b.size
  PROVE  /\ b \in Blocks /\ b.ptr + (i - 1) \in Cells
         /\ b.ptr <= b.ptr + (i - 1) /\ b.ptr + (i - 1) < b.ptr + b.size
         /\ \A c \in Used(hp.blocks) : c.owner # b.owner =>
              ~(c.ptr <= b.ptr + (i - 1) /\ b.ptr + (i - 1) < c.ptr + c.size)
<1>1. /\ Start(hp) \in {0, Half} /\ Half \in Nat /\ hp.blocks \in Seq(Blocks)
      /\ Run(hp.blocks, Start(hp), Start(hp) + Half, n)
  BY SoundFacts, AllocatorAssumption DEF Sound
<1>2. Apart(hp.blocks)
  <2>1. Start(hp) \in Int
    BY <1>1
  <2> QED
    BY <1>1, <2>1, RunApart
<1>3. ASSUME NEW c \in Used(hp.blocks)
      PROVE  c \in Blocks /\ c.ptr \in Nat /\ c.size \in Nat /\ c.ptr + c.size <= 2 * Half
  <2>1. PICK k \in 1 .. Len(hp.blocks) : c = hp.blocks[k]
    BY DEF Used, InUse
  <2>2. c.ptr + c.size <= Start(hp) + Half
    BY <2>1, SoundFacts
  <2> QED
    BY <1>1, <2>1, <2>2, Fields, SMTT(30)
<1> DEFINE d == b.ptr + (i - 1)
<1>4. d \in Nat /\ b.ptr <= d /\ d < b.ptr + b.size /\ b.ptr + b.size <= 2 * Half /\ d \in Cells
  BY <1>1, <1>3, SMTT(30) DEF Cells
<1> HIDE DEF d
<1>5. ASSUME NEW c \in Used(hp.blocks), c.owner # b.owner, c.ptr <= d, d < c.ptr + c.size
      PROVE  FALSE
  <2>1. b.ptr + b.size <= c.ptr \/ c.ptr + c.size <= b.ptr
    BY <1>2, <1>5 DEF Apart
  <2>2. b.ptr \in Nat /\ b.size \in Nat /\ c.ptr \in Nat /\ c.size \in Nat
    BY <1>3
  <2> QED
    BY <1>4, <1>5, <2>1, <2>2
<1> QED
  BY <1>3, <1>4, <1>5 DEF d

\* alloc, and realloc in place: no cell changes.
LEMMA ResizedInPlace ==
  ASSUME NEW hp, NEW n, Sound(hp, n), NEW r, NEW m, Sound(r, m), r.mem = hp.mem,
         NEW h \in Handles, NEW x \in Nat, NEW N \in Nat, Gives(hp.blocks, r.blocks, h, x, N),
         \A b \in Used(hp.blocks) : b.owner = h => b.ptr = x
  PROVE  Resized(hp, r, h)
<1>1. /\ hp.blocks \in Seq(Blocks) /\ Owned(hp.blocks) /\ r.blocks \in Seq(Blocks) /\ Owned(r.blocks)
  BY SoundFacts
<1>2. \A b \in Used(hp.blocks) : b.owner = h =>
        \A i \in 1 .. b.size : i <= N => r.mem[x + (i - 1)] = hp.mem[b.ptr + (i - 1)]
  OBVIOUS
<1>3. \A b \in Used(hp.blocks) : b.owner # h =>
        \A i \in 1 .. b.size : r.mem[b.ptr + (i - 1)] = hp.mem[b.ptr + (i - 1)]
  OBVIOUS
<1> QED
  BY <1>1, <1>2, <1>3, ResizedIf

\* realloc to fewer cells: the end of the block is discarded.
LEMMA ResizedShort ==
  ASSUME NEW hp, NEW n, Sound(hp, n), NEW r, NEW m, Sound(r, m), NEW h \in Handles,
         NEW b \in Used(hp.blocks), b.owner = h, NEW N \in Nat, N <= b.size,
         Gives(hp.blocks, r.blocks, h, b.ptr, N),
         r.mem = Discard(hp.mem, b.ptr + N, b.size - N)
  PROVE  Resized(hp, r, h)
<1>1. /\ hp.blocks \in Seq(Blocks) /\ Owned(hp.blocks) /\ r.blocks \in Seq(Blocks) /\ Owned(r.blocks)
  BY SoundFacts
<1>2. b \in Blocks /\ b.ptr \in Nat /\ b.size \in Nat /\ \A c \in Used(hp.blocks) : c.owner = h => c = b
  <2>1. PICK k \in InUse(hp.blocks) : b = hp.blocks[k]
    BY DEF Used
  <2>2. k \in 1 .. Len(hp.blocks)
    BY DEF InUse
  <2> QED
    BY <1>1, <2>1, <2>2, Fields DEF Owned, Used
<1>3. \A d \in Cells : ~(b.ptr + N <= d /\ d < (b.ptr + N) + (b.size - N)) => r.mem[d] = hp.mem[d]
  BY DEF Discard
<1>4. ASSUME NEW c \in Used(hp.blocks), c.owner # h, NEW i \in 1 .. c.size
      PROVE  r.mem[c.ptr + (i - 1)] = hp.mem[c.ptr + (i - 1)]
  <2> DEFINE d == c.ptr + (i - 1)
  <2>1. d \in Cells /\ ~(b.ptr <= d /\ d < b.ptr + b.size)
    BY <1>4, CellApart
  <2> HIDE DEF d
  <2>2. ~(b.ptr + N <= d /\ d < (b.ptr + N) + (b.size - N))
    BY <1>2, <2>1 DEF Cells
  <2> QED
    BY <1>3, <2>1, <2>2 DEF d
<1>5. ASSUME NEW i \in 1 .. b.size, i <= N
      PROVE  r.mem[b.ptr + (i - 1)] = hp.mem[b.ptr + (i - 1)]
  <2>1. b.ptr + (i - 1) \in Cells
    BY CellApart
  <2>2. ~(b.ptr + N <= b.ptr + (i - 1))
    BY <1>2, <1>5
  <2> QED
    BY <1>3, <2>1, <2>2
<1>6. b.ptr \in Nat
  BY <1>2
<1> DEFINE x == b.ptr
<1>7. \A c \in Used(hp.blocks) : c.owner = h =>
        \A i \in 1 .. c.size : i <= N => r.mem[x + (i - 1)] = hp.mem[c.ptr + (i - 1)]
  BY <1>2, <1>5
<1>8. x \in Nat /\ Gives(hp.blocks, r.blocks, h, x, N)
  BY <1>6
<1>9. \A c \in Used(hp.blocks) : c.owner # h =>
        \A i \in 1 .. c.size : r.mem[c.ptr + (i - 1)] = hp.mem[c.ptr + (i - 1)]
  BY <1>4
<1> HIDE DEF x
<1> QED
  BY ONLY <1>1, <1>7, <1>8, <1>9, ResizedIf, ZenonT(40)

\* realloc that moves the block to x: its cells are copied.
LEMMA ResizedMoved ==
  ASSUME NEW hp, NEW n, Sound(hp, n), NEW r, NEW m, Sound(r, m), NEW h \in Handles,
         NEW b \in Used(hp.blocks), b.owner = h, NEW N \in Nat, N > b.size, NEW x \in Nat,
         Gives(hp.blocks, r.blocks, h, x, N),
         r.mem = [c \in Cells |-> IF x <= c /\ c < x + b.size THEN hp.mem[b.ptr + (c - x)]
                                  ELSE Discard(hp.mem, b.ptr, b.size)[c]]
  PROVE  Resized(hp, r, h)
<1>1. /\ hp.blocks \in Seq(Blocks) /\ Owned(hp.blocks) /\ r.blocks \in Seq(Blocks) /\ Owned(r.blocks)
  BY SoundFacts
<1>2. b \in Blocks /\ b.ptr \in Nat /\ b.size \in Nat /\ \A c \in Used(hp.blocks) : c.owner = h => c = b
  <2>1. PICK k \in InUse(hp.blocks) : b = hp.blocks[k]
    BY DEF Used
  <2>2. k \in 1 .. Len(hp.blocks)
    BY DEF InUse
  <2> QED
    BY <1>1, <2>1, <2>2, Fields, SMTT(30) DEF Owned, Used
<1> DEFINE a == Block(x, N, h)
<1>3. a.ptr = x /\ a.size = N /\ a.owner = h /\ a \in Used(r.blocks)
  BY DEF Gives, Block
<1>4. \A c \in Used(hp.blocks) : c.owner # h => c \in Used(r.blocks)
  BY DEF Gives
<1> HIDE DEF a
<1>5. \A d \in Cells : r.mem[d] = IF x <= d /\ d < x + b.size THEN hp.mem[b.ptr + (d - x)]
                                  ELSE Discard(hp.mem, b.ptr, b.size)[d]
  BY Zenon
<1>6. \A d \in Cells : ~(b.ptr <= d /\ d < b.ptr + b.size) => Discard(hp.mem, b.ptr, b.size)[d] = hp.mem[d]
  BY DEF Discard
<1>7. ASSUME NEW c \in Used(hp.blocks), c.owner # h, NEW i \in 1 .. c.size
      PROVE  r.mem[c.ptr + (i - 1)] = hp.mem[c.ptr + (i - 1)]
  <2> DEFINE d == c.ptr + (i - 1)
  <2>1. d \in Cells /\ ~(b.ptr <= d /\ d < b.ptr + b.size)
    BY <1>7, CellApart
  <2>2. ~(x <= d /\ d < x + N)
    BY <1>3, <1>4, <1>7, CellApart
  <2> HIDE DEF d
  <2>3. ~(x <= d /\ d < x + b.size)
    BY <1>2, <2>1, <2>2 DEF Cells
  <2> QED
    BY <1>5, <1>6, <2>1, <2>3, Zenon DEF d
<1>8. ASSUME NEW i \in 1 .. b.size
      PROVE  r.mem[x + (i - 1)] = hp.mem[b.ptr + (i - 1)]
  <2>1. i \in 1 .. a.size
    BY <1>2, <1>3
  <2>2. a.ptr + (i - 1) \in Cells
    BY <1>3, <2>1, CellApart
  <2> DEFINE d == x + (i - 1)
  <2>3. d \in Cells /\ x <= d /\ d < x + b.size /\ d - x = i - 1
    BY <1>2, <1>3, <2>2
  <2> HIDE DEF d
  <2> QED
    BY <1>5, <2>3 DEF d
<1>9. \A c \in Used(hp.blocks) : c.owner = h =>
        \A i \in 1 .. c.size : i <= N => r.mem[x + (i - 1)] = hp.mem[c.ptr + (i - 1)]
  BY <1>2, <1>8
<1>10. \A c \in Used(hp.blocks) : c.owner # h =>
         \A i \in 1 .. c.size : r.mem[c.ptr + (i - 1)] = hp.mem[c.ptr + (i - 1)]
  BY <1>7
<1>11. x \in Nat /\ N \in Nat /\ Gives(hp.blocks, r.blocks, h, x, N)
  OBVIOUS
<1> QED
  BY ONLY <1>1, <1>9, <1>10, <1>11, ResizedIf, ZenonT(40)

\* The calls on the block b of h: no other cells are written.
LEMMA OthersSee ==
  ASSUME NEW hp, NEW n, Sound(hp, n), NEW r, NEW m, Sound(r, m), NEW h \in Handles,
         NEW b \in Used(hp.blocks), b.owner = h,
         \A c \in Blocks : c.owner \in Handles \ {h} =>
           (c \in Used(r.blocks) <=> c \in Used(hp.blocks)),
         \A d \in Cells : ~(b.ptr <= d /\ d < b.ptr + b.size) => r.mem[d] = hp.mem[d]
  PROVE  \A g \in Handles \ {h} : See(r, g) = See(hp, g)
<1> SUFFICES ASSUME NEW g \in Handles \ {h} PROVE See(r, g) = See(hp, g)
  OBVIOUS
<1>1. /\ hp.blocks \in Seq(Blocks) /\ Owned(hp.blocks) /\ r.blocks \in Seq(Blocks) /\ Owned(r.blocks)
  BY SoundFacts
<1>2. ASSUME NEW c \in Used(hp.blocks), c.owner = g, NEW i \in 1 .. c.size
      PROVE  r.mem[c.ptr + (i - 1)] = hp.mem[c.ptr + (i - 1)]
  <2> DEFINE d == c.ptr + (i - 1)
  <2>1. d \in Cells /\ ~(b.ptr <= d /\ d < b.ptr + b.size)
    BY <1>2, CellApart
  <2> QED
    BY <2>1
<1>3. \A c \in Blocks : c.owner = g => (c \in Used(r.blocks) <=> c \in Used(hp.blocks))
  OBVIOUS
<1> QED
  BY <1>1, <1>2, <1>3, SeesSame

----------------------------------------------------------------------------
(* The calls *)

\* The invariant: the heap is sound with size_free cells free, and no call has
\* gone on with the end of the list.
Inv == Sound(heap, size_free) /\ result \in {"ok", "NoMemory", "InvalidFree"}

\* A step that does not turn the halves around leaves the blocks where they are,
\* or makes one larger.
Stays == Kept(heap.blocks, heap'.blocks) \/ heap'.ping_pong # heap.ping_pong

\* A step of a call that keeps what it should.
Keeps == Inv' /\ Stays

\* What the handles other than h see stays.
Others(h) == \A g \in Handles \ {h} : See(heap', g) = See(heap, g)

\* What a step may do to what the handles see.
Serves ==
  \/ SeesTheSame(heap, heap') /\ result' \in {"ok", "NoMemory"}
  \/ \E h \in Handles :
       \/ Resized(heap, heap', h) /\ result' = "ok"
       \/ ~Live(heap.blocks, h) /\ SeesTheSame(heap, heap') /\ result' = "InvalidFree"
       \/ /\ Live(heap.blocks, h) /\ ~Live(heap'.blocks, h)
          /\ Others(h) /\ result' = "ok"
       \/ /\ Live(heap.blocks, h) /\ Live(heap'.blocks, h)
          /\ Others(h) /\ Len(See(heap', h)) = Len(See(heap, h)) /\ result' = result

\* A list is kept by the step that does not change it.
LEMMA KeptSame ==
  ASSUME NEW bs \in Seq(Blocks), Owned(bs)
  PROVE  Kept(bs, bs)
<1>1. \A b, c \in Used(bs) : b.owner = c.owner => b = c
  BY DEF Used, Owned
<1> QED
  BY <1>1 DEF Kept

LEMMA ThrowKeeps ==
  ASSUME Inv, NEW error \in {"NoMemory", "InvalidFree"}, Throw(error),
         error = "InvalidFree" => \E h \in Handles : ~Live(heap.blocks, h)
  PROVE  Keeps /\ Serves
<1>1. heap' = heap /\ size_free' = size_free /\ result' = error
  BY DEF Throw
<1>2. heap.blocks \in Seq(Blocks) /\ Owned(heap.blocks)
  BY SoundFacts DEF Inv
<1>3. Kept(heap.blocks, heap'.blocks)
  BY <1>1, <1>2, KeptSame
<1>4. SeesTheSame(heap, heap')
  BY <1>1 DEF SeesTheSame
<1> QED
  BY <1>1, <1>3, <1>4 DEF Keeps, Stays, Inv, Serves

\* Only the blocks and the cells change.
LEMMA HeapKeeps ==
  ASSUME Inv, NEW hp, Sound(hp, size_free), hp = heap \/ hp.ping_pong # heap.ping_pong,
         NEW bs, NEW m, Tile(hp, bs, m), Kept(hp.blocks, bs), NEW mem \in [Cells -> Values],
         heap' = [hp EXCEPT !.blocks = bs, !.mem = mem], size_free' = m, result' = "ok"
  PROVE  Keeps /\ Sound(heap', m) /\ heap'.blocks = bs /\ heap'.mem = mem
<1>1. hp \in [blocks : Seq(Blocks), mem : [Cells -> Values], ping_pong : BOOLEAN]
  BY DEF Sound
<1>2. heap' = [blocks |-> bs, mem |-> mem, ping_pong |-> hp.ping_pong]
  BY <1>1
<1>3. Sound(heap', m)
  BY <1>2, SoundIf
<1>4. Stays
  BY <1>2 DEF Stays
<1> QED
  BY <1>2, <1>3, <1>4 DEF Keeps, Inv

\* The owners and the sizes determine who has a block, and of which size.
LEMMA SizesIs ==
  ASSUME NEW s, NEW n, Sound(s, n), NEW t, NEW m, Sound(t, m), Sizes(s.blocks) = Sizes(t.blocks),
         NEW h \in Handles
  PROVE  /\ Live(s.blocks, h) <=> Live(t.blocks, h)
         /\ Live(s.blocks, h) => s.blocks[Find(s.blocks, h)].size = t.blocks[Find(t.blocks, h)].size
<1>1. s.blocks \in Seq(Blocks) /\ Owned(s.blocks) /\ t.blocks \in Seq(Blocks) /\ Owned(t.blocks)
  BY SoundFacts
<1>2. ASSUME NEW a \in Seq(Blocks), Owned(a), NEW b \in Seq(Blocks), Owned(b), Sizes(a) = Sizes(b),
             Live(a, h)
      PROVE  Live(b, h) /\ a[Find(a, h)].size = b[Find(b, h)].size
  <2>1. Find(a, h) \in InUse(a) /\ a[Find(a, h)].owner = h
    BY <1>2, FindIs
  <2>2. <<h, a[Find(a, h)].size>> \in Sizes(b)
    BY <1>2, <2>1 DEF Sizes
  <2>3. PICK k \in InUse(b) : b[k].owner = h /\ b[k].size = a[Find(a, h)].size
    BY <2>2 DEF Sizes
  <2>4. k \in 1 .. Len(b)
    BY DEF InUse
  <2>5. Live(b, h) /\ k = Find(b, h)
    BY <1>2, <2>3, <2>4, FindIs DEF Live
  <2> QED
    BY <2>3, <2>5
<1> QED
  BY <1>1, <1>2

\* In a defragmented heap every request that the counter admits fits.
LEMMA CompactedFits ==
  ASSUME NEW hp, NEW n, NEW r, Compacted(hp, n, r), NEW N \in Nat, N <= n
  PROVE  findblock(r.blocks, N) # 0
<1>1. Sound(r, n) /\ free(r.blocks[Len(r.blocks)]) /\ r.blocks[Len(r.blocks)].size = n
  BY DEF Compacted
<1>2. r.blocks \in Seq(Blocks) /\ Len(r.blocks) \in 1 .. Len(r.blocks) /\ n \in Int
  BY <1>1, SoundFacts
<1>3. r.blocks[Len(r.blocks)].size >= N
  BY <1>1, <1>2
<1> QED
  BY <1>1, <1>2, <1>3, FindblockIs

\* The heap in which alloc, or realloc, looks for N cells: there is a block.
LEMMA RoomIs ==
  ASSUME NEW hp, Sound(hp, size_free), NEW N \in Nat, N <= size_free, NEW r,
         r = IF findblock(hp.blocks, N) = 0 THEN defrag(hp) ELSE hp
  PROVE  /\ Sound(r, size_free) /\ Sizes(r.blocks) = Sizes(hp.blocks)
         /\ r = hp \/ r.ping_pong # hp.ping_pong
         /\ findblock(r.blocks, N) \in 1 .. Len(r.blocks)
         /\ free(r.blocks[findblock(r.blocks, N)])
         /\ r.blocks[findblock(r.blocks, N)].size >= N
         /\ SeesTheSame(hp, r)
<1>1. /\ Sound(r, size_free) /\ Sizes(r.blocks) = Sizes(hp.blocks)
      /\ r = hp \/ r.ping_pong # hp.ping_pong
      /\ findblock(r.blocks, N) # 0 /\ SeesTheSame(hp, r)
  <2>1. CASE findblock(hp.blocks, N) = 0
    <3>1. r = defrag(hp)
      BY <2>1
    <3>2. Compacted(hp, size_free, r)
      BY <3>1, DefragIs
    <3>3. hp.ping_pong \in BOOLEAN
      BY SoundFacts
    <3>4. findblock(r.blocks, N) # 0
      BY <3>2, CompactedFits
    <3> QED
      BY <3>2, <3>3, <3>4 DEF Compacted
  <2>2. CASE findblock(hp.blocks, N) # 0
    BY <2>2 DEF SeesTheSame
  <2> QED
    BY <2>1, <2>2
<1>2. r.blocks \in Seq(Blocks)
  BY <1>1, SoundFacts
<1> QED
  BY <1>1, <1>2, FindblockIs

LEMMA AllocKeeps ==
  ASSUME Inv, NEW h \in Handles, ~Live(heap.blocks, h), NEW N \in Nat, Alloc(h, N)
  PROVE  Keeps /\ Serves
<1> DEFINE hp == IF findblock(heap.blocks, N) = 0 THEN defrag(heap) ELSE heap
           i == findblock(hp.blocks, N)
           bs == hp.blocks
           r == IF bs[i].size = N THEN [bs EXCEPT ![i].owner = h]
                ELSE Splice(bs, i, 1, <<Block(bs[i].ptr, N, h),
                                        Block(bs[i].ptr + N, bs[i].size - N, NoOne)>>)
<1>1. CASE N > size_free
  BY <1>1, ThrowKeeps DEF Alloc
<1>2. CASE ~(N > size_free)
  <2>1. Sound(heap, size_free) /\ size_free \in Int /\ N <= size_free
    BY <1>2, SoundFacts DEF Inv
  <2>2. /\ Sound(hp, size_free) /\ Sizes(bs) = Sizes(heap.blocks)
        /\ hp = heap \/ hp.ping_pong # heap.ping_pong
        /\ i \in 1 .. Len(bs) /\ free(bs[i]) /\ bs[i].size >= N
        /\ SeesTheSame(heap, hp)
    <3> HIDE DEF hp
    <3>1. hp = IF findblock(heap.blocks, N) = 0 THEN defrag(heap) ELSE heap
      BY DEF hp
    <3> QED
      BY ONLY <2>1, <3>1, RoomIs, N \in Nat
  <2>3. ~Live(bs, h)
    <3> HIDE DEF hp
    <3> QED
      BY <2>1, <2>2, SizesIs
  <2>4. i # 0
    BY <2>2
  <2>5. /\ heap' = [hp EXCEPT !.blocks = r] /\ size_free' = size_free - N /\ result' = "ok"
    <3> HIDE DEF findblock, defrag
    <3> QED
      BY <1>2, <2>4 DEF Alloc
  <2> HIDE DEF hp, i
  <2>6. Tile(hp, r, size_free - N) /\ Kept(bs, r) /\ \E x \in Nat : Gives(bs, r, h, x, N)
    BY <2>2, <2>3, TakeIs
  <2> HIDE DEF r
  <2>7. hp.mem \in [Cells -> Values] /\ heap' = [hp EXCEPT !.blocks = r, !.mem = hp.mem]
    BY <2>2, <2>5 DEF Sound
  <2>8. Keeps /\ Sound(heap', size_free - N) /\ heap'.blocks = r /\ heap'.mem = hp.mem
    BY <2>2, <2>5, <2>6, <2>7, HeapKeeps
  <2>9. Resized(hp, heap', h)
    <3>1. PICK x \in Nat : Gives(bs, heap'.blocks, h, x, N)
      BY <2>6, <2>8
    <3>2. \A b \in Used(bs) : b.owner # h
      BY <2>3 DEF Live, Used, InUse
    <3> QED
      BY <2>2, <2>8, <3>1, <3>2, ResizedInPlace
  <2>10. Resized(heap, heap', h)
    BY <2>2, <2>9, ResizedAfter
  <2> QED
    BY <2>5, <2>8, <2>10 DEF Serves
<1> QED
  BY <1>1, <1>2

\* The cells that leave a block hold what cells may hold.
LEMMA DiscardIs ==
  ASSUME NEW mem \in [Cells -> Values], NEW c, NEW n
  PROVE  Discard(mem, c, n) \in [Cells -> Values]
<1>1. Junk \in Values
  BY DEF Values
<1> HIDE DEF Junk
<1> QED
  BY <1>1 DEF Discard

LEMMA FreeKeeps ==
  ASSUME Inv, NEW h \in Handles, Free(h)
  PROVE  Keeps /\ Serves
<1> DEFINE i == Find(heap.blocks, h)
           b == heap.blocks[i]
           r == joinfree([heap.blocks EXCEPT ![i].owner = NoOne], i)
           mem == Discard(heap.mem, b.ptr, b.size)
<1>1. CASE ~Live(heap.blocks, h)
  BY <1>1, ThrowKeeps DEF Free
<1>2. CASE Live(heap.blocks, h)
  <2>1. /\ heap' = [heap EXCEPT !.blocks = r, !.mem = mem]
        /\ size_free' = size_free + b.size /\ result' = "ok"
    BY <1>2 DEF Free
  <2>2. Sound(heap, size_free) /\ heap.mem \in [Cells -> Values]
    BY SoundFacts DEF Inv
  <2>3. /\ Tile(heap, r, size_free + b.size) /\ Kept(heap.blocks, r)
        /\ Used(r) = {c \in Used(heap.blocks) : c.owner # h}
    <3> HIDE DEF i
    <3> QED
      BY <1>2, <2>2, FreeIs DEF i
  <2>4. mem \in [Cells -> Values]
    BY <2>2, DiscardIs
  <2>5. \A d \in Cells : ~(b.ptr <= d /\ d < b.ptr + b.size) => mem[d] = heap.mem[d]
    BY DEF Discard
  <2>6. heap.blocks \in Seq(Blocks) /\ Owned(heap.blocks)
    BY <2>2, SoundFacts
  <2>7. b \in Used(heap.blocks) /\ b.owner = h
    BY <1>2, <2>6, FindIs
  <2> HIDE DEF r, mem, b
  <2>8. /\ Keeps /\ Sound(heap', size_free + b.size) /\ heap'.blocks = r /\ heap'.mem = mem
    BY <2>1, <2>2, <2>3, <2>4, HeapKeeps
  <2>9. Others(h)
    <3>1. \A c \in Blocks : c.owner \in Handles \ {h} =>
            (c \in Used(heap'.blocks) <=> c \in Used(heap.blocks))
      BY <2>3, <2>8
    <3> QED
      BY <2>2, <2>5, <2>7, <2>8, <3>1, OthersSee DEF Others
  <2>10. ~Live(heap'.blocks, h)
    <3>1. heap'.blocks \in Seq(Blocks) /\ Owned(heap'.blocks)
      BY <2>8, SoundFacts
    <3>2. \A c \in Used(heap'.blocks) : c.owner # h
      BY <2>3, <2>8
    <3> QED
      BY <3>1, <3>2, SeeIs
  <2> QED
    BY <1>2, <2>1, <2>8, <2>9, <2>10 DEF Serves
<1> QED
  BY <1>1, <1>2

LEMMA DefragKeeps ==
  ASSUME Inv, Defrag
  PROVE  Keeps /\ Serves
<1>1. heap' = defrag(heap) /\ size_free' = size_free /\ result' = "ok"
  BY DEF Defrag
<1>2. Compacted(heap, size_free, heap') /\ heap.ping_pong \in BOOLEAN
  BY <1>1, DefragIs, SoundFacts DEF Inv
<1> QED
  BY <1>1, <1>2 DEF Keeps, Stays, Inv, Compacted, Serves

LEMMA WriteKeeps ==
  ASSUME Inv, NEW h \in Handles, WriteTo(h)
  PROVE  Keeps /\ Serves
<1> DEFINE bs == heap.blocks
           b == bs[Find(bs, h)]
           mem == [c \in Cells |-> IF b.ptr <= c /\ c < b.ptr + b.size
                                   THEN Value(h, c - b.ptr) ELSE heap.mem[c]]
<1>1. /\ Live(bs, h) /\ heap' = [heap EXCEPT !.mem = mem]
      /\ size_free' = size_free /\ result' = result
  BY DEF WriteTo
<1>2. /\ heap \in [blocks : Seq(Blocks), mem : [Cells -> Values], ping_pong : BOOLEAN]
      /\ Sound(heap, size_free) /\ bs \in Seq(Blocks) /\ Owned(bs)
  BY SoundFacts DEF Inv, Sound
<1>3. b.ptr \in Nat /\ b.size \in 0 .. Half /\ Half \in Nat
  <2>1. Find(bs, h) \in 1 .. Len(bs)
    BY <1>1, <1>2, FindIs
  <2> QED
    BY <1>2, <2>1, SoundFacts, AllocatorAssumption
<1>4. mem \in [Cells -> Values]
  <2>1. ASSUME NEW c \in Cells PROVE mem[c] \in Values
    <3> HIDE DEF b
    <3>1. CASE b.ptr <= c /\ c < b.ptr + b.size
      <4>1. c - b.ptr \in 0 .. Half
        BY <1>3, <3>1 DEF Cells
      <4>2. mem[c] = Value(h, c - b.ptr)
        BY <3>1
      <4> HIDE DEF Value, mem
      <4> QED
        BY <4>1, <4>2 DEF Values
    <3>2. CASE ~(b.ptr <= c /\ c < b.ptr + b.size)
      BY <1>2, <3>2
    <3> QED
      BY <3>1, <3>2
  <2> HIDE DEF Values, b, Value
  <2> QED
    BY <2>1
<1>10. \A d \in Cells : ~(b.ptr <= d /\ d < b.ptr + b.size) => mem[d] = heap.mem[d]
  OBVIOUS
<1>11. b \in Used(bs) /\ b.owner = h
  BY <1>1, <1>2, FindIs
<1> HIDE DEF mem, b
<1>5. heap' = [heap EXCEPT !.blocks = bs, !.mem = mem]
  BY <1>1, <1>2
<1>6. heap' = [blocks |-> bs, mem |-> mem, ping_pong |-> heap.ping_pong]
  BY <1>1, <1>2
<1>7. Tile(heap, bs, size_free) /\ Kept(bs, bs)
  BY <1>2, TileIs, KeptSame
<1> HIDE DEF bs
<1>8. Sound(heap', size_free)
  BY <1>2, <1>4, <1>6, <1>7, SoundIf
<1>9. Stays
  BY <1>6, <1>7 DEF Stays, bs
<1>12. heap'.blocks = heap.blocks /\ heap'.mem = mem
  BY <1>6 DEF bs
<1>13. Others(h)
  BY <1>2, <1>8, <1>10, <1>11, <1>12, OthersSee DEF Others, bs
<1>14. Live(heap'.blocks, h) /\ Len(See(heap', h)) = Len(See(heap, h))
  <2>1. heap'.blocks \in Seq(Blocks) /\ Owned(heap'.blocks) /\ b \in Used(heap'.blocks)
    BY <1>2, <1>11, <1>12 DEF bs
  <2>2. See(heap', h) = Row(mem, b) /\ See(heap, h) = Row(heap.mem, b)
    BY <1>2, <1>11, <1>12, <2>1, SeeIs DEF bs
  <2>3. b \in Blocks
    BY <1>2, <1>11, Fields DEF Used, InUse
  <2>4. Len(Row(mem, b)) = b.size /\ Len(Row(heap.mem, b)) = b.size
    BY <2>3, RowIs
  <2> QED
    BY <1>1, <1>12, <2>2, <2>4 DEF bs
<1> QED
  BY <1>1, <1>8, <1>9, <1>13, <1>14 DEF Keeps, Inv, Serves, bs

LEMMA ShrinkKeeps ==
  ASSUME Inv, NEW h \in Handles, Live(heap.blocks, h), NEW N \in Nat, Shrink(h, N)
  PROVE  Keeps /\ Serves
<1> DEFINE i == Find(heap.blocks, h)
           b == heap.blocks[i]
           r == joinfree(shortSizeBlock(heap.blocks, i, N), i + 1)
           mem == Discard(heap.mem, b.ptr + N, b.size - N)
<1>1. /\ b.size - N > 0 /\ heap' = [heap EXCEPT !.blocks = r, !.mem = mem]
      /\ size_free' = size_free + (b.size - N) /\ result' = "ok"
  BY DEF Shrink
<1>2. Sound(heap, size_free) /\ heap.mem \in [Cells -> Values]
  BY SoundFacts DEF Inv
<1>3. b.size > N
  <2>1. heap.blocks \in Seq(Blocks) /\ i \in 1 .. Len(heap.blocks)
    BY <1>2, SoundFacts, FindIs
  <2>2. b.size \in Nat
    BY <2>1, Fields
  <2> HIDE DEF b
  <2> QED
    BY <1>1, <2>2
<1>4. /\ Tile(heap, r, size_free + (b.size - N)) /\ Kept(heap.blocks, r)
      /\ Gives(heap.blocks, r, h, b.ptr, N)
  <2> HIDE DEF i
  <2> QED
    BY <1>2, <1>3, ShortIs DEF i
<1>5. mem \in [Cells -> Values]
  BY <1>2, DiscardIs
<1>6. b \in Used(heap.blocks) /\ b.owner = h /\ b.size \in Nat
  <2>1. heap.blocks \in Seq(Blocks) /\ Owned(heap.blocks)
    BY <1>2, SoundFacts
  <2>2. i \in 1 .. Len(heap.blocks) /\ b \in Used(heap.blocks) /\ b.owner = h
    BY <2>1, FindIs
  <2> QED
    BY <2>1, <2>2, Fields
<1> HIDE DEF r, b
<1>7. Keeps /\ Sound(heap', size_free + (b.size - N)) /\ heap'.blocks = r /\ heap'.mem = mem
  <2> HIDE DEF mem
  <2> QED
    BY <1>1, <1>2, <1>4, <1>5, HeapKeeps
<1>8. Resized(heap, heap', h)
  <2>1. N <= b.size
    BY <1>3, <1>6
  <2> QED
    BY <1>2, <1>4, <1>6, <1>7, <2>1, ResizedShort
<1> QED
  BY <1>1, <1>7, <1>8 DEF Serves

\* The cells of b are copied behind to, and those of b are free.
LEMMA MovedIs ==
  ASSUME NEW mem \in [Cells -> Values], NEW from \in Nat, NEW size \in Nat, from + size <= 2 * Half,
         NEW to \in Nat
  PROVE  [c \in Cells |-> IF to <= c /\ c < to + size THEN mem[from + (c - to)]
                          ELSE Discard(mem, from, size)[c]] \in [Cells -> Values]
<1> DEFINE new == [c \in Cells |-> IF to <= c /\ c < to + size THEN mem[from + (c - to)]
                                   ELSE Discard(mem, from, size)[c]]
<1>1. ASSUME NEW c \in Cells PROVE new[c] \in Values
  <2>1. CASE to <= c /\ c < to + size
    <3>1. from + (c - to) \in Cells
      BY <2>1, AllocatorAssumption DEF Cells
    <3>2. new[c] = mem[from + (c - to)]
      BY <2>1
    <3> HIDE DEF new
    <3> QED
      BY <3>1, <3>2
  <2>2. CASE ~(to <= c /\ c < to + size)
    <3>1. new[c] = Discard(mem, from, size)[c]
      BY <2>2
    <3>2. Discard(mem, from, size) \in [Cells -> Values]
      BY DiscardIs
    <3> HIDE DEF new
    <3> QED
      BY <3>1, <3>2
  <2> QED
    BY <2>1, <2>2
<1> QED
  BY <1>1

LEMMA GrowKeeps ==
  ASSUME Inv, NEW h \in Handles, Live(heap.blocks, h), NEW N \in Nat, Grow(h, N)
  PROVE  Keeps /\ Serves
<1> DEFINE b == heap.blocks[Find(heap.blocks, h)]
           delta == N - b.size
           hp == IF size_free < N THEN defragWithLast(heap, h) ELSE heap
           i == Find(hp.blocks, h)
           moved == IF findblock(hp.blocks, N) = 0 THEN defrag(hp) ELSE hp
           f == findblock(moved.blocks, N)
<1>1. /\ Sound(heap, size_free) /\ heap.blocks \in Seq(Blocks) /\ b.size \in Nat
      /\ size_free \in Nat /\ heap.ping_pong \in BOOLEAN
  <2>1. Sound(heap, size_free) /\ heap.blocks \in Seq(Blocks) /\ Owned(heap.blocks)
    BY SoundFacts DEF Inv
  <2>2. Find(heap.blocks, h) \in 1 .. Len(heap.blocks)
    BY <2>1, FindIs
  <2> QED
    BY <2>1, <2>2, SoundFacts
<1>2. /\ delta > 0
      /\ IF delta > size_free THEN Throw("NoMemory")
         ELSE IF ~RoomBehind(hp.blocks, i, delta) /\ f = 0 THEN Throw("Undefined")
         ELSE /\ heap' = IF RoomBehind(hp.blocks, i, delta)
                         THEN [hp EXCEPT !.blocks = GrowInPlace(hp.blocks, i, delta)]
                         ELSE Move(moved, h, f, N)
              /\ size_free' = size_free - delta
              /\ result' = "ok"
  BY DEF Grow
<1>3. delta \in Nat \ {0} /\ N > b.size
  <2> HIDE DEF b
  <2> QED
    BY <1>1, <1>2
<1>4. CASE delta > size_free
  BY <1>2, <1>4, ThrowKeeps
<1>5. CASE ~(delta > size_free) /\ RoomBehind(hp.blocks, i, delta)
  <2> DEFINE r == GrowInPlace(hp.blocks, i, delta)
  <2>1. heap' = [hp EXCEPT !.blocks = r] /\ size_free' = size_free - delta /\ result' = "ok"
    <3> HIDE DEF hp, i, f, delta, moved
    <3> QED
      BY <1>2, <1>5
  <2>2. /\ Sound(hp, size_free) /\ Live(hp.blocks, h) /\ (hp = heap \/ hp.ping_pong # heap.ping_pong)
        /\ SeesTheSame(heap, hp)
    <3>1. CASE size_free < N
      <4>1. hp = defragWithLast(heap, h)
        BY <3>1
      <4> HIDE DEF hp
      <4>2. Compacted(heap, size_free, hp)
        BY <1>1, <4>1, LastIs
      <4>3. Live(hp.blocks, h)
        BY <1>1, <4>2, SizesIs DEF Compacted
      <4> QED
        BY <1>1, <4>2, <4>3 DEF Compacted
    <3>2. CASE ~(size_free < N)
      BY <1>1, <3>2 DEF SeesTheSame
    <3> QED
      BY <3>1, <3>2
  <2> HIDE DEF hp, delta, moved, f
  <2>3. /\ Tile(hp, r, size_free - delta) /\ Kept(hp.blocks, r)
        /\ Gives(hp.blocks, r, h, hp.blocks[i].ptr, hp.blocks[i].size + delta)
    BY <1>3, <1>5, <2>2, GrowIs
  <2> HIDE DEF r
  <2>4. hp.mem \in [Cells -> Values] /\ heap' = [hp EXCEPT !.blocks = r, !.mem = hp.mem]
    BY <2>1, <2>2 DEF Sound
  <2>5. Keeps /\ Sound(heap', size_free - delta) /\ heap'.blocks = r /\ heap'.mem = hp.mem
    BY <2>1, <2>2, <2>3, <2>4, HeapKeeps
  <2>6. Resized(hp, heap', h)
    <3>1. hp.blocks \in Seq(Blocks) /\ Owned(hp.blocks)
      BY <2>2, SoundFacts
    <3>2. \A a \in Used(hp.blocks) : a.owner = h => a.ptr = hp.blocks[i].ptr
      BY <3>1, FindIs
    <3>3. hp.blocks[i].ptr \in Nat /\ hp.blocks[i].size + delta \in Nat
      BY <1>3, <2>2, <3>1, FindIs, Fields
    <3> DEFINE x == hp.blocks[i].ptr
               M == hp.blocks[i].size + delta
    <3>4. x \in Nat /\ M \in Nat /\ Gives(hp.blocks, heap'.blocks, h, x, M)
          /\ \A a \in Used(hp.blocks) : a.owner = h => a.ptr = x
      BY <2>3, <2>5, <3>2, <3>3
    <3> HIDE DEF x, M, i
    <3> QED
      BY <2>2, <2>5, <3>4, ResizedInPlace
  <2>7. Resized(heap, heap', h)
    BY <2>2, <2>6, ResizedAfter
  <2> QED
    BY <2>1, <2>5, <2>7 DEF Serves
<1>6. CASE ~(delta > size_free) /\ ~RoomBehind(hp.blocks, i, delta)
  <2>1. N <= size_free
    <3> SUFFICES ASSUME size_free < N PROVE FALSE
      BY <1>1
    <3>1. hp = defragWithLast(heap, h)
      OBVIOUS
    <3> HIDE DEF hp, delta, moved, f
    <3>2. Compacted(heap, size_free, hp) /\ Len(hp.blocks) > 1 /\ i = Len(hp.blocks) - 1
      BY <1>1, <3>1, LastIs
    <3>3. /\ free(hp.blocks[Len(hp.blocks)]) /\ hp.blocks[Len(hp.blocks)].size = size_free
          /\ Len(hp.blocks) \in Nat
      BY <3>2, SoundFacts DEF Compacted
    <3>4. i + 1 = Len(hp.blocks) /\ i < Len(hp.blocks)
      BY <3>2, <3>3
    <3>5. size_free >= delta
      BY <1>1, <1>3, <1>6
    <3> HIDE DEF i
    <3> QED
      BY <1>6, <3>3, <3>4, <3>5 DEF RoomBehind
  <2>2. hp = heap
    BY <1>1, <2>1
  <2> HIDE DEF hp, delta, b, i
  <2>3. /\ Sound(moved, size_free) /\ Sizes(moved.blocks) = Sizes(heap.blocks)
        /\ moved = heap \/ moved.ping_pong # heap.ping_pong
        /\ f \in 1 .. Len(moved.blocks) /\ free(moved.blocks[f]) /\ moved.blocks[f].size >= N
        /\ SeesTheSame(heap, moved)
    <3>1. moved = IF findblock(heap.blocks, N) = 0 THEN defrag(heap) ELSE heap
      BY <2>2
    <3> HIDE DEF moved
    <3> QED
      BY ONLY <1>1, <2>1, <3>1, RoomIs, N \in Nat
  <2>4. f # 0
    BY <2>3
  <2> HIDE DEF moved, f
  <2>5. /\ heap' = Move(moved, h, f, N) /\ size_free' = size_free - delta /\ result' = "ok"
    BY ONLY <1>2, <1>6, <2>4, Zenon
  <2> DEFINE c == moved.blocks[Find(moved.blocks, h)]
             s == IF moved.blocks[f].size = N THEN moved.blocks ELSE shortSizeBlock(moved.blocks, f, N)
             j == Find(s, h)
             r == joinfree([s EXCEPT ![f].owner = h, ![j].owner = NoOne], j)
             mem == [d \in Cells |->
                       IF s[f].ptr <= d /\ d < s[f].ptr + s[j].size
                       THEN moved.mem[s[j].ptr + (d - s[f].ptr)]
                       ELSE Discard(moved.mem, s[j].ptr, s[j].size)[d]]
  <2>6. heap' = [moved EXCEPT !.blocks = r, !.mem = mem]
    BY ONLY <2>5, ZenonT(40) DEF Move
  <2>7. Live(moved.blocks, h) /\ c.size = b.size
    BY <1>1, <2>3, SizesIs DEF b
  <2>8. /\ moved.mem \in [Cells -> Values] /\ c.ptr \in Nat /\ c.size \in Nat
        /\ c.ptr + c.size <= 2 * Half
    <3>1. moved.blocks \in Seq(Blocks) /\ Owned(moved.blocks)
      BY <2>3, SoundFacts
    <3>2. Find(moved.blocks, h) \in 1 .. Len(moved.blocks)
      BY <2>7, <3>1, FindIs
    <3>3. /\ moved.mem \in [Cells -> Values] /\ c.ptr \in Nat /\ c.size \in 0 .. Half
          /\ Start(moved) \in {0, Half} /\ c.ptr + c.size <= Start(moved) + Half
      BY <2>3, <3>2, SoundFacts
    <3> HIDE DEF c
    <3> QED
      BY <3>3, AllocatorAssumption
  <2>9. /\ Tile(moved, r, size_free - (N - c.size)) /\ Kept(moved.blocks, r)
        /\ s[j] = c /\ s[f].ptr \in Nat
        /\ Gives(moved.blocks, r, h, s[f].ptr, N)
    <3>1. MayMove(moved, size_free, h, c, N, f)
      <4>1. N > c.size /\ N \in Nat
        BY <1>3, <2>7, Zenon
      <4> QED
        BY <2>3, <2>7, <4>1 DEF MayMove, Fits
    <3>2. j = Find(s, h) /\ Relocated(s, h, f, j, r)
      BY DEF Relocated
    <3>3. s = IF moved.blocks[f].size = N THEN moved.blocks ELSE shortSizeBlock(moved.blocks, f, N)
      OBVIOUS
    <3> HIDE DEF c, s, j, r, mem
    <3>4. FreeCut(moved, size_free, f, N, s)
      <4>1. Sound(moved, size_free) /\ Fits(moved, f, N)
        BY ONLY <3>1, Zenon DEF MayMove
      <4> QED
        BY ONLY <3>3, <4>1, CutFree, Zenon
    <3>5. Moved(moved, size_free - (N - c.size), h, c, N, s, j, f, r)
      BY ONLY <3>1, <3>2, <3>4, MoveIs, Zenon
    <3> QED
      BY ONLY <3>5, Zenon DEF Moved
  <2>10. mem \in [Cells -> Values]
    <3> HIDE DEF c, s, j, r
    <3>1. s[j].ptr \in Nat /\ s[j].size \in Nat /\ s[j].ptr + s[j].size <= 2 * Half
      BY <2>8, <2>9
    <3> QED
      BY <2>8, <2>9, <3>1, MovedIs, SMTT(60)
  <2>11. size_free' = size_free - (N - c.size)
    BY <2>5, <2>7 DEF delta
  <2>12. c \in Used(moved.blocks) /\ c.owner = h
    <3>1. moved.blocks \in Seq(Blocks) /\ Owned(moved.blocks)
      BY <2>3, SoundFacts
    <3> QED
      BY <2>7, <3>1, FindIs
  <2>13. N > c.size
    BY <1>3, <2>7, Zenon
  <2> HIDE DEF c, s, j, r
  <2>14. /\ Keeps /\ Sound(heap', size_free - (N - c.size)) /\ heap'.blocks = r /\ heap'.mem = mem
    <3> HIDE DEF mem
    <3> QED
      BY <2>3, <2>5, <2>6, <2>9, <2>10, <2>11, HeapKeeps
  <2>15. Resized(moved, heap', h)
    <3> DEFINE x == s[f].ptr
    <3>1. x \in Nat /\ Gives(moved.blocks, heap'.blocks, h, x, N)
      BY <2>9, <2>14
    <3>2. heap'.mem = [d \in Cells |-> IF x <= d /\ d < x + c.size THEN moved.mem[c.ptr + (d - x)]
                                       ELSE Discard(moved.mem, c.ptr, c.size)[d]]
      BY <2>9, <2>14
    <3> HIDE DEF x, mem
    <3> QED
      BY <2>3, <2>12, <2>13, <2>14, <3>1, <3>2, ResizedMoved
  <2>16. Resized(heap, heap', h)
    BY <2>3, <2>15, ResizedAfter
  <2> QED
    BY <2>5, <2>14, <2>16 DEF Serves
<1> HIDE DEF hp, delta, i
<1> QED
  BY <1>4, <1>5, <1>6

LEMMA ReallocKeeps ==
  ASSUME Inv, NEW h \in Handles, NEW N \in Nat, Realloc(h, N)
  PROVE  Keeps /\ Serves
<1>1. CASE ~Live(heap.blocks, h)
  BY <1>1, AllocKeeps DEF Realloc
<1>2. CASE Live(heap.blocks, h)
  <2>1. CASE Shrink(h, N)
    BY <1>2, <2>1, ShrinkKeeps
  <2>2. CASE Grow(h, N)
    BY <1>2, <2>2, GrowKeeps
  <2>3. CASE result' = "ok" /\ UNCHANGED <<heap, size_free>>
    <3>1. heap.blocks \in Seq(Blocks) /\ Owned(heap.blocks)
      BY SoundFacts DEF Inv
    <3>2. SeesTheSame(heap, heap')
      BY <2>3 DEF SeesTheSame
    <3> QED
      BY <2>3, <3>1, <3>2, KeptSame DEF Keeps, Stays, Inv, Serves
  <2> QED
    BY <1>2, <2>1, <2>2, <2>3 DEF Realloc
<1> QED
  BY <1>1, <1>2

LEMMA NextKeeps ==
  ASSUME Inv, [Next]_vars
  PROVE  Inv' /\ (UNCHANGED vars \/ (Stays /\ Serves))
<1>1. ASSUME NEW h \in Handles, NEW N \in 0 .. Half + 1,
             (~Live(heap.blocks, h) /\ Alloc(h, N)) \/ Realloc(h, N)
      PROVE  Keeps /\ Serves
  <2>1. N \in Nat
    OBVIOUS
  <2> QED
    BY <1>1, <2>1, AllocKeeps, ReallocKeeps
<1>2. ASSUME NEW h \in Handles, Free(h) \/ WriteTo(h) PROVE Keeps /\ Serves
  BY <1>2, FreeKeeps, WriteKeeps
<1>3. CASE Defrag
  BY <1>3, DefragKeeps DEF Keeps
<1>4. CASE UNCHANGED vars
  BY <1>4 DEF vars, Inv
<1>5. CASE Next
  BY <1>1, <1>2, <1>3, <1>5 DEF Next, Keeps
<1> QED
  BY <1>4, <1>5

LEMMA InitInv ==
  ASSUME Init
  PROVE  Inv
<1> DEFINE b == Block(0, Half, NoOne)
           s == <<b>>
           mem == [c \in Cells |-> Junk]
<1>1. heap = [blocks |-> s, mem |-> mem, ping_pong |-> FALSE] /\ size_free = Half /\ result = "ok"
  BY DEF Init
<1>2. b \in Blocks /\ b.ptr = 0 /\ b.size = Half /\ free(b) /\ FreeCells(b) = Half /\ Half \in Nat
  BY AllocatorAssumption DEF Block, Blocks, free, FreeCells
<1>3. mem \in [Cells -> Values]
  <2>1. Junk \in Values
    BY DEF Values
  <2> HIDE DEF Junk, Values
  <2> QED
    BY <2>1
<1> HIDE DEF b, mem
<1>4. s \in Seq(Blocks) /\ Len(s) = 1 /\ Owned(s)
  BY <1>2, UsedOne
<1>5. Start(heap) = 0 /\ heap.blocks = s
  BY <1>1 DEF Start
<1>6. Run(s, 0, 0 + Half, Half)
  <2> DEFINE p == 0
             q == p + Half
  <2>1. p \in Int /\ p = b.ptr /\ q = b.ptr + b.size
    BY <1>2
  <2> HIDE DEF p, q
  <2>2. Run(<<b>>, p, q, Half)
    BY <1>2, <2>1, RunOne
  <2> QED
    BY <2>2 DEF p, q
<1>7. JoinedBut(s, {})
  BY <1>4 DEF JoinedBut
<1>8. heap \in [blocks : Seq(Blocks), mem : [Cells -> Values], ping_pong : BOOLEAN]
  BY <1>1, <1>3, <1>4
<1> QED
  BY <1>1, <1>2, <1>4, <1>5, <1>6, <1>7, <1>8 DEF Inv, Sound

LEMMA Invariance == Spec => []Inv
<1>1. Init => Inv
  BY InitInv
<1>2. Inv /\ [Next]_vars => Inv'
  BY NextKeeps
<1> QED
  BY <1>1, <1>2, PTL DEF Spec

----------------------------------------------------------------------------
(* Sums *)

\* f[s] is the sum of sz over s, for the sets s of S.
SumOver(f, S, sz) ==
  f = [s \in SUBSET S |-> IF s = {} THEN 0
                          ELSE sz[CHOOSE x \in s : TRUE] + f[s \ {CHOOSE x \in s : TRUE}]]

\* Sums are determined by their recursion.
LEMMA SumsAgree ==
  ASSUME NEW S, IsFiniteSet(S), NEW sz, NEW f, SumOver(f, S, sz), NEW g, SumOver(g, S, sz)
  PROVE  f[S] = g[S]
<1> DEFINE K == {k \in 0 .. Cardinality(S) : \A s \in SUBSET S : Cardinality(s) = k => f[s] = g[s]}
<1>0. Cardinality(S) \in Nat /\ \A s \in SUBSET S : IsFiniteSet(s)
  BY FS_CardinalityType, FS_Subset
<1>1. ASSUME NEW s \in SUBSET S
      PROVE  /\ f[s] = IF s = {} THEN 0 ELSE sz[CHOOSE x \in s : TRUE] + f[s \ {CHOOSE x \in s : TRUE}]
             /\ g[s] = IF s = {} THEN 0 ELSE sz[CHOOSE x \in s : TRUE] + g[s \ {CHOOSE x \in s : TRUE}]
  BY Zenon DEF SumOver
<1>2. 0 \in K
  <2>1. ASSUME NEW s \in SUBSET S, Cardinality(s) = 0 PROVE f[s] = g[s]
    <3>1. s = {}
      BY <1>0, <2>1, FS_EmptySet
    <3> QED
      BY <1>1, <3>1
  <2> QED
    BY <1>0, <2>1
<1>3. ASSUME NEW k \in 0 .. Cardinality(S) - 1, k \in K PROVE k + 1 \in K
  <2>1. ASSUME NEW s \in SUBSET S, Cardinality(s) = k + 1 PROVE f[s] = g[s]
    <3> DEFINE x == CHOOSE x \in s : TRUE
               t == s \ {x}
    <3>1. s # {}
      BY <1>0, <2>1, FS_EmptySet
    <3>2. x \in s
      BY <3>1
    <3>3. f[s] = sz[x] + f[t] /\ g[s] = sz[x] + g[t]
      BY <1>1, <3>1, Zenon
    <3> HIDE DEF x
    <3>4. Cardinality(t) = k /\ t \in SUBSET S
      <4>1. Cardinality(t) = Cardinality(s) - 1
        BY <1>0, <3>2, FS_RemoveElement
      <4>2. (k + 1) - 1 = k
        BY <1>0
      <4> QED
        BY <2>1, <4>1, <4>2, Zenon
    <3>5. f[t] = g[t]
      BY <1>3, <3>4, Zenon
    <3> QED
      BY <3>3, <3>5
  <2>2. k + 1 \in 0 .. Cardinality(S)
    BY <1>0
  <2> QED
    BY <2>1, <2>2
<1>4. Cardinality(S) \in K
  <2> HIDE DEF K
  <2>1. 0 .. Cardinality(S) \subseteq K
    BY <1>0, <1>2, <1>3, UpTo
  <2> QED
    BY <1>0, <2>1
<1> QED
  BY <1>4

\* The sum of the sizes of disjoint parts of X.
LEMMA SumOfParts ==
  ASSUME NEW S, IsFiniteSet(S), NEW X, IsFiniteSet(X), NEW part \in [S -> SUBSET X],
         \A h, k \in S : h # k => part[h] \cap part[k] = {},
         NEW sz, \A h \in S : sz[h] = Cardinality(part[h])
  PROVE  \E g : SumOver(g, S, sz) /\ g[S] <= Cardinality(X)
<1> DEFINE All(s) == {x \in X : \E h \in s : x \in part[h]}
           g == [s \in SUBSET S |-> Cardinality(All(s))]
           rec == [s \in SUBSET S |->
                     IF s = {} THEN 0
                     ELSE sz[CHOOSE x \in s : TRUE] + g[s \ {CHOOSE x \in s : TRUE}]]
<1>1. \A s \in SUBSET S : IsFiniteSet(All(s)) /\ Cardinality(All(s)) \in Nat
                          /\ Cardinality(All(s)) <= Cardinality(X)
  <2>1. \A s \in SUBSET S : All(s) \in SUBSET X
    OBVIOUS
  <2> QED
    BY <2>1, FS_Subset, FS_CardinalityType
<1>2. ASSUME NEW s \in SUBSET S PROVE g[s] = rec[s]
  <2>1. CASE s = {}
    <3>1. All(s) = {}
      BY <2>1
    <3> QED
      BY <2>1, <3>1, FS_EmptySet
  <2>2. CASE s # {}
    <3> DEFINE x == CHOOSE x \in s : TRUE
               t == s \ {x}
    <3>1. x \in s
      BY <2>2
    <3>2. rec[s] = sz[x] + g[t]
      BY <2>2, Zenon
    <3> HIDE DEF x
    <3>3. t \in SUBSET S /\ x \in S /\ part[x] \in SUBSET X
      BY <3>1
    <3>4. All(s) = All(t) \cup part[x] /\ All(t) \cap part[x] = {}
      BY <3>1, <3>3
    <3>5. IsFiniteSet(part[x])
      BY <3>3, FS_Subset
    <3> DEFINE A == All(t)
               B == part[x]
    <3>6. IsFiniteSet(A) /\ Cardinality(A) \in Nat /\ g[t] = Cardinality(A) /\ sz[x] = Cardinality(B)
          /\ g[s] = Cardinality(A \cup B) /\ A \cap B = {} /\ IsFiniteSet(B)
      BY <1>1, <3>3, <3>4, <3>5
    <3> HIDE DEF A, B
    <3>7. Cardinality(B) \in Nat /\ Cardinality(A \cap B) = 0
      BY <3>6, FS_CardinalityType, FS_EmptySet
    <3>8. Cardinality(A \cup B) = Cardinality(A) + Cardinality(B) - Cardinality(A \cap B)
      BY <3>6, FS_Union
    <3> HIDE DEF g, rec
    <3> QED
      BY <3>2, <3>6, <3>7, <3>8
  <2> QED
    BY <2>1, <2>2
<1>3. g = rec
  <2>1. g = [s \in SUBSET S |-> g[s]] /\ rec = [s \in SUBSET S |-> rec[s]]
    OBVIOUS
  <2> HIDE DEF g, rec
  <2> QED
    BY <1>2, <2>1, Zenon
<1>4. SumOver(g, S, sz)
  BY <1>3, Zenon DEF SumOver
<1>5. g[S] <= Cardinality(X)
  BY <1>1
<1> QED
  BY <1>4, <1>5

----------------------------------------------------------------------------
(* The store of the client *)

\* What the store has of a handle.
LEMMA ContentsIs ==
  ASSUME Inv, NEW h \in Handles
  PROVE  /\ Contents(h) = See(heap, h)
         /\ ~Live(heap.blocks, h) => See(heap, h) = NoOne
         /\ Live(heap.blocks, h) => /\ See(heap, h) # NoOne
                                    /\ Len(See(heap, h)) = heap.blocks[Find(heap.blocks, h)].size
<1>1. Contents(h) = See(heap, h) /\ (~Live(heap.blocks, h) => See(heap, h) = NoOne)
  BY DEF Contents, See, Row
<1>2. ASSUME Live(heap.blocks, h)
      PROVE  /\ See(heap, h) # NoOne
             /\ Len(See(heap, h)) = heap.blocks[Find(heap.blocks, h)].size
  <2> DEFINE b == heap.blocks[Find(heap.blocks, h)]
  <2>0. Sound(heap, size_free)
    BY DEF Inv
  <2>1. /\ b \in Used(heap.blocks) /\ b \in Blocks /\ b.size \in 0 .. Half
        /\ heap.mem \in [Cells -> Values]
    BY <1>2, <2>0, SoundFacts, FindIs
  <2> HIDE DEF b
  <2>2. See(heap, h) = Row(heap.mem, b)
    BY <1>2 DEF See, b
  <2>3. Row(heap.mem, b) \in [1 .. b.size -> Values]
    <3>1. \A i \in 1 .. b.size : heap.mem[b.ptr + (i - 1)] \in Values
      BY <2>0, <2>1, CellApart
    <3> QED
      BY <3>1, Zenon DEF Row
  <2>4. See(heap, h) # NoOne
    <3>1. \A n \in 0 .. Half : NoOne \notin [1 .. n -> Values]
      BY StoreAssumption DEF Values
    <3> DEFINE n == b.size
    <3>2. n \in 0 .. Half /\ Row(heap.mem, b) \in [1 .. n -> Values]
      BY <2>1, <2>3
    <3> HIDE DEF n
    <3>3. Row(heap.mem, b) # NoOne
      BY <3>1, <3>2, Zenon
    <3> QED
      BY <2>2, <3>3
  <2>5. Len(See(heap, h)) = b.size
    BY <2>1, <2>2, RowIs
  <2> QED
    BY <2>4, <2>5 DEF b
<1> QED
  BY <1>1, <1>2

\* All the arrays fit.
Fitting == Store!Used <= Half

LEMMA StoreFits == Inv => Fitting
<1> SUFFICES ASSUME Inv PROVE Store!Used <= Half
  BY DEF Fitting
<1> DEFINE bs == heap.blocks
           sz == [h \in Handles |-> Store!Size(h)]
           X == Start(heap) .. Start(heap) + Half - 1
           part == [h \in Handles |->
                      IF Live(bs, h) THEN bs[Find(bs, h)].ptr .. bs[Find(bs, h)].ptr + bs[Find(bs, h)].size - 1
                      ELSE {}]
<1>0. /\ Sound(heap, size_free) /\ bs \in Seq(Blocks) /\ Owned(bs) /\ Start(heap) \in {0, Half}
      /\ Half \in Nat
  BY SoundFacts, AllocatorAssumption DEF Inv
<1>1. IsFiniteSet(X) /\ Cardinality(X) = Half
  <2>1. Start(heap) \in Int /\ Start(heap) + Half - 1 \in Int
    BY <1>0
  <2> QED
    BY <1>0, <2>1, FS_Interval
<1>2. ASSUME NEW h \in Handles, Live(bs, h)
      PROVE  LET b == bs[Find(bs, h)]
             IN  /\ b \in Used(bs) /\ b.owner = h /\ b.ptr \in Nat /\ b.size \in Nat
                 /\ Start(heap) <= b.ptr /\ b.ptr + b.size <= Start(heap) + Half
                 /\ part[h] = b.ptr .. b.ptr + b.size - 1
  <2>1. Find(bs, h) \in 1 .. Len(bs) /\ bs[Find(bs, h)] \in Used(bs) /\ bs[Find(bs, h)].owner = h
    BY <1>0, <1>2, FindIs
  <2> QED
    BY <1>0, <1>2, <2>1, SoundFacts
<1>3. \A h \in Handles : ~Live(bs, h) => part[h] = {}
  OBVIOUS
<1> HIDE DEF part
<1>4. ASSUME NEW h \in Handles PROVE part[h] \in SUBSET X
  <2>1. CASE Live(bs, h)
    <3> DEFINE b == bs[Find(bs, h)]
    <3>1. /\ b.ptr \in Nat /\ b.size \in Nat /\ part[h] = b.ptr .. b.ptr + b.size - 1
          /\ Start(heap) <= b.ptr /\ b.ptr + b.size <= Start(heap) + Half
      BY <1>2, <2>1
    <3> HIDE DEF b
    <3> QED
      BY <1>0, <3>1
  <2>2. CASE ~Live(bs, h)
    BY <1>3, <2>2
  <2> QED
    BY <2>1, <2>2
<1>5. part \in [Handles -> SUBSET X]
  <2> HIDE DEF X
  <2> QED
    BY <1>4 DEF part
<1>6. ASSUME NEW h \in Handles, NEW k \in Handles, h # k PROVE part[h] \cap part[k] = {}
  <2>1. CASE Live(bs, h) /\ Live(bs, k)
    <3> DEFINE b == bs[Find(bs, h)]
               c == bs[Find(bs, k)]
    <3>1. /\ b \in Used(bs) /\ c \in Used(bs) /\ b.owner # c.owner
          /\ b.ptr \in Nat /\ b.size \in Nat /\ c.ptr \in Nat /\ c.size \in Nat
          /\ part[h] = b.ptr .. b.ptr + b.size - 1 /\ part[k] = c.ptr .. c.ptr + c.size - 1
      BY <1>2, <1>6, <2>1
    <3>2. Apart(bs)
      <4>1. Start(heap) \in Int /\ Run(bs, Start(heap), Start(heap) + Half, size_free)
        BY <1>0 DEF Sound
      <4> QED
        BY <4>1, RunApart
    <3> HIDE DEF b, c
    <3>3. b.ptr + b.size <= c.ptr \/ c.ptr + c.size <= b.ptr
      BY <3>1, <3>2 DEF Apart
    <3> QED
      BY <3>1, <3>3, SMTT(30)
  <2>2. CASE ~(Live(bs, h) /\ Live(bs, k))
    BY <1>3, <2>2
  <2> QED
    BY <2>1, <2>2
<1>7. ASSUME NEW h \in Handles PROVE sz[h] = Cardinality(part[h])
  <2>1. Contents(h) = See(heap, h)
    BY ContentsIs
  <2>2. sz[h] = IF See(heap, h) = NoOne THEN 0 ELSE Len(See(heap, h))
    BY <2>1 DEF Store!Size
  <2>3. CASE Live(bs, h)
    <3> DEFINE b == bs[Find(bs, h)]
    <3>1. sz[h] = b.size
      BY <2>2, <2>3, ContentsIs
    <3>2. b.ptr \in Nat /\ b.size \in Nat /\ part[h] = b.ptr .. b.ptr + b.size - 1
      BY <1>2, <2>3
    <3> HIDE DEF b, sz
    <3> DEFINE x == b.ptr
               y == b.ptr + b.size - 1
    <3>3. x \in Int /\ y \in Int /\ part[h] = x .. y
      BY <3>2
    <3>4. (IF x > y THEN 0 ELSE y - x + 1) = b.size
      BY <3>2
    <3> HIDE DEF x, y
    <3>5. Cardinality(part[h]) = IF x > y THEN 0 ELSE y - x + 1
      BY <3>3, FS_Interval
    <3> QED
      BY <3>1, <3>4, <3>5
  <2>4. CASE ~Live(bs, h)
    <3>1. sz[h] = 0 /\ part[h] = {}
      BY <1>3, <2>2, <2>4, ContentsIs
    <3> QED
      BY <3>1, FS_EmptySet
  <2> QED
    BY <2>3, <2>4
<1> HIDE DEF X
<1>8. PICK g : SumOver(g, Handles, sz) /\ g[Handles] <= Half
  <2> HIDE DEF sz
  <2>1. \A h, k \in Handles : h # k => part[h] \cap part[k] = {}
    BY <1>6
  <2>2. \A h \in Handles : sz[h] = Cardinality(part[h])
    BY <1>7
  <2>3. IsFiniteSet(Handles)
    BY StoreAssumption
  <2> QED
    BY ONLY <1>1, <1>5, <2>1, <2>2, <2>3, SumOfParts
<1> DEFINE IsIter(f) ==
             f = [s \in SUBSET Handles |->
                    IF s = {} THEN 0
                    ELSE LET x == CHOOSE x \in s : TRUE IN Store!Size(x) + f[s \ {x}]]
           iter == CHOOSE f : IsIter(f)
<1>9. ASSUME NEW f PROVE IsIter(f) <=> SumOver(f, Handles, sz)
  <2> DEFINE A == [s \in SUBSET Handles |->
                     IF s = {} THEN 0
                     ELSE LET x == CHOOSE x \in s : TRUE IN Store!Size(x) + f[s \ {x}]]
             B == [s \in SUBSET Handles |->
                     IF s = {} THEN 0
                     ELSE sz[CHOOSE x \in s : TRUE] + f[s \ {CHOOSE x \in s : TRUE}]]
  <2>1. ASSUME NEW s \in SUBSET Handles PROVE A[s] = B[s]
    <3>1. CASE s = {}
      BY <3>1
    <3>2. CASE s # {}
      <4> DEFINE x == CHOOSE x \in s : TRUE
      <4>1. x \in Handles
        BY <3>2
      <4>2. A[s] = Store!Size(x) + f[s \ {x}] /\ B[s] = sz[x] + f[s \ {x}]
        BY <3>2, Zenon
      <4> HIDE DEF A, B, x
      <4> QED
        BY <4>1, <4>2
    <3> QED
      BY <3>1, <3>2
  <2>2. A = B
    BY <2>1, Zenon
  <2> QED
    BY <2>2, Zenon DEF SumOver
<1>10. SumOver(iter, Handles, sz)
  <2>1. IsIter(g)
    BY <1>8, <1>9, Zenon
  <2> HIDE DEF IsIter
  <2>2. IsIter(iter)
    BY <2>1, Zenon
  <2> QED
    BY <1>9, <2>2, Zenon
<1>11. Store!Used = iter[Handles]
  BY DEF Store!Used, Store!MapThenSumSet, Store!MapThenFoldSet
<1> HIDE DEF iter, sz
<1>12. iter[Handles] = g[Handles]
  BY <1>8, <1>10, StoreAssumption, SumsAgree
<1> QED
  BY <1>8, <1>11, <1>12

\* The store has of each handle what the handle sees.
Shown ==
  \A h \in Handles : /\ Contents(h) = See(heap, h)
                     /\ Live(heap.blocks, h) <=> See(heap, h) # NoOne

\* An invariant, so true of the next state too.
LEMMA StoreShown == Inv' => Shown' /\ Fitting'
<1>1. Inv => Shown
  BY ContentsIs DEF Shown
<1>2. Inv => Fitting
  BY StoreFits
<1> QED
  BY <1>1, <1>2, PTL

LEMMA StoreInit == Init => Store!Init
<1> SUFFICES ASSUME Init PROVE Store!Init
  OBVIOUS
<1>1. result = "ok" /\ Inv
  BY InitInv DEF Init
<1>2. ASSUME NEW h \in Handles PROVE Contents(h) = NoOne
  <2>1. ~Live(heap.blocks, h)
    BY AllocatorAssumption DEF Init, Live, Block
  <2> QED
    BY <2>1 DEF Contents
<1>3. [h \in Handles |-> Contents(h)] = [h \in Handles |-> NoOne]
  BY <1>2
<1> QED
  BY <1>1, <1>3 DEF Store!Init

\* Each thing that a step may do to what the handles see is a step of the store.
LEMMA StoreNext ==
  ASSUME Inv, Inv', Serves
  PROVE  Store!Next
<1> DEFINE st == [h \in Handles |-> Contents(h)]
<1>1. Shown' /\ Fitting'
  BY StoreShown
<1>2. ASSUME NEW h \in Handles
      PROVE  /\ st[h] = See(heap, h) /\ (Live(heap.blocks, h) <=> st[h] # NoOne)
             /\ st'[h] = See(heap', h) /\ (Live(heap'.blocks, h) <=> st'[h] # NoOne)
  <2>1. st[h] = See(heap, h) /\ (Live(heap.blocks, h) <=> st[h] # NoOne)
    BY ContentsIs
  <2>2. st'[h] = See(heap', h) /\ (Live(heap'.blocks, h) <=> st'[h] # NoOne)
    BY <1>1 DEF Shown
  <2> QED
    BY <2>1, <2>2
<1>3. ASSUME SeesTheSame(heap, heap') PROVE st' = st
  <2>1. \A h \in Handles : Contents(h)' = Contents(h)
    BY <1>2, <1>3 DEF SeesTheSame
  <2> QED
    BY <2>1
<1>4. CASE SeesTheSame(heap, heap') /\ result' \in {"ok", "NoMemory"}
  BY <1>3, <1>4 DEF Store!Next, Store!Nothing, Store!Refuse
<1>5. ASSUME NEW h \in Handles, Others(h) PROVE Store!Others(h)
  BY <1>2, <1>5 DEF Others, Store!Others
<1>6. ASSUME NEW h \in Handles, Resized(heap, heap', h), result' = "ok"
      PROVE  Store!Resize(h)
  <2>1. Store!Others(h)
    BY <1>5, <1>6 DEF Resized, Others
  <2>2. st'[h] # NoOne
    BY <1>2, <1>6 DEF Resized
  <2>3. \A i \in 1 .. Store!Size(h) : i <= Len(st'[h]) => st'[h][i] = st[h][i]
    <3>1. CASE Live(heap.blocks, h)
      <4>1. Store!Size(h) = Len(See(heap, h))
        BY <1>2, <3>1 DEF Store!Size
      <4> QED
        BY <1>2, <1>6, <3>1, <4>1 DEF Resized
    <3>2. CASE ~Live(heap.blocks, h)
      <4>1. Store!Size(h) = 0
        BY <1>2, <3>2 DEF Store!Size
      <4> QED
        BY <4>1
    <3> QED
      BY <3>1, <3>2
  <2>4. Store!Used' <= Half
    BY <1>1 DEF Fitting
  <2> QED
    BY <1>6, <2>1, <2>2, <2>3, <2>4 DEF Store!Resize
<1>7. ASSUME NEW h \in Handles, ~Live(heap.blocks, h), SeesTheSame(heap, heap'),
             result' = "InvalidFree"
      PROVE  Store!Release(h)
  <2>1. st[h] = NoOne /\ st' = st
    BY <1>2, <1>3, <1>7
  <2> QED
    BY <1>7, <2>1 DEF Store!Release
<1>8. ASSUME NEW h \in Handles, Live(heap.blocks, h), ~Live(heap'.blocks, h), Others(h),
             result' = "ok"
      PROVE  Store!Release(h)
  <2>1. st[h] # NoOne /\ st'[h] = NoOne /\ Store!Others(h)
    BY <1>2, <1>5, <1>8
  <2>2. st' = [st EXCEPT ![h] = NoOne]
    BY <2>1 DEF Store!Others
  <2> QED
    BY <1>8, <2>1, <2>2 DEF Store!Release
<1>9. ASSUME NEW h \in Handles, Live(heap.blocks, h), Live(heap'.blocks, h), Others(h),
             Len(See(heap', h)) = Len(See(heap, h)), result' = result
      PROVE  Store!Fill(h)
  <2>1. st[h] # NoOne /\ st'[h] # NoOne /\ Store!Others(h) /\ Len(st'[h]) = Len(st[h])
    BY <1>2, <1>5, <1>9
  <2> QED
    BY <1>9, <2>1 DEF Store!Fill, Store!Size
<1> QED
  BY <1>4, <1>6, <1>7, <1>8, <1>9 DEF Serves, Store!Next

----------------------------------------------------------------------------
(* The theorems *)

\* The variables have their types: in particular every block lies in the memory,
\* and a defragmentation and a move read no cell outside of it (allocator.cpp
\* 116-175).
THEOREM TypeCorrect == Spec => []TypeOK
<1>1. Inv => TypeOK
  <2> SUFFICES ASSUME Inv PROVE TypeOK
    OBVIOUS
  <2> DEFINE bs == heap.blocks
             Type == [ptr : Cells \cup {2 * Half}, size : 0 .. Half, owner : Handles \cup {NoOne}]
  <2>1. /\ heap \in [blocks : Seq(Blocks), mem : [Cells -> Values], ping_pong : BOOLEAN]
        /\ result \in {"ok", "NoMemory", "InvalidFree", "Undefined"}
    BY DEF Inv, Sound
  <2>2. /\ bs \in Seq(Blocks) /\ size_free \in 0 .. Half /\ Len(bs) \in Nat
        /\ Start(heap) \in {0, Half} /\ Half \in Nat
        /\ \A i \in 1 .. Len(bs) :
             /\ bs[i] \in Blocks
             /\ bs[i].ptr \in Nat /\ bs[i].size \in 0 .. Half
             /\ Start(heap) <= bs[i].ptr
             /\ bs[i].ptr + bs[i].size <= Start(heap) + Half
    BY SoundFacts, AllocatorAssumption DEF Inv
  <2>3. ASSUME NEW i \in 1 .. Len(bs) PROVE bs[i] \in Type
    <3>1. bs[i].ptr \in Cells \cup {2 * Half}
      <4> DEFINE x == bs[i].ptr
                 y == bs[i].size
                 z == Start(heap)
      <4>1. x \in Nat /\ y \in 0 .. Half /\ z \in {0, Half} /\ x + y <= z + Half /\ Half \in Nat
        BY <2>2
      <4> HIDE DEF x, y, z
      <4>2. x \in (0 .. 2 * Half - 1) \cup {2 * Half}
        BY ONLY <4>1
      <4> QED
        BY <4>2 DEF x, Cells
    <3>2. bs[i].size \in 0 .. Half /\ bs[i].owner \in Handles \cup {NoOne} /\ bs[i] \in Blocks
      BY <2>2, Fields
    <3> QED
      BY <3>1, <3>2 DEF Blocks
  <2>4. bs \in Seq(Type)
    <3> HIDE DEF Type, bs
    <3> QED
      BY <2>2, <2>3, SeqDef
  <2>5. /\ DOMAIN heap = {"blocks", "mem", "ping_pong"} /\ heap.mem \in [Cells -> Values]
        /\ heap.ping_pong \in BOOLEAN
    BY <2>1
  <2> QED
    BY <2>1, <2>2, <2>4, <2>5 DEF TypeOK, Values
<1> QED
  BY <1>1, Invariance, PTL

\* The blocks of the list lie one after the other from the start of the active
\* half to its end, whatever splits, joins and defragmentations came before.
THEOREM Tiling == Spec => []Tiled
<1>1. Inv => Tiled
  <2> SUFFICES ASSUME Inv PROVE Tiled
    OBVIOUS
  <2> DEFINE bs == heap.blocks
             p == Start(heap)
             q == Start(heap) + Half
  <2>1. Run(bs, p, q, size_free) /\ Len(bs) \in Nat \ {0} /\ p \in Int
    <3>1. Sound(heap, size_free)
      BY DEF Inv
    <3>2. Len(bs) \in Nat \ {0} /\ p \in Int
      BY <3>1, SoundFacts, AllocatorAssumption
    <3> QED
      BY <3>1, <3>2 DEF Sound
  <2>2. p = Base
    BY DEF Start, Base
  <2> HIDE DEF p, q, bs
  <2>3. /\ bs[1].ptr = p /\ bs[Len(bs)].ptr + bs[Len(bs)].size = q
        /\ \A i \in 1 .. Len(bs) - 1 : bs[i + 1].ptr = bs[i].ptr + bs[i].size
    BY <2>1, RunFacts
  <2>4. bs # <<>>
    BY <2>1, EmptySeq
  <2> QED
    BY <2>2, <2>3, <2>4 DEF Tiled, bs, p, q
<1> QED
  BY <1>1, Invariance, PTL

\* No two neighbours in the list are free: joinfree (allocator.cpp 71-89) undoes
\* every split that leaves two.
THEOREM Joining == Spec => []Coalesced
<1>1. Inv => Coalesced
  BY DEF Inv, Sound, JoinedBut, Coalesced
<1> QED
  BY <1>1, Invariance, PTL

\* The counter by which calls are refused is the number of the free cells.
THEOREM Counting == Spec => []FreeCount
<1>1. Inv => FreeCount
  <2> SUFFICES ASSUME Inv PROVE FreeCount
    OBVIOUS
  <2> DEFINE bs == heap.blocks
             l == Len(bs)
             IsSum(s) == s = [i \in 0 .. l |-> IF i = 0 THEN 0 ELSE s[i - 1] + FreeCells(bs[i])]
             sum == CHOOSE s : IsSum(s)
  <2>1. bs \in Seq(Blocks) /\ l \in Nat /\ Run(bs, Start(heap), Start(heap) + Half, size_free)
    BY SoundFacts DEF Inv, Sound
  <2>2. PICK e, f : Marks(bs, e, f) /\ f[l] = size_free
    BY <2>1 DEF Run
  <2>3. IsSum(f)
    <3> DEFINE g == [i \in 0 .. l |-> IF i = 0 THEN 0 ELSE f[i - 1] + FreeCells(bs[i])]
    <3>1. f \in [0 .. l -> Int] /\ f[0] = 0 /\ \A i \in 1 .. l : f[i] = f[i - 1] + FreeCells(bs[i])
      BY <2>2 DEF Marks
    <3>2. ASSUME NEW i \in 0 .. l PROVE f[i] = g[i]
      <4>1. CASE i = 0
        BY <3>1, <4>1, Zenon
      <4>2. CASE i # 0
        <5>1. i \in 1 .. l
          BY <2>1, <4>2
        <5> QED
          BY <3>1, <4>2, <5>1, Zenon
      <4> QED
        BY <4>1, <4>2
    <3> QED
      BY <3>1, <3>2, Zenon
  <2> HIDE DEF IsSum
  <2>4. IsSum(sum)
    BY <2>3, Zenon
  <2> HIDE DEF sum
  <2>5. sum[0] = 0 /\ \A i \in 1 .. l : sum[i] = sum[i - 1] + FreeCells(bs[i])
    <3>1. sum = [i \in 0 .. l |-> IF i = 0 THEN 0 ELSE sum[i - 1] + FreeCells(bs[i])]
      BY <2>4 DEF IsSum
    <3>2. 0 \in 0 .. l /\ \A i \in 1 .. l : i \in 0 .. l /\ i # 0
      BY <2>1
    <3> QED
      BY <3>1, <3>2, Zenon
  <2> DEFINE S == {i \in 0 .. l : sum[i] = f[i]}
  <2>6. 0 \in S
    BY <2>1, <2>2, <2>5 DEF Marks
  <2>7. ASSUME NEW i \in 0 .. l - 1, i \in S PROVE i + 1 \in S
    <3>1. i + 1 \in 1 .. l /\ i + 1 \in 0 .. l /\ (i + 1) - 1 = i
      BY <2>1
    <3>2. sum[i + 1] = sum[i] + FreeCells(bs[i + 1]) /\ f[i + 1] = f[i] + FreeCells(bs[i + 1])
      BY <2>2, <2>5, <3>1 DEF Marks
    <3> QED
      BY <2>7, <3>1, <3>2
  <2> HIDE DEF S, l
  <2>8. l \in S
    <3>1. 0 .. l \subseteq S
      BY ONLY <2>1, <2>6, <2>7, UpTo
    <3> QED
      BY <2>1, <3>1
  <2>9. size_free = sum[l]
    BY <2>2, <2>8 DEF S
  <2> QED
    BY <2>9 DEF FreeCount, sum, IsSum, l, FreeCells
<1> QED
  BY <1>1, Invariance, PTL

\* No call goes on with the end of the list: when the counter admits a request,
\* a block for it is found at the latest after the defragmentation (allocator.cpp
\* 38-60 and 203-246).
THEOREM NeverUndefined == Spec => [](result # "Undefined")
<1>1. Inv => result # "Undefined"
  BY DEF Inv
<1> QED
  BY <1>1, Invariance, PTL

\* A block in use moves only when the memory is defragmented or the block itself
\* grows: a pointer that the client got from get() stays good until then.
THEOREM Moving == Spec => MovesOnlyIfAsked
<1>1. ASSUME Inv, [Next]_vars
      PROVE  [\A h \in Handles :
                (Live(heap.blocks, h) /\ Live(heap'.blocks, h)) =>
                  LET old == heap.blocks[Find(heap.blocks, h)]
                      new == heap'.blocks[Find(heap'.blocks, h)]
                  IN  new.ptr # old.ptr =>
                        heap'.ping_pong # heap.ping_pong \/ new.size > old.size]_vars
  <2>1. Inv' /\ (UNCHANGED vars \/ Stays)
    BY <1>1, NextKeeps
  <2>2. CASE UNCHANGED vars
    BY <2>2
  <2>3. CASE Stays
    <3> SUFFICES ASSUME NEW h \in Handles, Live(heap.blocks, h), Live(heap'.blocks, h),
                        Kept(heap.blocks, heap'.blocks)
                 PROVE  LET old == heap.blocks[Find(heap.blocks, h)]
                            new == heap'.blocks[Find(heap'.blocks, h)]
                        IN  new.ptr = old.ptr \/ new.size > old.size
      BY <2>3 DEF Stays
    <3>1. heap.blocks \in Seq(Blocks) /\ Owned(heap.blocks)
      BY <1>1, SoundFacts DEF Inv
    <3>2. heap'.blocks \in Seq(Blocks) /\ Owned(heap'.blocks)
      <4>1. Sound(heap', size_free')
        BY <2>1 DEF Inv
      <4> QED
        BY <4>1, SoundFacts
    <3>3. heap.blocks[Find(heap.blocks, h)] \in Used(heap.blocks)
          /\ heap.blocks[Find(heap.blocks, h)].owner = h
      BY <3>1, FindIs
    <3>4. heap'.blocks[Find(heap'.blocks, h)] \in Used(heap'.blocks)
          /\ heap'.blocks[Find(heap'.blocks, h)].owner = h
      BY <3>2, FindIs
    <3> QED
      BY <3>3, <3>4 DEF Kept
  <2> QED
    BY <2>1, <2>2, <2>3
<1> QED
  BY <1>1, Invariance, PTL DEF Spec, MovesOnlyIfAsked

\* The client sees a store of independent resizable arrays: whatever the allocator
\* splits, joins, moves and defragments, a call changes the contents of no other
\* handle and keeps the common prefix of its own, and a call that throws changes
\* nothing.
THEOREM Refinement == Spec => ImplementsStore
<1>1. Init => Store!Init
  BY StoreInit
<1>2. Inv /\ [Next]_vars => [Store!Next]_Store!vars
  <2> SUFFICES ASSUME Inv, [Next]_vars PROVE [Store!Next]_Store!vars
    OBVIOUS
  <2>1. Inv' /\ (UNCHANGED vars \/ Serves)
    BY NextKeeps
  <2>2. CASE UNCHANGED vars
    <3>1. \A h \in Handles : Contents(h)' = Contents(h)
      BY <2>2 DEF vars, Contents, Live, Find
    <3> QED
      BY <2>2, <3>1 DEF vars, Store!vars
  <2>3. CASE Serves
    BY <2>1, <2>3, StoreNext
  <2> QED
    BY <2>1, <2>2, <2>3
<1> QED
  BY <1>1, <1>2, Invariance, PTL DEF Spec, ImplementsStore, Store!Spec

=============================================================================
