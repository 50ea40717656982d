---------------------------- MODULE ShellProofs ----------------------------
(***************************************************************************)
(* Proofs about Shell and its parser: what run starts and waits for, and   *)
(* what the commands of a pipeline read.                                   *)
(***************************************************************************)
EXTENDS Shell, SequenceLemmas, FiniteSetTheorems

----------------------------------------------------------------------------
(* Folds *)

\* The greatest of a set of places.
LEMMA MaxIs ==
  ASSUME NEW n \in Nat, NEW t \in SUBSET (1 .. n), t # {}
  PROVE  Max(t) \in t /\ \A i \in t : i <= Max(t)
<1> DEFINE S == {n - i : i \in t}
<1>1. S \in SUBSET Nat /\ S # {}
  OBVIOUS
<1>2. PICK m \in S : \A k \in S : m <= k
  BY <1>1, LeastNatural, Zenon
<1>3. PICK x \in t : m = n - x
  BY <1>2
<1>4. \A i \in t : i <= x
  <2> SUFFICES ASSUME NEW i \in t PROVE i <= x
    OBVIOUS
  <2>1. n - i \in S
    OBVIOUS
  <2>2. m <= n - i
    BY <1>2, <2>1
  <2> QED
    BY <1>3, <2>2
<1> HIDE DEF S
<1>5. \E y \in t : \A i \in t : y >= i
  BY <1>3, <1>4
<1>6. Max(t) \in t /\ \A i \in t : Max(t) >= i
  BY <1>5, Zenon DEF Max
<1> QED
  BY <1>6

\* The function that folds by the steps G over the places of a set.
Folding(g, n, base, G) ==
  g = [t \in SUBSET (1 .. n) |->
         IF t = {} THEN base ELSE G[<<Max(t), g[t \ {Max(t)}]>>]]

\* There is one, with values in S, if no step leaves S.
LEMMA FoldExists ==
  ASSUME NEW n \in Nat, NEW S, NEW base \in S, NEW G \in [(1 .. n) \X S -> S]
  PROVE  \E g \in [SUBSET (1 .. n) -> S] : Folding(g, n, base, G)
<1> DEFINE K == {k \in 0 .. n : \E g \in [SUBSET (1 .. k) -> S] : Folding(g, k, base, G)}
<1>1. 0 \in K
  <2> DEFINE g == [t \in SUBSET (1 .. 0) |-> base]
  <2>1. \A t \in SUBSET (1 .. 0) : t = {}
    OBVIOUS
  <2>2. g \in [SUBSET (1 .. 0) -> S]
    OBVIOUS
  <2>3. g = [t \in SUBSET (1 .. 0) |->
               IF t = {} THEN base ELSE G[<<Max(t), g[t \ {Max(t)}]>>]]
    BY <2>1, Zenon
  <2>4. Folding(g, 0, base, G)
    BY <2>3, Zenon DEF Folding
  <2>5. 0 \in 0 .. n
    OBVIOUS
  <2> HIDE DEF g
  <2> QED
    BY <2>2, <2>4, <2>5, Zenon
<1>2. ASSUME NEW k \in 0 .. n - 1, k \in K PROVE k + 1 \in K
  <2>1. PICK g \in [SUBSET (1 .. k) -> S] : Folding(g, k, base, G)
    BY <1>2
  <2>2. ASSUME NEW t \in SUBSET (1 .. k)
        PROVE  g[t] = IF t = {} THEN base ELSE G[<<Max(t), g[t \ {Max(t)}]>>]
    BY <2>1, Zenon DEF Folding
  <2> DEFINE h == [t \in SUBSET (1 .. k + 1) |->
                     IF k + 1 \in t THEN G[<<k + 1, g[t \ {k + 1}]>>] ELSE g[t]]
  <2>3. ASSUME NEW t \in SUBSET (1 .. k + 1)
        PROVE  /\ t \ {k + 1} \in SUBSET (1 .. k)
               /\ k + 1 \notin t => t \in SUBSET (1 .. k)
    OBVIOUS
  <2>4. h \in [SUBSET (1 .. k + 1) -> S]
    <3> SUFFICES ASSUME NEW t \in SUBSET (1 .. k + 1)
                 PROVE  (IF k + 1 \in t THEN G[<<k + 1, g[t \ {k + 1}]>>] ELSE g[t]) \in S
      BY Zenon
    <3>1. g[t \ {k + 1}] \in S /\ k + 1 \in 1 .. n
      BY <2>3
    <3>2. <<k + 1, g[t \ {k + 1}]>> \in (1 .. n) \X S
      BY <3>1
    <3>3. k + 1 \notin t => g[t] \in S
      BY <2>3
    <3> QED
      BY <3>2, <3>3, Zenon
  <2>5. ASSUME NEW t \in SUBSET (1 .. k + 1)
        PROVE  h[t] = IF t = {} THEN base ELSE G[<<Max(t), h[t \ {Max(t)}]>>]
    <3>1. CASE t = {}
      <4>1. k + 1 \notin t /\ t \in SUBSET (1 .. k)
        BY <3>1
      <4>2. h[t] = g[t]
        BY <4>1
      <4>3. g[t] = base
        BY <2>2, <3>1, <4>1, Zenon
      <4> QED
        BY <3>1, <4>2, <4>3, Zenon
    <3>2. CASE t # {} /\ k + 1 \in t
      <4>1. Max(t) = k + 1
        <5>1. k + 1 \in Nat
          OBVIOUS
        <5>2. Max(t) \in t /\ k + 1 <= Max(t)
          BY <3>2, <5>1, MaxIs, Zenon
        <5>3. Max(t) \in 1 .. k + 1
          BY <5>2
        <5> QED
          BY <5>2, <5>3
      <4>2. h[t] = G[<<k + 1, g[t \ {k + 1}]>>]
        BY <3>2, Zenon
      <4>3. h[t \ {k + 1}] = g[t \ {k + 1}]
        BY <2>3, Zenon
      <4> QED
        BY <3>2, <4>1, <4>2, <4>3, Zenon
    <3>3. CASE t # {} /\ k + 1 \notin t
      <4>1. t \in SUBSET (1 .. k)
        BY <2>3, <3>3
      <4>2. h[t] = g[t]
        BY <3>3, Zenon
      <4>3. g[t] = G[<<Max(t), g[t \ {Max(t)}]>>]
        BY <2>2, <3>3, <4>1, Zenon
      <4>4. h[t \ {Max(t)}] = g[t \ {Max(t)}]
        <5>1. t \ {Max(t)} \in SUBSET (1 .. k + 1) /\ k + 1 \notin t \ {Max(t)}
          BY <3>3, Zenon
        <5> QED
          BY <5>1, Zenon
      <4> QED
        BY <3>3, <4>2, <4>3, <4>4, Zenon
    <3> QED
      BY <3>1, <3>2, <3>3, Zenon
  <2>6. h = [t \in SUBSET (1 .. k + 1) |->
               IF t = {} THEN base ELSE G[<<Max(t), h[t \ {Max(t)}]>>]]
    <3> HIDE DEF h
    <3> QED
      BY <2>4, <2>5, Zenon
  <2> HIDE DEF h
  <2>7. Folding(h, k + 1, base, G)
    BY <2>6, Zenon DEF Folding
  <2>8. k + 1 \in 0 .. n
    OBVIOUS
  <2> QED
    BY <2>4, <2>7, <2>8
<1> HIDE DEF K
<1>3. n \in K
  <2>1. 0 .. n \subseteq K
    BY <1>1, <1>2, UpTo
  <2> QED
    BY <2>1
<1> QED
  BY <1>3 DEF K

\* F folds, as long as it stays in S.
FoldsIn(F, n, S, base, G) ==
  /\ F[{}] = base
  /\ \A t \in SUBSET (1 .. n) :
       t # {} /\ F[t \ {Max(t)}] \in S => F[t] = G[<<Max(t), F[t \ {Max(t)}]>>]

\* f[k] is the fold over the first k places.
Traces(f, F, n, base, G) == Recursive(f, n, base, G) /\ F[1 .. n] = f[n]

\* What a fold returns is computed step by step.
LEMMA FoldSteps ==
  ASSUME NEW n \in Nat, NEW S, NEW base \in S, NEW G \in [(1 .. n) \X S -> S], NEW F,
         FoldsIn(F, n, S, base, G)
  PROVE  \E f \in [0 .. n -> S] : Traces(f, F, n, base, G)
<1>1. PICK f \in [0 .. n -> S] : Recursive(f, n, base, G)
  BY RecursionExists, Zenon
<1> DEFINE K == {k \in 0 .. n : F[1 .. k] = f[k]}
<1>2. 0 \in K
  <2>1. 1 .. 0 = {} /\ 0 \in 0 .. n
    OBVIOUS
  <2> QED
    BY <1>1, <2>1 DEF Recursive, FoldsIn
<1>3. ASSUME NEW k \in 0 .. n - 1, k \in K PROVE k + 1 \in K
  <2> DEFINE t == 1 .. k + 1
  <2>0. n \in Nat /\ k \in 0 .. n - 1
    OBVIOUS
  <2>1. k + 1 \in Nat /\ k + 1 \in t /\ k + 1 \in 0 .. n /\ k + 1 \in 1 .. n
    BY ONLY <2>0
  <2>a. t \in SUBSET (1 .. n) /\ t # {}
    <3>1. \A i \in t : i \in 1 .. n
      BY ONLY <2>0
    <3>2. t # {}
      BY <2>1
    <3> QED
      BY <3>1, <3>2, Zenon
  <2>2. Max(t) \in t /\ \A i \in t : i <= Max(t)
    BY <2>1, <2>a, MaxIs, Zenon
  <2>3. Max(t) = k + 1
    BY <2>1, <2>2
  <2>4. t \ {k + 1} = 1 .. k
    OBVIOUS
  <2> HIDE DEF t
  <2>5. F[t \ {Max(t)}] = f[k] /\ f[k] \in S
    <3>1. k \in 0 .. n
      OBVIOUS
    <3> QED
      BY <1>3, <2>3, <2>4, <3>1
  <2>6. F[t] = G[<<k + 1, f[k]>>]
    BY <2>a, <2>3, <2>5, Zenon DEF FoldsIn
  <2>7. f[k + 1] = G[<<k + 1, f[k]>>]
    <3>1. (k + 1) - 1 = k
      OBVIOUS
    <3>2. f[k + 1] = G[<<k + 1, f[(k + 1) - 1]>>]
      BY <1>1, <2>1, Zenon DEF Recursive
    <3> QED
      BY <3>1, <3>2
  <2> QED
    BY <2>1, <2>6, <2>7 DEF t
<1> HIDE DEF K
<1>4. n \in K
  <2>1. n \in 0 .. n
    OBVIOUS
  <2> QED
    BY <1>2, <1>3, <2>1, UpTo, Zenon
<1>5. Traces(f, F, n, base, G)
  BY <1>1, <1>4 DEF K, Traces
<1> QED
  BY <1>5

----------------------------------------------------------------------------
(* The parser *)

\* replace, token by token: f[k] is what it has made of the first k.
Replaces(f, s, symbol, by) ==
  /\ f[0] = <<>>
  /\ \A k \in 1 .. Len(s) :
       f[k] = IF s[k] = symbol /\ f[k - 1] # <<>> /\ Last(f[k - 1]) = symbol
              THEN Append(Front(f[k - 1]), by) ELSE Append(f[k - 1], s[k])
  /\ replace(s, symbol, by) = f[Len(s)]

LEMMA ReplaceSteps ==
  ASSUME NEW T, NEW s \in Seq(T), NEW symbol, NEW by \in T
  PROVE  \E f \in [0 .. Len(s) -> Seq(T)] : Replaces(f, s, symbol, by)
<1> DEFINE n == Len(s)
           S == Seq(T)
           step(x, c) == IF s[x] = symbol /\ c # <<>> /\ Last(c) = symbol
                         THEN Append(Front(c), by) ELSE Append(c, s[x])
           G == [xc \in (1 .. n) \X S |-> step(xc[1], xc[2])]
           F == CHOOSE f : f = [t \in SUBSET (DOMAIN s) |->
                  IF t = {} THEN <<>> ELSE step(Max(t), f[t \ {Max(t)}])]
<1>1. replace(s, symbol, by) = F[DOMAIN s]
  BY DEF replace, FoldLeft, MapThenFoldSet
<1>2. n \in Nat /\ DOMAIN s = 1 .. n /\ \A x \in 1 .. n : s[x] \in T
  BY LenProperties
<1>3. <<>> \in S
  BY EmptySeq
<1>4. ASSUME NEW x \in 1 .. n, NEW c \in S PROVE step(x, c) \in S
  <2>1. Append(c, s[x]) \in S
    BY <1>2, AppendProperties
  <2>2. c # <<>> => Append(Front(c), by) \in S
    BY AppendProperties, EmptySeq, LenProperties DEF Front
  <2> QED
    BY <2>1, <2>2
<1>5. G \in [(1 .. n) \X S -> S]
  <2> HIDE DEF step, S, n
  <2>1. \A xc \in (1 .. n) \X S : step(xc[1], xc[2]) \in S
    BY <1>4
  <2> QED
    BY <2>1, Zenon
<1> HIDE DEF n, S
<1>6. PICK g \in [SUBSET (1 .. n) -> S] : Folding(g, n, <<>>, G)
  BY <1>2, <1>3, <1>5, FoldExists, Zenon
<1>7. g = [t \in SUBSET (DOMAIN s) |-> IF t = {} THEN <<>> ELSE step(Max(t), g[t \ {Max(t)}])]
  <2> HIDE DEF step
  <2>1. ASSUME NEW t \in SUBSET (1 .. n)
        PROVE  g[t] = IF t = {} THEN <<>> ELSE step(Max(t), g[t \ {Max(t)}])
    <3>1. g[t] = IF t = {} THEN <<>> ELSE G[<<Max(t), g[t \ {Max(t)}]>>]
      BY <1>6, Zenon DEF Folding
    <3>2. ASSUME t # {} PROVE G[<<Max(t), g[t \ {Max(t)}]>>] = step(Max(t), g[t \ {Max(t)}])
      <4>1. Max(t) \in 1 .. n
        BY <1>2, <3>2, MaxIs, Zenon
      <4>2. g[t \ {Max(t)}] \in S
        BY <1>6
      <4> QED
        BY <4>1, <4>2
    <3> QED
      BY <3>1, <3>2, Zenon
  <2>2. g = [t \in SUBSET (1 .. n) |-> g[t]]
    BY <1>6, Zenon
  <2> QED
    BY <1>2, <2>1, <2>2, Zenon
<1>8. F = [t \in SUBSET (DOMAIN s) |-> IF t = {} THEN <<>> ELSE step(Max(t), F[t \ {Max(t)}])]
  <2> HIDE DEF step
  <2> QED
    BY <1>7, Zenon
<1> HIDE DEF F
<1>9. F[{}] = <<>>
  BY <1>3, <1>8
<1>10. ASSUME NEW t \in SUBSET (1 .. n), t # {}, F[t \ {Max(t)}] \in S
       PROVE  F[t] = G[<<Max(t), F[t \ {Max(t)}]>>]
  <2> HIDE DEF step
  <2>1. F[t] = step(Max(t), F[t \ {Max(t)}])
    BY <1>2, <1>8, <1>10, Zenon
  <2>2. Max(t) \in 1 .. n
    BY <1>2, <1>10, MaxIs, Zenon
  <2> QED
    BY <1>10, <2>1, <2>2
<1> HIDE DEF G
<1>11. PICK f \in [0 .. n -> S] : Traces(f, F, n, <<>>, G)
  <2>1. FoldsIn(F, n, S, <<>>, G)
    BY <1>9, <1>10, Zenon DEF FoldsIn
  <2> QED
    BY <1>2, <1>3, <1>5, <2>1, FoldSteps, Zenon
<1>12. f[0] = <<>> /\ \A k \in 1 .. n : f[k] = step(k, f[k - 1])
  <2> HIDE DEF step
  <2>1. ASSUME NEW k \in 1 .. n PROVE f[k] = step(k, f[k - 1])
    <3>1. f[k] = G[<<k, f[k - 1]>>]
      BY <1>11 DEF Recursive, Traces
    <3>2. f[k - 1] \in S
      <4>1. k - 1 \in 0 .. n
        BY <1>2
      <4> QED
        BY <1>11, <4>1
    <3> QED
      BY <3>1, <3>2 DEF G
  <2> QED
    BY <1>11, <2>1 DEF Recursive, Traces
<1> QED
  BY <1>1, <1>2, <1>11, <1>12, Zenon DEF Traces, S, n, Replaces

\* It leaves a sequence of tokens.
LEMMA ReplaceIs ==
  ASSUME NEW T, NEW s \in Seq(T), NEW symbol, NEW by \in T
  PROVE  replace(s, symbol, by) \in Seq(T)
<1>1. PICK f \in [0 .. Len(s) -> Seq(T)] : Replaces(f, s, symbol, by)
  BY ReplaceSteps, Zenon
<1>2. Len(s) \in 0 .. Len(s)
  BY LenProperties
<1> QED
  BY <1>1, <1>2 DEF Replaces

\* parts, token by token.
Parts(f, s) ==
  /\ f[0] = <<>>
  /\ \A k \in 1 .. Len(s) : f[k] = IF s[k] = Blank THEN f[k - 1] ELSE Append(f[k - 1], s[k])
  /\ parts(s) = f[Len(s)]

LEMMA PartsSteps ==
  ASSUME NEW T, NEW s \in Seq(T)
  PROVE  \E f \in [0 .. Len(s) -> Seq(T)] : Parts(f, s)
<1> DEFINE n == Len(s)
           S == Seq(T)
           step(x, c) == IF s[x] = Blank THEN c ELSE Append(c, s[x])
           G == [xc \in (1 .. n) \X S |-> step(xc[1], xc[2])]
           F == CHOOSE f : f = [t \in SUBSET (DOMAIN s) |->
                  IF t = {} THEN <<>> ELSE step(Max(t), f[t \ {Max(t)}])]
<1>1. parts(s) = F[DOMAIN s]
  BY DEF parts, FoldLeft, MapThenFoldSet
<1>2. n \in Nat /\ DOMAIN s = 1 .. n /\ \A x \in 1 .. n : s[x] \in T
  BY LenProperties
<1>3. <<>> \in S
  BY EmptySeq
<1>4. ASSUME NEW x \in 1 .. n, NEW c \in S PROVE step(x, c) \in S
  <2>1. Append(c, s[x]) \in S
    BY <1>2, AppendProperties
  <2> QED
    BY <2>1
<1>5. G \in [(1 .. n) \X S -> S]
  <2> HIDE DEF step, S, n
  <2>1. \A xc \in (1 .. n) \X S : step(xc[1], xc[2]) \in S
    BY <1>4
  <2> QED
    BY <2>1, Zenon
<1> HIDE DEF n, S
<1>6. PICK g \in [SUBSET (1 .. n) -> S] : Folding(g, n, <<>>, G)
  BY <1>2, <1>3, <1>5, FoldExists, Zenon
<1>7. g = [t \in SUBSET (DOMAIN s) |-> IF t = {} THEN <<>> ELSE step(Max(t), g[t \ {Max(t)}])]
  <2> HIDE DEF step
  <2>1. ASSUME NEW t \in SUBSET (1 .. n)
        PROVE  g[t] = IF t = {} THEN <<>> ELSE step(Max(t), g[t \ {Max(t)}])
    <3>1. g[t] = IF t = {} THEN <<>> ELSE G[<<Max(t), g[t \ {Max(t)}]>>]
      BY <1>6, Zenon DEF Folding
    <3>2. ASSUME t # {} PROVE G[<<Max(t), g[t \ {Max(t)}]>>] = step(Max(t), g[t \ {Max(t)}])
      <4>1. Max(t) \in 1 .. n
        BY <1>2, <3>2, MaxIs, Zenon
      <4>2. g[t \ {Max(t)}] \in S
        BY <1>6
      <4> QED
        BY <4>1, <4>2
    <3> QED
      BY <3>1, <3>2, Zenon
  <2>2. g = [t \in SUBSET (1 .. n) |-> g[t]]
    BY <1>6, Zenon
  <2> QED
    BY <1>2, <2>1, <2>2, Zenon
<1>8. F = [t \in SUBSET (DOMAIN s) |-> IF t = {} THEN <<>> ELSE step(Max(t), F[t \ {Max(t)}])]
  <2> HIDE DEF step
  <2> QED
    BY <1>7, Zenon
<1> HIDE DEF F
<1>9. F[{}] = <<>>
  BY <1>3, <1>8
<1>10. ASSUME NEW t \in SUBSET (1 .. n), t # {}, F[t \ {Max(t)}] \in S
       PROVE  F[t] = G[<<Max(t), F[t \ {Max(t)}]>>]
  <2> HIDE DEF step
  <2>1. F[t] = step(Max(t), F[t \ {Max(t)}])
    BY <1>2, <1>8, <1>10, Zenon
  <2>2. Max(t) \in 1 .. n
    BY <1>2, <1>10, MaxIs, Zenon
  <2> QED
    BY <1>10, <2>1, <2>2
<1> HIDE DEF G
<1>11. PICK f \in [0 .. n -> S] : Traces(f, F, n, <<>>, G)
  <2>1. FoldsIn(F, n, S, <<>>, G)
    BY <1>9, <1>10, Zenon DEF FoldsIn
  <2> QED
    BY <1>2, <1>3, <1>5, <2>1, FoldSteps, Zenon
<1>12. f[0] = <<>> /\ \A k \in 1 .. n : f[k] = step(k, f[k - 1])
  <2> HIDE DEF step
  <2>1. ASSUME NEW k \in 1 .. n PROVE f[k] = step(k, f[k - 1])
    <3>1. f[k] = G[<<k, f[k - 1]>>]
      BY <1>11 DEF Recursive, Traces
    <3>2. f[k - 1] \in S
      <4>1. k - 1 \in 0 .. n
        BY <1>2
      <4> QED
        BY <1>11, <4>1
    <3> QED
      BY <3>1, <3>2 DEF G
  <2> QED
    BY <1>11, <2>1 DEF Recursive, Traces
<1> QED
  BY <1>1, <1>2, <1>11, <1>12, Zenon DEF Traces, S, n, Parts

LEMMA PartsSeq ==
  ASSUME NEW T, NEW s \in Seq(T)
  PROVE  parts(s) \in Seq(T)
<1>1. PICK f \in [0 .. Len(s) -> Seq(T)] : Parts(f, s)
  BY PartsSteps, Zenon
<1>2. Len(s) \in 0 .. Len(s)
  BY LenProperties
<1> QED
  BY <1>1, <1>2 DEF Parts

\* Two recursions that take the same steps agree.
LEMMA StepsAgree ==
  ASSUME NEW n \in Nat, NEW f, NEW g, f[0] = g[0],
         \A k \in 1 .. n : f[k - 1] = g[k - 1] => f[k] = g[k]
  PROVE  f[n] = g[n]
<1> DEFINE K == {k \in 0 .. n : f[k] = g[k]}
<1>1. 0 \in K
  OBVIOUS
<1>2. ASSUME NEW k \in 0 .. n - 1, k \in K PROVE k + 1 \in K
  <2>1. k + 1 \in 1 .. n /\ (k + 1) - 1 = k /\ k + 1 \in 0 .. n
    OBVIOUS
  <2>2. f[k] = g[k]
    BY <1>2
  <2>3. f[(k + 1) - 1] = g[(k + 1) - 1] => f[k + 1] = g[k + 1]
    BY <2>1, Zenon
  <2> QED
    BY <2>1, <2>2, <2>3
<1> HIDE DEF K
<1>3. n \in 0 .. n
  OBVIOUS
<1>4. n \in K
  BY <1>1, <1>2, <1>3, UpTo, Zenon
<1> QED
  BY <1>4 DEF K

\* The elements of a longer sequence.
LEMMA AppendIs ==
  ASSUME NEW T, NEW s \in Seq(T), NEW x \in T
  PROVE  /\ Append(s, x) \in Seq(T) /\ Len(s) \in Nat
         /\ Len(Append(s, x)) = Len(s) + 1 /\ Append(s, x)[Len(s) + 1] = x
         /\ DOMAIN s = 1 .. Len(s) /\ DOMAIN Append(s, x) = 1 .. Len(s) + 1
         /\ \A k \in 1 .. Len(s) : Append(s, x)[k] = s[k] /\ k \in 1 .. Len(s) + 1
<1> DEFINE q == Append(s, x)
<1>1. q \in Seq(T) /\ Len(q) = Len(s) + 1 /\ q[Len(s) + 1] = x /\ \A k \in 1 .. Len(s) : q[k] = s[k]
  BY AppendProperties
<1> HIDE DEF q
<1>2. Len(s) \in Nat /\ DOMAIN s = 1 .. Len(s) /\ DOMAIN q = 1 .. Len(q)
  BY <1>1, LenProperties
<1>3. \A k \in 1 .. Len(s) : k \in 1 .. Len(s) + 1
  BY ONLY <1>2
<1>4. DOMAIN q = 1 .. Len(s) + 1
  BY <1>1, <1>2, Zenon
<1> QED
  BY <1>1, <1>2, <1>3, <1>4, Zenon DEF q

\* parts of one more token.
LEMMA PartsAppend ==
  ASSUME NEW T, NEW s \in Seq(T), NEW x \in T
  PROVE  parts(Append(s, x)) = IF x = Blank THEN parts(s) ELSE Append(parts(s), x)
<1> DEFINE q == Append(s, x)
           n == Len(s)
<1>1. /\ q \in Seq(T) /\ n \in Nat /\ Len(q) = n + 1 /\ q[n + 1] = x
      /\ \A k \in 1 .. n : q[k] = s[k] /\ k \in 1 .. n + 1
  BY AppendIs
<1> HIDE DEF q, n
<1>2. PICK f \in [0 .. Len(s) -> Seq(T)] : Parts(f, s)
  BY PartsSteps, Zenon
<1>3. PICK g \in [0 .. Len(q) -> Seq(T)] : Parts(g, q)
  BY <1>1, PartsSteps, Zenon
<1>4. f[n] = g[n]
  <2>1. \A k \in 1 .. n : f[k - 1] = g[k - 1] => f[k] = g[k]
    BY <1>1, <1>2, <1>3, Zenon DEF Parts, n
  <2>2. f[0] = g[0]
    BY <1>2, <1>3, Zenon DEF Parts
  <2> QED
    BY <1>1, <2>1, <2>2, StepsAgree, Zenon
<1>5. g[n + 1] = IF x = Blank THEN g[n] ELSE Append(g[n], x)
  <2>1. n + 1 \in 1 .. n + 1 /\ (n + 1) - 1 = n
    BY <1>1
  <2>2. g[n + 1] = IF q[n + 1] = Blank THEN g[(n + 1) - 1] ELSE Append(g[(n + 1) - 1], q[n + 1])
    BY <1>1, <1>3, <2>1, Zenon DEF Parts
  <2> QED
    BY <1>1, <2>1, <2>2, Zenon
<1>6. parts(q) = g[n + 1] /\ parts(s) = f[n]
  BY <1>1, <1>2, <1>3, Zenon DEF Parts, n
<1> QED
  BY <1>4, <1>5, <1>6, Zenon DEF q

LEMMA PartsNone == parts(<<>>) = <<>>
<1>1. PICK f \in [0 .. Len(<<>>) -> Seq({})] : Parts(f, <<>>)
  BY EmptySeq, PartsSteps, Zenon
<1>2. Len(<<>>) = 0
  BY EmptySeq
<1> QED
  BY <1>1, <1>2, Zenon DEF Parts

\* A property of the beginnings of a sequence that every token keeps.
LEMMA Beginnings ==
  ASSUME NEW T, NEW s \in Seq(T), NEW Q \in SUBSET Seq(T), <<>> \in Q,
         \A q \in Q, x \in T : Append(q, x) \in Q
  PROVE  s \in Q
<1> DEFINE n == Len(s)
           K == {k \in 0 .. n : SubSeq(s, 1, k) \in Q}
<1>1. n \in Nat
  BY LenProperties
<1>2. 0 \in K
  <2>1. SubSeq(s, 1, 0) = <<>>
    BY SubSeqEmpty
  <2>2. 0 \in 0 .. n
    BY <1>1
  <2> QED
    BY <2>1, <2>2
<1>3. ASSUME NEW k \in 0 .. n - 1, k \in K PROVE k + 1 \in K
  <2>1. k + 1 \in 1 .. n /\ k + 1 \in 0 .. n /\ 0 \in 0 .. n /\ 0 + 1 = 1
    BY <1>1
  <2>2. SubSeq(s, 1, k + 1) = Append(SubSeq(s, 1, k), s[k + 1])
    BY <1>1, <2>1, SubSeqGrows, Zenon
  <2>3. s[k + 1] \in T
    BY <2>1, ElementOfSeq
  <2>4. SubSeq(s, 1, k) \in Q
    BY <1>3
  <2>5. SubSeq(s, 1, k + 1) \in Q
    BY <2>2, <2>3, <2>4, Zenon
  <2> QED
    BY <2>1, <2>5
<1> HIDE DEF K
<1>4. n \in K
  <2>1. n \in 0 .. n
    BY <1>1
  <2> QED
    BY <1>1, <1>2, <1>3, <2>1, UpTo, Zenon
<1> QED
  BY <1>4, SubSeqFull, Zenon DEF K

NoBlanks(s) == \A i \in DOMAIN s : s[i] # Blank

LEMMA NoBlanksAppend ==
  ASSUME NEW T, NEW s \in Seq(T), NEW x \in T
  PROVE  NoBlanks(Append(s, x)) <=> NoBlanks(s) /\ x # Blank
<1> DEFINE q == Append(s, x)
           n == Len(s)
<1>1. /\ n \in Nat /\ q[n + 1] = x /\ DOMAIN s = 1 .. n /\ DOMAIN q = 1 .. n + 1
      /\ \A k \in 1 .. n : q[k] = s[k] /\ k \in 1 .. n + 1
  BY AppendIs
<1> HIDE DEF q, n
<1>2. n + 1 \in 1 .. n + 1 /\ \A k \in 1 .. n + 1 : k = n + 1 \/ k \in 1 .. n
  BY ONLY <1>1
<1>3. NoBlanks(q) <=> NoBlanks(s) /\ x # Blank
  BY <1>1, <1>2, Zenon DEF NoBlanks
<1> QED
  BY <1>3 DEF q

\* parts leaves no blank, and what has none as it is.
LEMMA PartsAre ==
  ASSUME NEW T, NEW s \in Seq(T)
  PROVE  NoBlanks(parts(s)) /\ (NoBlanks(s) => parts(s) = s) /\ parts(parts(s)) = parts(s)
<1> DEFINE Good(q) == NoBlanks(parts(q)) /\ (NoBlanks(q) => parts(q) = q)
           Q == {q \in Seq(T) : Good(q)}
<1>1. <<>> \in Q
  <2>1. NoBlanks(<<>>) /\ <<>> \in Seq(T)
    BY EmptySeq DEF NoBlanks
  <2> QED
    BY <2>1, PartsNone, Zenon
<1>2. ASSUME NEW q \in Q, NEW x \in T PROVE Append(q, x) \in Q
  <2>1. q \in Seq(T) /\ Append(q, x) \in Seq(T) /\ parts(q) \in Seq(T)
    BY AppendProperties, PartsSeq
  <2>2. NoBlanks(parts(q)) /\ (NoBlanks(q) => parts(q) = q)
    OBVIOUS
  <2>3. NoBlanks(Append(q, x)) <=> NoBlanks(q) /\ x # Blank
    BY <2>1, NoBlanksAppend, Zenon
  <2>4. x # Blank => NoBlanks(Append(parts(q), x))
    BY <2>1, <2>2, NoBlanksAppend, Zenon
  <2>5. parts(Append(q, x)) = IF x = Blank THEN parts(q) ELSE Append(parts(q), x)
    BY <2>1, PartsAppend, Zenon
  <2> QED
    BY <2>1, <2>2, <2>3, <2>4, <2>5, Zenon
<1>3. \A q \in Seq(T) : Good(q)
  <2> SUFFICES ASSUME NEW q \in Seq(T) PROVE q \in Q
    OBVIOUS
  <2> HIDE DEF Good
  <2>1. Q \in SUBSET Seq(T)
    OBVIOUS
  <2> HIDE DEF Q
  <2> QED
    BY <1>1, <1>2, <2>1, Beginnings, Zenon
<1>4. parts(s) \in Seq(T)
  BY PartsSeq, Zenon
<1> QED
  BY <1>3, <1>4, Zenon

\* The commands with tokens of T.
Commands(T) ==
  [kind : {"cmd"}, params : Seq(T), infile : T \cup {""}, outfile : T \cup {""},
   wants : {"", "<", ">"}]

NoCommand == [kind |-> "cmd", params |-> <<>>, infile |-> "", outfile |-> "", wants |-> ""]

\* Comand, part by part.
NextMade(c, t) ==
  CASE c.wants = "<" -> [c EXCEPT !.infile = t, !.wants = ""]
    [] c.wants = ">" -> [c EXCEPT !.outfile = t, !.wants = ""]
    [] c.wants = "" /\ t \in {"<", ">"} -> [c EXCEPT !.wants = t]
    [] OTHER -> [c EXCEPT !.params = Append(@, t)]

Makes(f, ps) ==
  /\ f[0] = NoCommand
  /\ \A k \in 1 .. Len(ps) : f[k] = NextMade(f[k - 1], ps[k])
  /\ Comand(ps) = f[Len(ps)]

LEMMA ComandSteps ==
  ASSUME NEW T, NEW ps \in Seq(T)
  PROVE  \E f \in [0 .. Len(ps) -> Commands(T)] : Makes(f, ps)
<1> DEFINE n == Len(ps)
           S == Commands(T)
           base == [kind |-> "cmd", params |-> <<>>, infile |-> "", outfile |-> "", wants |-> ""]
           step(x, c) == CASE c.wants = "<" -> [c EXCEPT !.infile = ps[x], !.wants = ""]
                           [] c.wants = ">" -> [c EXCEPT !.outfile = ps[x], !.wants = ""]
                           [] c.wants = "" /\ ps[x] \in {"<", ">"} -> [c EXCEPT !.wants = ps[x]]
                           [] OTHER -> [c EXCEPT !.params = Append(@, ps[x])]
           G == [xc \in (1 .. n) \X S |-> step(xc[1], xc[2])]
           F == CHOOSE f : f = [t \in SUBSET (DOMAIN ps) |->
                  IF t = {} THEN base ELSE step(Max(t), f[t \ {Max(t)}])]
<1>1. Comand(ps) = F[DOMAIN ps]
  BY DEF Comand, FoldLeft, MapThenFoldSet
<1>2. n \in Nat /\ DOMAIN ps = 1 .. n /\ \A x \in 1 .. n : ps[x] \in T
  BY LenProperties
<1>3. base \in S
  BY EmptySeq DEF Commands
<1>4. ASSUME NEW x \in 1 .. n, NEW c \in S PROVE step(x, c) \in S
  <2>1. Append(c.params, ps[x]) \in Seq(T)
    BY <1>2, AppendProperties DEF Commands
  <2> QED
    BY <1>2, <2>1 DEF Commands
<1>5. G \in [(1 .. n) \X S -> S]
  <2> HIDE DEF step, S, n
  <2>1. \A xc \in (1 .. n) \X S : step(xc[1], xc[2]) \in S
    BY <1>4
  <2> QED
    BY <2>1, Zenon
<1> HIDE DEF n, S, base
<1>6. PICK g \in [SUBSET (1 .. n) -> S] : Folding(g, n, base, G)
  BY <1>2, <1>3, <1>5, FoldExists, Zenon
<1>7. g = [t \in SUBSET (DOMAIN ps) |-> IF t = {} THEN base ELSE step(Max(t), g[t \ {Max(t)}])]
  <2> HIDE DEF step
  <2>1. ASSUME NEW t \in SUBSET (1 .. n)
        PROVE  g[t] = IF t = {} THEN base ELSE step(Max(t), g[t \ {Max(t)}])
    <3>1. g[t] = IF t = {} THEN base ELSE G[<<Max(t), g[t \ {Max(t)}]>>]
      BY <1>6, Zenon DEF Folding
    <3>2. ASSUME t # {} PROVE G[<<Max(t), g[t \ {Max(t)}]>>] = step(Max(t), g[t \ {Max(t)}])
      <4>1. Max(t) \in 1 .. n
        BY <1>2, <3>2, MaxIs, Zenon
      <4>2. g[t \ {Max(t)}] \in S
        BY <1>6
      <4> QED
        BY <4>1, <4>2
    <3> QED
      BY <3>1, <3>2, Zenon
  <2>2. g = [t \in SUBSET (1 .. n) |-> g[t]]
    BY <1>6, Zenon
  <2> QED
    BY <1>2, <2>1, <2>2, Zenon
<1>8. F = [t \in SUBSET (DOMAIN ps) |-> IF t = {} THEN base ELSE step(Max(t), F[t \ {Max(t)}])]
  <2> HIDE DEF step
  <2> QED
    BY <1>7, Zenon
<1> HIDE DEF F
<1>9. F[{}] = base
  BY <1>3, <1>8
<1>10. ASSUME NEW t \in SUBSET (1 .. n), t # {}, F[t \ {Max(t)}] \in S
       PROVE  F[t] = G[<<Max(t), F[t \ {Max(t)}]>>]
  <2> HIDE DEF step
  <2>1. F[t] = step(Max(t), F[t \ {Max(t)}])
    BY <1>2, <1>8, <1>10, Zenon
  <2>2. Max(t) \in 1 .. n
    BY <1>2, <1>10, MaxIs, Zenon
  <2> QED
    BY <1>10, <2>1, <2>2
<1> HIDE DEF G
<1>11. PICK f \in [0 .. n -> S] : Traces(f, F, n, base, G)
  <2>1. FoldsIn(F, n, S, base, G)
    BY <1>9, <1>10, Zenon DEF FoldsIn
  <2> QED
    BY <1>2, <1>3, <1>5, <2>1, FoldSteps, Zenon
<1>12. f[0] = base /\ \A k \in 1 .. n : f[k] = step(k, f[k - 1])
  <2> HIDE DEF step
  <2>1. ASSUME NEW k \in 1 .. n PROVE f[k] = step(k, f[k - 1])
    <3>1. f[k] = G[<<k, f[k - 1]>>]
      BY <1>11 DEF Recursive, Traces
    <3>2. f[k - 1] \in S
      <4>1. k - 1 \in 0 .. n
        BY <1>2
      <4> QED
        BY <1>11, <4>1
    <3> QED
      BY <3>1, <3>2 DEF G
  <2> QED
    BY <1>11, <2>1 DEF Recursive, Traces
<1> QED
  BY <1>1, <1>2, <1>11, <1>12, Zenon DEF Traces, S, n, base, NoCommand, NextMade, Makes

\* It makes a command.
LEMMA ComandOf ==
  ASSUME NEW T, NEW ps \in Seq(T)
  PROVE  Comand(ps) \in Commands(T)
<1>1. PICK f \in [0 .. Len(ps) -> Commands(T)] : Makes(f, ps)
  BY ComandSteps, Zenon
<1>2. Len(ps) \in 0 .. Len(ps)
  BY LenProperties
<1>3. Comand(ps) = f[Len(ps)]
  BY <1>1, Zenon DEF Makes
<1>4. f[Len(ps)] \in Commands(T)
  <2> DEFINE C == Commands(T)
  <2> HIDE DEF C
  <2>1. f[Len(ps)] \in C
    BY <1>1, <1>2 DEF C
  <2> QED
    BY <2>1 DEF C
<1> QED
  BY <1>3, <1>4

LEMMA ComandIs ==
  ASSUME NEW T, NEW piece \in Seq(T)
  PROVE  add_comand(piece) \in Commands(T)
BY PartsSeq, ComandOf, Zenon DEF add_comand

Ops == {"||", "&&", ";", "|", "&"}
Delims == [kind : {"del"}, delim : Ops]

\* Commands with an operator between any two, and perhaps one at the end.
Alternates(cs, T) ==
  /\ cs \in Seq(Commands(T) \cup Delims)
  /\ \A i \in 1 .. Len(cs) : IF i % 2 = 1 THEN cs[i] \in Commands(T) ELSE cs[i] \in Delims

\* One more command.
LEMMA AlternatesAppend ==
  ASSUME NEW T, NEW cs, Alternates(cs, T), Len(cs) % 2 = 0, NEW c \in Commands(T)
  PROVE  Alternates(Append(cs, c), T)
<1> DEFINE E == Commands(T) \cup Delims
<1>1. cs \in Seq(E) /\ c \in E /\ Len(cs) \in Nat
  BY LenProperties DEF Alternates
<1> HIDE DEF E
<1>2. Append(cs, c) \in Seq(E) /\ Len(Append(cs, c)) = Len(cs) + 1
      /\ Append(cs, c)[Len(cs) + 1] = c /\ \A i \in 1 .. Len(cs) : Append(cs, c)[i] = cs[i]
  BY <1>1, AppendProperties
<1>3. ASSUME NEW i \in 1 .. Len(cs) + 1
      PROVE  IF i % 2 = 1 THEN Append(cs, c)[i] \in Commands(T) ELSE Append(cs, c)[i] \in Delims
  <2>1. CASE i = Len(cs) + 1
    <3>1. i % 2 = 1
      BY <1>1, <2>1
    <3> QED
      BY <1>2, <2>1, <3>1
  <2>2. CASE i \in 1 .. Len(cs)
    BY <1>2, <2>2 DEF Alternates
  <2> QED
    BY <1>1, <2>1, <2>2
<1> QED
  BY <1>2, <1>3 DEF Alternates, E

\* One more command with an operator.
LEMMA AlternatesPair ==
  ASSUME NEW T, NEW cs, Alternates(cs, T), Len(cs) % 2 = 0, NEW c \in Commands(T), NEW d \in Delims
  PROVE  Alternates(cs \o <<c, d>>, T) /\ Len(cs \o <<c, d>>) % 2 = 0
<1> DEFINE E == Commands(T) \cup Delims
<1>1. cs \in Seq(E) /\ c \in E /\ d \in E /\ Len(cs) \in Nat
  BY LenProperties DEF Alternates
<1> HIDE DEF E
<1>2. <<c, d>> \in Seq(E) /\ Len(<<c, d>>) = 2 /\ <<c, d>>[1] = c /\ <<c, d>>[2] = d
  BY <1>1
<1> DEFINE u == <<c, d>>
           v == cs \o u
<1> HIDE DEF u
<1>3. v \in Seq(E) /\ Len(v) = Len(cs) + 2
      /\ \A i \in 1 .. Len(cs) + 2 : v[i] = IF i <= Len(cs) THEN cs[i] ELSE u[i - Len(cs)]
  BY <1>1, <1>2, ConcatProperties DEF u
<1> HIDE DEF v
<1>4. ASSUME NEW i \in 1 .. Len(cs) + 2
      PROVE  IF i % 2 = 1 THEN v[i] \in Commands(T) ELSE v[i] \in Delims
  <2>1. CASE i = Len(cs) + 1
    <3>1. i % 2 = 1 /\ i - Len(cs) = 1 /\ ~(i <= Len(cs))
      BY <1>1, <2>1
    <3> QED
      BY <1>2, <1>3, <3>1 DEF u
  <2>2. CASE i = Len(cs) + 2
    <3>1. i % 2 # 1 /\ i - Len(cs) = 2 /\ ~(i <= Len(cs))
      BY <1>1, <2>2
    <3> QED
      BY <1>2, <1>3, <3>1 DEF u
  <2>3. CASE i \in 1 .. Len(cs)
    BY <1>1, <1>3, <2>3 DEF Alternates
  <2> QED
    BY <1>1, <2>1, <2>2, <2>3
<1>5. Len(v) % 2 = 0
  BY <1>1, <1>3
<1> QED
  BY <1>3, <1>4, <1>5 DEF Alternates, E, u, v

\* What Split has made of the first tokens: entities, and the piece it is in.
Halves(T) ==
  {a \in [cmds : Seq(Commands(T) \cup Delims), piece : Seq(T)] :
     Alternates(a.cmds, T) /\ Len(a.cmds) % 2 = 0}

\* What Split has made of s, but for the piece behind the last symbol.
Half(s) ==
  FoldLeft(LAMBDA acc, t :
             IF t \in Symbols
             THEN [cmds |-> acc.cmds \o <<add_comand(acc.piece), add_delim(t)>>, piece |-> <<>>]
             ELSE [acc EXCEPT !.piece = Append(@, t)],
           [cmds |-> <<>>, piece |-> <<>>], s)

\* Split, token by token.
Splits(f, s) ==
  /\ f[0] = [cmds |-> <<>>, piece |-> <<>>]
  /\ \A k \in 1 .. Len(s) :
       f[k] = IF s[k] \in Symbols
              THEN [cmds |-> f[k - 1].cmds \o <<add_comand(f[k - 1].piece), add_delim(s[k])>>,
                    piece |-> <<>>]
              ELSE [f[k - 1] EXCEPT !.piece = Append(@, s[k])]
  /\ Half(s) = f[Len(s)]
  /\ Split(s) = IF f[Len(s)].piece = <<>> THEN f[Len(s)].cmds
                ELSE Append(f[Len(s)].cmds, add_comand(f[Len(s)].piece))

LEMMA SplitSteps ==
  ASSUME NEW T, NEW s \in Seq(T)
  PROVE  \E f \in [0 .. Len(s) -> Halves(T)] : Splits(f, s)
<1> DEFINE n == Len(s)
           S == {a \in [cmds : Seq(Commands(T) \cup Delims), piece : Seq(T)] :
                   Alternates(a.cmds, T) /\ Len(a.cmds) % 2 = 0}
           base == [cmds |-> <<>>, piece |-> <<>>]
           step(x, c) == IF s[x] \in Symbols
                         THEN [cmds |-> c.cmds \o <<add_comand(c.piece), add_delim(s[x])>>, piece |-> <<>>]
                         ELSE [c EXCEPT !.piece = Append(@, s[x])]
           G == [xc \in (1 .. n) \X S |-> step(xc[1], xc[2])]
           F == CHOOSE f : f = [t \in SUBSET (DOMAIN s) |->
                  IF t = {} THEN base ELSE step(Max(t), f[t \ {Max(t)}])]
           done == F[DOMAIN s]
<1>1. Split(s) = IF done.piece = <<>> THEN done.cmds ELSE Append(done.cmds, add_comand(done.piece))
  BY DEF Split, FoldLeft, MapThenFoldSet
<1>a. Half(s) = done
  BY DEF Half, FoldLeft, MapThenFoldSet
<1>2. n \in Nat /\ DOMAIN s = 1 .. n /\ \A x \in 1 .. n : s[x] \in T
  BY LenProperties
<1>3. base \in S
  <2>1. <<>> \in Seq(Commands(T) \cup Delims) /\ <<>> \in Seq(T) /\ Len(<<>>) = 0
    BY EmptySeq
  <2>2. Alternates(<<>>, T) /\ Len(<<>>) % 2 = 0
    BY <2>1 DEF Alternates
  <2> QED
    BY <2>1, <2>2
<1>4. ASSUME NEW x \in 1 .. n, NEW c \in S PROVE step(x, c) \in S
  <2>1. c.cmds \in Seq(Commands(T) \cup Delims) /\ c.piece \in Seq(T)
        /\ Alternates(c.cmds, T) /\ Len(c.cmds) % 2 = 0 /\ c = [cmds |-> c.cmds, piece |-> c.piece]
    OBVIOUS
  <2>2. CASE s[x] \in Symbols
    <3>1. add_delim(s[x]) \in Delims
      BY <2>2 DEF add_delim, Symbols, Delimeter, Delims, Ops
    <3>2. add_comand(c.piece) \in Commands(T)
      BY <2>1, ComandIs
    <3> DEFINE v == c.cmds \o <<add_comand(c.piece), add_delim(s[x])>>
    <3>3. Alternates(v, T) /\ Len(v) % 2 = 0
      BY <2>1, <3>1, <3>2, AlternatesPair, Zenon
    <3>4. v \in Seq(Commands(T) \cup Delims) /\ <<>> \in Seq(T)
      BY <3>3, EmptySeq DEF Alternates
    <3>5. step(x, c) = [cmds |-> v, piece |-> <<>>]
      BY <2>2, Zenon
    <3> HIDE DEF v, step
    <3> QED
      BY <3>3, <3>4, <3>5
  <2>3. CASE s[x] \notin Symbols
    <3>1. Append(c.piece, s[x]) \in Seq(T)
      BY <1>2, <2>1, AppendProperties
    <3>2. step(x, c) = [c EXCEPT !.piece = Append(@, s[x])]
      BY <2>3, Zenon
    <3>3. step(x, c) = [cmds |-> c.cmds, piece |-> Append(c.piece, s[x])]
      <4> HIDE DEF S
      <4> QED
        BY <2>1, <3>2
    <3> HIDE DEF step
    <3> QED
      BY <2>1, <3>1, <3>3
  <2> QED
    BY <2>2, <2>3
<1>5. G \in [(1 .. n) \X S -> S]
  <2> HIDE DEF step, S, n
  <2>1. \A xc \in (1 .. n) \X S : step(xc[1], xc[2]) \in S
    BY <1>4
  <2> QED
    BY <2>1, Zenon
<1> HIDE DEF n, S, base
<1>6. PICK g \in [SUBSET (1 .. n) -> S] : Folding(g, n, base, G)
  BY <1>2, <1>3, <1>5, FoldExists, Zenon
<1>7. g = [t \in SUBSET (DOMAIN s) |-> IF t = {} THEN base ELSE step(Max(t), g[t \ {Max(t)}])]
  <2> HIDE DEF step
  <2>1. ASSUME NEW t \in SUBSET (1 .. n)
        PROVE  g[t] = IF t = {} THEN base ELSE step(Max(t), g[t \ {Max(t)}])
    <3>1. g[t] = IF t = {} THEN base ELSE G[<<Max(t), g[t \ {Max(t)}]>>]
      BY <1>6, Zenon DEF Folding
    <3>2. ASSUME t # {} PROVE G[<<Max(t), g[t \ {Max(t)}]>>] = step(Max(t), g[t \ {Max(t)}])
      <4>1. Max(t) \in 1 .. n
        BY <1>2, <3>2, MaxIs, Zenon
      <4>2. g[t \ {Max(t)}] \in S
        BY <1>6
      <4> QED
        BY <4>1, <4>2
    <3> QED
      BY <3>1, <3>2, Zenon
  <2>2. g = [t \in SUBSET (1 .. n) |-> g[t]]
    BY <1>6, Zenon
  <2> QED
    BY <1>2, <2>1, <2>2, Zenon
<1>8. F = [t \in SUBSET (DOMAIN s) |-> IF t = {} THEN base ELSE step(Max(t), F[t \ {Max(t)}])]
  <2> HIDE DEF step
  <2> QED
    BY <1>7, Zenon
<1> HIDE DEF F
<1>9. F[{}] = base
  BY <1>3, <1>8
<1>10. ASSUME NEW t \in SUBSET (1 .. n), t # {}, F[t \ {Max(t)}] \in S
       PROVE  F[t] = G[<<Max(t), F[t \ {Max(t)}]>>]
  <2> HIDE DEF step
  <2>1. F[t] = step(Max(t), F[t \ {Max(t)}])
    BY <1>2, <1>8, <1>10, Zenon
  <2>2. Max(t) \in 1 .. n
    BY <1>2, <1>10, MaxIs, Zenon
  <2> QED
    BY <1>10, <2>1, <2>2
<1> HIDE DEF G
<1>11. PICK f \in [0 .. n -> S] : Traces(f, F, n, base, G)
  <2>1. FoldsIn(F, n, S, base, G)
    BY <1>9, <1>10, Zenon DEF FoldsIn
  <2> QED
    BY <1>2, <1>3, <1>5, <2>1, FoldSteps, Zenon
<1>12. f[0] = base /\ \A k \in 1 .. n : f[k] = step(k, f[k - 1])
  <2> HIDE DEF step
  <2>1. ASSUME NEW k \in 1 .. n PROVE f[k] = step(k, f[k - 1])
    <3>1. f[k] = G[<<k, f[k - 1]>>]
      BY <1>11 DEF Recursive, Traces
    <3>2. f[k - 1] \in S
      <4>1. k - 1 \in 0 .. n
        BY <1>2
      <4> QED
        BY <1>11, <4>1
    <3> QED
      BY <3>1, <3>2 DEF G
  <2> QED
    BY <1>11, <2>1 DEF Recursive, Traces
<1>13. done = f[n]
  BY <1>2, <1>11 DEF Traces
<1> QED
  BY <1>1, <1>a, <1>11, <1>12, <1>13, Zenon DEF S, n, base, Halves, Splits

\* Half of one more token.
NextSplit(a, x) ==
  IF x \in Symbols
  THEN [cmds |-> a.cmds \o <<add_comand(a.piece), add_delim(x)>>, piece |-> <<>>]
  ELSE [a EXCEPT !.piece = Append(@, x)]

LEMMA HalfAppend ==
  ASSUME NEW T, NEW s \in Seq(T), NEW x \in T
  PROVE  Half(s) \in Halves(T) /\ Half(Append(s, x)) = NextSplit(Half(s), x)
<1> DEFINE q == Append(s, x)
           n == Len(s)
<1>1. /\ q \in Seq(T) /\ n \in Nat /\ Len(q) = n + 1 /\ q[n + 1] = x
      /\ \A k \in 1 .. n : q[k] = s[k] /\ k \in 1 .. n + 1
  BY AppendIs
<1> HIDE DEF q, n
<1>2. PICK f \in [0 .. Len(s) -> Halves(T)] : Splits(f, s)
  BY SplitSteps, Zenon
<1>3. PICK g \in [0 .. Len(q) -> Halves(T)] : Splits(g, q)
  BY <1>1, SplitSteps, Zenon
<1>4. f[n] = g[n]
  <2>1. ASSUME NEW k \in 1 .. n, f[k - 1] = g[k - 1] PROVE f[k] = g[k]
    <3>1. f[k] = NextSplit(f[k - 1], s[k])
      BY <1>2, Zenon DEF Splits, n, NextSplit
    <3>2. g[k] = NextSplit(g[k - 1], q[k])
      <4>1. k \in 1 .. Len(q)
        BY <1>1, Zenon
      <4> QED
        BY <1>3, <4>1, Zenon DEF Splits, NextSplit
    <3>3. q[k] = s[k]
      BY <1>1, Zenon
    <3> QED
      BY <2>1, <3>1, <3>2, <3>3, Zenon
  <2>2. f[0] = g[0]
    BY <1>2, <1>3, Zenon DEF Splits
  <2> QED
    BY <1>1, <2>1, <2>2, StepsAgree, Zenon
<1>5. g[n + 1] = NextSplit(g[n], x)
  <2>1. n + 1 \in 1 .. n + 1 /\ (n + 1) - 1 = n
    BY <1>1
  <2>2. g[n + 1] = NextSplit(g[(n + 1) - 1], q[n + 1])
    BY <1>1, <1>3, <2>1, Zenon DEF Splits, NextSplit
  <2> QED
    BY <1>1, <2>1, <2>2, Zenon
<1>6. Half(q) = g[n + 1] /\ Half(s) = f[n]
  BY <1>1, <1>2, <1>3, Zenon DEF Splits, n
<1>7. f[n] \in Halves(T)
  <2>1. n \in 0 .. n
    BY <1>1
  <2> DEFINE S == Halves(T)
  <2> HIDE DEF S
  <2>2. f[n] \in S
    BY <1>2, <2>1 DEF S, n
  <2> QED
    BY <2>2 DEF S
<1> QED
  BY <1>4, <1>5, <1>6, <1>7, Zenon DEF q

LEMMA HalfNone == Half(<<>>) = [cmds |-> <<>>, piece |-> <<>>]
<1>1. PICK f \in [0 .. Len(<<>>) -> Halves({})] : Splits(f, <<>>)
  BY EmptySeq, SplitSteps, Zenon
<1>2. Len(<<>>) = 0
  BY EmptySeq
<1> QED
  BY <1>1, <1>2, Zenon DEF Splits

LEMMA HalfIs ==
  ASSUME NEW T, NEW s \in Seq(T)
  PROVE  /\ Half(s) \in Halves(T) /\ Half(s).piece \in Seq(T)
         /\ Half(s).cmds \in Seq(Commands(T) \cup Delims)
<1>1. PICK f \in [0 .. Len(s) -> Halves(T)] : Splits(f, s)
  BY SplitSteps, Zenon
<1>2. Len(s) \in 0 .. Len(s)
  BY LenProperties
<1>3. Half(s) \in Halves(T)
  <2> DEFINE S == Halves(T)
  <2> HIDE DEF S
  <2>1. f[Len(s)] \in S
    BY <1>1, <1>2 DEF S
  <2> QED
    BY <1>1, <2>1, Zenon DEF S, Splits
<1> QED
  BY <1>3 DEF Halves

LEMMA NextIs ==
  ASSUME NEW T, NEW a \in Halves(T), NEW x
  PROVE  /\ x \in Symbols =>
              /\ NextSplit(a, x).cmds = a.cmds \o <<add_comand(a.piece), add_delim(x)>>
              /\ NextSplit(a, x).piece = <<>>
         /\ x \notin Symbols => /\ NextSplit(a, x).cmds = a.cmds
                               /\ NextSplit(a, x).piece = Append(a.piece, x)
<1>1. ASSUME x \in Symbols
      PROVE  /\ NextSplit(a, x).cmds = a.cmds \o <<add_comand(a.piece), add_delim(x)>>
             /\ NextSplit(a, x).piece = <<>>
  <2> DEFINE u == a.cmds \o <<add_comand(a.piece), add_delim(x)>>
  <2>1. NextSplit(a, x) = [cmds |-> u, piece |-> <<>>]
    BY <1>1, Zenon DEF NextSplit
  <2> HIDE DEF u
  <2>2. NextSplit(a, x).cmds = u /\ NextSplit(a, x).piece = <<>>
    BY ONLY <2>1
  <2> QED
    BY <2>2 DEF u
<1>2. ASSUME x \notin Symbols
      PROVE  NextSplit(a, x).cmds = a.cmds /\ NextSplit(a, x).piece = Append(a.piece, x)
  <2>1. NextSplit(a, x) = [a EXCEPT !.piece = Append(@, x)]
    BY <1>2, Zenon DEF NextSplit
  <2> QED
    BY <2>1 DEF Halves
<1> QED
  BY <1>1, <1>2

\* Blanks change nothing in what Half has made, but for those in the last piece.
LEMMA HalfOfParts ==
  ASSUME NEW T, NEW s \in Seq(T)
  PROVE  Half(parts(s)).cmds = Half(s).cmds /\ Half(parts(s)).piece = parts(Half(s).piece)
<1> DEFINE Good(q) == Half(parts(q)).cmds = Half(q).cmds /\ Half(parts(q)).piece = parts(Half(q).piece)
           Q == {q \in Seq(T) : Good(q)}
<1>1. <<>> \in Q
  <2>1. Half(<<>>).piece = <<>> /\ <<>> \in Seq(T)
    BY HalfNone, EmptySeq
  <2>2. Good(<<>>)
    BY <2>1, PartsNone, Zenon
  <2> QED
    BY <2>1, <2>2, Zenon
<1>2. ASSUME NEW q \in Q, NEW x \in T PROVE Append(q, x) \in Q
  <2> DEFINE a == Half(q)
             b == Half(parts(q))
             r == Append(q, x)
  <2>1. q \in Seq(T) /\ r \in Seq(T) /\ parts(q) \in Seq(T)
    BY AppendProperties, PartsSeq
  <2>2. b.cmds = a.cmds /\ b.piece = parts(a.piece)
    OBVIOUS
  <2>3. a \in Halves(T) /\ b \in Halves(T) /\ a.piece \in Seq(T)
    BY <2>1, HalfIs, Zenon
  <2>4. Half(r) = NextSplit(a, x)
    BY <2>1, HalfAppend, Zenon
  <2>5. x # Blank => Half(parts(r)) = NextSplit(b, x)
    BY <2>1, HalfAppend, PartsAppend, Zenon
  <2>6. x = Blank => Half(parts(r)) = b /\ x \notin Symbols
    <3>1. x = Blank => parts(r) = parts(q)
      BY <2>1, PartsAppend, Zenon
    <3>2. Blank \notin Symbols
      BY DEF Blank, Symbols
    <3> QED
      BY <3>1, <3>2, Zenon
  <2>7. parts(Append(a.piece, x)) = IF x = Blank THEN parts(a.piece) ELSE Append(parts(a.piece), x)
    BY <2>3, PartsAppend, Zenon
  <2>8. add_comand(b.piece) = add_comand(a.piece)
    <3>1. parts(b.piece) = parts(a.piece)
      BY <2>2, <2>3, PartsAre, Zenon
    <3> QED
      BY <3>1, Zenon DEF add_comand
  <2> HIDE DEF a, b, r
  <2>9. Half(parts(r)).cmds = Half(r).cmds /\ Half(parts(r)).piece = parts(Half(r).piece)
    <3>1. CASE x \in Symbols
      <4>1. /\ NextSplit(a, x).cmds = a.cmds \o <<add_comand(a.piece), add_delim(x)>>
            /\ NextSplit(b, x).cmds = b.cmds \o <<add_comand(b.piece), add_delim(x)>>
            /\ NextSplit(a, x).piece = <<>> /\ NextSplit(b, x).piece = <<>>
        BY <2>3, <3>1, NextIs, Zenon
      <4> QED
        BY <2>2, <2>4, <2>5, <2>6, <2>8, <3>1, <4>1, PartsNone, Zenon
    <3>2. CASE x \notin Symbols
      <4>1. /\ NextSplit(a, x).cmds = a.cmds /\ NextSplit(a, x).piece = Append(a.piece, x)
            /\ NextSplit(b, x).cmds = b.cmds /\ NextSplit(b, x).piece = Append(b.piece, x)
        BY <2>3, <3>2, NextIs, Zenon
      <4> QED
        BY <2>2, <2>4, <2>5, <2>6, <2>7, <4>1, Zenon
    <3> QED
      BY <3>1, <3>2
  <2> QED
    BY <2>1, <2>9, Zenon DEF r
<1>3. Good(s)
  <2> SUFFICES s \in Q
    OBVIOUS
  <2> HIDE DEF Good
  <2>1. Q \in SUBSET Seq(T)
    OBVIOUS
  <2> HIDE DEF Q
  <2> QED
    BY <1>1, <1>2, <2>1, Beginnings, Zenon
<1> QED
  BY <1>3

\* If the last piece is not blanks only, Split takes blanks for nothing.
LEMMA SplitOfParts ==
  ASSUME NEW T, NEW s \in Seq(T), Half(s).piece # <<>> => parts(Half(s).piece) # <<>>
  PROVE  Split(parts(s)) = Split(s)
<1> DEFINE a == Half(s)
           b == Half(parts(s))
<1>1. /\ Split(s) = IF a.piece = <<>> THEN a.cmds ELSE Append(a.cmds, add_comand(a.piece))
      /\ Split(parts(s)) = IF b.piece = <<>> THEN b.cmds ELSE Append(b.cmds, add_comand(b.piece))
  BY Zenon DEF Split, Half
<1>2. b.cmds = a.cmds /\ b.piece = parts(a.piece) /\ a.piece \in Seq(T)
  BY HalfOfParts, HalfIs, Zenon
<1>3. add_comand(b.piece) = add_comand(a.piece)
  <2>1. parts(b.piece) = parts(a.piece)
    BY <1>2, PartsAre, Zenon
  <2> QED
    BY <2>1, Zenon DEF add_comand
<1> HIDE DEF a, b
<1>4. a.piece # <<>> => parts(a.piece) # <<>>
  BY DEF a
<1>5. CASE a.piece = <<>>
  <2>1. b.piece = <<>>
    BY <1>2, <1>5, PartsNone, Zenon
  <2> QED
    BY <1>1, <1>2, <1>5, <2>1, Zenon
<1>6. CASE a.piece # <<>>
  BY <1>1, <1>2, <1>3, <1>4, <1>6, Zenon
<1> QED
  BY <1>5, <1>6

\* It leaves commands and operators in turn.
LEMMA SplitIs ==
  ASSUME NEW T, NEW s \in Seq(T)
  PROVE  Alternates(Split(s), T)
<1> DEFINE n == Len(s)
<1>0. PICK f \in [0 .. n -> Halves(T)] : Splits(f, s)
  BY SplitSteps, Zenon
<1>1. Split(s) = IF f[n].piece = <<>> THEN f[n].cmds ELSE Append(f[n].cmds, add_comand(f[n].piece))
  BY <1>0, Zenon DEF Splits
<1>2. n \in 0 .. n
  BY LenProperties
<1> HIDE DEF n
<1> DEFINE done == f[n]
<1>3. done.piece \in Seq(T) /\ Alternates(done.cmds, T) /\ Len(done.cmds) % 2 = 0
  BY <1>0, <1>2 DEF Halves
<1> HIDE DEF done
<1>4. add_comand(done.piece) \in Commands(T)
  BY <1>3, ComandIs, Zenon
<1>5. Alternates(Append(done.cmds, add_comand(done.piece)), T)
  BY <1>3, <1>4, AlternatesAppend, Zenon
<1> QED
  BY <1>1, <1>3, <1>5, Zenon DEF done

\* The entities of a line and their kinds, in terms of IsDelim.
LEMMA DelimIs ==
  ASSUME NEW T, NEW cs, Alternates(cs, T)
  PROVE  /\ DOMAIN cs = 1 .. Len(cs) /\ Len(cs) \in Nat
         /\ \A i \in Int : i % 2 = 1 => \A d : ~IsDelim(cs, i, d)
         /\ \A i \in 1 .. Len(cs) : i % 2 # 1 => cs[i].delim \in Ops /\ \A d : IsDelim(cs, i, d) <=> cs[i].delim = d
<1>1. cs \in Seq(Commands(T) \cup Delims) /\ DOMAIN cs = 1 .. Len(cs) /\ Len(cs) \in Nat
  BY LenProperties DEF Alternates
<1>2. ASSUME NEW i \in Int, NEW d, i % 2 = 1 PROVE ~IsDelim(cs, i, d)
  <2> SUFFICES ASSUME i \in 1 .. Len(cs) PROVE cs[i].kind # "del"
    BY <1>1 DEF IsDelim
  <2>1. cs[i] \in Commands(T)
    BY <1>2 DEF Alternates
  <2> QED
    BY <2>1 DEF Commands
<1>3. ASSUME NEW i \in 1 .. Len(cs), i % 2 # 1
      PROVE  cs[i].delim \in Ops /\ \A d : IsDelim(cs, i, d) <=> cs[i].delim = d
  <2>1. cs[i] \in Delims
    BY <1>3 DEF Alternates
  <2> QED
    BY <1>1, <2>1 DEF Delims, IsDelim
<1> QED
  BY <1>1, <1>2, <1>3

\* The commands around a |, and no others, have a pipe for a file.
Reads(cs) ==
  \A i \in 1 .. Len(cs) :
    i % 2 = 1 => /\ cs[i].infile = "pipe" <=> IsDelim(cs, i - 1, "|")
                 /\ cs[i].outfile = "pipe" <=> IsDelim(cs, i + 1, "|")

\* Redirected changes files of commands only.
LEMMA RedirectedIs ==
  ASSUME NEW T, NEW cs, Alternates(cs, T), NEW r, r = Redirected(cs)
  PROVE  /\ Alternates(r, T \cup {"pipe"}) /\ Len(r) = Len(cs)
         /\ "pipe" \notin T => Reads(r)
<1> DEFINE U == T \cup {"pipe"}
           out(c, i) == IF IsDelim(cs, i + 1, "|") THEN [c EXCEPT !.outfile = "pipe"] ELSE c
           in(c, i)  == IF IsDelim(cs, i - 1, "|") THEN [c EXCEPT !.infile = "pipe"] ELSE c
<1>1. /\ DOMAIN cs = 1 .. Len(cs) /\ Len(cs) \in Nat
      /\ \A i \in Int : i % 2 = 1 => \A d : ~IsDelim(cs, i, d)
      /\ \A i \in 1 .. Len(cs) : i % 2 # 1 => cs[i].delim \in Ops /\ \A d : IsDelim(cs, i, d) <=> cs[i].delim = d
  BY DelimIs
<1>2. r = [i \in 1 .. Len(cs) |-> out(in(cs[i], i), i)]
  BY <1>1, Zenon DEF Redirected
<1> HIDE DEF out, in
<1>3. ASSUME NEW i \in 1 .. Len(cs), i % 2 # 1 PROVE r[i] = cs[i] /\ r[i] \in Delims
  <2>1. (i + 1) % 2 = 1 /\ (i - 1) % 2 = 1 /\ i + 1 \in Int /\ i - 1 \in Int
    BY <1>1, <1>3
  <2>2. ~IsDelim(cs, i + 1, "|") /\ ~IsDelim(cs, i - 1, "|")
    BY <1>1, <2>1, Zenon
  <2>3. r[i] = cs[i]
    BY <1>2, <2>2, Zenon DEF out, in
  <2>4. cs[i] \in Delims
    BY <1>3 DEF Alternates
  <2> QED
    BY <2>3, <2>4
<1>4. ASSUME NEW i \in 1 .. Len(cs), i % 2 = 1
      PROVE  /\ r[i] \in Commands(U)
             /\ "pipe" \notin T => /\ r[i].infile = "pipe" <=> IsDelim(cs, i - 1, "|")
                                   /\ r[i].outfile = "pipe" <=> IsDelim(cs, i + 1, "|")
  <2> DEFINE c == cs[i]
             e == in(c, i)
  <2>1. r[i] = out(e, i)
    BY <1>2
  <2>2. c \in Commands(T)
    BY <1>4 DEF Alternates
  <2> HIDE DEF c
  <2>3. c \in Commands(U)
    <3>1. T \subseteq U
      OBVIOUS
    <3>2. Seq(T) \subseteq Seq(U)
      <4> SUFFICES ASSUME NEW x \in Seq(T) PROVE x \in Seq(U)
        OBVIOUS
      <4>1. Len(x) \in Nat /\ x \in [1 .. Len(x) -> T]
        BY LenProperties
      <4>2. x \in [1 .. Len(x) -> U]
        BY <4>1
      <4> QED
        BY <4>1, <4>2, SeqDef
    <3> QED
      BY <2>2, <3>1, <3>2 DEF Commands
  <2>4. /\ e \in Commands(U) /\ e.outfile = c.outfile
        /\ e.infile = IF IsDelim(cs, i - 1, "|") THEN "pipe" ELSE c.infile
    BY <2>3 DEF Commands, in
  <2> HIDE DEF e
  <2>5. /\ out(e, i) \in Commands(U) /\ out(e, i).infile = e.infile
        /\ out(e, i).outfile = IF IsDelim(cs, i + 1, "|") THEN "pipe" ELSE e.outfile
    BY <2>4 DEF Commands, out
  <2>6. "pipe" \notin T => c.infile # "pipe" /\ c.outfile # "pipe"
    BY <2>2 DEF Commands
  <2> QED
    BY <2>1, <2>4, <2>5, <2>6
<1>5. Len(r) = Len(cs) /\ DOMAIN r = 1 .. Len(cs)
  BY <1>1, <1>2
<1>6. Alternates(r, U)
  <2>1. \A i \in 1 .. Len(cs) : r[i] \in Commands(U) \cup Delims
    BY <1>3, <1>4
  <2>2. r \in [1 .. Len(cs) -> Commands(U) \cup Delims]
    BY <1>2, <2>1
  <2>3. r \in Seq(Commands(U) \cup Delims)
    <3> DEFINE E == Commands(U) \cup Delims
               n == Len(cs)
    <3>1. n \in Nat /\ r \in [1 .. n -> E]
      BY <1>1, <2>2
    <3> HIDE DEF E, n
    <3>2. r \in Seq(E)
      BY ONLY <3>1, SeqDef
    <3> QED
      BY <3>2 DEF E
  <2> HIDE DEF U
  <2>4. \A i \in 1 .. Len(cs) : IF i % 2 = 1 THEN r[i] \in Commands(U) ELSE r[i] \in Delims
    BY <1>3, <1>4, Zenon
  <2> QED
    BY <1>5, <2>3, <2>4, Zenon DEF Alternates
<1>7. ASSUME NEW i \in Int, NEW d PROVE IsDelim(r, i, d) <=> IsDelim(cs, i, d)
  <2>1. CASE i % 2 = 1
    BY <1>1, <1>6, <2>1, DelimIs, Zenon
  <2>2. CASE i % 2 # 1
    BY <1>1, <1>3, <1>5, <2>2 DEF IsDelim
  <2> QED
    BY <2>1, <2>2
<1>8. ASSUME "pipe" \notin T PROVE Reads(r)
  <2> SUFFICES ASSUME NEW i \in 1 .. Len(cs), i % 2 = 1
               PROVE  /\ r[i].infile = "pipe" <=> IsDelim(r, i - 1, "|")
                      /\ r[i].outfile = "pipe" <=> IsDelim(r, i + 1, "|")
    BY <1>5 DEF Reads
  <2>1. i - 1 \in Int /\ i + 1 \in Int
    OBVIOUS
  <2> QED
    BY <1>4, <1>7, <1>8, <2>1, Zenon
<1> QED
  BY <1>5, <1>6, <1>8 DEF U

\* What parse makes of a line with tokens of T.
Parses(s, T) ==
  /\ Alternates(parse(s).cmds, T \cup {"pipe"})
  /\ "pipe" \notin T => Reads(parse(s).cmds)

LEMMA ParseOf ==
  ASSUME NEW T, NEW s \in Seq(T), {"@", "$"} \subseteq T
  PROVE  Parses(s, T)
<1> DEFINE U == T \cup {"pipe"}
           cs == Split(Joined(s))
           r == Redirected(cs)
<1>1. Alternates(cs, T)
  <2>1. Joined(s) \in Seq(T)
    BY ReplaceIs DEF Joined
  <2> QED
    BY <2>1, SplitIs
<1>2. parse(s).cmds = IF IsDelim(cs, Len(cs), "&") THEN Front(r) ELSE r
  BY DEF parse
<1> HIDE DEF cs
<1>3. Alternates(r, U) /\ Len(r) = Len(cs) /\ ("pipe" \notin T => Reads(r))
  BY <1>1, RedirectedIs
<1>4. r \in Seq(Commands(U) \cup Delims) /\ Len(r) \in Nat /\ DOMAIN r = 1 .. Len(r)
  BY <1>3, LenProperties DEF Alternates
<1>5. ASSUME IsDelim(cs, Len(cs), "&")
      PROVE  Alternates(Front(r), U) /\ ("pipe" \notin T => Reads(Front(r)))
  <2> DEFINE f == Front(r)
             l == Len(r)
  <2>1. l \in Nat \ {0} /\ l % 2 # 1 /\ r[l] = cs[l] /\ cs[l].delim = "&"
    <3>1. l \in 1 .. Len(cs) /\ DOMAIN cs = 1 .. Len(cs)
      BY <1>1, <1>3, <1>4, <1>5, DelimIs DEF IsDelim
    <3>2. l % 2 # 1
      BY <1>1, <1>3, <1>4, <1>5, DelimIs
    <3>3. cs[l].delim = "&"
      BY <1>3, <1>5 DEF IsDelim
    <3>4. r[l] = cs[l]
      <4>1. (l + 1) % 2 = 1 /\ (l - 1) % 2 = 1 /\ l + 1 \in Int /\ l - 1 \in Int
        BY <1>4, <3>2
      <4>2. ~IsDelim(cs, l + 1, "|") /\ ~IsDelim(cs, l - 1, "|")
        BY <1>1, <4>1, DelimIs, Zenon
      <4> QED
        BY <3>1, <4>2 DEF Redirected
    <3> QED
      BY <1>4, <3>1, <3>2, <3>3, <3>4
  <2>2. f \in Seq(Commands(U) \cup Delims) /\ Len(f) = l - 1 /\ \A i \in 1 .. l - 1 : f[i] = r[i]
    <3> DEFINE E == Commands(U) \cup Delims
    <3>1. r \in Seq(E) /\ l \in Nat \ {0}
      BY <1>4, <2>1
    <3> HIDE DEF E, r
    <3>2. f = SubSeq(r, 1, l - 1)
      BY DEF Front
    <3> HIDE DEF f
    <3>3. \A i \in 1 .. l - 1 : r[i] \in E
      BY ONLY <3>1, LenProperties
    <3>a. 1 \in Int /\ l - 1 \in Int
      BY ONLY <3>1
    <3> DEFINE v == SubSeq(r, 1, l - 1)
    <3>b. /\ v \in Seq(E) /\ Len(v) = IF 1 <= l - 1 THEN ((l - 1) - 1) + 1 ELSE 0
          /\ \A i \in 1 .. ((l - 1) - 1) + 1 : v[i] = r[1 + i - 1]
      BY ONLY <3>a, <3>3, SubSeqProperties
    <3> HIDE DEF v
    <3>c. v \in Seq(E) /\ Len(v) = l - 1 /\ \A i \in 1 .. l - 1 : v[i] = r[i]
      <4> HIDE DEF l
      <4>1. \A i \in 1 .. l - 1 : i \in 1 .. ((l - 1) - 1) + 1 /\ 1 + i - 1 = i
        BY ONLY <3>1
      <4> QED
        BY ONLY <3>1, <3>b, <4>1
    <3>4. f \in Seq(E) /\ Len(f) = l - 1 /\ \A i \in 1 .. l - 1 : f[i] = r[i]
      BY <3>2, <3>c, Zenon DEF v
    <3> QED
      BY <3>4 DEF E
  <2> HIDE DEF f
  <2>3. Alternates(f, U)
    <3>1. \A i \in 1 .. l : IF i % 2 = 1 THEN r[i] \in Commands(U) ELSE r[i] \in Delims
      BY <1>3 DEF Alternates
    <3> HIDE DEF U, r, l
    <3>2. \A i \in 1 .. Len(f) : i \in 1 .. l /\ f[i] = r[i]
      BY ONLY <2>1, <2>2
    <3>3. \A i \in 1 .. Len(f) : IF i % 2 = 1 THEN f[i] \in Commands(U) ELSE f[i] \in Delims
      BY <3>1, <3>2, Zenon
    <3> QED
      BY <2>2, <3>3, Zenon DEF Alternates
  <2>4. ASSUME "pipe" \notin T PROVE Reads(f)
    <3> SUFFICES ASSUME NEW i \in 1 .. l - 1, i % 2 = 1
                 PROVE  /\ f[i].infile = "pipe" <=> IsDelim(f, i - 1, "|")
                        /\ f[i].outfile = "pipe" <=> IsDelim(f, i + 1, "|")
      BY <2>2 DEF Reads
    <3>1. i \in 1 .. l /\ f[i] = r[i]
      BY <2>1, <2>2
    <3>2. /\ r[i].infile = "pipe" <=> IsDelim(r, i - 1, "|")
          /\ r[i].outfile = "pipe" <=> IsDelim(r, i + 1, "|")
      BY <1>3, <2>4, <3>1 DEF Reads
    <3>3. DOMAIN f = 1 .. l - 1
      BY <2>2, LenProperties
    <3>4. ASSUME NEW j \in Int, j < l PROVE IsDelim(f, j, "|") <=> IsDelim(r, j, "|")
      BY <1>4, <2>1, <2>2, <3>3, <3>4, SMTT(30) DEF IsDelim
    <3>5. IsDelim(f, i - 1, "|") <=> IsDelim(r, i - 1, "|")
      BY <2>1, <3>4
    <3>6. IsDelim(f, i + 1, "|") <=> IsDelim(r, i + 1, "|")
      <4>1. CASE i + 1 < l
        BY <3>4, <4>1
      <4>2. CASE i + 1 = l
        BY <2>1, <3>3, <4>2 DEF IsDelim
      <4> QED
        BY <2>1, <4>1, <4>2
    <3> QED
      BY <3>1, <3>2, <3>5, <3>6
  <2> QED
    BY <2>3, <2>4 DEF f
<1> QED
  BY <1>2, <1>3, <1>5 DEF Parses

----------------------------------------------------------------------------
(* Pieces of blanks *)

\* There is no symbol at i or behind it.
Behind(s, i) == \A k \in DOMAIN s : i <= k => s[k] \notin Symbols

\* The last piece has a part, or blanks only.
HasPart(s) == \E j \in DOMAIN s : s[j] # Blank /\ Behind(s, j)
Bare(s) == ~HasPart(s) /\ \E i \in DOMAIN s : s[i] = Blank /\ Behind(s, i)

\* The pieces before it are not blanks only.
InCommand(s, i) == \E j \in DOMAIN s : s[j] # Blank /\ Together(s, i, j)
Filled(s) == \A i \in DOMAIN s : s[i] = Blank => InCommand(s, i) \/ Behind(s, i)

LEMMA Marked ==
  ASSUME NEW T, NEW s \in Seq(T)
  PROVE  BlanksInCommands(s) <=> Filled(s) /\ ~Bare(s)
<1> DEFINE n == Len(s)
<1>1. n \in Nat /\ DOMAIN s = 1 .. n
  BY LenProperties
<1> HIDE DEF n
<1>2. \A i, j, k \in 1 .. n : i <= k => j <= k \/ (i <= k /\ k <= j)
  BY ONLY <1>1
<1>3. \A i, j, k \in 1 .. n : (i <= k /\ k <= j) \/ (j <= k /\ k <= i) => i <= k \/ j <= k
  BY ONLY <1>1
<1>4. ASSUME NEW i \in 1 .. n, NEW j \in 1 .. n, Together(s, i, j), Behind(s, i) PROVE Behind(s, j)
  <2> SUFFICES ASSUME NEW k \in 1 .. n, j <= k PROVE s[k] \notin Symbols
    BY <1>1, Zenon DEF Behind
  <2>1. i <= k \/ (j <= k /\ k <= i)
    BY <1>2, Zenon
  <2> QED
    BY <1>1, <1>4, <2>1, Zenon DEF Behind, Together
<1>5. ASSUME NEW i \in 1 .. n, NEW j \in 1 .. n, Behind(s, i), Behind(s, j) PROVE Together(s, i, j)
  <2> SUFFICES ASSUME NEW k \in 1 .. n, (i <= k /\ k <= j) \/ (j <= k /\ k <= i)
               PROVE  s[k] \notin Symbols
    BY <1>1, Zenon DEF Together
  <2> QED
    BY <1>1, <1>5, Zenon DEF Behind
<1>6. BlanksInCommands(s) => Filled(s)
  BY Zenon DEF BlanksInCommands, Filled, InCommand
<1>7. ASSUME BlanksInCommands(s), Bare(s) PROVE FALSE
  <2>1. PICK i \in 1 .. n : s[i] = Blank /\ Behind(s, i)
    BY <1>1, <1>7, Zenon DEF Bare
  <2>2. PICK j \in 1 .. n : s[j] # Blank /\ Together(s, i, j)
    BY <1>1, <1>7, <2>1, Zenon DEF BlanksInCommands
  <2>3. Behind(s, j)
    BY <1>4, <2>1, <2>2, Zenon
  <2> QED
    BY <1>1, <1>7, <2>2, <2>3, Zenon DEF Bare, HasPart
<1>8. ASSUME Filled(s), ~Bare(s) PROVE BlanksInCommands(s)
  <2> SUFFICES ASSUME NEW i \in 1 .. n, s[i] = Blank, Behind(s, i) PROVE InCommand(s, i)
    BY <1>1, <1>8, Zenon DEF Filled, InCommand, BlanksInCommands
  <2>1. PICK j \in 1 .. n : s[j] # Blank /\ Behind(s, j)
    BY <1>1, <1>8, Zenon DEF Bare, HasPart
  <2>2. Together(s, i, j)
    BY <1>5, <2>1, Zenon
  <2> QED
    BY <1>1, <2>1, <2>2, Zenon DEF InCommand
<1> QED
  BY <1>6, <1>7, <1>8, Zenon

\* One more token.
LEMMA MarksAppend ==
  ASSUME NEW T, NEW p \in Seq(T), NEW x \in T, NEW q, q = Append(p, x)
  PROVE  /\ x \in Symbols => ~HasPart(q) /\ ~Bare(q) /\ (Filled(q) <=> Filled(p) /\ ~Bare(p))
         /\ x = Blank => (HasPart(q) <=> HasPart(p)) /\ (Bare(q) <=> ~HasPart(p)) /\ (Filled(q) <=> Filled(p))
         /\ x \notin Symbols \cup {Blank} => HasPart(q) /\ ~Bare(q) /\ (Filled(q) <=> Filled(p))
<1> DEFINE n == Len(p)
           m == n + 1
<1>1. /\ n \in Nat /\ q[m] = x /\ DOMAIN p = 1 .. n /\ DOMAIN q = 1 .. m
      /\ \A k \in 1 .. n : q[k] = p[k] /\ k \in 1 .. m
  BY AppendIs
<1>2. /\ m \in 1 .. m /\ m <= m /\ \A k \in 1 .. m : k <= m /\ (k \in 1 .. n \/ k = m)
      /\ \A k \in 1 .. n : ~(m <= k)
  BY ONLY <1>1
<1> HIDE DEF n, m
<1>3. Behind(q, m) <=> x \notin Symbols
  BY <1>1, <1>2, Zenon DEF Behind
<1>4. ASSUME NEW i \in 1 .. n PROVE Behind(q, i) <=> Behind(p, i) /\ x \notin Symbols
  BY <1>1, <1>2, Zenon DEF Behind
<1>5. ASSUME NEW i \in 1 .. n, NEW j \in 1 .. n PROVE Together(q, i, j) <=> Together(p, i, j)
  <2>1. ~(m <= i) /\ ~(m <= j)
    BY <1>2
  <2> QED
    BY <1>1, <1>2, <2>1, Zenon DEF Together
<1>6. ASSUME NEW i \in 1 .. n PROVE Together(q, i, m) <=> Behind(q, i)
  <2>1. ~(m <= i)
    BY <1>2
  <2> QED
    BY <1>1, <1>2, <2>1, Zenon DEF Together, Behind
<1>7. ASSUME NEW i \in 1 .. n
      PROVE  InCommand(q, i) <=> InCommand(p, i) \/ (x # Blank /\ Behind(q, i))
  BY <1>1, <1>2, <1>5, <1>6, Zenon DEF InCommand
<1>8. Blank \notin Symbols
  BY DEF Blank, Symbols
<1>9. ASSUME x \in Symbols PROVE ~HasPart(q) /\ ~Bare(q) /\ (Filled(q) <=> Filled(p) /\ ~Bare(p))
  <2>1. \A i \in 1 .. m : ~Behind(q, i)
    BY <1>2, <1>3, <1>4, <1>9, Zenon
  <2>2. \A i \in 1 .. n : InCommand(q, i) <=> InCommand(p, i)
    BY <1>1, <1>7, <2>1, Zenon
  <2>3. x # Blank
    BY <1>8, <1>9
  <2>4. Filled(q) <=> BlanksInCommands(p)
    BY <1>1, <1>2, <2>1, <2>2, <2>3, Zenon DEF Filled, BlanksInCommands, InCommand
  <2>5. ~HasPart(q) /\ ~Bare(q)
    BY <1>1, <2>1, Zenon DEF HasPart, Bare
  <2> QED
    BY <2>4, <2>5, Marked, Zenon
<1>10. ASSUME x \notin Symbols PROVE Filled(q) <=> Filled(p)
  <2>1. Behind(q, m)
    BY <1>3, <1>10
  <2>2. \A i \in 1 .. n : (InCommand(q, i) \/ Behind(q, i)) <=> (InCommand(p, i) \/ Behind(p, i))
    BY <1>4, <1>7, <1>10, Zenon
  <2> QED
    BY <1>1, <1>2, <2>1, <2>2, Zenon DEF Filled
<1>11. ASSUME x = Blank PROVE (HasPart(q) <=> HasPart(p)) /\ (Bare(q) <=> ~HasPart(p))
  <2>1. HasPart(q) <=> HasPart(p)
    BY <1>1, <1>2, <1>4, <1>8, <1>11, Zenon DEF HasPart
  <2> QED
    BY <1>1, <1>2, <1>3, <1>8, <1>11, <2>1, Zenon DEF Bare
<1>12. ASSUME x \notin Symbols \cup {Blank} PROVE HasPart(q) /\ ~Bare(q)
  BY <1>1, <1>2, <1>3, <1>12, Zenon DEF HasPart, Bare
<1> QED
  BY <1>8, <1>9, <1>10, <1>11, <1>12, Zenon

LEMMA NoMarks == ~HasPart(<<>>) /\ ~Bare(<<>>) /\ Filled(<<>>)
BY DEF HasPart, Bare, Filled

SameMarks(p, r) ==
  (HasPart(p) <=> HasPart(r)) /\ (Bare(p) <=> Bare(r)) /\ (Filled(p) <=> Filled(r))

\* replace of one more token.
NextReplaced(c, y, symbol, by) ==
  IF y = symbol /\ c # <<>> /\ Last(c) = symbol THEN Append(Front(c), by) ELSE Append(c, y)

LEMMA ReplaceAppend ==
  ASSUME NEW T, NEW s \in Seq(T), NEW x \in T, NEW symbol, NEW by \in T
  PROVE  replace(Append(s, x), symbol, by) = NextReplaced(replace(s, symbol, by), x, symbol, by)
<1> DEFINE q == Append(s, x)
           n == Len(s)
           r == replace(s, symbol, by)
           step(c, y) == NextReplaced(c, y, symbol, by)
<1>1. /\ q \in Seq(T) /\ n \in Nat /\ Len(q) = n + 1 /\ q[n + 1] = x
      /\ \A k \in 1 .. n : q[k] = s[k] /\ k \in 1 .. n + 1
  BY AppendIs
<1> HIDE DEF q, n
<1>2. PICK f \in [0 .. Len(s) -> Seq(T)] : Replaces(f, s, symbol, by)
  BY ReplaceSteps, Zenon
<1>3. PICK g \in [0 .. Len(q) -> Seq(T)] : Replaces(g, q, symbol, by)
  BY <1>1, ReplaceSteps, Zenon
<1>a. \A k \in 1 .. n : f[k] = step(f[k - 1], s[k])
  BY <1>2, Zenon DEF Replaces, n, NextReplaced
<1>b. \A k \in 1 .. n + 1 : g[k] = step(g[k - 1], q[k])
  BY <1>1, <1>3, Zenon DEF Replaces, NextReplaced
<1> HIDE DEF step
<1>4. f[n] = g[n]
  <2>1. \A k \in 1 .. n : f[k - 1] = g[k - 1] => f[k] = g[k]
    BY <1>1, <1>a, <1>b, Zenon
  <2>2. f[0] = g[0]
    BY <1>2, <1>3, Zenon DEF Replaces
  <2> QED
    BY <1>1, <2>1, <2>2, StepsAgree, Zenon
<1>5. g[n + 1] = step(g[n], x)
  <2>1. n + 1 \in 1 .. n + 1 /\ (n + 1) - 1 = n
    BY <1>1
  <2>2. g[n + 1] = step(g[(n + 1) - 1], q[n + 1])
    BY <1>b, <2>1, Zenon
  <2> QED
    BY <1>1, <2>1, <2>2, Zenon
<1>6. replace(q, symbol, by) = g[n + 1] /\ r = f[n]
  BY <1>1, <1>2, <1>3, Zenon DEF Replaces, n
<1> QED
  BY <1>4, <1>5, <1>6, Zenon DEF q, step

\* A symbol for two symbols leaves the pieces between them as they are.
LEMMA ReplaceMarks ==
  ASSUME NEW T, NEW s \in Seq(T), NEW symbol \in Symbols \cap T, NEW by \in Symbols \cap T
  PROVE  SameMarks(s, replace(s, symbol, by))
<1> DEFINE R(q) == replace(q, symbol, by)
           Q == {q \in Seq(T) : SameMarks(q, R(q))}
<1>1. <<>> \in Q
  <2>1. R(<<>>) = <<>>
    <3>1. PICK f \in [0 .. Len(<<>>) -> Seq(T)] : Replaces(f, <<>>, symbol, by)
      BY EmptySeq, ReplaceSteps, Zenon
    <3>2. Len(<<>>) = 0
      BY EmptySeq
    <3> QED
      BY <3>1, <3>2, Zenon DEF Replaces
  <2>2. <<>> \in Seq(T)
    BY EmptySeq
  <2> QED
    BY <2>1, <2>2, Zenon DEF SameMarks
<1>2. ASSUME NEW q \in Q, NEW x \in T PROVE Append(q, x) \in Q
  <2> DEFINE r == replace(q, symbol, by)
             p == Append(q, x)
             v == replace(p, symbol, by)
  <2>1. q \in Seq(T) /\ p \in Seq(T) /\ r \in Seq(T) /\ SameMarks(q, r)
    BY AppendProperties, ReplaceIs
  <2>2. v = IF x = symbol /\ r # <<>> /\ Last(r) = symbol THEN Append(Front(r), by) ELSE Append(r, x)
    <3>1. by \in T
      OBVIOUS
    <3>a. q \in Seq(T) /\ x \in T
      BY <2>1
    <3>2. replace(p, symbol, by) = NextReplaced(replace(q, symbol, by), x, symbol, by)
      BY ONLY <3>a, <3>1, ReplaceAppend
    <3> QED
      BY <3>2, Zenon DEF NextReplaced
  <2> HIDE DEF r, v
  <2>3. CASE x = symbol /\ r # <<>> /\ Last(r) = symbol
    <3> DEFINE u == Front(r)
    <3>1. u \in Seq(T) /\ r = Append(u, symbol) /\ v = Append(u, by)
      BY <2>1, <2>2, <2>3, FrontAndLast, Zenon
    <3> HIDE DEF u
    <3>2. ~HasPart(r) /\ ~Bare(r) /\ (Filled(r) <=> Filled(u) /\ ~Bare(u))
      BY <3>1, MarksAppend, Zenon
    <3>3. ~HasPart(v) /\ ~Bare(v) /\ (Filled(v) <=> Filled(u) /\ ~Bare(u))
      BY <3>1, MarksAppend, Zenon
    <3>4. ~HasPart(p) /\ ~Bare(p) /\ (Filled(p) <=> Filled(q) /\ ~Bare(q))
      BY <2>1, <2>3, MarksAppend, Zenon
    <3> QED
      BY <2>1, <3>2, <3>3, <3>4, Zenon DEF SameMarks, v
  <2>4. CASE ~(x = symbol /\ r # <<>> /\ Last(r) = symbol)
    <3>1. v = Append(r, x)
      BY <2>2, <2>4, Zenon
    <3>2. CASE x \in Symbols
      <4>1. ~HasPart(p) /\ ~Bare(p) /\ (Filled(p) <=> Filled(q) /\ ~Bare(q))
        BY <2>1, <3>2, MarksAppend, Zenon
      <4>2. ~HasPart(v) /\ ~Bare(v) /\ (Filled(v) <=> Filled(r) /\ ~Bare(r))
        BY <2>1, <3>1, <3>2, MarksAppend, Zenon
      <4> QED
        BY <2>1, <4>1, <4>2, Zenon DEF SameMarks, v
    <3>3. CASE x = Blank
      <4>1. (HasPart(p) <=> HasPart(q)) /\ (Bare(p) <=> ~HasPart(q)) /\ (Filled(p) <=> Filled(q))
        BY <2>1, <3>3, MarksAppend, Zenon
      <4>2. (HasPart(v) <=> HasPart(r)) /\ (Bare(v) <=> ~HasPart(r)) /\ (Filled(v) <=> Filled(r))
        BY <2>1, <3>1, <3>3, MarksAppend, Zenon
      <4> QED
        BY <2>1, <4>1, <4>2, Zenon DEF SameMarks, v
    <3>4. CASE x \notin Symbols \cup {Blank}
      <4>1. HasPart(p) /\ ~Bare(p) /\ (Filled(p) <=> Filled(q))
        BY <2>1, <3>4, MarksAppend, Zenon
      <4>2. HasPart(v) /\ ~Bare(v) /\ (Filled(v) <=> Filled(r))
        BY <2>1, <3>1, <3>4, MarksAppend, Zenon
      <4> QED
        BY <2>1, <4>1, <4>2, Zenon DEF SameMarks, v
    <3> QED
      BY <3>2, <3>3, <3>4
  <2>5. SameMarks(p, v)
    BY <2>3, <2>4 DEF v
  <2> QED
    BY <2>1, <2>5, Zenon DEF v
<1>3. s \in Q
  <2> HIDE DEF R
  <2>1. Q \in SUBSET Seq(T)
    OBVIOUS
  <2> HIDE DEF Q
  <2> QED
    BY <1>1, <1>2, <2>1, Beginnings, Zenon
<1> QED
  BY <1>3

LEMMA JoinedMarks ==
  ASSUME NEW T, {"|", "&", "@", "$"} \subseteq T, NEW s \in Seq(T)
  PROVE  BlanksInCommands(Joined(s)) => BlanksInCommands(s)
<1> DEFINE r == replace(s, "|", "@")
           t == replace(r, "&", "$")
<1>1. {"|", "&", "@", "$"} \subseteq Symbols \cap T
  BY DEF Symbols
<1>2. r \in Seq(T) /\ SameMarks(s, r)
  BY <1>1, ReplaceIs, ReplaceMarks
<1> HIDE DEF r
<1>3. t \in Seq(T) /\ SameMarks(r, t)
  BY <1>1, <1>2, ReplaceIs, ReplaceMarks
<1> HIDE DEF t
<1>4. Joined(s) = t
  BY Zenon DEF Joined, r, t
<1>5. /\ BlanksInCommands(t) <=> Filled(t) /\ ~Bare(t)
      /\ BlanksInCommands(s) <=> Filled(s) /\ ~Bare(s)
  BY <1>3, Marked, Zenon
<1> QED
  BY <1>2, <1>3, <1>4, <1>5, Zenon DEF SameMarks

\* Each command has something to run.
Runnable(cs) == \A i \in DOMAIN cs : cs[i].kind = "cmd" => cs[i].params # <<>>

LEMMA RunnableAppend ==
  ASSUME NEW E, NEW cs \in Seq(E), NEW e \in E
  PROVE  Runnable(Append(cs, e)) <=> Runnable(cs) /\ (e.kind = "cmd" => e.params # <<>>)
<1> DEFINE r == Append(cs, e)
           n == Len(cs)
<1>1. /\ n \in Nat /\ r[n + 1] = e /\ DOMAIN cs = 1 .. n /\ DOMAIN r = 1 .. n + 1
      /\ \A k \in 1 .. n : r[k] = cs[k] /\ k \in 1 .. n + 1
  BY ONLY cs \in Seq(E), e \in E, AppendIs
<1> HIDE DEF r, n
<1>2. n + 1 \in 1 .. n + 1 /\ \A k \in 1 .. n + 1 : k = n + 1 \/ k \in 1 .. n
  BY ONLY <1>1
<1>3. Runnable(r) <=> Runnable(cs) /\ (e.kind = "cmd" => e.params # <<>>)
  BY <1>1, <1>2, Zenon DEF Runnable
<1> QED
  BY <1>3 DEF r

\* A piece of blanks makes no command that could run.
LEMMA BlankPiece ==
  ASSUME NEW T, NEW p \in Seq(T)
  PROVE  /\ add_comand(p) \in Commands(T) /\ add_comand(p).kind = "cmd"
         /\ add_comand(p).params # <<>> => parts(p) # <<>>
<1>1. add_comand(p) \in Commands(T)
  BY ComandIs, Zenon
<1>2. Comand(<<>>).params = <<>>
  <2>1. PICK f \in [0 .. Len(<<>>) -> Commands(T)] : Makes(f, <<>>)
    BY EmptySeq, ComandSteps, Zenon
  <2>2. Len(<<>>) = 0
    BY EmptySeq
  <2>3. Comand(<<>>) = NoCommand
    BY <2>1, <2>2, Zenon DEF Makes
  <2>4. NoCommand.params = <<>>
    BY DEF NoCommand
  <2> QED
    BY <2>3, <2>4, Zenon
<1>3. add_comand(p).kind = "cmd"
  BY <1>1 DEF Commands
<1> QED
  BY <1>1, <1>2, <1>3, Zenon DEF add_comand

\* Two more elements, one by one.
LEMMA AppendTwo ==
  ASSUME NEW S, NEW s \in Seq(S), NEW a \in S, NEW b \in S
  PROVE  /\ s \o <<a, b>> \in Seq(S)
         /\ Append(Append(s, a), b) = s \o <<a, b>>
<1>1. Append(s, a) = s \o <<a>> /\ Append(s, a) \in Seq(S) /\ <<a>> \in Seq(S) /\ <<b>> \in Seq(S)
  BY AppendIsConcat, AppendProperties
<1>2. Append(Append(s, a), b) = (s \o <<a>>) \o <<b>>
  BY <1>1, AppendIsConcat
<1>3. (s \o <<a>>) \o <<b>> = s \o (<<a>> \o <<b>>)
  <2> DEFINE u == <<a>>
             v == <<b>>
  <2>1. s \in Seq(S) /\ u \in Seq(S) /\ v \in Seq(S)
    BY <1>1
  <2> HIDE DEF u, v
  <2>2. (s \o u) \o v = s \o (u \o v)
    <3>1. Associates(s, u, v)
      BY ONLY <2>1, Assoc, Zenon
    <3> QED
      BY <3>1, Zenon DEF Associates
  <2> QED
    BY <2>2 DEF u, v
<1>4. <<a>> \o <<b>> = <<a, b>> /\ <<a, b>> \in Seq(S)
  <2>1. <<a, b>> \in Seq(S)
    OBVIOUS
  <2>2. Len(<<a>>) = 1 /\ Len(<<b>>) = 1 /\ Len(<<a, b>>) = 2
        /\ <<a>>[1] = a /\ <<b>>[1] = b /\ <<a, b>>[1] = a /\ <<a, b>>[2] = b
    OBVIOUS
  <2> DEFINE u == <<a>>
             v == <<b>>
             w == <<a, b>>
  <2>3. u \in Seq(S) /\ v \in Seq(S) /\ w \in Seq(S)
    BY <1>1, <2>1
  <2> HIDE DEF u, v, w
  <2>4. /\ u \o v \in Seq(S) /\ Len(u \o v) = Len(u) + Len(v)
        /\ \A i \in 1 .. Len(u) + Len(v) : (u \o v)[i] = IF i <= Len(u) THEN u[i] ELSE v[i - Len(u)]
    BY ONLY <2>3, ConcatProperties
  <2>5. Len(u) = 1 /\ Len(v) = 1 /\ Len(w) = 2 /\ u[1] = a /\ v[1] = b /\ w[1] = a /\ w[2] = b
    BY <2>2 DEF u, v, w
  <2>6. u \o v = w
    BY <2>3, <2>4, <2>5, SeqEqual
  <2> QED
    BY <2>1, <2>6 DEF u, v, w
<1>5. s \o <<a, b>> \in Seq(S)
  <2> DEFINE u == <<a, b>>
  <2>1. u \in Seq(S)
    BY <1>4
  <2> HIDE DEF u
  <2>2. s \o u \in Seq(S)
    BY <2>1, ConcatProperties
  <2> QED
    BY <2>2 DEF u
<1> QED
  BY <1>2, <1>3, <1>4, <1>5, Zenon

\* a is what Half has made of s: its commands can run only if no piece before the
\* last is blank, and the last piece is blank if it has no parts.
MarkedBy(s, a) ==
  /\ HasPart(s) <=> parts(a.piece) # <<>>
  /\ Bare(s) <=> a.piece # <<>> /\ parts(a.piece) = <<>>
  /\ Runnable(a.cmds) => Filled(s)

LEMMA MarkedStep ==
  ASSUME NEW T, NEW q \in Seq(T), NEW x \in T, NEW a \in Halves(T), MarkedBy(q, a)
  PROVE  MarkedBy(Append(q, x), NextSplit(a, x))
<1> DEFINE p == Append(q, x)
           b == NextSplit(a, x)
<1>1. a.piece \in Seq(T) /\ a.cmds \in Seq(Commands(T) \cup Delims)
  BY DEF Halves
<1>2. CASE x \in Symbols
  <2> DEFINE c == add_comand(a.piece)
             d == add_delim(x)
             E == Commands(T) \cup Delims
  <2>1. ~HasPart(p) /\ ~Bare(p) /\ (Filled(p) <=> Filled(q) /\ ~Bare(q))
    BY <1>2, MarksAppend, Zenon
  <2>2. b.cmds = a.cmds \o <<c, d>> /\ b.piece = <<>>
    BY <1>2, NextIs, Zenon
  <2>3. c \in E /\ c.kind = "cmd" /\ (c.params # <<>> => parts(a.piece) # <<>>)
    BY <1>1, BlankPiece, Zenon
  <2>4. d \in E
    BY <1>2 DEF add_delim, Symbols, Delimeter, Delims, Ops
  <2>5. a.cmds \in Seq(E)
    BY <1>1
  <2> HIDE DEF c, d, E, b
  <2>6. b.cmds = Append(Append(a.cmds, c), d) /\ Append(a.cmds, c) \in Seq(E)
    <3>1. b.cmds = Append(Append(a.cmds, c), d)
      BY <2>2, <2>3, <2>4, <2>5, AppendTwo, Zenon
    <3>2. Append(a.cmds, c) \in Seq(E)
      BY ONLY <2>3, <2>5, AppendProperties
    <3> QED
      BY <3>1, <3>2, Zenon
  <2>7. Runnable(b.cmds) => Runnable(a.cmds) /\ c.params # <<>>
    BY <2>3, <2>4, <2>5, <2>6, RunnableAppend, Zenon
  <2>8. Runnable(b.cmds) => Filled(q) /\ ~Bare(q)
    BY <2>3, <2>7, Zenon DEF MarkedBy
  <2> QED
    BY <2>1, <2>2, <2>8, PartsNone, Zenon DEF MarkedBy, b
<1>3. CASE x \notin Symbols
  <2>1. b.cmds = a.cmds /\ b.piece = Append(a.piece, x)
    BY <1>3, NextIs, Zenon
  <2>2. b.piece # <<>>
    BY <1>1, <2>1, AppendProperties
  <2>3. parts(b.piece) = IF x = Blank THEN parts(a.piece) ELSE Append(parts(a.piece), x)
    BY <1>1, <2>1, PartsAppend, Zenon
  <2>4. Append(parts(a.piece), x) # <<>>
    <3>1. parts(a.piece) \in Seq(T)
      BY <1>1, PartsSeq, Zenon
    <3> QED
      BY <3>1, AppendProperties
  <2> HIDE DEF b
  <2>5. CASE x = Blank
    <3>1. (HasPart(p) <=> HasPart(q)) /\ (Bare(p) <=> ~HasPart(q)) /\ (Filled(p) <=> Filled(q))
      BY <2>5, MarksAppend, Zenon
    <3>2. MarkedBy(p, b)
      BY <2>1, <2>2, <2>3, <2>5, <3>1, Zenon DEF MarkedBy
    <3> QED
      BY <3>2 DEF b
  <2>6. CASE x # Blank
    <3>1. HasPart(p) /\ ~Bare(p) /\ (Filled(p) <=> Filled(q))
      BY <1>3, <2>6, MarksAppend, Zenon
    <3>2. MarkedBy(p, b)
      BY <2>1, <2>2, <2>3, <2>4, <2>6, <3>1, Zenon DEF MarkedBy
    <3> QED
      BY <3>2 DEF b
  <2> QED
    BY <2>5, <2>6
<1> QED
  BY <1>2, <1>3

LEMMA HalfMarks ==
  ASSUME NEW T, NEW s \in Seq(T)
  PROVE  MarkedBy(s, Half(s))
<1> DEFINE Q == {q \in Seq(T) : MarkedBy(q, Half(q))}
<1>1. <<>> \in Q
  <2>1. Half(<<>>).piece = <<>> /\ <<>> \in Seq(T)
    BY HalfNone, EmptySeq
  <2>2. MarkedBy(<<>>, Half(<<>>))
    BY <2>1, NoMarks, PartsNone, Zenon DEF MarkedBy
  <2> QED
    BY <2>1, <2>2, Zenon
<1>2. ASSUME NEW q \in Q, NEW x \in T PROVE Append(q, x) \in Q
  <2>1. q \in Seq(T) /\ Append(q, x) \in Seq(T) /\ MarkedBy(q, Half(q))
    BY AppendProperties
  <2>2. Half(q) \in Halves(T) /\ Half(Append(q, x)) = NextSplit(Half(q), x)
    BY <2>1, HalfAppend, Zenon
  <2>3. MarkedBy(Append(q, x), Half(Append(q, x)))
    BY <2>1, <2>2, MarkedStep, Zenon
  <2> QED
    BY <2>1, <2>3, Zenon
<1>3. s \in Q
  <2>1. Q \in SUBSET Seq(T)
    OBVIOUS
  <2> HIDE DEF Q
  <2> QED
    BY <1>1, <1>2, <2>1, Beginnings, Zenon
<1> QED
  BY <1>3

\* If every command of the line can run, no piece of it is blank, and Split takes
\* its blanks for nothing.
LEMMA SplitRuns ==
  ASSUME NEW T, NEW t \in Seq(T), Runnable(Split(t))
  PROVE  BlanksInCommands(t) /\ Split(parts(t)) = Split(t)
<1> DEFINE a == Half(t)
           c == add_comand(a.piece)
<1>1. a.piece \in Seq(T) /\ a.cmds \in Seq(Commands(T) \cup Delims) /\ MarkedBy(t, a)
  BY HalfIs, HalfMarks, Zenon
<1>2. Split(t) = IF a.piece = <<>> THEN a.cmds ELSE Append(a.cmds, c)
  BY Zenon DEF Split, Half
<1>3. c \in Commands(T) \cup Delims /\ c.kind = "cmd" /\ (c.params # <<>> => parts(a.piece) # <<>>)
  BY <1>1, BlankPiece, Zenon
<1> HIDE DEF a, c
<1>4. Runnable(a.cmds) /\ (a.piece # <<>> => parts(a.piece) # <<>>)
  <2>1. CASE a.piece = <<>>
    BY <1>2, <2>1, Zenon
  <2>2. CASE a.piece # <<>>
    BY <1>1, <1>2, <1>3, <2>2, RunnableAppend, Zenon
  <2> QED
    BY <2>1, <2>2
<1>5. Filled(t) /\ ~Bare(t)
  BY <1>1, <1>4, Zenon DEF MarkedBy
<1>6. Split(parts(t)) = Split(t)
  BY <1>4, SplitOfParts, Zenon DEF a
<1> QED
  BY <1>5, <1>6, Marked, Zenon

----------------------------------------------------------------------------
(* Parsing undone *)

\* What H makes of each element of q, joined.
Joins(q, H) == FlattenSeq([i \in DOMAIN q |-> H[q[i]]])

\* They are a sequence, and one more element comes behind the others.
JoinsWell(A, S, H) ==
  /\ Joins(<<>>, H) = <<>>
  /\ \A q \in Seq(A) : Joins(q, H) \in Seq(S)
  /\ \A q \in Seq(A), y \in A : Joins(Append(q, y), H) = Joins(q, H) \o H[y]

LEMMA JoinsIs ==
  ASSUME NEW A, NEW S, NEW H \in [A -> Seq(S)]
  PROVE  JoinsWell(A, S, H)
<1> DEFINE Q == Seq(S)
<1>1. Joins(<<>>, H) = <<>>
  <2>1. [i \in DOMAIN <<>> |-> H[<<>>[i]]] = <<>>
    OBVIOUS
  <2> QED
    BY <2>1, FlattenNone DEF Joins
<1>2. ASSUME NEW q \in Seq(A) PROVE Joins(q, H) \in Seq(S)
  <2> DEFINE n == Len(q)
             f == [i \in 1 .. n |-> H[q[i]]]
  <2>1. n \in Nat /\ DOMAIN q = 1 .. n /\ \A i \in 1 .. n : q[i] \in A
    BY LenProperties
  <2> HIDE DEF n, Q
  <2>2. f \in [1 .. n -> Q]
    BY <2>1 DEF Q
  <2> HIDE DEF f
  <2>3. f \in Seq(Q)
    BY <2>1, <2>2, SeqDef
  <2>4. FlattenSeq(f) \in Seq(S)
    BY <2>3, FlattenSeqType DEF Q
  <2> QED
    BY <2>1, <2>4, Zenon DEF Joins, f
<1>3. ASSUME NEW q \in Seq(A), NEW x \in A PROVE Joins(Append(q, x), H) = Joins(q, H) \o H[x]
  <2> DEFINE n == Len(q)
             r == Append(q, x)
             f == [i \in 1 .. n |-> H[q[i]]]
             g == [i \in 1 .. n + 1 |-> H[r[i]]]
  <2>1. n \in Nat /\ DOMAIN q = 1 .. n /\ \A i \in 1 .. n : q[i] \in A
    BY LenProperties
  <2>2. r \in Seq(A) /\ Len(r) = n + 1 /\ (\A i \in 1 .. n : r[i] = q[i]) /\ r[n + 1] = x
    BY AppendProperties
  <2> HIDE DEF r
  <2>3. DOMAIN r = 1 .. n + 1 /\ \A i \in 1 .. n + 1 : r[i] \in A
    BY <2>2, LenProperties
  <2> HIDE DEF n, Q
  <2>4. f \in [1 .. n -> Q] /\ g \in [1 .. n + 1 -> Q]
    BY <2>1, <2>3 DEF Q
  <2>5. \A i \in 1 .. n : g[i] = f[i]
    BY <2>1, <2>2
  <2>6. g[n + 1] = H[x]
    <3>1. n + 1 \in 1 .. n + 1
      BY <2>1
    <3> QED
      BY <2>2, <3>1
  <2> HIDE DEF f, g
  <2>7. FlattenSeq(g) = FlattenSeq(f) \o g[n + 1]
    BY <2>1, <2>4, <2>5, FlattenLast, Zenon DEF Q
  <2> QED
    BY <2>1, <2>3, <2>6, <2>7, Zenon DEF Joins, f, g, r
<1> QED
  BY <1>1, <1>2, <1>3, Zenon DEF JoinsWell

\* If by stands for two symbols, replace does not change what a line stands for.
LEMMA ReplaceKeeps ==
  ASSUME NEW T, NEW S, NEW H \in [T -> Seq(S)], NEW s \in Seq(T), NEW symbol \in T, NEW by \in T,
         H[by] = H[symbol] \o H[symbol]
  PROVE  Joins(replace(s, symbol, by), H) = Joins(s, H)
<1> DEFINE n == Len(s)
<1>1. PICK f \in [0 .. Len(s) -> Seq(T)] : Replaces(f, s, symbol, by)
  BY ReplaceSteps, Zenon
<1>2. n \in Nat /\ DOMAIN s = 1 .. n /\ \A i \in 1 .. n : s[i] \in T
  BY LenProperties
<1>3. /\ Joins(<<>>, H) = <<>>
      /\ \A q \in Seq(T) : Joins(q, H) \in Seq(S)
      /\ \A q \in Seq(T), x \in T : Joins(Append(q, x), H) = Joins(q, H) \o H[x]
  <2>1. JoinsWell(T, S, H)
    BY JoinsIs, Zenon
  <2> QED
    BY <2>1, Zenon DEF JoinsWell
<1> DEFINE Same(k) == Joins(f[k], H) = Joins(SubSeq(s, 1, k), H)
           K == {k \in 0 .. n : Same(k)}
<1>4. 0 \in K
  <2>1. SubSeq(s, 1, 0) = <<>> /\ f[0] = <<>>
    BY <1>1, SubSeqEmpty DEF Replaces
  <2>2. Joins(f[0], H) = Joins(SubSeq(s, 1, 0), H)
    BY <2>1, Zenon
  <2>3. 0 \in 0 .. n
    BY <1>2
  <2> QED
    BY <2>2, <2>3
<1>5. ASSUME NEW k \in 0 .. n - 1, k \in K PROVE k + 1 \in K
  <2> DEFINE x == s[k + 1]
             before == f[k]
             q == Front(before)
  <2>1. k + 1 \in 1 .. n /\ k + 1 \in 0 .. n /\ (k + 1) - 1 = k /\ k \in 0 .. n
    BY <1>2
  <2>2. x \in T /\ H[x] \in Seq(S)
    BY <1>2, <2>1
  <2>3. before \in Seq(T) /\ Joins(before, H) = Joins(SubSeq(s, 1, k), H)
    BY <1>1, <1>5, <2>1
  <2>4. SubSeq(s, 1, k) \in Seq(T) /\ SubSeq(s, 1, k + 1) = Append(SubSeq(s, 1, k), x)
    <3>1. 0 \in 0 .. n /\ k \in 0 .. n - 1 /\ 0 + 1 = 1
      BY <1>2
    <3>2. /\ SubSeq(s, 0 + 1, k) \in Seq(T)
          /\ SubSeq(s, 0 + 1, k + 1) = Append(SubSeq(s, 0 + 1, k), s[k + 1])
      BY <3>1, SubSeqGrows, ZenonT(40)
    <3> QED
      BY <3>1, <3>2, Zenon
  <2>5. Joins(SubSeq(s, 1, k + 1), H) = Joins(before, H) \o H[x]
    BY <1>3, <2>2, <2>3, <2>4, Zenon
  <2>6. f[k + 1] = IF x = symbol /\ before # <<>> /\ Last(before) = symbol
                   THEN Append(q, by) ELSE Append(before, x)
    <3>1. f[k + 1] = IF s[k + 1] = symbol /\ f[(k + 1) - 1] # <<>> /\ Last(f[(k + 1) - 1]) = symbol
              THEN Append(Front(f[(k + 1) - 1]), by) ELSE Append(f[(k + 1) - 1], s[k + 1])
      BY <1>1, <2>1, Zenon DEF Replaces
    <3> QED
      BY <2>1, <3>1, Zenon
  <2> HIDE DEF before, x
  <2>7. CASE x = symbol /\ before # <<>> /\ Last(before) = symbol
    <3>1. q \in Seq(T) /\ before = Append(q, symbol)
      BY <2>3, <2>7, FrontAndLast
    <3> HIDE DEF q
    <3>2. Joins(before, H) = Joins(q, H) \o H[symbol] /\ Joins(q, H) \in Seq(S)
      BY <1>3, <3>1, Zenon
    <3>3. Joins(f[k + 1], H) = Joins(q, H) \o (H[symbol] \o H[symbol])
      BY <1>3, <2>6, <2>7, <3>1, Zenon
    <3>4. Joins(q, H) \o (H[symbol] \o H[symbol]) = (Joins(q, H) \o H[symbol]) \o H[symbol]
      <4> DEFINE a == Joins(q, H)
                 b == H[symbol]
      <4>1. a \in Seq(S) /\ b \in Seq(S)
        BY <3>2
      <4> HIDE DEF a, b
      <4>2. (a \o b) \o b = a \o (b \o b)
        <5>1. Associates(a, b, b)
          BY ONLY <4>1, Assoc, Zenon
        <5> QED
          BY <5>1, Zenon DEF Associates
      <4> QED
        BY <4>2 DEF a, b
    <3>5. H[x] = H[symbol]
      BY <2>7, Zenon
    <3>6. Joins(SubSeq(s, 1, k + 1), H) = Joins(before, H) \o H[symbol]
      BY <2>5, <3>5, Zenon
    <3>7. Joins(f[k + 1], H) = Joins(SubSeq(s, 1, k + 1), H)
      BY <3>2, <3>3, <3>4, <3>6
    <3> QED
      BY <2>1, <3>7
  <2>8. CASE ~(x = symbol /\ before # <<>> /\ Last(before) = symbol)
    <3>1. Joins(f[k + 1], H) = Joins(before, H) \o H[x]
      BY <1>3, <2>2, <2>3, <2>6, <2>8, Zenon
    <3> QED
      BY <2>1, <2>5, <3>1
  <2> QED
    BY <2>7, <2>8
<1> HIDE DEF K
<1>6. n \in K
  <2>1. n \in 0 .. n
    BY <1>2
  <2> QED
    BY <1>2, <1>4, <1>5, <2>1, UpTo, Zenon
<1>7. Joins(f[n], H) = Joins(SubSeq(s, 1, n), H)
  BY <1>6 DEF K
<1>8. SubSeq(s, 1, n) = s /\ replace(s, symbol, by) = f[n]
  BY <1>1, SubSeqFull, Zenon DEF Replaces
<1> QED
  BY <1>7, <1>8

\* The symbols the parser writes are tokens.
Complete(T) == {"|", "&", "@", "$", "<", ">"} \subseteq T

\* @ and $ are || and &&.
Back(x) == CASE x = "@" -> <<"|", "|">> [] x = "$" -> <<"&", "&">> [] OTHER -> <<x>>
BackOf(T) == [x \in T |-> Back(x)]

LEMMA BackType ==
  ASSUME NEW T, Complete(T)
  PROVE  /\ BackOf(T) \in [T -> Seq(T)]
         /\ BackOf(T)["@"] = BackOf(T)["|"] \o BackOf(T)["|"]
         /\ BackOf(T)["$"] = BackOf(T)["&"] \o BackOf(T)["&"]
<1>1. ASSUME NEW x \in T PROVE Back(x) \in Seq(T)
  BY DEF Back, Complete
<1>2. BackOf(T) \in [T -> Seq(T)]
  BY <1>1, Zenon DEF BackOf
<1>3. Back("@") = Back("|") \o Back("|") /\ Back("$") = Back("&") \o Back("&")
  <2>1. <<"|", "|">> = <<"|">> \o <<"|">> /\ <<"&", "&">> = <<"&">> \o <<"&">>
    OBVIOUS
  <2> QED
    BY <2>1 DEF Back
<1>4. {"|", "&", "@", "$"} \subseteq T
  BY DEF Complete
<1> QED
  BY <1>2, <1>3, <1>4, Zenon DEF BackOf

\* Joining is undone.
LEMMA JoinedIs ==
  ASSUME NEW T, Complete(T), NEW s \in Seq(T)
  PROVE  Joined(s) \in Seq(T) /\ Joins(Joined(s), BackOf(T)) = Joins(s, BackOf(T))
<1> DEFINE H == BackOf(T)
           r == replace(s, "|", "@")
<1>1. "|" \in T /\ "@" \in T /\ "&" \in T /\ "$" \in T
  BY DEF Complete
<1>2. H \in [T -> Seq(T)] /\ H["@"] = H["|"] \o H["|"] /\ H["$"] = H["&"] \o H["&"]
  BY BackType
<1> HIDE DEF H
<1>3. r \in Seq(T) /\ Joins(r, H) = Joins(s, H)
  BY <1>1, <1>2, ReplaceIs, ReplaceKeeps, Zenon
<1> HIDE DEF r
<1>4. replace(r, "&", "$") \in Seq(T) /\ Joins(replace(r, "&", "$"), H) = Joins(r, H)
  BY <1>1, <1>2, <1>3, ReplaceIs, ReplaceKeeps, Zenon
<1> QED
  BY <1>3, <1>4, Zenon DEF Joined, r, H

\* A line without @ and $ stands for itself.
LEMMA BackKeeps ==
  ASSUME NEW T, Complete(T), NEW s \in Seq(T), \A i \in DOMAIN s : s[i] \notin {"@", "$"}
  PROVE  Joins(s, BackOf(T)) = s
<1> DEFINE n == Len(s)
           H == BackOf(T)
           K == {k \in 0 .. n : Joins(SubSeq(s, 1, k), H) = SubSeq(s, 1, k)}
<1>1. n \in Nat /\ DOMAIN s = 1 .. n /\ \A i \in 1 .. n : s[i] \in T
  BY LenProperties
<1>2. /\ Joins(<<>>, H) = <<>>
      /\ \A q \in Seq(T), x \in T : Joins(Append(q, x), H) = Joins(q, H) \o H[x]
  <2>1. H \in [T -> Seq(T)]
    BY BackType
  <2> HIDE DEF H
  <2>2. JoinsWell(T, T, H)
    BY <2>1, JoinsIs, Zenon
  <2> QED
    BY <2>2, Zenon DEF JoinsWell
<1>3. ASSUME NEW i \in 1 .. n PROVE H[s[i]] = <<s[i]>>
  BY <1>1 DEF BackOf, Back
<1> HIDE DEF H
<1>4. 0 \in K
  <2>1. SubSeq(s, 1, 0) = <<>>
    BY SubSeqEmpty
  <2>2. Joins(SubSeq(s, 1, 0), H) = SubSeq(s, 1, 0)
    BY <1>2, <2>1, Zenon
  <2>3. 0 \in 0 .. n
    BY <1>1
  <2> QED
    BY <2>2, <2>3
<1>5. ASSUME NEW k \in 0 .. n - 1, k \in K PROVE k + 1 \in K
  <2> DEFINE p == SubSeq(s, 1, k)
             x == s[k + 1]
  <2>1. k + 1 \in 1 .. n /\ k + 1 \in 0 .. n /\ 0 \in 0 .. n /\ 0 + 1 = 1
    BY <1>1
  <2>2. p \in Seq(T) /\ SubSeq(s, 1, k + 1) = Append(p, x) /\ x \in T
    BY <1>1, <2>1, SubSeqGrows, Zenon
  <2>3. Joins(p, H) = p
    BY <1>5
  <2>4. H[x] = <<x>>
    BY <1>3, <2>1
  <2> HIDE DEF p, x
  <2>5. Joins(Append(p, x), H) = Append(p, x)
    <3>1. Append(p, x) = p \o <<x>>
      BY <2>2, AppendIsConcat
    <3> QED
      BY <1>2, <2>2, <2>3, <2>4, <3>1, Zenon
  <2> QED
    BY <2>1, <2>2, <2>5 DEF p
<1> HIDE DEF K
<1>6. n \in K
  <2>1. n \in 0 .. n
    BY <1>1
  <2> QED
    BY <1>1, <1>4, <1>5, <2>1, UpTo, Zenon
<1> QED
  BY <1>6, SubSeqFull, Zenon DEF K, H

\* Whether blanks are left out before or behind it.
LEMMA BackParts ==
  ASSUME NEW T, Complete(T), NEW s \in Seq(T)
  PROVE  Joins(parts(s), BackOf(T)) = parts(Joins(s, BackOf(T)))
<1> DEFINE H == BackOf(T)
           Good(q) == Joins(parts(q), H) = parts(Joins(q, H))
           Q == {q \in Seq(T) : Good(q)}
<1>1. /\ Joins(<<>>, H) = <<>>
      /\ \A q \in Seq(T) : Joins(q, H) \in Seq(T)
      /\ \A q \in Seq(T), x \in T : Joins(Append(q, x), H) = Joins(q, H) \o H[x]
  <2>1. H \in [T -> Seq(T)]
    BY BackType
  <2> HIDE DEF H
  <2>2. JoinsWell(T, T, H)
    BY <2>1, JoinsIs, Zenon
  <2> QED
    BY <2>2, Zenon DEF JoinsWell
<1>2. ASSUME NEW w \in Seq(T), NEW x \in T
      PROVE  parts(w \o H[x]) = IF x = Blank THEN parts(w) ELSE parts(w) \o H[x]
  <2>1. parts(w) \in Seq(T)
    BY PartsSeq, Zenon
  <2>2. ASSUME x \notin {"@", "$"} PROVE parts(w \o H[x]) = IF x = Blank THEN parts(w) ELSE parts(w) \o H[x]
    <3>1. H[x] = <<x>>
      BY <2>2 DEF BackOf, Back
    <3>2. w \o <<x>> = Append(w, x) /\ parts(w) \o <<x>> = Append(parts(w), x)
      BY <2>1, AppendIsConcat, Zenon
    <3>3. parts(Append(w, x)) = IF x = Blank THEN parts(w) ELSE Append(parts(w), x)
      BY PartsAppend, Zenon
    <3> QED
      BY <3>1, <3>2, <3>3, Zenon
  <2>3. ASSUME x \in {"@", "$"} PROVE x # Blank /\ parts(w \o H[x]) = parts(w) \o H[x]
    <3>1. PICK y \in T : y # Blank /\ H[x] = <<y, y>>
      BY <2>3 DEF BackOf, Back, Complete, Blank
    <3>2. w \o <<y, y>> = Append(Append(w, y), y) /\ parts(w) \o <<y, y>> = Append(Append(parts(w), y), y)
      BY <2>1, AppendTwo, Zenon
    <3>3. Append(w, y) \in Seq(T)
      BY AppendProperties
    <3>4. parts(Append(w, y)) = Append(parts(w), y) /\ parts(Append(Append(w, y), y)) = Append(parts(Append(w, y)), y)
      BY <3>1, <3>3, PartsAppend, Zenon
    <3>5. x # Blank
      BY <2>3 DEF Blank
    <3> QED
      BY <3>1, <3>2, <3>4, <3>5, Zenon
  <2> QED
    BY <2>2, <2>3, Zenon
<1> HIDE DEF H
<1>3. <<>> \in Q
  <2>1. <<>> \in Seq(T)
    BY EmptySeq
  <2>2. Good(<<>>)
    BY <1>1, PartsNone, Zenon
  <2> QED
    BY <2>1, <2>2, Zenon
<1>4. ASSUME NEW q \in Q, NEW x \in T PROVE Append(q, x) \in Q
  <2> DEFINE p == Append(q, x)
             w == Joins(q, H)
  <2>1. q \in Seq(T) /\ p \in Seq(T) /\ parts(q) \in Seq(T)
    BY AppendProperties, PartsSeq
  <2>2. w \in Seq(T) /\ Joins(parts(q), H) = parts(w) /\ Joins(p, H) = w \o H[x]
    BY <1>1, <2>1, Zenon
  <2>3. parts(p) = IF x = Blank THEN parts(q) ELSE Append(parts(q), x)
    BY <2>1, PartsAppend, Zenon
  <2>4. Joins(Append(parts(q), x), H) = parts(w) \o H[x]
    BY <1>1, <2>1, <2>2, Zenon
  <2> HIDE DEF p, w
  <2>5. Joins(parts(p), H) = IF x = Blank THEN parts(w) ELSE parts(w) \o H[x]
    BY <2>2, <2>3, <2>4, Zenon
  <2>6. parts(Joins(p, H)) = IF x = Blank THEN parts(w) ELSE parts(w) \o H[x]
    BY <1>2, <2>2, Zenon
  <2> QED
    BY <2>1, <2>5, <2>6, Zenon DEF p
<1>5. s \in Q
  <2> HIDE DEF Good
  <2>1. Q \in SUBSET Seq(T)
    OBVIOUS
  <2> HIDE DEF Q
  <2> QED
    BY <1>3, <1>4, <2>1, Beginnings, Zenon
<1> QED
  BY <1>5 DEF H

\* The files of a command, as Unparse writes them.
In(c) == IF c.infile \in {"", "pipe"} THEN <<>> ELSE <<"<", c.infile>>
Out(c) == IF c.outfile \in {"", "pipe"} THEN <<>> ELSE <<">", c.outfile>>
Wanted(c) == IF c.wants = "" THEN <<>> ELSE <<c.wants>>

LEMMA WrittenIs ==
  ASSUME NEW T, Complete(T), NEW c \in Commands(T)
  PROVE  /\ Written(c) = (c.params \o In(c)) \o Out(c)
         /\ c.params \in Seq(T) /\ In(c) \in Seq(T) /\ Out(c) \in Seq(T) /\ Wanted(c) \in Seq(T)
         /\ c.params \o In(c) \in Seq(T) /\ Written(c) \in Seq(T)
         /\ In(c) = <<>> => c.params \o In(c) = c.params
         /\ Out(c) = <<>> => Written(c) = c.params \o In(c)
<1>1. c.params \in Seq(T) /\ In(c) \in Seq(T) /\ Out(c) \in Seq(T) /\ Wanted(c) \in Seq(T)
  <2>1. /\ c.params \in Seq(T) /\ c.infile \in T \cup {""} /\ c.outfile \in T \cup {""}
        /\ c.wants \in {"", "<", ">"} /\ "<" \in T /\ ">" \in T
    BY DEF Commands, Complete
  <2>2. \A a, b \in T : <<a, b>> \in Seq(T) /\ <<a>> \in Seq(T)
    OBVIOUS
  <2> QED
    BY <2>1, <2>2, EmptySeq DEF In, Out, Wanted
<1>2. Written(c) = (c.params \o In(c)) \o Out(c)
  <2>1. c.kind # "del"
    BY DEF Commands
  <2> QED
    BY <2>1, Zenon DEF Written, In, Out
<1> DEFINE u == In(c)
           v == Out(c)
           w == c.params
<1>3. u \in Seq(T) /\ v \in Seq(T) /\ w \in Seq(T)
  BY <1>1
<1> HIDE DEF u, v, w
<1>4. w \o u \in Seq(T)
  BY <1>3, ConcatProperties
<1>5. (w \o u) \o v \in Seq(T)
  BY <1>3, <1>4, ConcatProperties
<1>6. u = <<>> => w \o u = w
  BY <1>3, ConcatEmptySeq
<1>7. v = <<>> => (w \o u) \o v = w \o u
  BY <1>4, ConcatEmptySeq
<1> QED
  BY <1>1, <1>2, <1>4, <1>5, <1>6, <1>7, Zenon DEF u, v, w

NoSymbols(p) == \A i \in DOMAIN p : p[i] \notin Symbols

\* What add_comand has made of the first k tokens of a piece.
TextOf(c, p, k) == Written(c) \o Wanted(c) = SubSeq(p, 1, k)
PlaceOf(c, p, k) ==
  /\ c.wants # "" => k >= 1 /\ p[k] = c.wants /\ c.outfile = "" /\ (c.wants = "<" => c.infile = "")
  /\ c.infile # "" => c.infile # "pipe" /\ \E i \in 1 .. k : p[i] = "<"
  /\ c.wants = "" /\ c.infile # "" /\ c.outfile = "" => k >= 2 /\ p[k - 1] = "<"
  /\ c.outfile # "" => c.outfile # "pipe" /\ c.wants = "" /\ k >= 2 /\ p[k - 1] = ">"

\* What may come next.
MayFollow(c, x) ==
  /\ c.wants # "" => IsFile(x) /\ c.outfile = "" /\ (c.wants = "<" => c.infile = "")
  /\ c.wants = "" => c.outfile = "" /\ (c.infile # "" => x = ">")

LEMMA MayFollowIs ==
  ASSUME NEW T, NEW p \in Seq(T), FilesInPlace(p), NoSymbols(p),
         NEW k \in 0 .. Len(p) - 1, NEW c \in Commands(T), PlaceOf(c, p, k)
  PROVE  MayFollow(c, p[k + 1])
<1>1. Len(p) \in Nat /\ DOMAIN p = 1 .. Len(p) /\ k \in Nat /\ k + 1 \in DOMAIN p
  BY LenProperties
<1>a. /\ k >= 1 => k \in DOMAIN p
      /\ k >= 2 => k - 1 \in DOMAIN p /\ (k - 1) + 2 = k + 1
  BY ONLY <1>1
<1>2. c.wants \in {"", "<", ">"}
  BY DEF Commands
<1>3. \A i \in DOMAIN p :
        p[i] \in {"<", ">"} =>
          /\ i + 1 \in DOMAIN p /\ IsFile(p[i + 1])
          /\ i + 2 \in DOMAIN p => p[i] = "<" /\ p[i + 2] = ">"
  BY Zenon DEF FilesInPlace, NoSymbols, Redirects
<1>4. ASSUME c.wants # ""
      PROVE  IsFile(p[k + 1]) /\ c.outfile = "" /\ (c.wants = "<" => c.infile = "")
  <2>1. k >= 1 /\ p[k] = c.wants /\ c.outfile = "" /\ (c.wants = "<" => c.infile = "")
    BY <1>4 DEF PlaceOf
  <2>2. k \in DOMAIN p /\ p[k] \in {"<", ">"}
    BY <1>2, <1>4, <1>a, <2>1, Zenon
  <2> QED
    BY <1>3, <2>1, <2>2, Zenon
<1>5. ASSUME c.wants = "" PROVE c.outfile = ""
  <2> SUFFICES ASSUME c.outfile # "" PROVE FALSE
    OBVIOUS
  <2>1. k >= 2 /\ p[k - 1] = ">"
    BY DEF PlaceOf
  <2>2. k - 1 \in DOMAIN p /\ (k - 1) + 2 = k + 1
    BY <1>a, <2>1, Zenon
  <2>3. p[k - 1] \in {"<", ">"} /\ p[k - 1] # "<"
    BY <2>1
  <2> QED
    BY <1>1, <1>3, <2>2, <2>3
<1>6. ASSUME c.wants = "", c.infile # "" PROVE p[k + 1] = ">"
  <2>1. k >= 2 /\ p[k - 1] = "<"
    BY <1>5, <1>6 DEF PlaceOf
  <2>2. k - 1 \in DOMAIN p /\ (k - 1) + 2 = k + 1
    BY <1>a, <2>1, Zenon
  <2>3. p[k - 1] \in {"<", ">"}
    BY <2>1
  <2> QED
    BY <1>1, <1>3, <2>2, <2>3
<1> QED
  BY <1>4, <1>5, <1>6, Zenon DEF MayFollow

LEMMA PlaceStep ==
  ASSUME NEW T, NEW p \in Seq(T), NEW k \in 0 .. Len(p) - 1, NEW c \in Commands(T),
         PlaceOf(c, p, k), MayFollow(c, p[k + 1])
  PROVE  PlaceOf(NextMade(c, p[k + 1]), p, k + 1)
<1> DEFINE x == p[k + 1]
           d == NextMade(c, x)
<1>1. k \in Nat /\ (k + 1) - 1 = k /\ k + 1 \in 1 .. k + 1 /\ k \in 0 .. k + 1
  BY LenProperties
<1>2. c.wants \in {"", "<", ">"}
  BY DEF Commands
<1>3. /\ c.wants # "" => k >= 1 /\ p[k] = c.wants /\ c.outfile = "" /\ (c.wants = "<" => c.infile = "")
      /\ c.infile # "" => c.infile # "pipe" /\ \E i \in 1 .. k : p[i] = "<"
      /\ c.wants # "" => x # "" /\ x # "pipe"
      /\ c.wants = "" => c.outfile = "" /\ (c.infile # "" => x = ">")
  BY Zenon DEF PlaceOf, MayFollow, IsFile
<1>4. c.infile # "" => c.infile # "pipe" /\ \E i \in 1 .. k + 1 : p[i] = "<"
  <2>1. \A i \in 1 .. k : i \in 1 .. k + 1
    BY ONLY <1>1
  <2> QED
    BY <1>3, <2>1, Zenon
<1>5. CASE c.wants = "<"
  <2>1. d.infile = x /\ d.wants = "" /\ d.outfile = ""
    BY <1>3, <1>5 DEF NextMade, Commands
  <2> HIDE DEF d, x
  <2>2. k \in 1 .. k + 1 /\ k + 1 >= 2 /\ p[(k + 1) - 1] = "<"
    <3>1. k >= 1 /\ p[k] = "<"
      BY <1>3, <1>5
    <3> QED
      BY <1>1, <3>1
  <2>3. PlaceOf(d, p, k + 1)
    <3>1. \E i \in 1 .. k + 1 : p[i] = "<"
      BY <1>1, <2>2
    <3>2. x # "" /\ x # "pipe"
      BY <1>3, <1>5
    <3> QED
      BY <2>1, <2>2, <3>1, <3>2, Zenon DEF PlaceOf
  <2> QED
    BY <2>3 DEF d, x
<1>6. CASE c.wants = ">"
  <2>1. d.outfile = x /\ d.wants = "" /\ d.infile = c.infile
    BY <1>3, <1>6 DEF NextMade, Commands
  <2> HIDE DEF d, x
  <2>2. k + 1 >= 2 /\ p[(k + 1) - 1] = ">"
    <3>1. k >= 1 /\ p[k] = ">"
      BY <1>3, <1>6
    <3> QED
      BY <1>1, <3>1
  <2>3. PlaceOf(d, p, k + 1)
    <3>1. x # "" /\ x # "pipe"
      BY <1>3, <1>6
    <3> QED
      BY <1>4, <2>1, <2>2, <3>1, Zenon DEF PlaceOf
  <2> QED
    BY <2>3 DEF d, x
<1>7. CASE c.wants = "" /\ x \in {"<", ">"}
  <2>1. d.outfile = c.outfile /\ d.infile = c.infile /\ d.wants = x
    BY <1>7 DEF NextMade, Commands
  <2> HIDE DEF d
  <2>2. PlaceOf(d, p, k + 1)
    <3>1. d.outfile = "" /\ (x = "<" => d.infile = "") /\ x # ""
      BY <1>3, <1>7, <2>1
    <3>2. k + 1 >= 1 /\ p[k + 1] = d.wants
      BY <1>1, <2>1 DEF x
    <3> QED
      BY <1>4, <2>1, <3>1, <3>2, Zenon DEF PlaceOf
  <2> QED
    BY <2>2 DEF d
<1>8. CASE c.wants = "" /\ x \notin {"<", ">"}
  <2>1. d.outfile = c.outfile /\ d.infile = c.infile /\ d.wants = ""
    BY <1>8 DEF NextMade, Commands
  <2>2. d.outfile = "" /\ d.infile = ""
    BY <1>3, <1>8, <2>1
  <2> HIDE DEF d
  <2>3. PlaceOf(d, p, k + 1)
    BY <2>1, <2>2 DEF PlaceOf
  <2> QED
    BY <2>3 DEF d
<1> QED
  BY <1>2, <1>5, <1>6, <1>7, <1>8

LEMMA TextStep ==
  ASSUME NEW T, Complete(T), NEW c \in Commands(T), NEW x \in T, MayFollow(c, x),
         NEW d \in Commands(T), d = NextMade(c, x)
  PROVE  Written(d) \o Wanted(d) = Append(Written(c) \o Wanted(c), x)
<1> DEFINE base == c.params \o In(c)
           before == Written(c) \o Wanted(c)
<1>1. /\ Written(c) = base \o Out(c)
      /\ c.params \in Seq(T) /\ In(c) \in Seq(T) /\ Out(c) \in Seq(T) /\ Wanted(c) \in Seq(T)
      /\ base \in Seq(T) /\ Written(c) \in Seq(T)
      /\ In(c) = <<>> => base = c.params
      /\ Out(c) = <<>> => Written(c) = base
  BY WrittenIs, Zenon
<1>2. /\ Written(d) = (d.params \o In(d)) \o Out(d)
      /\ Written(d) \in Seq(T)
      /\ In(d) = <<>> => d.params \o In(d) = d.params
      /\ Out(d) = <<>> => Written(d) = d.params \o In(d)
  BY WrittenIs, Zenon
<1>3. \A w \in Seq(T) : w \o <<>> = w /\ w \o <<x>> = Append(w, x)
  BY ConcatEmptySeq, AppendIsConcat
<1>4. c.wants \in {"", "<", ">"} /\ "<" \in T /\ ">" \in T
  BY DEF Commands, Complete
<1>5. \A w \in Seq(T), a \in T : w \o <<a, x>> = Append(Append(w, a), x) /\ w \o <<a>> = Append(w, a)
  BY AppendTwo, AppendIsConcat
<1>6. /\ c.wants # "" => x \notin {"<", ">", "", "pipe"} /\ c.outfile = "" /\ (c.wants = "<" => c.infile = "")
      /\ c.wants = "" => c.outfile = "" /\ (c.infile # "" => x = ">")
  BY Zenon DEF MayFollow, IsFile
<1>7. c.outfile = "" /\ Out(c) = <<>> /\ Written(c) = base
  BY <1>1, <1>6, Zenon DEF Out
<1>8. CASE c.wants = "<"
  <2>1. d.infile = x /\ d.wants = "" /\ d.params = c.params /\ d.outfile = ""
    BY <1>6, <1>8 DEF NextMade, Commands
  <2>2. In(c) = <<>> /\ Wanted(c) = <<"<">>
    BY <1>6, <1>8 DEF In, Wanted
  <2>3. In(d) = <<"<", x>> /\ Out(d) = <<>> /\ Wanted(d) = <<>>
    BY <1>6, <1>8, <2>1 DEF In, Out, Wanted
  <2>4. before = Append(c.params, "<")
    BY <1>1, <1>4, <1>5, <1>7, <2>2, Zenon
  <2>5. Written(d) = c.params \o <<"<", x>>
    BY <1>2, <2>1, <2>3, Zenon
  <2> HIDE DEF base, before
  <2>6. c.params \o <<"<", x>> = Append(Append(c.params, "<"), x)
    BY <1>1, <1>4, <1>5, Zenon
  <2>7. Written(d) = Append(before, x)
    BY <2>4, <2>5, <2>6, Zenon
  <2> QED
    BY <1>2, <1>3, <2>3, <2>7, Zenon DEF before
<1>9. CASE c.wants = ">"
  <2>1. d.outfile = x /\ d.wants = "" /\ d.params = c.params /\ d.infile = c.infile
    BY <1>9 DEF NextMade, Commands
  <2>2. Wanted(c) = <<">">>
    BY <1>9 DEF Wanted
  <2>3. In(d) = In(c) /\ Out(d) = <<">", x>> /\ Wanted(d) = <<>>
    BY <1>6, <1>9, <2>1 DEF In, Out, Wanted
  <2>4. before = Append(base, ">")
    BY <1>1, <1>4, <1>5, <1>7, <2>2, Zenon
  <2>5. Written(d) = base \o <<">", x>>
    BY <1>2, <2>1, <2>3, Zenon
  <2>6. Written(d) = Append(before, x)
    BY <1>1, <1>4, <1>5, <2>4, <2>5, ZenonT(40)
  <2> QED
    BY <1>2, <1>3, <2>3, <2>6, Zenon
<1>10. ASSUME c.wants = "" PROVE before = base
  BY <1>1, <1>3, <1>7, <1>10, Zenon DEF Wanted
<1>11. CASE c.wants = "" /\ x \in {"<", ">"}
  <2>1. d.outfile = c.outfile /\ d.infile = c.infile /\ d.params = c.params /\ d.wants = x
    BY <1>11 DEF NextMade, Commands
  <2>2. In(d) = In(c) /\ Out(d) = <<>> /\ Wanted(d) = <<x>>
    BY <1>7, <1>11, <2>1 DEF In, Out, Wanted
  <2>3. Written(d) = base
    BY <1>2, <2>1, <2>2, Zenon
  <2>4. Written(d) \o Wanted(d) = Append(base, x)
    BY <1>1, <1>3, <2>2, <2>3, Zenon
  <2> QED
    BY <1>10, <1>11, <2>4, Zenon
<1>12. CASE c.wants = "" /\ x \notin {"<", ">"}
  <2>1. d.outfile = "" /\ d.infile = "" /\ d.params = Append(c.params, x) /\ d.wants = ""
    BY <1>6, <1>12 DEF NextMade, Commands
  <2>2. In(c) = <<>> /\ In(d) = <<>> /\ Out(d) = <<>> /\ Wanted(d) = <<>>
    BY <1>6, <1>12, <2>1 DEF In, Out, Wanted
  <2>3. before = c.params
    BY <1>1, <1>10, <1>12, <2>2, Zenon
  <2>4. Written(d) = Append(before, x)
    BY <1>2, <2>1, <2>2, <2>3, Zenon
  <2> QED
    BY <1>2, <1>3, <2>2, <2>4, Zenon
<1> QED
  BY <1>4, <1>8, <1>9, <1>11, <1>12

\* Comand is undone.
LEMMA ComandUndone ==
  ASSUME NEW T, Complete(T), NEW p \in Seq(T), FilesInPlace(p), NoSymbols(p), NEW c, c = Comand(p)
  PROVE  /\ c \in Commands(T) /\ Written(c) = p
         /\ c.infile # "" => \E i \in DOMAIN p : p[i] = "<"
         /\ c.outfile # "" => Len(p) >= 2 /\ p[Len(p) - 1] = ">"
<1> DEFINE n == Len(p)
           C == Commands(T)
<1>1. PICK f \in [0 .. Len(p) -> Commands(T)] : Makes(f, p)
  BY ComandSteps, Zenon
<1>2. n \in Nat /\ DOMAIN p = 1 .. n
  BY LenProperties
<1> HIDE DEF C
<1> DEFINE K == {k \in 0 .. n : TextOf(f[k], p, k) /\ PlaceOf(f[k], p, k)}
<1>3. 0 \in K
  <2>1. f[0] = NoCommand
    BY <1>1, Zenon DEF Makes
  <2>2. SubSeq(p, 1, 0) = <<>>
    BY SubSeqEmpty
  <2>3. Written(NoCommand) = <<>> /\ Wanted(NoCommand) = <<>>
    BY DEF Written, Wanted, NoCommand
  <2>4. TextOf(NoCommand, p, 0) /\ PlaceOf(NoCommand, p, 0)
    <3>1. Written(NoCommand) \o Wanted(NoCommand) = SubSeq(p, 1, 0)
      BY <2>2, <2>3
    <3>2. NoCommand.wants = "" /\ NoCommand.infile = "" /\ NoCommand.outfile = ""
      BY DEF NoCommand
    <3> QED
      BY <3>1, <3>2, Zenon DEF TextOf, PlaceOf
  <2>5. 0 \in 0 .. n
    BY <1>2
  <2> QED
    BY <2>1, <2>4, <2>5
<1>4. ASSUME NEW k \in 0 .. n - 1, k \in K PROVE k + 1 \in K
  <2>1. k + 1 \in 1 .. n /\ k + 1 \in 0 .. n /\ k \in 0 .. n /\ (k + 1) - 1 = k
    BY <1>2
  <2>2. f[k] \in C /\ f[k + 1] \in C
    BY <1>1, <2>1 DEF C
  <2>3. TextOf(f[k], p, k) /\ PlaceOf(f[k], p, k)
    BY <1>4
  <2>4. f[k + 1] = NextMade(f[k], p[k + 1])
    <3>1. f[k + 1] = NextMade(f[(k + 1) - 1], p[k + 1])
      BY <1>1, <2>1, Zenon DEF Makes
    <3> QED
      BY <2>1, <3>1, Zenon
  <2>5. MayFollow(f[k], p[k + 1])
    BY <2>2, <2>3, MayFollowIs, Zenon DEF C, n
  <2>6. PlaceOf(f[k + 1], p, k + 1)
    BY <2>2, <2>3, <2>4, <2>5, PlaceStep, Zenon DEF C, n
  <2>7. TextOf(f[k + 1], p, k + 1)
    <3>1. p[k + 1] \in T
      BY <2>1, ElementOfSeq, Zenon DEF n
    <3>2. Written(f[k + 1]) \o Wanted(f[k + 1]) = Append(Written(f[k]) \o Wanted(f[k]), p[k + 1])
      BY <2>2, <2>4, <2>5, <3>1, TextStep, Zenon DEF C
    <3>3. SubSeq(p, 1, k + 1) = Append(SubSeq(p, 1, k), p[k + 1])
      <4>1. 0 \in 0 .. n /\ k \in 0 .. n - 1 /\ 0 + 1 = 1
        BY <1>2
      <4> QED
        BY <4>1, SubSeqGrows, Zenon DEF n
    <3> QED
      BY <2>3, <3>2, <3>3, Zenon DEF TextOf
  <2> QED
    BY <2>1, <2>6, <2>7
<1> HIDE DEF K
<1>5. n \in K
  <2>1. n \in 0 .. n
    BY <1>2
  <2> QED
    BY <1>2, <1>3, <1>4, <2>1, UpTo, Zenon
<1>6. c = f[n]
  BY <1>1, Zenon DEF Makes
<1>7. c \in C
  <2>1. n \in 0 .. n
    BY <1>2
  <2> QED
    BY <1>1, <1>6, <2>1 DEF C
<1>8. TextOf(c, p, n) /\ PlaceOf(c, p, n)
  BY <1>5, <1>6 DEF K
<1>9. c.wants = ""
  <2> SUFFICES ASSUME c.wants # "" PROVE FALSE
    OBVIOUS
  <2>1. n >= 1 /\ p[n] = c.wants
    BY <1>8 DEF PlaceOf
  <2>2. n \in DOMAIN p /\ n + 1 \notin DOMAIN p
    <3>1. n \in 1 .. n /\ n + 1 \notin 1 .. n
      BY ONLY <1>2, <2>1
    <3> QED
      BY <1>2, <3>1, Zenon
  <2>3. Redirects(p[n])
    <3>1. c.wants \in {"", "<", ">"}
      BY <1>7 DEF C, Commands
    <3> QED
      BY <2>1, <3>1, Zenon DEF Redirects
  <2> QED
    BY <2>2, <2>3, Zenon DEF FilesInPlace
<1>10. Written(c) = p
  <2>1. Written(c) \o Wanted(c) = p
    BY <1>8, SubSeqFull, Zenon DEF TextOf, n
  <2>2. Wanted(c) = <<>> /\ Written(c) \in Seq(T)
    BY <1>7, <1>9, WrittenIs, Zenon DEF C, Wanted
  <2> DEFINE w == Written(c)
  <2> HIDE DEF w
  <2>3. w \in Seq(T) => w \o <<>> = w
    BY ConcatEmptySeq
  <2> QED
    BY <2>1, <2>2, <2>3, Zenon DEF w
<1>11. c.infile # "" => \E i \in DOMAIN p : p[i] = "<"
  BY <1>2, <1>8 DEF PlaceOf
<1>12. c.outfile # "" => n >= 2 /\ p[n - 1] = ">"
  BY <1>8, Zenon DEF PlaceOf
<1> QED
  BY <1>7, <1>10, <1>11, <1>12, Zenon DEF C, n

Entities(T) == Commands(T) \cup Delims
WrittenOf(T) == [e \in Entities(T) |-> Written(e)]

LEMMA WrittenType ==
  ASSUME NEW T, Complete(T), ";" \in T
  PROVE  /\ WrittenOf(T) \in [Entities(T) -> Seq(T)]
         /\ \A c \in Commands(T) : WrittenOf(T)[c] = Written(c) /\ Written(c) \in Seq(T) /\ c \in Entities(T)
         /\ \A x \in Symbols : /\ add_delim(x) \in Delims /\ add_delim(x) \in Entities(T)
                               /\ WrittenOf(T)[add_delim(x)] = Back(x) /\ Back(x) \in Seq(T)
<1>1. ASSUME NEW d \in Delims PROVE Written(d) \in Seq(T)
  <2>1. d.kind = "del" /\ d.delim \in Ops
    BY DEF Delims
  <2>2. {"|", "&", ";"} \subseteq T
    BY DEF Complete
  <2>3. \A x, y \in T : <<x>> \in Seq(T) /\ <<x, y>> \in Seq(T)
    BY ONLY EmptySeq
  <2>4. Written(d) = CASE d.delim = "||" -> <<"|", "|">> [] d.delim = "&&" -> <<"&", "&">>
                       [] OTHER -> <<d.delim>>
    BY <2>1 DEF Written
  <2>5. CASE d.delim = "||"
    BY <2>2, <2>3, <2>4, <2>5
  <2>6. CASE d.delim = "&&"
    BY <2>2, <2>3, <2>4, <2>6
  <2>7. CASE d.delim \notin {"||", "&&"}
    <3>1. Written(d) = <<d.delim>>
      BY <2>4, <2>7
    <3>2. d.delim \in T
      BY <2>1, <2>2, <2>7 DEF Ops
    <3> QED
      BY <2>3, <3>1, <3>2
  <2> QED
    BY <2>5, <2>6, <2>7
<1>2. ASSUME NEW c \in Commands(T) PROVE Written(c) \in Seq(T)
  BY WrittenIs, Zenon
<1>3. WrittenOf(T) \in [Entities(T) -> Seq(T)]
  BY <1>1, <1>2, Zenon DEF WrittenOf, Entities
<1>4. ASSUME NEW x \in Symbols
      PROVE  add_delim(x) \in Delims /\ Written(add_delim(x)) = Back(x)
  BY DEF Symbols, add_delim, Delimeter, Delims, Ops, Written, Back
<1> QED
  BY <1>1, <1>2, <1>3, <1>4, Zenon DEF WrittenOf, Entities

\* No file is given to the side of a command that a pipe takes.
Clear(cs) ==
  \A i \in DOMAIN cs :
    cs[i].kind = "cmd" => /\ IsDelim(cs, i - 1, "|") => cs[i].infile = ""
                          /\ IsDelim(cs, i + 1, "|") => cs[i].outfile = ""

\* One more command.
LEMMA ClearCommand ==
  ASSUME NEW E, NEW cs \in Seq(E), Clear(cs), NEW c \in E, c.kind = "cmd",
         IsDelim(cs, Len(cs), "|") => c.infile = ""
  PROVE  Clear(Append(cs, c))
<1> DEFINE r == Append(cs, c)
           n == Len(cs)
<1>1. n \in Nat /\ DOMAIN cs = 1 .. n
  BY LenProperties
<1>2. r \in Seq(E) /\ Len(r) = n + 1 /\ (\A i \in 1 .. n : r[i] = cs[i]) /\ r[n + 1] = c
  BY ONLY cs \in Seq(E), c \in E, AppendProperties
<1>3. DOMAIN r = 1 .. n + 1
  BY <1>2, LenProperties
<1> HIDE DEF r, n
<1>4. ASSUME NEW i \in Int, NEW d, IsDelim(r, i, d) PROVE i <= n /\ IsDelim(cs, i, d)
  <2>1. i \in 1 .. n + 1 /\ r[i].kind = "del" /\ r[i].delim = d
    BY <1>3, <1>4, Zenon DEF IsDelim
  <2>2. i # n + 1
    BY <1>2, <2>1
  <2>3. i \in 1 .. n
    BY ONLY <1>1, <2>1, <2>2
  <2>4. IsDelim(cs, i, d)
    BY <1>1, <1>2, <2>1, <2>3, Zenon DEF IsDelim
  <2> QED
    <3>1. i <= n
      BY ONLY <1>1, <2>3
    <3> QED
      BY <2>4, <3>1
<1>5. ASSUME NEW i \in 1 .. n + 1, r[i].kind = "cmd"
      PROVE  /\ IsDelim(r, i - 1, "|") => r[i].infile = ""
             /\ IsDelim(r, i + 1, "|") => r[i].outfile = ""
  <2>1. i - 1 \in Int /\ i + 1 \in Int
    BY ONLY <1>1, i \in 1 .. n + 1
  <2>2. CASE i = n + 1
    <3>1. ~(i + 1 <= n) /\ i - 1 = n
      BY ONLY <1>1, <2>2
    <3> QED
      BY <1>2, <1>4, <2>1, <2>2, <3>1, Zenon DEF n
  <2>3. CASE i # n + 1
    <3>1. i \in 1 .. n
      BY ONLY <1>1, <2>3, i \in 1 .. n + 1
    <3>2. r[i] = cs[i] /\ i \in DOMAIN cs
      BY <1>1, <1>2, <3>1, Zenon
    <3> QED
      BY <1>4, <1>5, <2>1, <3>2, Zenon DEF Clear
  <2> QED
    BY <2>2, <2>3
<1> QED
  BY <1>3, <1>5, Zenon DEF Clear, r

\* One more operator.
LEMMA ClearDelim ==
  ASSUME NEW E, NEW cs \in Seq(E), Clear(cs), cs # <<>>, NEW d \in E, d.kind = "del",
         d.delim = "|" => Last(cs).outfile = ""
  PROVE  Clear(Append(cs, d))
<1> DEFINE r == Append(cs, d)
           n == Len(cs)
<1>1. n \in Nat /\ DOMAIN cs = 1 .. n /\ Last(cs) = cs[n]
  BY LenProperties DEF Last
<1>2. r \in Seq(E) /\ Len(r) = n + 1 /\ (\A i \in 1 .. n : r[i] = cs[i]) /\ r[n + 1] = d
  BY ONLY cs \in Seq(E), d \in E, AppendProperties
<1>3. DOMAIN r = 1 .. n + 1
  BY <1>2, LenProperties
<1> HIDE DEF r, n
<1>4. ASSUME NEW i \in Int, NEW e, IsDelim(r, i, e), i # n + 1 PROVE IsDelim(cs, i, e)
  <2>1. i \in 1 .. n + 1 /\ r[i].kind = "del" /\ r[i].delim = e
    BY <1>3, <1>4, Zenon DEF IsDelim
  <2>2. i \in 1 .. n
    BY ONLY <1>1, <2>1, <1>4
  <2> QED
    BY <1>1, <1>2, <2>1, <2>2, Zenon DEF IsDelim
<1>5. ASSUME NEW i \in 1 .. n + 1, r[i].kind = "cmd"
      PROVE  /\ IsDelim(r, i - 1, "|") => r[i].infile = ""
             /\ IsDelim(r, i + 1, "|") => r[i].outfile = ""
  <2>1. i # n + 1
    BY <1>2, <1>5
  <2>2. i \in 1 .. n /\ i - 1 \in Int /\ i + 1 \in Int /\ i - 1 # n + 1
    BY ONLY <1>1, <2>1, i \in 1 .. n + 1
  <2>3. r[i] = cs[i] /\ i \in DOMAIN cs
    BY <1>1, <1>2, <2>2, Zenon
  <2>4. cs[i].kind = "cmd"
    BY <1>5, <2>3, Zenon
  <2>5. ASSUME IsDelim(r, i + 1, "|") PROVE r[i].outfile = ""
    <3>1. CASE i + 1 = n + 1
      <4>1. i = n
        BY ONLY <1>1, <2>2, <3>1
      <4>2. d.delim = "|"
        BY <1>2, <2>5, <3>1, Zenon DEF IsDelim
      <4> QED
        BY <1>1, <2>3, <4>1, <4>2, Zenon
    <3>2. CASE i + 1 # n + 1
      BY <1>4, <2>2, <2>3, <2>4, <2>5, <3>2, Zenon DEF Clear
    <3> QED
      BY <3>1, <3>2
  <2>6. ASSUME IsDelim(r, i - 1, "|") PROVE r[i].infile = ""
    BY <1>4, <2>2, <2>3, <2>4, <2>6, Zenon DEF Clear
  <2> QED
    BY <2>5, <2>6
<1> QED
  BY <1>3, <1>5, Zenon DEF Clear, r

\* a is what Split has made of the first k tokens: the piece starts behind the
\* j-th, a symbol.
PieceOf(a, t, j, k) ==
  /\ a.piece = SubSeq(t, j + 1, k)
  /\ \A i \in j + 1 .. k : t[i] \notin Symbols
  /\ IF j = 0 THEN a.cmds = <<>>
     ELSE t[j] \in Symbols /\ a.cmds # <<>> /\ Last(a.cmds) = add_delim(t[j])

\* The piece is whole.
PieceEnds(t, k) == k = Len(t) \/ t[k + 1] \in Symbols

\* Its command is c.
PieceMakes(c, a, t, k) ==
  /\ Written(c) = a.piece
  /\ IsDelim(a.cmds, Len(a.cmds), "|") => c.infile = ""
  /\ k + 1 \in DOMAIN t /\ t[k + 1] = "|" => c.outfile = ""

\* A whole piece is undone.
LEMMA PieceUndone ==
  ASSUME NEW T, Complete(T), NEW t \in Seq(T), FilesInPlace(t), NoFileAtPipe(t), NoBlanks(t),
         NEW k \in 0 .. Len(t), PieceEnds(t, k),
         NEW a \in Halves(T), NEW j \in 0 .. k, PieceOf(a, t, j, k),
         NEW c, c = add_comand(a.piece)
  PROVE  c \in Commands(T) /\ PieceMakes(c, a, t, k)
<1> DEFINE p == a.piece
           n == Len(t)
           m == Len(p)
<1>1. n \in Nat /\ DOMAIN t = 1 .. n /\ j \in Nat /\ k \in Nat /\ j <= k /\ k <= n
      /\ \A i \in 1 .. n : t[i] \in T
  BY LenProperties
<1>2. p \in Seq(T)
  BY DEF Halves
<1>3. m = k - j /\ \A i \in 1 .. m : p[i] = t[j + i]
  <2> DEFINE q == SubSeq(t, j + 1, k)
  <2>1. p = q
    BY DEF PieceOf
  <2>2. j + 1 \in Int /\ k \in Int /\ \A i \in j + 1 .. k : i \in 1 .. n
    BY ONLY <1>1
  <2>3. \A i \in j + 1 .. k : t[i] \in T
    BY <1>1, <2>2, Zenon
  <2>4. /\ Len(q) = IF j + 1 <= k THEN k - (j + 1) + 1 ELSE 0
        /\ \A i \in 1 .. k - (j + 1) + 1 : q[i] = t[(j + 1) + i - 1]
    BY ONLY <2>2, <2>3, SubSeqProperties
  <2> HIDE DEF q, p
  <2>5. Len(q) = k - j
    BY ONLY <1>1, <2>4
  <2>6. ASSUME NEW i \in 1 .. k - j PROVE q[i] = t[j + i]
    <3>1. i \in 1 .. k - (j + 1) + 1 /\ (j + 1) + i - 1 = j + i
      BY ONLY <1>1, i \in 1 .. k - j
    <3> QED
      BY <2>4, <3>1, Zenon
  <2> QED
    BY <2>1, <2>5, <2>6, Zenon
<1>4. m \in Nat /\ DOMAIN p = 1 .. m
  BY <1>2, LenProperties
<1> HIDE DEF p, m, n
<1>5. ASSUME NEW i \in 1 .. m PROVE p[i] = t[j + i] /\ j + i \in DOMAIN t /\ j + i \in j + 1 .. k /\ p[i] \notin Symbols
  <2>1. j + i \in j + 1 .. k /\ j + i \in 1 .. n
    BY ONLY <1>1, <1>3, <1>4, i \in 1 .. m
  <2>2. t[j + i] \notin Symbols
    BY <2>1, Zenon DEF PieceOf
  <2> QED
    BY <1>1, <1>3, <2>1, <2>2, Zenon
<1>6. NoSymbols(p)
  BY <1>4, <1>5, Zenon DEF NoSymbols
<1>b. NoBlanks(p)
  BY <1>4, <1>5, Zenon DEF NoBlanks
<1>c. c = Comand(p)
  <2>1. parts(p) = p
    BY <1>2, <1>b, PartsAre, Zenon
  <2> QED
    BY <2>1, Zenon DEF add_comand, p
<1>7. FilesInPlace(p)
  <2> SUFFICES ASSUME NEW i \in 1 .. m, Redirects(p[i])
               PROVE  /\ i + 1 \in DOMAIN p /\ IsFile(p[i + 1])
                      /\ i + 2 \in DOMAIN p => p[i + 2] \in Symbols \/ (p[i] = "<" /\ p[i + 2] = ">")
    BY <1>4, Zenon DEF FilesInPlace
  <2>1. /\ (j + i) + 1 \in DOMAIN t /\ IsFile(t[(j + i) + 1])
        /\ (j + i) + 2 \in DOMAIN t => t[(j + i) + 2] \in Symbols \/ (t[j + i] = "<" /\ t[(j + i) + 2] = ">")
    BY <1>5, Zenon DEF FilesInPlace
  <2>2. t[(j + i) + 1] \notin Symbols
    BY <2>1, Zenon DEF IsFile
  <2>3. i + 1 \in 1 .. m
    <3> SUFFICES ASSUME i + 1 \notin 1 .. m PROVE FALSE
      OBVIOUS
    <3>1. (j + i) + 1 = k + 1 /\ (j + i) + 1 \in 1 .. n
      BY <1>1, <1>3, <1>4, <2>1
    <3>2. k # n
      BY ONLY <1>1, <3>1
    <3> QED
      BY <2>2, <3>1, <3>2, Zenon DEF n, PieceEnds
  <2>4. (j + i) + 1 = j + (i + 1) /\ (j + i) + 2 = j + (i + 2)
    BY ONLY <1>1, i \in 1 .. m
  <2> QED
    BY <1>4, <1>5, <2>1, <2>3, <2>4, Zenon
<1>8. /\ c \in Commands(T) /\ Written(c) = p
      /\ c.infile # "" => \E i \in DOMAIN p : p[i] = "<"
      /\ c.outfile # "" => m >= 2 /\ p[m - 1] = ">"
  BY <1>2, <1>6, <1>7, <1>c, ComandUndone, Zenon DEF p, m
<1>9. ASSUME IsDelim(a.cmds, Len(a.cmds), "|") PROVE c.infile = ""
  <2> SUFFICES ASSUME c.infile # "" PROVE FALSE
    OBVIOUS
  <2>1. PICK i \in 1 .. m : p[i] = "<"
    BY <1>4, <1>8, Zenon
  <2>2. a.cmds # <<>> /\ Last(a.cmds).delim = "|"
    <3>1. Len(a.cmds) \in DOMAIN a.cmds /\ a.cmds[Len(a.cmds)].delim = "|"
      BY <1>9, Zenon DEF IsDelim
    <3>2. a.cmds # <<>>
      <4> DEFINE q == a.cmds
      <4>1. Len(q) \in DOMAIN q
        BY <3>1
      <4> HIDE DEF q
      <4>2. q # <<>>
        BY ONLY <4>1
      <4> QED
        BY <4>2 DEF q
    <3> QED
      BY <3>1, <3>2, Zenon DEF Last
  <2>3. j # 0 /\ t[j] \in Symbols /\ add_delim(t[j]).delim = "|"
    BY <2>2, Zenon DEF PieceOf
  <2>4. t[j] = "|"
    BY <2>3 DEF add_delim, Delimeter, Symbols
  <2>5. j \in DOMAIN t /\ j < j + i /\ t[j + i] = "<" /\ j + i \in DOMAIN t
    <3>1. j \in 1 .. n /\ j < j + i
      BY ONLY <1>1, <2>3, i \in 1 .. m
    <3> QED
      BY <1>1, <1>5, <2>1, <3>1, Zenon
  <2>6. PICK l \in j + 1 .. j + i : t[l] \in Symbols
    BY <2>4, <2>5, Zenon DEF NoFileAtPipe
  <2>7. l \in j + 1 .. k
    BY ONLY <1>1, <1>3, i \in 1 .. m, l \in j + 1 .. j + i
  <2> QED
    BY <2>6, <2>7, Zenon DEF PieceOf
<1>10. ASSUME k + 1 \in DOMAIN t, t[k + 1] = "|" PROVE c.outfile = ""
  <2> SUFFICES ASSUME c.outfile # "" PROVE FALSE
    OBVIOUS
  <2>1. m >= 2 /\ p[m - 1] = ">"
    BY <1>8
  <2>2. m - 1 \in 1 .. m /\ (j + (m - 1)) + 2 = k + 1
    BY ONLY <1>1, <1>3, <1>4, <2>1
  <2>3. t[j + (m - 1)] = ">" /\ j + (m - 1) \in DOMAIN t
    BY <1>5, <2>1, <2>2, Zenon
  <2> QED
    BY <1>10, <2>2, <2>3, Zenon DEF NoFileAtPipe
<1> QED
  BY <1>8, <1>9, <1>10, Zenon DEF p, PieceMakes

\* a has everything of the first k tokens, and no file is lost to a pipe.
SplitOf(a, t, k, T) ==
  /\ \E j \in 0 .. k : PieceOf(a, t, j, k)
  /\ Joins(a.cmds, WrittenOf(T)) \o a.piece = Joins(SubSeq(t, 1, k), BackOf(T))
  /\ Clear(a.cmds)

\* A command comes behind the entities.
LEMMA CommandUndone ==
  ASSUME NEW T, Complete(T), ";" \in T, NEW t \in Seq(T), FilesInPlace(t), NoFileAtPipe(t), NoBlanks(t),
         NEW k \in 0 .. Len(t), PieceEnds(t, k),
         NEW a \in Halves(T), SplitOf(a, t, k, T),
         NEW c, c = add_comand(a.piece), NEW cs, cs = Append(a.cmds, c)
  PROVE  /\ c \in Commands(T) /\ cs \in Seq(Entities(T)) /\ Clear(cs)
         /\ Joins(cs, WrittenOf(T)) = Joins(SubSeq(t, 1, k), BackOf(T))
         /\ k + 1 \in DOMAIN t /\ t[k + 1] = "|" => c.outfile = ""
<1> DEFINE E == Entities(T)
           W == WrittenOf(T)
<1>1. PICK j \in 0 .. k : PieceOf(a, t, j, k)
  BY Zenon DEF SplitOf
<1>a. c \in Commands(T) /\ PieceMakes(c, a, t, k)
  BY <1>1, PieceUndone, Zenon
<1>2. /\ c \in Commands(T) /\ Written(c) = a.piece
      /\ IsDelim(a.cmds, Len(a.cmds), "|") => c.infile = ""
      /\ k + 1 \in DOMAIN t /\ t[k + 1] = "|" => c.outfile = ""
  BY <1>a, Zenon DEF PieceMakes
<1>3. a.cmds \in Seq(E)
  BY DEF Halves, Entities
<1>4. W \in [E -> Seq(T)] /\ W[c] = Written(c) /\ c \in E
  BY <1>2, WrittenType, Zenon
<1>5. c.kind = "cmd"
  BY <1>2 DEF Commands
<1> HIDE DEF E, W
<1>6. cs \in Seq(E)
  BY <1>3, <1>4, AppendProperties, Zenon
<1>7. Clear(cs)
  BY <1>2, <1>3, <1>4, <1>5, ClearCommand, Zenon DEF SplitOf
<1>b. /\ Joins(<<>>, W) = <<>>
      /\ \A q \in Seq(E) : Joins(q, W) \in Seq(T)
      /\ \A q \in Seq(E), y \in E : Joins(Append(q, y), W) = Joins(q, W) \o W[y]
  <2>1. JoinsWell(E, T, W)
    BY <1>4, JoinsIs, Zenon
  <2> QED
    BY <2>1, Zenon DEF JoinsWell
<1>8. Joins(cs, W) = Joins(a.cmds, W) \o W[c]
  BY <1>3, <1>4, <1>b, Zenon
<1>9. Joins(cs, W) = Joins(SubSeq(t, 1, k), BackOf(T))
  BY <1>2, <1>4, <1>8, Zenon DEF SplitOf, W
<1> QED
  BY <1>2, <1>6, <1>7, <1>9, Zenon DEF E, W

LEMMA TextsType ==
  ASSUME NEW T, Complete(T), ";" \in T, NEW cs \in Seq(Entities(T))
  PROVE  Joins(cs, WrittenOf(T)) \in Seq(T)
<1> DEFINE W == WrittenOf(T)
           E == Entities(T)
<1>4. W \in [E -> Seq(T)]
  BY WrittenType, Zenon
<1> HIDE DEF W, E
<1>5. /\ Joins(<<>>, W) = <<>>
      /\ \A q \in Seq(E) : Joins(q, W) \in Seq(T)
      /\ \A q \in Seq(E), y \in E : Joins(Append(q, y), W) = Joins(q, W) \o W[y]
  <2>1. JoinsWell(E, T, W)
    BY <1>4, JoinsIs, Zenon
  <2> QED
    BY <2>1, Zenon DEF JoinsWell
<1> QED
  BY <1>5, Zenon DEF W, E

LEMMA NoTexts ==
  ASSUME NEW T, Complete(T), ";" \in T
  PROVE  Joins(<<>>, WrittenOf(T)) = <<>> /\ Joins(<<>>, BackOf(T)) = <<>>
<1> DEFINE W == WrittenOf(T)
           H == BackOf(T)
           E == Entities(T)
<1>1. W \in [E -> Seq(T)] /\ H \in [T -> Seq(T)]
  BY WrittenType, BackType, Zenon
<1> HIDE DEF W, H, E
<1>2. /\ Joins(<<>>, W) = <<>>
      /\ \A q \in Seq(E) : Joins(q, W) \in Seq(T)
      /\ \A q \in Seq(E), y \in E : Joins(Append(q, y), W) = Joins(q, W) \o W[y]
  <2>1. JoinsWell(E, T, W)
    BY <1>1, JoinsIs, Zenon
  <2> QED
    BY <2>1, Zenon DEF JoinsWell
<1>3. /\ Joins(<<>>, H) = <<>>
      /\ \A q \in Seq(T) : Joins(q, H) \in Seq(T)
      /\ \A q \in Seq(T), y \in T : Joins(Append(q, y), H) = Joins(q, H) \o H[y]
  <2>1. JoinsWell(T, T, H)
    BY <1>1, JoinsIs, Zenon
  <2> QED
    BY <2>1, Zenon DEF JoinsWell
<1> QED
  BY <1>2, <1>3, Zenon DEF W, H

LEMMA SplitStep ==
  ASSUME NEW T, Complete(T), ";" \in T, NEW t \in Seq(T), FilesInPlace(t), NoFileAtPipe(t), NoBlanks(t),
         NEW k \in 0 .. Len(t) - 1, NEW a \in Halves(T), SplitOf(a, t, k, T),
         NEW b \in Halves(T), b = NextSplit(a, t[k + 1])
  PROVE  SplitOf(b, t, k + 1, T)
<1> DEFINE x == t[k + 1]
           n == Len(t)
           H == BackOf(T)
           W == WrittenOf(T)
           E == Entities(T)
           before == SubSeq(t, 1, k)
<1>1. /\ n \in Nat /\ DOMAIN t = 1 .. n /\ k \in Nat /\ k \in 0 .. n /\ k + 1 \in 1 .. n
      /\ k + 1 \in 0 .. k + 1 /\ 0 \in 0 .. n /\ 0 + 1 = 1
  <2>1. n \in Nat /\ DOMAIN t = 1 .. n
    BY LenProperties
  <2>2. k \in 0 .. n - 1
    OBVIOUS
  <2> HIDE DEF n
  <2> QED
    BY ONLY <2>1, <2>2
<1>2. x \in T
  BY <1>1, ElementOfSeq, Zenon
<1>3. before \in Seq(T) /\ SubSeq(t, 1, k + 1) = Append(before, x)
  BY <1>1, SubSeqGrows, Zenon
<1>4. H \in [T -> Seq(T)] /\ W \in [E -> Seq(T)]
  BY BackType, WrittenType, Zenon
<1>5. a.cmds \in Seq(E) /\ a.piece \in Seq(T)
  BY DEF Halves, Entities
<1>6. H[x] = Back(x)
  BY <1>2 DEF BackOf
<1> HIDE DEF H, W, E, x
<1>a. /\ Joins(<<>>, W) = <<>>
      /\ \A q \in Seq(E) : Joins(q, W) \in Seq(T)
      /\ \A q \in Seq(E), y \in E : Joins(Append(q, y), W) = Joins(q, W) \o W[y]
  <2>1. JoinsWell(E, T, W)
    BY <1>4, JoinsIs, Zenon
  <2> QED
    BY <2>1, Zenon DEF JoinsWell
<1>b. /\ Joins(<<>>, H) = <<>>
      /\ \A q \in Seq(T) : Joins(q, H) \in Seq(T)
      /\ \A q \in Seq(T), y \in T : Joins(Append(q, y), H) = Joins(q, H) \o H[y]
  <2>1. JoinsWell(T, T, H)
    BY <1>4, JoinsIs, Zenon
  <2> QED
    BY <2>1, Zenon DEF JoinsWell
<1>7. Joins(SubSeq(t, 1, k + 1), H) = Joins(before, H) \o Back(x)
  BY <1>2, <1>3, <1>b, <1>6, Zenon
<1>8. CASE x \in Symbols
  <2> DEFINE c == add_comand(a.piece)
             d == add_delim(x)
             cs == Append(a.cmds, c)
             ds == Append(cs, d)
  <2>1. /\ c \in Commands(T) /\ cs \in Seq(E) /\ Clear(cs)
        /\ Joins(cs, W) = Joins(before, H)
        /\ k + 1 \in DOMAIN t /\ x = "|" => c.outfile = ""
    <3>1. PieceEnds(t, k)
      BY <1>8, Zenon DEF PieceEnds, x
    <3> QED
      BY <1>1, <3>1, CommandUndone, Zenon DEF E, W, H, x
  <2>2. d \in Delims /\ d \in E /\ W[d] = Back(x)
    BY <1>8, WrittenType, Zenon DEF E, W
  <2>3. c \in E
    BY <2>1, WrittenType, Zenon DEF E
  <2>4. b = [cmds |-> a.cmds \o <<c, d>>, piece |-> <<>>]
    BY <1>8, Zenon DEF NextSplit, x
  <2>5. d.kind = "del" /\ (d.delim = "|" => x = "|")
    BY <1>8 DEF add_delim, Delimeter, Symbols
  <2> HIDE DEF c, d
  <2>6. a.cmds \o <<c, d>> = ds
    BY <1>5, <2>2, <2>3, AppendTwo, Zenon
  <2>7. b.cmds = ds /\ b.piece = <<>>
    <3> DEFINE u == a.cmds \o <<c, d>>
    <3>1. b = [cmds |-> u, piece |-> <<>>]
      BY <2>4
    <3> HIDE DEF u, ds
    <3>2. b.cmds = u /\ b.piece = <<>>
      BY ONLY <3>1
    <3> QED
      BY <2>6, <3>2, Zenon DEF u
  <2>8. cs # <<>> /\ Last(cs) = c
    <3>1. cs # <<>> /\ Len(cs) = Len(a.cmds) + 1 /\ cs[Len(a.cmds) + 1] = c
      BY ONLY <1>5, <2>3, AppendProperties
    <3> HIDE DEF cs
    <3> QED
      BY <3>1, Zenon DEF Last
  <2>9. ds # <<>> /\ Last(ds) = d
    <3>1. ds # <<>> /\ Len(ds) = Len(cs) + 1 /\ ds[Len(cs) + 1] = d
      <4> HIDE DEF cs
      <4> QED
        BY <2>1, <2>2, AppendProperties, ZenonT(40)
    <3> HIDE DEF ds
    <3> QED
      BY <3>1, Zenon DEF Last
  <2> HIDE DEF cs
  <2>10. Clear(ds)
    BY <1>1, <2>1, <2>2, <2>5, <2>8, ClearDelim, Zenon
  <2>11. Joins(ds, W) = Joins(cs, W) \o W[d]
    BY <1>a, <2>1, <2>2, Zenon
  <2> HIDE DEF ds
  <2>12. Joins(b.cmds, W) = Joins(SubSeq(t, 1, k + 1), H) /\ Joins(b.cmds, W) \in Seq(T)
    <3>1. Joins(SubSeq(t, 1, k + 1), H) \in Seq(T)
      <4>1. Append(before, x) \in Seq(T)
        BY <1>2, <1>3, AppendProperties, Zenon
      <4> QED
        BY <1>3, <1>b, <4>1, Zenon
    <3> QED
      BY <1>7, <2>1, <2>2, <2>7, <2>11, <3>1, Zenon
  <2>13. Joins(b.cmds, W) \o b.piece = Joins(SubSeq(t, 1, k + 1), H)
    <3> DEFINE w == Joins(b.cmds, W)
    <3>1. w \in Seq(T)
      BY <2>12
    <3> HIDE DEF w
    <3>2. w \o <<>> = w
      BY <3>1, ConcatEmptySeq
    <3> QED
      BY <2>7, <2>12, <3>2, Zenon DEF w
  <2>14. PieceOf(b, t, k + 1, k + 1)
    <3>1. SubSeq(t, (k + 1) + 1, k + 1) = <<>>
      <4>1. (k + 1) + 1 \in Int /\ k + 1 \in Int /\ k + 1 < (k + 1) + 1
        BY ONLY <1>1
      <4> QED
        BY <4>1, SubSeqEmpty, Zenon
    <3>2. \A i \in (k + 1) + 1 .. k + 1 : FALSE
      BY ONLY <1>1
    <3>3. k + 1 # 0
      BY ONLY <1>1
    <3> QED
      BY <1>8, <2>7, <2>9, <3>1, <3>2, <3>3, Zenon DEF PieceOf, x, d
  <2> QED
    BY <1>1, <2>7, <2>10, <2>13, <2>14, Zenon DEF SplitOf, W, H
<1>9. CASE x \notin Symbols
  <2>1. b = [a EXCEPT !.piece = Append(@, x)]
    BY <1>9, Zenon DEF NextSplit, x
  <2>2. b.cmds = a.cmds /\ b.piece = Append(a.piece, x)
    BY <2>1 DEF Halves
  <2>3. PICK j \in 0 .. k : PieceOf(a, t, j, k)
    BY Zenon DEF SplitOf
  <2>4. PieceOf(b, t, j, k + 1)
    <3>1. SubSeq(t, j + 1, k + 1) = Append(SubSeq(t, j + 1, k), x)
      <4>1. j \in 0 .. n /\ k \in j .. n - 1
        BY ONLY <1>1, j \in 0 .. k
      <4> QED
        BY <4>1, SubSeqGrows, Zenon DEF n, x
    <3>2. \A i \in j + 1 .. k + 1 : i \in j + 1 .. k \/ i = k + 1
      BY ONLY <1>1, j \in 0 .. k
    <3> QED
      BY <1>9, <2>2, <2>3, <3>1, <3>2, Zenon DEF PieceOf, x
  <2>5. j \in 0 .. k + 1
    BY ONLY <1>1, j \in 0 .. k
  <2>6. Joins(b.cmds, W) \o b.piece = Joins(SubSeq(t, 1, k + 1), H)
    <3> DEFINE w == Joins(a.cmds, W)
               p == a.piece
    <3>1. w \in Seq(T) /\ p \in Seq(T)
      BY <1>a, <1>5, Zenon
    <3>2. w \o p = Joins(before, H)
      BY Zenon DEF SplitOf, W, H
    <3>3. Joins(b.cmds, W) = w /\ b.piece = Append(p, x)
      BY <2>2
    <3> HIDE DEF w, p
    <3>4. /\ w \o p \in Seq(T)
          /\ w \o Append(p, x) = Append(w \o p, x)
      BY ONLY <1>2, <3>1, AppendBehind, ConcatProperties
    <3>5. Append(w \o p, x) = (w \o p) \o <<x>>
      BY <1>2, <3>4, AppendIsConcat, Zenon
    <3>6. CASE x \notin {"@", "$"}
      <4>1. Back(x) = <<x>>
        BY <3>6 DEF Back
      <4> QED
        BY <1>7, <3>2, <3>3, <3>4, <3>5, <4>1, Zenon
    <3>7. x \notin {"@", "$"}
      BY <1>9 DEF Symbols
    <3> QED
      BY <3>6, <3>7
  <2> QED
    BY <2>2, <2>4, <2>5, <2>6, Zenon DEF SplitOf, W, H
<1> QED
  BY <1>8, <1>9, Zenon DEF x

\* Split is undone.
LEMMA SplitUndone ==
  ASSUME NEW T, Complete(T), ";" \in T, NEW t \in Seq(T), FilesInPlace(t), NoFileAtPipe(t), NoBlanks(t)
  PROVE  /\ Joins(Split(t), WrittenOf(T)) = Joins(t, BackOf(T))
         /\ Clear(Split(t))
<1> DEFINE n == Len(t)
           S == Halves(T)
<1>1. PICK f \in [0 .. Len(t) -> Halves(T)] : Splits(f, t)
  BY SplitSteps, Zenon
<1>2. n \in Nat
  BY LenProperties
<1> HIDE DEF n, S
<1> DEFINE K == {k \in 0 .. n : SplitOf(f[k], t, k, T)}
           empty == [cmds |-> <<>>, piece |-> <<>>]
<1>3. 0 \in K
  <2>1. f[0] = empty
    BY <1>1, Zenon DEF Splits
  <2>2. SubSeq(t, 1, 0) = <<>> /\ SubSeq(t, 0 + 1, 0) = <<>>
    BY ONLY SubSeqEmpty
  <2>3. \A i \in 0 + 1 .. 0 : FALSE
    BY ONLY <1>2
  <2>4. empty.cmds = <<>> /\ empty.piece = <<>>
    BY ONLY <1>2
  <2> HIDE DEF empty
  <2>5. PieceOf(empty, t, 0, 0)
    BY <2>2, <2>3, <2>4, Zenon DEF PieceOf
  <2>6. Joins(<<>>, WrittenOf(T)) \o <<>> = Joins(<<>>, BackOf(T))
    <3>1. Joins(<<>>, WrittenOf(T)) = <<>> /\ Joins(<<>>, BackOf(T)) = <<>>
      BY NoTexts, Zenon
    <3>2. <<>> \o <<>> = <<>>
      BY ONLY EmptySeq, ConcatEmptySeq
    <3> QED
      BY <3>1, <3>2, Zenon
  <2>7. Clear(<<>>)
    <3>1. DOMAIN <<>> = {}
      BY ONLY <1>2
    <3> QED
      BY <3>1, Zenon DEF Clear
  <2>8. SplitOf(empty, t, 0, T)
    <3>1. 0 \in 0 .. 0
      BY ONLY <1>2
    <3> QED
      BY <2>2, <2>4, <2>5, <2>6, <2>7, <3>1, Zenon DEF SplitOf
  <2>9. 0 \in 0 .. n
    BY ONLY <1>2
  <2> QED
    BY <2>1, <2>8, <2>9
<1>4. ASSUME NEW k \in 0 .. n - 1, k \in K PROVE k + 1 \in K
  <2>1. k + 1 \in 1 .. n /\ k + 1 \in 0 .. n /\ k \in 0 .. n /\ (k + 1) - 1 = k
    BY ONLY <1>2, k \in 0 .. n - 1
  <2>2. f[k] \in S /\ f[k + 1] \in S
    BY <1>1, <2>1 DEF S, n
  <2>3. SplitOf(f[k], t, k, T)
    BY <1>4
  <2>4. f[k + 1] = NextSplit(f[k], t[k + 1])
    <3>1. f[k + 1] = NextSplit(f[(k + 1) - 1], t[k + 1])
      BY <1>1, <2>1, Zenon DEF Splits, NextSplit, n
    <3> QED
      BY <2>1, <3>1, Zenon
  <2>5. SplitOf(f[k + 1], t, k + 1, T)
    BY <2>2, <2>3, <2>4, SplitStep, Zenon DEF S, n
  <2> QED
    BY <2>1, <2>5
<1> HIDE DEF K
<1>5. n \in K /\ n \in 0 .. n
  <2>1. n \in 0 .. n
    BY ONLY <1>2
  <2> QED
    BY <1>2, <1>3, <1>4, <2>1, UpTo, Zenon
<1> DEFINE a == f[n]
           c == add_comand(a.piece)
<1>6. a \in S /\ SplitOf(a, t, n, T)
  BY <1>1, <1>5 DEF K, S, n
<1>7. Split(t) = IF a.piece = <<>> THEN a.cmds ELSE Append(a.cmds, c)
  BY <1>1, Zenon DEF Splits, n
<1>8. SubSeq(t, 1, n) = t
  BY SubSeqFull, Zenon DEF n
<1> HIDE DEF a, c
<1>9. Joins(a.cmds, WrittenOf(T)) \o a.piece = Joins(t, BackOf(T)) /\ Clear(a.cmds)
  BY <1>6, <1>8, Zenon DEF SplitOf
<1>10. CASE a.piece = <<>>
  <2>1. Joins(a.cmds, WrittenOf(T)) \in Seq(T)
    <3>1. a.cmds \in Seq(Entities(T))
      BY <1>6 DEF S, Halves, Entities
    <3> QED
      BY <3>1, TextsType, Zenon
  <2> DEFINE w == Joins(a.cmds, WrittenOf(T))
  <2> HIDE DEF w
  <2>2. w \in Seq(T) => w \o <<>> = w
    BY ConcatEmptySeq
  <2> QED
    BY <1>7, <1>9, <1>10, <2>1, <2>2, Zenon DEF w
<1>11. CASE a.piece # <<>>
  <2>1. Clear(Append(a.cmds, c)) /\ Joins(Append(a.cmds, c), WrittenOf(T)) = Joins(t, BackOf(T))
    <3>1. PieceEnds(t, n)
      BY DEF PieceEnds, n
    <3> QED
      BY <1>5, <1>6, <1>8, <3>1, CommandUndone, ZenonT(40) DEF S, n, c
  <2> QED
    BY <1>7, <1>11, <2>1, Zenon
<1> QED
  BY <1>10, <1>11

\* A pipe is not written, and takes the place of no file.
LEMMA PipedWritten ==
  ASSUME NEW T, NEW c \in Commands(T)
  PROVE  /\ c.infile = "" => Written([c EXCEPT !.infile = "pipe"]) = Written(c)
         /\ c.outfile = "" => Written([c EXCEPT !.outfile = "pipe"]) = Written(c)
         /\ [c EXCEPT !.infile = "pipe"].outfile = c.outfile
         /\ [c EXCEPT !.infile = "pipe"] \in Commands(T \cup {"pipe"})
         /\ c \in Commands(T \cup {"pipe"})
<1>1. Seq(T) \subseteq Seq(T \cup {"pipe"})
  BY SeqSubset
<1>2. c \in Commands(T \cup {"pipe"})
  BY <1>1 DEF Commands
<1>3. [c EXCEPT !.infile = "pipe"] \in Commands(T \cup {"pipe"})
  BY <1>2 DEF Commands
<1>4. c.infile = "" => Written([c EXCEPT !.infile = "pipe"]) = Written(c)
  BY DEF Commands, Written
<1>5. c.outfile = "" => Written([c EXCEPT !.outfile = "pipe"]) = Written(c)
  BY DEF Commands, Written
<1> QED
  BY <1>2, <1>3, <1>4, <1>5 DEF Commands

\* Redirected is undone.
LEMMA RedirectedUndone ==
  ASSUME NEW T, Complete(T), ";" \in T, NEW cs, Alternates(cs, T), Clear(cs), NEW r, r = Redirected(cs)
  PROVE  /\ DOMAIN r = 1 .. Len(cs) /\ DOMAIN cs = 1 .. Len(cs) /\ Len(cs) \in Nat
         /\ \A i \in 1 .. Len(cs) : Written(r[i]) = WrittenOf(T)[cs[i]] /\ Written(r[i]) \in Seq(T)
<1> DEFINE out(c, i) == IF IsDelim(cs, i + 1, "|") THEN [c EXCEPT !.outfile = "pipe"] ELSE c
           in(c, i)  == IF IsDelim(cs, i - 1, "|") THEN [c EXCEPT !.infile = "pipe"] ELSE c
<1>1. /\ DOMAIN cs = 1 .. Len(cs) /\ Len(cs) \in Nat
      /\ \A i \in Int : i % 2 = 1 => \A d : ~IsDelim(cs, i, d)
  BY DelimIs
<1>2. r = [i \in 1 .. Len(cs) |-> out(in(cs[i], i), i)]
  BY <1>1, Zenon DEF Redirected
<1>3. WrittenOf(T) \in [Entities(T) -> Seq(T)]
  BY WrittenType, Zenon
<1>4. \A i \in 1 .. Len(cs) : cs[i] \in Entities(T)
  BY DEF Alternates, Entities
<1> HIDE DEF out, in
<1>5. ASSUME NEW i \in 1 .. Len(cs) PROVE Written(r[i]) = Written(cs[i])
  <2>1. r[i] = out(in(cs[i], i), i)
    BY <1>2
  <2>2. CASE i % 2 # 1
    <3>1. (i + 1) % 2 = 1 /\ (i - 1) % 2 = 1 /\ i + 1 \in Int /\ i - 1 \in Int
      BY ONLY <1>1, <2>2, i \in 1 .. Len(cs)
    <3>2. ~IsDelim(cs, i + 1, "|") /\ ~IsDelim(cs, i - 1, "|")
      BY <1>1, <3>1, Zenon
    <3> QED
      BY <2>1, <3>2, Zenon DEF out, in
  <2>3. CASE i % 2 = 1
    <3> DEFINE c == cs[i]
               e == in(c, i)
    <3>1. c \in Commands(T)
      BY <2>3, Zenon DEF Alternates
    <3>2. c.kind = "cmd"
      BY <3>1 DEF Commands
    <3>3. /\ IsDelim(cs, i - 1, "|") => c.infile = ""
          /\ IsDelim(cs, i + 1, "|") => c.outfile = ""
      BY <1>1, <3>2, Zenon DEF Clear
    <3> HIDE DEF c
    <3>4. /\ e \in Commands(T \cup {"pipe"}) /\ e.outfile = c.outfile /\ Written(e) = Written(c)
      BY <3>1, <3>3, PipedWritten, Zenon DEF in
    <3> HIDE DEF e
    <3>5. Written(out(e, i)) = Written(e)
      BY <3>3, <3>4, PipedWritten, Zenon DEF out
    <3> QED
      BY <2>1, <3>4, <3>5, Zenon DEF c, e
  <2> QED
    BY <2>2, <2>3
<1>6. \A i \in 1 .. Len(cs) : WrittenOf(T)[cs[i]] = Written(cs[i])
  BY <1>4, Zenon DEF WrittenOf
<1>7. DOMAIN r = 1 .. Len(cs)
  BY <1>2, Zenon
<1> QED
  BY <1>1, <1>3, <1>4, <1>5, <1>6, <1>7, Zenon

\* Unparse writes the entities of the line, with the & at its end.
LEMMA EntitiesUndone ==
  ASSUME NEW T, Complete(T), ";" \in T, NEW cs, Alternates(cs, T), Clear(cs),
         NEW p, p.bkgr_mode = IsDelim(cs, Len(cs), "&"),
         p.cmds = IF p.bkgr_mode THEN Front(Redirected(cs)) ELSE Redirected(cs)
  PROVE  Unparse(p) = Joins(cs, WrittenOf(T))
<1> DEFINE r == Redirected(cs)
           n == Len(cs)
           W == WrittenOf(T)
           F == [i \in 1 .. n |-> W[cs[i]]]
<1>1. /\ DOMAIN r = 1 .. n /\ DOMAIN cs = 1 .. n /\ n \in Nat
      /\ \A i \in 1 .. n : Written(r[i]) = W[cs[i]] /\ Written(r[i]) \in Seq(T)
  BY RedirectedUndone, Zenon
<1>2. Joins(cs, W) = FlattenSeq(F)
  BY <1>1, Zenon DEF Joins
<1>3. F \in [1 .. n -> Seq(T)]
  BY <1>1, Zenon
<1>a. FlattenSeq(F) \in Seq(T)
  <2> DEFINE Q == Seq(T)
  <2> HIDE DEF Q, F, n
  <2>1. F \in [1 .. n -> Q] /\ n \in Nat
    BY <1>1, <1>3, Zenon DEF Q
  <2>2. F \in Seq(Q)
    BY ONLY <2>1, SeqDef
  <2> QED
    BY <2>2, FlattenSeqType, Zenon DEF Q
<1>4. CASE ~p.bkgr_mode
  <2>1. p.cmds = r
    BY <1>4
  <2>2. [i \in DOMAIN p.cmds |-> Written(p.cmds[i])] = F
    BY <1>1, <2>1, Zenon
  <2>3. Unparse(p) = FlattenSeq(F) \o <<>>
    BY <1>4, <2>2, Zenon DEF Unparse
  <2> DEFINE v == FlattenSeq(F)
  <2> HIDE DEF v
  <2>4. v \in Seq(T) => v \o <<>> = v
    BY ConcatEmptySeq
  <2> QED
    BY <1>2, <1>a, <2>3, <2>4, Zenon DEF v
<1>5. CASE p.bkgr_mode
  <2> DEFINE f == Front(r)
             G == [i \in 1 .. n - 1 |-> W[cs[i]]]
  <2>1. p.cmds = f /\ IsDelim(cs, n, "&")
    BY <1>5
  <2>2. n \in 1 .. n /\ cs[n].kind = "del" /\ cs[n].delim = "&"
    BY <1>1, <2>1, Zenon DEF IsDelim
  <2>3. W[cs[n]] = <<"&">>
    <3>1. cs[n] \in Entities(T)
      BY <2>2, Zenon DEF Alternates, Entities
    <3>2. W[cs[n]] = Written(cs[n])
      BY <3>1, Zenon DEF WrittenOf
    <3> QED
      BY <2>2, <3>2 DEF Written
  <2>4. DOMAIN f = 1 .. n - 1 /\ \A i \in 1 .. n - 1 : f[i] = r[i] /\ i \in 1 .. n
    <3> DEFINE E == Commands(T \cup {"pipe"}) \cup Delims
    <3>1. r \in Seq(E) /\ Len(r) = n
      BY RedirectedIs, Zenon DEF Alternates
    <3> HIDE DEF r, E, n
    <3>2. r # <<>>
      BY ONLY <2>2, <3>1, <1>1
    <3>3. f \in Seq(E) /\ Len(f) = n - 1
      BY <3>1, <3>2, FrontAndLast
    <3>4. r = Append(f, Last(r)) /\ Last(r) \in E
      BY <3>1, <3>2, FrontAndLast
    <3> HIDE DEF f
    <3>5. \A i \in 1 .. n - 1 : r[i] = f[i]
      BY ONLY <3>3, <3>4, AppendProperties
    <3>6. DOMAIN f = 1 .. n - 1
      BY ONLY <3>3, LenProperties
    <3>7. \A i \in 1 .. n - 1 : i \in 1 .. n
      BY ONLY <1>1
    <3> QED
      BY <3>5, <3>6, <3>7
  <2> HIDE DEF f
  <2>5. [i \in DOMAIN p.cmds |-> Written(p.cmds[i])] = G
    BY <1>1, <2>1, <2>4, ZenonT(40)
  <2>6. Unparse(p) = FlattenSeq(G) \o <<"&">>
    BY <1>5, <2>5, Zenon DEF Unparse
  <2>7. FlattenSeq(F) = FlattenSeq(G) \o F[n]
    <3> DEFINE Q == Seq(T)
               m == n - 1
    <3>1. m \in Nat /\ m + 1 = n /\ \A i \in 1 .. m : i \in 1 .. n
      BY ONLY <1>1, <2>2
    <3>2. F \in [1 .. m + 1 -> Q]
      BY <1>3, <3>1 DEF Q
    <3> HIDE DEF Q, m
    <3>3. G \in [1 .. m -> Q] /\ \A i \in 1 .. m : F[i] = G[i]
      BY <1>1, <3>1, Zenon DEF m, Q
    <3> HIDE DEF F, G
    <3>4. FlattenSeq(F) = FlattenSeq(G) \o F[m + 1]
      BY <3>1, <3>2, <3>3, FlattenLast, Zenon DEF Q
    <3> QED
      BY <3>1, <3>4, Zenon
  <2>8. F[n] = <<"&">>
    BY <2>2, <2>3, Zenon
  <2> QED
    BY <1>2, <2>6, <2>7, <2>8, Zenon
<1> QED
  BY <1>4, <1>5

\* Parsing is undone.
LEMMA ParseUndone ==
  ASSUME NEW T, Complete(T), ";" \in T, NEW s \in Seq(T), WellWritten(s), parse(s).defined
  PROVE  Faithful(parse(s), s)
<1> DEFINE t == Joined(s)
           cs == Split(t)
           p == parse(s)
           u == parts(t)
           H == BackOf(T)
<1>1. t \in Seq(T) /\ Joins(t, H) = Joins(s, H)
  BY JoinedIs, Zenon
<1>2. Joins(s, H) = s
  BY BackKeeps, Zenon DEF WellWritten
<1>3. FilesInPlace(u) /\ NoFileAtPipe(u)
  BY Zenon DEF WellWritten
<1>4. p.bkgr_mode = IsDelim(cs, Len(cs), "&")
      /\ p.cmds = IF p.bkgr_mode THEN Front(Redirected(cs)) ELSE Redirected(cs)
  BY DEF parse
<1>a. Runnable(cs)
  BY DEF parse, Runnable
<1>b. BlanksInCommands(t) => BlanksInCommands(s)
  BY JoinedMarks DEF Complete
<1> HIDE DEF t, p, cs, u, H
<1>c. BlanksInCommands(t) /\ Split(u) = cs
  BY <1>1, <1>a, SplitRuns, Zenon DEF cs, u
<1>d. u \in Seq(T) /\ NoBlanks(u)
  BY <1>1, PartsSeq, PartsAre, Zenon DEF u
<1>e. Joins(u, H) = parts(Joins(t, H))
  BY <1>1, BackParts, Zenon DEF u, H
<1>5. Joins(cs, WrittenOf(T)) = Joins(u, H) /\ Clear(cs)
  BY <1>3, <1>c, <1>d, SplitUndone, Zenon DEF H
<1>6. Alternates(cs, T)
  BY <1>1, SplitIs, Zenon DEF cs
<1>7. Unparse(p) = Joins(cs, WrittenOf(T))
  BY <1>4, <1>5, <1>6, EntitiesUndone, Zenon
<1>8. Unparse(p) = parts(s)
  BY <1>1, <1>2, <1>5, <1>7, <1>e, Zenon
<1> QED
  BY <1>8, <1>b, <1>c, Zenon DEF p, Faithful

LEMMA LineUndone ==
  ASSUME NEW s \in Seq(STRING), WellWritten(s), parse(s).defined
  PROVE  Faithful(parse(s), s)
<1> DEFINE T == STRING \cup {"|", "&", "@", "$", "<", ">", ";"}
<1>1. Complete(T) /\ ";" \in T
  BY DEF Complete
<1>2. STRING \subseteq T
  OBVIOUS
<1> HIDE DEF T
<1>3. s \in Seq(T)
  BY <1>2, SeqSubset, Zenon
<1> QED
  BY <1>1, <1>3, ParseUndone, Zenon

----------------------------------------------------------------------------
(* The lines *)

\* No word of a line is "pipe", by which the parser means a pipe.
NoPipeWord == \A s \in Lines : \A i \in 1 .. Len(s) : s[i] # "pipe"

\* The entities of a line: commands and operators in turn, with their pipes.
Tokens == STRING \cup {"@", "$", "pipe"}
LineIs(cs) == Alternates(cs, Tokens) /\ (NoPipeWord => Reads(cs))

LEMMA ParseIs ==
  ASSUME NEW s \in Lines
  PROVE  LineIs(parse(s).cmds)
<1>1. Len(s) \in Nat /\ s \in [1 .. Len(s) -> STRING]
  BY ShellAssumption, LenProperties
<1>2. Alternates(parse(s).cmds, Tokens)
  <2>1. Tokens \cup {"pipe"} = Tokens /\ {"@", "$"} \subseteq Tokens
    BY DEF Tokens
  <2>2. s \in [1 .. Len(s) -> Tokens]
    BY <1>1 DEF Tokens
  <2>3. s \in Seq(Tokens)
    BY <1>1, <2>2, SeqDef
  <2>4. Parses(s, Tokens)
    BY <2>1, <2>3, ParseOf
  <2> QED
    BY <2>1, <2>4, Zenon DEF Parses
<1>3. ASSUME NoPipeWord PROVE Reads(parse(s).cmds)
  <2> DEFINE T == Tokens \ {"pipe"}
  <2>1. s \in [1 .. Len(s) -> T]
    BY <1>1, <1>3 DEF NoPipeWord, Tokens
  <2>2. s \in Seq(T)
    BY <1>1, <2>1, SeqDef
  <2>3. {"@", "$"} \subseteq T /\ "pipe" \notin T
    BY DEF Tokens
  <2> HIDE DEF T
  <2>4. Parses(s, T)
    BY <2>2, <2>3, ParseOf
  <2> QED
    BY <2>3, <2>4, Zenon DEF Parses
<1> QED
  BY <1>2, <1>3 DEF LineIs

----------------------------------------------------------------------------
(* The invariant *)

States == {"running", "zombie", "reaped"}

IsProcess(x) ==
  /\ x = [line |-> x.line, cmd |-> x.cmd, word |-> x.word, input |-> x.input,
          state |-> x.state, status |-> x.status, late |-> x.late]
  /\ x.line \in Nat /\ x.cmd \in Nat /\ x.state \in States /\ x.status \in Status
  /\ x.late \in BOOLEAN

\* A list of processes, of the lines 1 .. n.
AreProcesses(ps, n) ==
  /\ Len(ps) \in Nat /\ ps = [p \in 1 .. Len(ps) |-> ps[p]]
  /\ \A p \in 1 .. Len(ps) : IsProcess(ps[p]) /\ ps[p].line \in 1 .. n

Phases == {"prompt", "read", "spawned", "run", "start", "started", "wait", "final",
           "ended", "undefined"}

Typed ==
  /\ eof \in BOOLEAN /\ interrupts \in Nat /\ lines \in Nat
  /\ AreProcesses(procs, lines)
  /\ phase \in Phases /\ active_process \in BOOLEAN /\ foreign \in BOOLEAN
  /\ pids \subseteq 1 .. Len(procs) /\ \A p \in pids : procs[p].state # "reaped"
  /\ iter \in Nat /\ iter % 2 = 1 /\ prev_op \in Ops \cup {""}
  /\ cur_pid \in 0 .. Len(procs) /\ cur_status \in Status
  /\ cnt_proc \in Nat /\ fdpipe \in 0 .. Len(procs)
  /\ LineIs(cmds)
  \* who is about to come into pids
  /\ phase = "spawned" => Len(procs) > 0 /\ procs[Len(procs)].state # "reaped"
  /\ phase = "started" => cur_pid # 0 /\ procs[cur_pid].state # "reaped"
  /\ phase = "wait" => cnt_proc > 0

\* The processes of the line: in run, one for each command that was started, in
\* order, the last of which is cur_pid.
Ran == {p \in 1 .. Len(procs) : procs[p].line = lines}

\* Where run is in the line.
Place ==
  InRun =>
    /\ lines > 0
    /\ \A p \in Ran :
         /\ procs[p].cmd % 2 = 1 /\ procs[p].cmd <= iter
         /\ phase \in {"run", "start"} => procs[p].cmd < iter
    /\ \A p, q \in Ran : p < q => procs[p].cmd < procs[q].cmd
    /\ \A p \in Ran : cur_pid \in Ran /\ p <= cur_pid
    /\ phase \in {"started", "wait"} => cur_pid \in Ran /\ procs[cur_pid].cmd = iter
    /\ IF iter = 1 THEN prev_op = ""
       ELSE cur_pid \in Ran /\ iter - 1 <= Len(cmds) /\ prev_op = cmds[iter - 1].delim
    /\ phase \in {"start", "started", "wait"} => iter <= Len(cmds)
    /\ phase = "wait" => EndsPipeline

\* run counts the processes of the line it has not waited for.
Unwaited == {p \in Ran : procs[p].state # "reaped"}
Counted ==
  InRun =>
    /\ phase \in {"run", "start"} /\ prev_op \notin {"|", "&"} => cnt_proc = 0
    /\ ~foreign => Cardinality(Unwaited) = IF phase = "started" THEN cnt_proc + 1 ELSE cnt_proc
    /\ (cur_pid \in Ran /\ procs[cur_pid].state = "reaped") => cur_status = procs[cur_pid].status

\* At most one process is started after SIGINT, and run does not go on then.
Late == {p \in Mine : procs[p].late}
Interrupted ==
  /\ \A p, q \in Late : p = q
  /\ Late # {} => phase # "start" /\ (InRun => ~active_process)

\* The pipes: fdpipe is used by the command behind a |, and nothing else has it.
PipeOf(before) == before \cup (IF before = {} THEN {0} ELSE {})
ReadsFrom(p) ==
  IF IsDelim(cmds, procs[p].cmd - 1, "|") THEN procs[p].input \in PipeOf(Of(procs[p].cmd - 2))
  ELSE procs[p].input \in {Terminal, File}
Piping ==
  (InRun /\ NoPipeWord) =>
    /\ phase \in {"run", "start"} => IF prev_op = "|" THEN fdpipe \in PipeOf(Of(iter - 2)) ELSE fdpipe = 0
    /\ phase \in {"started", "wait"} => fdpipe = IF IsDelim(cmds, iter + 1, "|") THEN cur_pid ELSE 0
    /\ \A p \in Ran : ReadsFrom(p)

\* A command behind || or && was started because of the status of the last one
\* started before it.
Chosen(p) ==
  (procs[p].cmd > 1 /\ cmds[procs[p].cmd - 1].delim \in {"||", "&&"}) =>
    \E q \in Ran :
      /\ procs[q].cmd < procs[p].cmd /\ procs[q].state = "reaped"
      /\ procs[q].status = "0" <=> cmds[procs[p].cmd - 1].delim = "&&"
      /\ \A r \in Ran : procs[r].cmd < procs[p].cmd => r <= q
Lazily ==
  (InRun /\ ~foreign) =>
    /\ phase = "start" => ~Lazy
    /\ \A p \in Ran : Chosen(p)

Inv == Typed /\ Place /\ Counted /\ Interrupted /\ Piping /\ Lazily

----------------------------------------------------------------------------
(* Facts the steps need *)

LEMMA Parity ==
  ASSUME NEW i \in Nat, i % 2 = 1
  PROVE  /\ i > 0 /\ (i + 1) % 2 = 0 /\ (i - 1) % 2 = 0 /\ (i + 2) % 2 = 1
         /\ i # 1 => i - 1 \in Nat \ {0} /\ i - 2 \in Nat \ {0} /\ (i - 2) % 2 = 1
OBVIOUS

\* The operators of a line, and the files of its commands.
LineHas(cs) ==
  /\ Len(cs) \in Nat
  /\ \A i \in 1 .. Len(cs) : i % 2 = 0 => cs[i].delim \in Ops
  /\ \A i \in Int : i % 2 = 0 => \A d : IsDelim(cs, i, d) <=> i \in 1 .. Len(cs) /\ cs[i].delim = d
  /\ NoPipeWord =>
       \A i \in 1 .. Len(cs) :
         i % 2 = 1 => /\ cs[i].infile = "pipe" <=> IsDelim(cs, i - 1, "|")
                      /\ cs[i].outfile = "pipe" <=> IsDelim(cs, i + 1, "|")

LEMMA LineFacts ==
  ASSUME NEW cs, LineIs(cs)
  PROVE  LineHas(cs)
<1>1. Alternates(cs, Tokens) /\ (NoPipeWord => Reads(cs))
  BY DEF LineIs
<1>2. /\ DOMAIN cs = 1 .. Len(cs) /\ Len(cs) \in Nat
      /\ \A i \in 1 .. Len(cs) : i % 2 # 1 => cs[i].delim \in Ops /\ \A d : IsDelim(cs, i, d) <=> cs[i].delim = d
  BY <1>1, DelimIs, Zenon
<1>3. ASSUME NEW i \in Int, NEW d, i % 2 = 0
      PROVE  IsDelim(cs, i, d) <=> i \in 1 .. Len(cs) /\ cs[i].delim = d
  <2>1. i \notin 1 .. Len(cs) => ~IsDelim(cs, i, d)
    BY <1>2, Zenon DEF IsDelim
  <2>2. i % 2 # 1
    BY <1>3
  <2> QED
    BY <1>2, <2>1, <2>2, Zenon
<1>4. \A i \in 1 .. Len(cs) : i % 2 = 0 => cs[i].delim \in Ops
  <2>1. \A i \in 1 .. Len(cs) : i % 2 = 0 => i % 2 # 1
    OBVIOUS
  <2> QED
    BY <1>2, <2>1, Zenon
<1> QED
  BY <1>1, <1>2, <1>3, <1>4, Zenon DEF LineHas, Reads

\* The process y is x, perhaps a step further in its life.
Older(x, y) ==
  /\ IsProcess(y)
  /\ y.line = x.line /\ y.cmd = x.cmd /\ y.input = x.input /\ y.late = x.late
  /\ \/ y.state = x.state /\ y.status = x.status
     \/ x.state = "running" /\ y.state = "zombie"
     \/ x.state = "zombie" /\ y.state = "reaped" /\ y.status = x.status

Aged(ps, qs) ==
  /\ Len(qs) = Len(ps) /\ qs = [p \in 1 .. Len(ps) |-> qs[p]]
  /\ \A p \in 1 .. Len(ps) : Older(ps[p], qs[p])

\* Nobody was waited for but those in S.
Waited(ps, qs, S) ==
  \A p \in 1 .. Len(ps) : qs[p].state = "reaped" <=> ps[p].state = "reaped" \/ p \in S

LEMMA Places ==
  ASSUME NEW ps, NEW n, AreProcesses(ps, n)
  PROVE  /\ Len(ps) \in Nat /\ DOMAIN ps = 1 .. Len(ps)
         /\ \A p \in 1 .. Len(ps) : /\ IsProcess(ps[p]) /\ ps[p].line \in 1 .. n
                                    /\ ps[p].cmd \in Nat /\ ps[p].state \in States
                                    /\ ps[p].status \in Status /\ ps[p].late \in BOOLEAN
<1>1. DOMAIN ps = 1 .. Len(ps)
  <2>1. ps = [p \in 1 .. Len(ps) |-> ps[p]]
    BY DEF AreProcesses
  <2> QED
    BY <2>1, Zenon
<1> QED
  BY <1>1 DEF AreProcesses, IsProcess

\* A list of the same places has the same length.
LEMMA SameLen ==
  ASSUME NEW n \in Nat, NEW f, f = [p \in 1 .. n |-> f[p]]
  PROVE  Len(f) = n
<1>1. DOMAIN f = 1 .. n
  BY Zenon
<1> DEFINE S == {f[p] : p \in 1 .. n}
<1>2. f \in [1 .. n -> S]
  BY <1>1
<1> HIDE DEF S
<1>3. f \in Seq(S)
  BY <1>2, SeqDef
<1>4. Len(f) \in Nat /\ DOMAIN f = 1 .. Len(f)
  BY <1>3, LenProperties
<1> QED
  BY <1>1, <1>4

\* Nothing happens.
LEMMA AgedNot ==
  ASSUME NEW ps, NEW n, AreProcesses(ps, n)
  PROVE  Aged(ps, ps) /\ Waited(ps, ps, {})
BY Places DEF Aged, Waited, Older, AreProcesses

\* A process with another state and status.
LEMMA ExceptIs ==
  ASSUME NEW x, NEW v, NEW s,
         x = [line |-> x.line, cmd |-> x.cmd, word |-> x.word, input |-> x.input,
              state |-> x.state, status |-> x.status, late |-> x.late]
  PROVE  [x EXCEPT !.state = v, !.status = s] =
         [line |-> x.line, cmd |-> x.cmd, word |-> x.word, input |-> x.input,
          state |-> v, status |-> s, late |-> x.late]
<1> DEFINE w == [line |-> x.line, cmd |-> x.cmd, word |-> x.word, input |-> x.input,
                 state |-> v, status |-> x.status, late |-> x.late]
<1>1. [x EXCEPT !.state = v, !.status = s] = [[x EXCEPT !.state = v] EXCEPT !.status = s]
  BY Zenon
<1>2. [x EXCEPT !.state = v] = w
  <2>1. DOMAIN x = {"line", "cmd", "word", "input", "state", "status", "late"}
    BY SMT
  <2> QED
    BY <2>1, SMT
<1>3. [w EXCEPT !.status = s] =
      [line |-> x.line, cmd |-> x.cmd, word |-> x.word, input |-> x.input,
       state |-> v, status |-> s, late |-> x.late]
  BY SMT
<1> QED
  BY <1>1, <1>2, <1>3, Zenon

\* The processes of Q change their state from u to v.
Changed(ps, qs, Q, st, u, v) ==
  /\ Q \subseteq 1 .. Len(ps)
  /\ \A p \in Q : st[p] \in Status /\ ps[p].state = u /\ (v = "reaped" => st[p] = ps[p].status)
  /\ <<u, v>> \in {<<"running", "zombie">>, <<"zombie", "reaped">>}
  /\ qs = [p \in 1 .. Len(ps) |->
             IF p \in Q THEN [ps[p] EXCEPT !.state = v, !.status = st[p]] ELSE ps[p]]

LEMMA AgedBy ==
  ASSUME NEW ps, NEW n, AreProcesses(ps, n), NEW qs, NEW Q, NEW st, NEW u, NEW v,
         Changed(ps, qs, Q, st, u, v)
  PROVE  Aged(ps, qs) /\ Waited(ps, qs, IF v = "reaped" THEN Q ELSE {})
<1> USE DEF Changed
<1>1. /\ Len(ps) \in Nat /\ \A p \in 1 .. Len(ps) : IsProcess(ps[p])
  BY Places
<1>2. qs = [p \in 1 .. Len(ps) |-> qs[p]]
  OBVIOUS
<1>3. Len(qs) = Len(ps)
  BY <1>1, <1>2, SameLen
<1>4. ASSUME NEW p \in 1 .. Len(ps)
      PROVE  /\ Older(ps[p], qs[p])
             /\ qs[p].state = "reaped" <=> ps[p].state = "reaped" \/ (v = "reaped" /\ p \in Q)
  <2> DEFINE x == ps[p]
  <2>1. IsProcess(x)
    BY <1>1
  <2>2. CASE p \in Q
    <3> DEFINE s == st[p]
    <3>1. qs[p] = [x EXCEPT !.state = v, !.status = s]
      BY <2>2
    <3>2. s \in Status /\ x.state = u /\ (v = "reaped" => s = x.status)
      BY <2>2
    <3> HIDE DEF x, s
    <3>3. \/ u = "running" /\ v = "zombie"
          \/ u = "zombie" /\ v = "reaped"
      OBVIOUS
    <3> DEFINE y == [line |-> x.line, cmd |-> x.cmd, word |-> x.word, input |-> x.input,
                     state |-> v, status |-> s, late |-> x.late]
    <3>4. qs[p] = y
      <4>1. x = [line |-> x.line, cmd |-> x.cmd, word |-> x.word, input |-> x.input,
                 state |-> x.state, status |-> x.status, late |-> x.late]
        BY <2>1, Zenon DEF IsProcess
      <4>2. [x EXCEPT !.state = v, !.status = s] = y
        BY <4>1, ExceptIs, Zenon
      <4> QED
        BY <3>1, <4>2, Zenon
    <3>a. /\ y.line = x.line /\ y.cmd = x.cmd /\ y.word = x.word /\ y.input = x.input
          /\ y.state = v /\ y.status = s /\ y.late = x.late
      OBVIOUS
    <3>b. y = [line |-> y.line, cmd |-> y.cmd, word |-> y.word, input |-> y.input,
               state |-> y.state, status |-> y.status, late |-> y.late]
      OBVIOUS
    <3> HIDE DEF y
    <3>c. IsProcess(y)
      BY <2>1, <3>2, <3>3, <3>a, <3>b DEF IsProcess, States
    <3>5. Older(x, qs[p]) /\ qs[p].state = v
      BY <3>2, <3>3, <3>4, <3>a, <3>c DEF Older
    <3> QED
      BY <2>2, <3>2, <3>3, <3>5 DEF x
  <2>3. CASE p \notin Q
    <3>1. qs[p] = x
      BY <2>3
    <3> QED
      BY <2>1, <2>3, <3>1 DEF Older
  <2> QED
    BY <2>2, <2>3
<1> QED
  BY <1>2, <1>3, <1>4 DEF Aged, Waited

\* A process that ends, and one that is waited for, as AgedBy has them.
LEMMA ChangedIs ==
  ASSUME NEW ps, NEW n, AreProcesses(ps, n), NEW p \in 1 .. Len(ps), NEW v, NEW s
  PROVE  /\ [ps EXCEPT ![p].state = v, ![p].status = s] =
              [q \in 1 .. Len(ps) |-> IF q \in {p} THEN [ps[q] EXCEPT !.state = v, !.status = s] ELSE ps[q]]
         /\ s = ps[p].status =>
              [ps EXCEPT ![p].state = v] =
              [q \in 1 .. Len(ps) |-> IF q \in {p} THEN [ps[q] EXCEPT !.state = v, !.status = s] ELSE ps[q]]
<1> DEFINE D == 1 .. Len(ps)
           x == ps[p]
           a == [x EXCEPT !.state = v]
           y == [x EXCEPT !.state = v, !.status = s]
           g == [ps EXCEPT ![p] = a]
           h == [q \in D |-> IF q \in {p} THEN [ps[q] EXCEPT !.state = v, !.status = s] ELSE ps[q]]
<1>1. DOMAIN ps = D
  BY Places
<1>2. IsProcess(x)
  BY Places
<1>3. h = [q \in D |-> IF q = p THEN y ELSE ps[q]]
  BY Zenon
<1>4. [ps EXCEPT ![p].state = v, ![p].status = s] = [g EXCEPT ![p] = [g[p] EXCEPT !.status = s]]
  BY Zenon
<1>5. [ps EXCEPT ![p].state = v] = g
  BY Zenon
<1>6. g[p] = a /\ DOMAIN g = D /\ \A q \in D : q # p => g[q] = ps[q]
  BY <1>1
<1>7. y = [a EXCEPT !.status = s]
  BY Zenon
<1>8. s = x.status => y = a
  <2>1. x = [line |-> x.line, cmd |-> x.cmd, word |-> x.word, input |-> x.input,
             state |-> x.state, status |-> x.status, late |-> x.late]
    BY <1>2, Zenon DEF IsProcess
  <2> HIDE DEF x
  <2>2. a = [line |-> x.line, cmd |-> x.cmd, word |-> x.word, input |-> x.input,
             state |-> v, status |-> x.status, late |-> x.late]
    <3>1. DOMAIN x = {"line", "cmd", "word", "input", "state", "status", "late"}
      BY <2>1, SMT
    <3> QED
      BY <2>1, <3>1, SMT
  <2>3. y = [line |-> x.line, cmd |-> x.cmd, word |-> x.word, input |-> x.input,
             state |-> v, status |-> s, late |-> x.late]
    BY <2>1, ExceptIs, Zenon
  <2> QED
    BY <2>2, <2>3, Zenon
<1> HIDE DEF a, y, g, x, D
<1>9. [g EXCEPT ![p] = [g[p] EXCEPT !.status = s]] = [q \in D |-> IF q = p THEN y ELSE ps[q]]
  <2>1. p \in D
    BY DEF D
  <2> QED
    BY ONLY <1>6, <1>7, <2>1
<1>10. s = x.status => g = [q \in D |-> IF q = p THEN y ELSE ps[q]]
  <2>1. g = [ps EXCEPT ![p] = a]
    BY DEF g
  <2> QED
    BY ONLY <2>1, <1>1, <1>8
<1> QED
  BY <1>3, <1>4, <1>5, <1>9, <1>10, Zenon DEF x, D

\* What a step does to the processes that are there.
Ages(S) == Aged(procs, procs') /\ Waited(procs, procs', S)

LEMMA EndsAges ==
  ASSUME AreProcesses(procs, lines), NEW p \in DOMAIN procs, Ends(p)
  PROVE  Ages({})
<1> DEFINE Q == {p}
<1>1. p \in 1 .. Len(procs) /\ Q \subseteq 1 .. Len(procs) /\ \A q \in Q : procs[q].state = "running"
  BY Places DEF Ends, Running
<1>2. PICK s \in {"0", "1"} : procs' = [procs EXCEPT ![p].state = "zombie", ![p].status = s]
  BY DEF Ends
<1> DEFINE st == [q \in Q |-> s]
<1>3. procs' = [q \in 1 .. Len(procs) |->
                  IF q \in Q THEN [procs[q] EXCEPT !.state = "zombie", !.status = st[q]] ELSE procs[q]]
  <2>1. procs' = [q \in 1 .. Len(procs) |->
                    IF q \in Q THEN [procs[q] EXCEPT !.state = "zombie", !.status = s] ELSE procs[q]]
    BY <1>1, <1>2, ChangedIs, Zenon
  <2> QED
    BY <2>1, Zenon
<1>4. \A q \in Q : st[q] \in Status
  BY DEF Status
<1> HIDE DEF Q, st
<1>5. Aged(procs, procs') /\ Waited(procs, procs', IF "zombie" = "reaped" THEN Q ELSE {})
  <2>1. /\ \A q \in Q : procs[q].state = "running" /\ ("zombie" = "reaped" => st[q] = procs[q].status)
        /\ <<"running", "zombie">> \in {<<"running", "zombie">>, <<"zombie", "reaped">>}
    BY <1>1
  <2>2. Changed(procs, procs', Q, st, "running", "zombie")
    BY <1>1, <1>3, <1>4, <2>1, Zenon DEF Changed
  <2> QED
    BY <2>2, AgedBy, Zenon
<1> QED
  BY <1>5 DEF Ages

LEMMA KilledAges ==
  ASSUME AreProcesses(procs, lines), NEW S, Killed(S)
  PROVE  Ages({})
<1> DEFINE Q == S \cap Running
           st == [q \in Q |-> "signal"]
<1>1. Q \subseteq 1 .. Len(procs) /\ \A q \in Q : procs[q].state = "running"
  BY Places DEF Running
<1>2. procs' = [q \in 1 .. Len(procs) |->
                  IF q \in Q THEN [procs[q] EXCEPT !.state = "zombie", !.status = st[q]] ELSE procs[q]]
  <2>1. DOMAIN procs = 1 .. Len(procs)
    BY Places
  <2> QED
    BY <2>1, Zenon DEF Killed
<1>3. \A q \in Q : st[q] \in Status
  BY DEF Status
<1> HIDE DEF Q, st
<1>4. Aged(procs, procs') /\ Waited(procs, procs', IF "zombie" = "reaped" THEN Q ELSE {})
  <2>1. /\ \A q \in Q : procs[q].state = "running" /\ ("zombie" = "reaped" => st[q] = procs[q].status)
        /\ <<"running", "zombie">> \in {<<"running", "zombie">>, <<"zombie", "reaped">>}
    BY <1>1
  <2>2. Changed(procs, procs', Q, st, "running", "zombie")
    BY <1>1, <1>2, <1>3, <2>1, Zenon DEF Changed
  <2> QED
    BY <2>2, AgedBy, Zenon
<1> QED
  BY <1>4 DEF Ages

LEMMA WaitedAges ==
  ASSUME AreProcesses(procs, lines), NEW p \in DOMAIN procs, waited_for(p)
  PROVE  Ages({p}) /\ procs[p].state = "zombie"
<1> DEFINE Q == {p}
           st == [q \in Q |-> procs[p].status]
<1>1. /\ p \in 1 .. Len(procs) /\ Q \subseteq 1 .. Len(procs) /\ \A q \in Q : procs[q].state = "zombie"
      /\ \A q \in Q : st[q] \in Status /\ st[q] = procs[q].status
  BY Places DEF waited_for, Zombies
<1>2. procs' = [q \in 1 .. Len(procs) |->
                  IF q \in Q THEN [procs[q] EXCEPT !.state = "reaped", !.status = st[q]] ELSE procs[q]]
  <2>1. procs' = [q \in 1 .. Len(procs) |->
                    IF q \in Q THEN [procs[q] EXCEPT !.state = "reaped", !.status = procs[p].status] ELSE procs[q]]
    BY <1>1, ChangedIs, Zenon DEF waited_for
  <2> QED
    BY <2>1, Zenon
<1>3. p \in Q
  OBVIOUS
<1>4. Q = {p}
  OBVIOUS
<1> HIDE DEF Q, st
<1>5. Aged(procs, procs') /\ Waited(procs, procs', IF "reaped" = "reaped" THEN Q ELSE {})
  <2>1. <<"zombie", "reaped">> \in {<<"running", "zombie">>, <<"zombie", "reaped">>}
    OBVIOUS
  <2>2. Changed(procs, procs', Q, st, "zombie", "reaped")
    BY <1>1, <1>2, <2>1, Zenon DEF Changed
  <2> QED
    BY <2>2, AgedBy, Zenon
<1> QED
  BY <1>1, <1>3, <1>4, <1>5 DEF Ages

LEMMA NoneAges ==
  ASSUME AreProcesses(procs, lines), procs' = procs
  PROVE  Ages({})
BY AgedNot, Zenon DEF Ages

\* Then the processes of the line are the same.
Same ==
  /\ AreProcesses(procs', lines') /\ Len(procs') = Len(procs)
  /\ Ran' = Ran /\ Mine' = Mine /\ Late' = Late /\ \A i : Of(i)' = Of(i)
  /\ \A p \in 1 .. Len(procs) :
       /\ procs'[p].line = procs[p].line /\ procs'[p].cmd = procs[p].cmd /\ procs'[p].input = procs[p].input

LEMMA AgedSame ==
  ASSUME AreProcesses(procs, lines), Aged(procs, procs'), lines' = lines
  PROVE  Same
<1>1. /\ Len(procs') = Len(procs) /\ procs' = [p \in 1 .. Len(procs) |-> procs'[p]]
      /\ \A p \in 1 .. Len(procs) : Older(procs[p], procs'[p])
  BY DEF Aged
<1>2. /\ Len(procs) \in Nat /\ DOMAIN procs = 1 .. Len(procs)
      /\ \A p \in 1 .. Len(procs) : procs[p].line \in 1 .. lines
  BY Places
<1>3. DOMAIN procs' = 1 .. Len(procs)
  BY <1>1, Zenon
<1>4. \A p \in 1 .. Len(procs) : /\ procs'[p].line = procs[p].line /\ procs'[p].cmd = procs[p].cmd
                                 /\ procs'[p].input = procs[p].input /\ procs'[p].late = procs[p].late
                                 /\ IsProcess(procs'[p])
  BY <1>1 DEF Older
<1>5. AreProcesses(procs', lines')
  BY <1>1, <1>2, <1>4 DEF AreProcesses
<1>6. Ran' = Ran
  BY <1>1, <1>4 DEF Ran
<1>7. Mine' = Mine
  BY <1>2, <1>3, <1>4 DEF Mine
<1>8. Late' = Late
  BY <1>2, <1>4, <1>7 DEF Late, Mine
<1>9. \A i : Of(i)' = Of(i)
  BY <1>2, <1>4, <1>7 DEF Of, Mine
<1> QED
  BY <1>1, <1>4, <1>5, <1>6, <1>7, <1>8, <1>9 DEF Same

----------------------------------------------------------------------------
(* Steps outside of run *)

\* run is left, or was not entered.
LEMMA Leaves ==
  ASSUME Typed', Same, Interrupted, phase' \notin {"run", "start", "started", "wait"}
  PROVE  Inv'
<1>1. ~InRun'
  BY DEF InRun
<1>2. \A p, q \in Late' : p = q
  BY DEF Same, Interrupted
<1>3. Interrupted'
  BY <1>1, <1>2 DEF Interrupted, InRun
<1> QED
  BY <1>1, <1>3 DEF Inv, Place, Counted, Piping, Lazily

\* A step of the world, of the handler, or one that waits for a process before a
\* line is read: it can make processes older, clear active_process and make pids smaller.
Outside ==
  /\ \E S : Ages(S) /\ (phase \in {"prompt", "final"} \/ S = {})
  /\ lines' = lines /\ phase' = phase
  /\ cmds' = cmds /\ iter' = iter /\ prev_op' = prev_op /\ cur_pid' = cur_pid
  /\ cur_status' = cur_status /\ cnt_proc' = cnt_proc /\ fdpipe' = fdpipe /\ foreign' = foreign
  /\ eof' \in BOOLEAN /\ interrupts' \in Nat
  /\ active_process' \in {FALSE, active_process}
  /\ pids' \subseteq pids /\ \A p \in pids' : procs'[p].state # "reaped"

\* Nobody of the line was waited for.
LEMMA AgedRun ==
  ASSUME AreProcesses(procs, lines), Ages({}), lines' = lines
  PROVE  /\ Same
         /\ \A p \in 1 .. Len(procs) :
              /\ procs'[p].state = "reaped" <=> procs[p].state = "reaped"
              /\ procs[p].state = "reaped" => procs'[p].status = procs[p].status
         /\ Unwaited' = Unwaited
<1>1. Same
  BY AgedSame DEF Ages
<1>2. \A p \in 1 .. Len(procs) :
        /\ procs'[p].state = "reaped" <=> procs[p].state = "reaped"
        /\ procs[p].state = "reaped" => procs'[p].status = procs[p].status
  BY DEF Ages, Waited, Aged, Older
<1>3. Unwaited' = Unwaited
  BY <1>1, <1>2 DEF Same, Unwaited, Ran
<1> QED
  BY <1>1, <1>2, <1>3

LEMMA OutsideKeeps ==
  ASSUME Inv, Outside
  PROVE  Inv'
<1> USE DEF Inv
<1>1. PICK S : Ages(S) /\ (phase \in {"prompt", "final"} \/ S = {})
  BY DEF Outside
<1>2. AreProcesses(procs, lines)
  BY DEF Typed
<1>3. Same
  BY <1>1, <1>2, AgedSame DEF Ages, Outside
<1>4. Len(procs) \in Nat
  BY <1>2, Places
<1>5. Typed'
  <2>1. phase \notin {"prompt", "final"} =>
          \A p \in 1 .. Len(procs) : procs'[p].state = "reaped" <=> procs[p].state = "reaped"
    BY <1>1 DEF Ages, Waited
  <2>2. AreProcesses(procs', lines') /\ Len(procs') = Len(procs)
    BY <1>3 DEF Same
  <2>3. procs[Len(procs)].state # "reaped" /\ Len(procs) > 0 /\ phase = "spawned" =>
          procs'[Len(procs)].state # "reaped"
    BY <1>4, <2>1
  <2>4. cur_pid # 0 /\ procs[cur_pid].state # "reaped" /\ phase = "started" =>
          procs'[cur_pid].state # "reaped"
    <3>1. cur_pid \in 0 .. Len(procs)
      BY Zenon DEF Typed
    <3> QED
      BY ONLY <1>4, <2>1, <3>1
  <2>5. /\ phase' = "spawned" => Len(procs') > 0 /\ procs'[Len(procs')].state # "reaped"
        /\ phase' = "started" => cur_pid' # 0 /\ procs'[cur_pid'].state # "reaped"
        /\ phase' = "wait" => cnt_proc' > 0
    BY <2>2, <2>3, <2>4 DEF Typed, Outside
  <2>6. /\ eof' \in BOOLEAN /\ interrupts' \in Nat /\ lines' \in Nat
        /\ phase' \in Phases /\ foreign' \in BOOLEAN
        /\ pids' \subseteq 1 .. Len(procs') /\ \A p \in pids' : procs'[p].state # "reaped"
        /\ iter' \in Nat /\ iter' % 2 = 1 /\ prev_op' \in Ops \cup {""}
        /\ cur_pid' \in 0 .. Len(procs') /\ cur_status' \in Status
        /\ cnt_proc' \in Nat /\ fdpipe' \in 0 .. Len(procs')
        /\ LineIs(cmds')
    BY <2>2 DEF Typed, Outside
  <2>7. active_process' \in BOOLEAN
    BY DEF Typed, Outside
  <2> QED
    BY <2>2, <2>5, <2>6, <2>7, Zenon DEF Typed
<1>6. CASE phase \in {"run", "start", "started", "wait"}
  <2>1. InRun /\ InRun' /\ S = {}
    BY <1>1, <1>6 DEF InRun, Outside
  <2>2. /\ \A p \in 1 .. Len(procs) :
             /\ procs'[p].state = "reaped" <=> procs[p].state = "reaped"
             /\ procs[p].state = "reaped" => procs'[p].status = procs[p].status
        /\ Unwaited' = Unwaited
    BY <1>1, <1>2, <2>1, AgedRun, Zenon DEF Outside
  <2>3. \A p \in Ran : p \in 1 .. Len(procs)
    BY DEF Ran
  <2>4. Place'
    BY <1>3, <2>1, <2>3 DEF Place, Same, Outside, EndsPipeline
  <2>5. Counted'
    BY <1>3, <2>1, <2>2, <2>3 DEF Counted, Same, Outside
  <2>6. Interrupted'
    <3>1. (Late # {} => ~active_process) /\ active_process' \in {FALSE, active_process}
      BY <2>1 DEF Interrupted, Outside
    <3>2. Late # {} => ~active_process'
      BY <3>1, Zenon
    <3> QED
      BY <1>3, <2>1, <3>2 DEF Interrupted, Same, Outside
  <2>7. Piping'
    BY <1>3, <2>1, <2>3 DEF Piping, ReadsFrom, PipeOf, Same, Outside
  <2>8. Lazily'
    BY <1>3, <2>1, <2>2, <2>3, SMTT(30) DEF Lazily, Lazy, Chosen, Same, Outside
  <2> QED
    BY <1>5, <2>4, <2>5, <2>6, <2>7, <2>8
<1>7. CASE phase \notin {"run", "start", "started", "wait"}
  BY <1>3, <1>5, <1>7, Leaves DEF Outside
<1> QED
  BY <1>6, <1>7

LEMMA WorldKeeps ==
  ASSUME Inv, EndInput \/ handler \/ \E p \in DOMAIN procs : Ends(p) \/ Reap(p)
  PROVE  Inv'
<1> USE DEF Inv
<1>1. AreProcesses(procs, lines) /\ DOMAIN procs = 1 .. Len(procs)
  <2>1. AreProcesses(procs, lines)
    BY DEF Typed
  <2> QED
    BY <2>1, Places
<1>2. pids \subseteq 1 .. Len(procs) /\ \A p \in pids : procs[p].state # "reaped"
  BY DEF Typed
<1> SUFFICES Outside
  BY OutsideKeeps
<1>3. CASE EndInput
  <2>1. Ages({})
    BY <1>1, <1>3, NoneAges DEF EndInput
  <2>2. \A p \in pids' : procs'[p].state # "reaped"
    BY <1>2, <1>3 DEF EndInput, main
  <2> QED
    BY <1>3, <2>1, <2>2 DEF EndInput, main, runs, Outside, Typed
<1>4. CASE handler
  <2>1. Ages({})
    BY <1>1, <1>4, KilledAges DEF handler
  <2>2. \A p \in pids' : procs'[p].state # "reaped"
    BY <1>2, <1>4, <2>1 DEF Ages, Waited, handler
  <2>3. active_process' \in {FALSE, active_process}
    BY <1>4, Zenon DEF handler
  <2>4. /\ lines' = lines /\ phase' = phase
        /\ cmds' = cmds /\ iter' = iter /\ prev_op' = prev_op /\ cur_pid' = cur_pid
        /\ cur_status' = cur_status /\ cnt_proc' = cnt_proc /\ fdpipe' = fdpipe /\ foreign' = foreign
        /\ eof' = eof /\ interrupts' = interrupts + 1 /\ pids' = pids
    BY <1>4, Zenon DEF handler, runs
  <2>5. eof' \in BOOLEAN /\ interrupts' \in Nat
    <3>1. eof \in BOOLEAN /\ interrupts \in Nat
      BY Zenon DEF Typed
    <3> QED
      BY ONLY <2>4, <3>1
  <2> QED
    BY <2>1, <2>2, <2>3, <2>4, <2>5, Zenon DEF Outside
<1>5. ASSUME NEW p \in DOMAIN procs, Ends(p)
      PROVE  Outside
  <2>1. Ages({})
    BY <1>1, <1>5, EndsAges
  <2>2. \A q \in pids' : procs'[q].state # "reaped"
    BY <1>2, <1>5, <2>1 DEF Ages, Waited, Ends, main
  <2> QED
    BY <1>5, <2>1, <2>2 DEF Ends, main, runs, Outside, Typed
<1>6. ASSUME NEW p \in DOMAIN procs, Reap(p)
      PROVE  Outside
  <2>1. Ages({p})
    BY <1>1, <1>6, WaitedAges DEF Reap
  <2>2. pids' = pids \ {p}
    BY <1>6 DEF Reap, waited_for
  <2>3. \A q \in pids' : procs'[q].state # "reaped"
    BY <1>2, <2>1, <2>2 DEF Ages, Waited
  <2> QED
    BY <1>6, <2>1, <2>2, <2>3 DEF Reap, runs, Outside, Typed
<1> QED
  BY <1>3, <1>4, <1>5, <1>6

\* The steps of main that only move phase, or come back to the prompt.
LEMMA MainKeeps ==
  ASSUME Inv, Prompt \/ Spawned \/ EndOfInput \/ Finish \/ Return
  PROVE  Inv'
<1> USE DEF Inv
<1>1. AreProcesses(procs, lines)
  BY DEF Typed
<1>2. procs' = procs /\ lines' = lines
  BY DEF Prompt, Spawned, EndOfInput, Finish, Return, world, main
<1>3. Same
  BY <1>1, <1>2, NoneAges, AgedSame DEF Ages
<1>4. Len(procs) \in Nat
  BY <1>1, Places
<1>5. phase' \in {"read", "prompt", "final", "ended"}
  BY DEF Prompt, Spawned, EndOfInput, Finish, Return
<1>6. Typed'
  <2>1. pids' \subseteq 1 .. Len(procs') /\ \A p \in pids' : procs'[p].state # "reaped"
    <3>1. pids \subseteq 1 .. Len(procs) /\ \A p \in pids : procs[p].state # "reaped"
      BY DEF Typed
    <3>2. CASE Spawned
      <4>1. Len(procs) \in 1 .. Len(procs) /\ procs[Len(procs)].state # "reaped"
        <5>1. Len(procs) > 0 /\ procs[Len(procs)].state # "reaped"
          BY <3>2, Zenon DEF Spawned, Typed
        <5> QED
          BY ONLY <1>4, <5>1
      <4> QED
        BY <1>2, <3>1, <3>2, <4>1 DEF Spawned
    <3>3. CASE Prompt \/ EndOfInput \/ Finish \/ Return
      BY <1>2, <3>1, <3>3 DEF Prompt, EndOfInput, Finish, Return, main
    <3> QED
      BY <3>2, <3>3
  <2>2. /\ eof' = eof /\ interrupts' = interrupts /\ cmds' = cmds /\ iter' = iter /\ prev_op' = prev_op
        /\ cur_pid' = cur_pid /\ cur_status' = cur_status /\ cnt_proc' = cnt_proc
        /\ fdpipe' = fdpipe /\ foreign' = foreign
        /\ active_process' \in {active_process, TRUE}
    BY DEF Prompt, Spawned, EndOfInput, Finish, Return, world, main, runs
  <2> QED
    BY <1>2, <1>5, <2>1, <2>2 DEF Typed, Phases
<1> QED
  BY <1>3, <1>5, <1>6, Leaves

----------------------------------------------------------------------------
(* A new process, and a new line *)

\* The list qs is ps with x behind it.
NewAt(ps, qs, x, m) ==
  /\ AreProcesses(qs, m)
  /\ Len(qs) = Len(ps) + 1 /\ qs[Len(ps) + 1] = x
  /\ \A p \in 1 .. Len(ps) : qs[p] = ps[p]

LEMMA Appended ==
  ASSUME NEW ps, NEW n \in Nat, AreProcesses(ps, n), NEW m \in Nat, n <= m,
         NEW x, IsProcess(x), x.line \in 1 .. m
  PROVE  NewAt(ps, Append(ps, x), x, m)
<1> DEFINE qs == Append(ps, x)
           S == {ps[p] : p \in 1 .. Len(ps)} \cup {x}
           l == Len(ps)
<1>1. l \in Nat /\ DOMAIN ps = 1 .. l /\ \A p \in 1 .. l : IsProcess(ps[p]) /\ ps[p].line \in 1 .. n
  BY Places
<1>2. ps = [p \in 1 .. l |-> ps[p]]
  BY DEF AreProcesses
<1>3. ps \in [1 .. l -> S] /\ x \in S
  BY <1>2
<1> HIDE DEF S
<1>4. ps \in Seq(S)
  BY <1>1, <1>3, SeqDef
<1>5. /\ qs \in Seq(S) /\ Len(qs) = l + 1 /\ qs[l + 1] = x
      /\ \A p \in 1 .. l : qs[p] = ps[p]
  BY <1>3, <1>4, AppendProperties
<1>6. qs = [p \in 1 .. Len(qs) |-> qs[p]]
  <2>1. DOMAIN qs = 1 .. Len(qs) /\ qs \in [1 .. Len(qs) -> S]
    BY ONLY <1>5, LenProperties
  <2> QED
    BY ONLY <2>1
<1> HIDE DEF qs, l
<1>7. \A p \in 1 .. l + 1 : p \in 1 .. l \/ p = l + 1
  BY <1>1
<1>8. \A i \in 1 .. n : i \in 1 .. m
  OBVIOUS
<1>9. \A p \in 1 .. Len(qs) : IsProcess(qs[p]) /\ qs[p].line \in 1 .. m
  BY <1>1, <1>5, <1>7, <1>8, Zenon
<1>10. AreProcesses(qs, m)
  BY <1>1, <1>5, <1>6, <1>9 DEF AreProcesses
<1> QED
  BY <1>5, <1>10 DEF qs, l, NewAt

\* A process that fork makes.
Forked(x, i, word, input) == x = Process(i, word, input)

LEMMA ProcessIs ==
  ASSUME lines \in Nat, active_process \in BOOLEAN, NEW i \in Nat, NEW word, NEW input,
         NEW x, Forked(x, i, word, input)
  PROVE  /\ IsProcess(x) /\ x.line = lines /\ x.cmd = i /\ x.input = input
         /\ x.state = "running" /\ x.late = ~active_process
<1> DEFINE l == ~active_process
<1>1. "running" \in States /\ "0" \in Status
  BY DEF States, Status
<1>2. l \in BOOLEAN
  OBVIOUS
<1>3. x = [line |-> lines, cmd |-> i, word |-> word, input |-> input,
           state |-> "running", status |-> "0", late |-> l]
  BY Zenon DEF Process, Forked
<1> HIDE DEF l
<1>4. /\ x.line = lines /\ x.cmd = i /\ x.word = word /\ x.input = input
      /\ x.state = "running" /\ x.status = "0" /\ x.late = l
  BY <1>3
<1>5. IsProcess(x)
  BY <1>1, <1>2, <1>3, <1>4 DEF IsProcess
<1> QED
  BY <1>4, <1>5 DEF l

\* The process of a line in the background.
InBackground(x, n) == x = [Process(0, "&", Terminal) EXCEPT !.line = n]

LEMMA BackgroundIs ==
  ASSUME lines \in Nat, active_process \in BOOLEAN, NEW n \in Nat, NEW x, InBackground(x, n)
  PROVE  IsProcess(x) /\ x.line = n /\ x.cmd = 0 /\ x.state = "running"
<1> DEFINE l == ~active_process
           y == [line |-> lines, cmd |-> 0, word |-> "&", input |-> Terminal,
                 state |-> "running", status |-> "0", late |-> l]
<1>1. "running" \in States /\ "0" \in Status
  BY DEF States, Status
<1>2. l \in BOOLEAN /\ 0 \in Nat
  OBVIOUS
<1>3. x = [y EXCEPT !.line = n]
  BY Zenon DEF Process, InBackground
<1> HIDE DEF l
<1>4. x = [line |-> n, cmd |-> 0, word |-> "&", input |-> Terminal,
           state |-> "running", status |-> "0", late |-> l]
  BY <1>3
<1>5. /\ x.line = n /\ x.cmd = 0 /\ x.word = "&" /\ x.input = Terminal
      /\ x.state = "running" /\ x.status = "0" /\ x.late = l
  BY <1>4
<1>6. IsProcess(x)
  BY <1>1, <1>2, <1>4, <1>5 DEF IsProcess
<1> QED
  BY <1>5, <1>6

LEMMA NoLine == LineIs(<<>>)
<1>1. Len(<<>>) = 0
  BY EmptySeq
<1>2. \A i \in 1 .. Len(<<>>) : FALSE
  BY <1>1
<1>3. Alternates(<<>>, Tokens)
  BY <1>1, <1>2 DEF Alternates
<1>4. Reads(<<>>)
  BY <1>2 DEF Reads
<1> QED
  BY <1>3, <1>4 DEF LineIs

LEMMA ReadLineKeeps ==
  ASSUME Inv, ReadLine
  PROVE  Inv'
<1> USE DEF Inv
<1>1. lines \in Nat /\ active_process \in BOOLEAN /\ AreProcesses(procs, lines)
  BY DEF Typed
<1>2. Len(procs) \in Nat /\ DOMAIN procs = 1 .. Len(procs) /\ \A p \in 1 .. Len(procs) : procs[p].line \in 1 .. lines
  BY <1>1, Places
<1>a. lines' = lines + 1
  BY Zenon DEF ReadLine
<1>b. lines' \in Nat /\ lines <= lines' /\ lines < lines'
  BY ONLY <1>1, <1>a
<1>c. line' \in Lines /\ (cmds' = parse(line').cmds \/ cmds' = <<>>)
  BY Zenon DEF ReadLine
<1>d. phase' \in {"undefined", "prompt", "spawned", "run"}
  BY Zenon DEF ReadLine
<1>f. foreign' = FALSE /\ eof' = eof /\ active_process' = active_process
  BY Zenon DEF ReadLine
<1>g. prev_op' = "" /\ cur_status' \in Status /\ interrupts' = interrupts
  BY Zenon DEF ReadLine
<1>3. iter' = 1 /\ cnt_proc' = 0 /\ fdpipe' = 0 /\ pids' = pids /\ cur_pid' = cur_pid
  BY Zenon DEF ReadLine
<1>4. phase' # "spawned" => procs' = procs
  BY Zenon DEF ReadLine
<1> DEFINE x == [Process(0, "&", Terminal) EXCEPT !.line = lines']
<1>5. phase' = "spawned" => procs' = Append(procs, x)
  BY Zenon DEF ReadLine
<1>e. InBackground(x, lines')
  BY Zenon DEF InBackground
<1> HIDE DEF x
<1>6. IsProcess(x) /\ x.line = lines' /\ x.cmd = 0 /\ x.state = "running"
  BY <1>1, <1>b, <1>e, BackgroundIs, Zenon
<1>7. x.line \in 1 .. lines'
  BY ONLY <1>1, <1>a, <1>6
<1>8. NewAt(procs, Append(procs, x), x, lines')
  BY <1>1, <1>b, <1>6, <1>7, Appended, Zenon
<1>9. AreProcesses(procs, lines')
  <2>1. \A i \in 1 .. lines : i \in 1 .. lines'
    BY ONLY <1>1, <1>b
  <2> QED
    BY <1>1, <2>1, Zenon DEF AreProcesses
<1>10. /\ AreProcesses(procs', lines') /\ Len(procs') >= Len(procs)
       /\ \A p \in 1 .. Len(procs) : procs'[p] = procs[p]
       /\ \A p \in 1 .. Len(procs') : p \in 1 .. Len(procs) \/ (phase' = "spawned" /\ procs'[p].cmd = 0)
       /\ phase' = "spawned" => Len(procs') > 0 /\ procs'[Len(procs')].state = "running"
  <2>1. CASE phase' = "spawned"
    <3>1. \A p \in 1 .. Len(procs) + 1 : p \in 1 .. Len(procs) \/ p = Len(procs) + 1
      BY <1>2
    <3>2. NewAt(procs, procs', x, lines')
      BY <1>5, <1>8, <2>1, Zenon
    <3> QED
      BY ONLY <1>2, <1>6, <2>1, <3>1, <3>2 DEF NewAt
  <2>2. CASE phase' # "spawned"
    BY ONLY <1>2, <1>4, <1>9, <2>2
  <2> QED
    BY <2>1, <2>2
<1>11. Mine' = {} /\ (phase' = "run" => Ran' = {})
  <2>1. DOMAIN procs' = 1 .. Len(procs')
    BY <1>10, Places
  <2>2. \A p \in 1 .. Len(procs) : procs'[p].line # lines'
    BY ONLY <1>1, <1>2, <1>b, <1>10
  <2> QED
    BY <1>10, <2>1, <2>2 DEF Mine, Ran
<1>12. Late' = {}
  BY <1>11 DEF Late
<1>13. LineIs(cmds')
  BY <1>c, ParseIs, NoLine, Zenon
<1>14. Typed'
  <2>1. pids' \subseteq 1 .. Len(procs') /\ \A p \in pids' : procs'[p].state # "reaped"
    <3>1. pids \subseteq 1 .. Len(procs) /\ \A p \in pids : procs[p].state # "reaped"
      BY Zenon DEF Typed
    <3>2. Len(procs') \in Nat
      BY <1>10, Places
    <3> QED
      BY ONLY <1>2, <1>3, <1>10, <3>1, <3>2
  <2>2. cur_pid' \in 0 .. Len(procs') /\ fdpipe' \in 0 .. Len(procs')
    <3>1. cur_pid \in 0 .. Len(procs)
      BY Zenon DEF Typed
    <3>2. Len(procs') \in Nat
      BY <1>10, Places
    <3> QED
      BY ONLY <1>2, <1>3, <1>10, <3>1, <3>2
  <2>3. /\ eof' \in BOOLEAN /\ interrupts' \in Nat /\ active_process' \in BOOLEAN /\ foreign' \in BOOLEAN
    BY <1>f, <1>g, Zenon DEF Typed
  <2>4. iter' % 2 = 1 /\ iter' \in Nat /\ cnt_proc' \in Nat
    BY ONLY <1>3
  <2>6. prev_op' \in Ops \cup {""} /\ phase' \in Phases /\ cur_status' \in Status
    BY <1>d, <1>g DEF Phases
  <2>5. phase' # "started" /\ phase' # "wait"
    BY <1>d
  <2> QED
    BY <1>b, <1>10, <1>13, <2>1, <2>2, <2>3, <2>4, <2>5, <2>6, Zenon DEF Typed
<1>15. CASE phase' = "run"
  <2>1. InRun' /\ Ran' = {}
    BY <1>11, <1>15 DEF InRun
  <2>2. Place'
    <3>1. lines' > 0
      BY ONLY <1>1, <1>a
    <3> QED
      BY <1>3, <1>g, <1>15, <2>1, <3>1 DEF Place
  <2>3. Unwaited' = {}
    BY <2>1 DEF Unwaited
  <2>4. Cardinality(Unwaited') = 0
    BY <2>3, FS_EmptySet
  <2>5. Counted'
    BY <1>3, <1>g, <1>15, <2>1, <2>4 DEF Counted
  <2>6. Interrupted'
    BY <1>12 DEF Interrupted
  <2>7. Piping'
    BY <1>3, <1>g, <1>15, <2>1 DEF Piping
  <2>8. Lazily'
    BY <1>15, <2>1 DEF Lazily
  <2> QED
    BY <1>14, <2>2, <2>5, <2>6, <2>7, <2>8
<1>16. CASE phase' # "run"
  <2>1. ~InRun'
    BY <1>d, <1>16 DEF InRun
  <2>2. Interrupted'
    BY <1>12 DEF Interrupted
  <2> QED
    BY <1>14, <2>1, <2>2 DEF Place, Counted, Piping, Lazily
<1> QED
  BY <1>15, <1>16

LEMMA InitHas ==
  ASSUME Init
  PROVE  Inv
<1>1. Len(procs) = 0 /\ lines = 0 /\ Len(procs) \in Nat /\ procs = <<>>
  BY EmptySeq DEF Init
<1>2. \A p \in 1 .. Len(procs) : FALSE
  BY <1>1
<1>3. AreProcesses(procs, lines)
  <2>1. procs = [p \in 1 .. Len(procs) |-> procs[p]]
    BY <1>1
  <2> QED
    BY <1>1, <1>2, <2>1 DEF AreProcesses
<1>4. Typed
  <2>1. LineIs(cmds)
    BY NoLine, Zenon DEF Init
  <2>2. pids = {}
    BY DEF Init
  <2>5. 1 % 2 = 1
    BY SMT
  <2>3. eof \in BOOLEAN /\ active_process \in BOOLEAN /\ foreign \in BOOLEAN
    BY Zenon DEF Init
  <2>4. interrupts = 0 /\ iter = 1 /\ cur_pid = 0 /\ cnt_proc = 0 /\ fdpipe = 0
    BY Zenon DEF Init
  <2>9. prev_op = "" /\ phase = "prompt" /\ cur_status = "0"
    BY Zenon DEF Init
  <2>6. /\ pids \subseteq 1 .. Len(procs) /\ \A p \in pids : procs[p].state # "reaped"
        /\ cur_pid \in 0 .. Len(procs) /\ fdpipe \in 0 .. Len(procs)
    <3>1. Len(procs) = 0
      BY <1>1
    <3> QED
      BY ONLY <2>2, <2>4, <3>1
  <2>7. /\ interrupts \in Nat /\ lines \in Nat /\ iter \in Nat /\ iter % 2 = 1 /\ cnt_proc \in Nat
    BY ONLY <1>1, <2>4, <2>5
  <2>8. /\ phase \in Phases /\ prev_op \in Ops \cup {""} /\ cur_status \in Status
        /\ phase # "spawned" /\ phase # "started" /\ phase # "wait"
    BY <2>9 DEF Phases, Status
  <2> QED
    BY <1>3, <2>1, <2>3, <2>6, <2>7, <2>8, Zenon DEF Typed
<1>5. Mine = {} /\ Late = {}
  <2>1. DOMAIN procs = 1 .. Len(procs)
    BY <1>3, Places
  <2> QED
    BY <1>2, <2>1 DEF Mine, Late
<1>6. ~InRun
  BY DEF Init, InRun
<1> QED
  BY <1>4, <1>5, <1>6 DEF Inv, Place, Counted, Interrupted, Piping, Lazily

----------------------------------------------------------------------------
(* The steps of run *)

\* What the invariant says of run, without its data types.
RunHas ==
  /\ Len(procs) \in Nat /\ DOMAIN procs = 1 .. Len(procs) /\ cur_pid \in 0 .. Len(procs)
  /\ Mine = Ran
  /\ \A p \in Ran : p \in 1 .. Len(procs) /\ procs[p].cmd \in Nat /\ procs[p].cmd % 2 = 1
  /\ \A i : Of(i) = {p \in Ran : procs[p].cmd = i}
  /\ iter \in Nat /\ iter % 2 = 1 /\ cnt_proc \in Nat
  /\ LineHas(cmds)

LEMMA RunFacts ==
  ASSUME Inv, InRun
  PROVE  RunHas
<1> USE DEF Inv
<1>1. AreProcesses(procs, lines) /\ LineIs(cmds)
  BY Zenon DEF Typed
<1>2. /\ Len(procs) \in Nat /\ DOMAIN procs = 1 .. Len(procs)
      /\ \A p \in 1 .. Len(procs) : procs[p].cmd \in Nat
  BY <1>1, Places
<1>3. \A p \in Ran : p \in 1 .. Len(procs) /\ procs[p].cmd \in Nat /\ procs[p].cmd % 2 = 1
  BY <1>2 DEF Ran, Place
<1>4. Mine = Ran
  <2>1. \A p \in Ran : procs[p].cmd # 0
    <3>1. \A n \in Nat : n % 2 = 1 => n # 0
      OBVIOUS
    <3> QED
      BY <1>3, <3>1
  <2> QED
    BY <1>2, <2>1 DEF Mine, Ran
<1>5. \A i : Of(i) = {p \in Ran : procs[p].cmd = i}
  BY <1>4, Zenon DEF Of
<1>6. iter \in Nat /\ iter % 2 = 1 /\ cnt_proc \in Nat /\ cur_pid \in 0 .. Len(procs)
  BY Zenon DEF Typed
<1>7. LineHas(cmds)
  BY <1>1, LineFacts
<1> QED
  BY <1>2, <1>3, <1>4, <1>5, <1>6, <1>7, Zenon DEF RunHas

\* The operator behind the command iter.
NextHas ==
  /\ iter < Len(cmds) /\ iter + 1 \in 1 .. Len(cmds) /\ cmds[iter + 1].delim \in Ops
  /\ \A d : IsDelim(cmds, iter + 1, d) <=> cmds[iter + 1].delim = d
  /\ iter + 2 \in Nat /\ (iter + 2) % 2 = 1 /\ iter + 2 # 1

LEMMA NextOp ==
  ASSUME RunHas, iter <= Len(cmds), iter # Len(cmds)
  PROVE  NextHas
<1>1. iter \in Nat /\ iter % 2 = 1 /\ Len(cmds) \in Nat
  BY DEF RunHas, LineHas
<1>2. iter < Len(cmds) /\ iter + 1 \in 1 .. Len(cmds) /\ (iter + 1) % 2 = 0 /\ iter + 1 \in Int
      /\ iter + 2 \in Nat /\ (iter + 2) % 2 = 1 /\ iter + 2 # 1
  BY ONLY <1>1, iter <= Len(cmds), iter # Len(cmds)
<1>3. LineHas(cmds)
  BY DEF RunHas
<1>4. cmds[iter + 1].delim \in Ops /\ \A d : IsDelim(cmds, iter + 1, d) <=> cmds[iter + 1].delim = d
  BY <1>2, <1>3, Zenon DEF LineHas
<1> QED
  BY <1>2, <1>4 DEF NextHas

LEMMA DecideKeeps ==
  ASSUME Inv, Decide
  PROVE  Inv'
<1> USE DEF Inv
<1>1. /\ phase = "run" /\ phase' = "start" /\ iter <= Len(cmds) /\ ~Lazy
      /\ UNCHANGED <<world, main, runs>>
  BY DEF Decide
<1>2. active_process
  BY Zenon DEF Decide
<1>3. /\ procs' = procs /\ lines' = lines /\ iter' = iter /\ cmds' = cmds /\ prev_op' = prev_op
      /\ cur_pid' = cur_pid /\ cnt_proc' = cnt_proc /\ fdpipe' = fdpipe /\ cur_status' = cur_status
      /\ pids' = pids /\ interrupts' = interrupts
  BY <1>1 DEF world, main, runs
<1>4. active_process' = active_process /\ foreign' = foreign /\ eof' = eof
  BY <1>1, Zenon DEF world, main, runs
<1>5. InRun /\ InRun' /\ Ran' = Ran /\ Mine' = Mine /\ Late' = Late /\ Unwaited' = Unwaited
  BY <1>1, <1>3 DEF InRun, Ran, Mine, Late, Unwaited
<1>6. \A i : Of(i)' = Of(i)
  BY <1>3, <1>5 DEF Of
<1>7. Typed'
  BY <1>1, <1>3, <1>4 DEF Typed, Phases
<1>8. Place'
  BY <1>1, <1>3, <1>5 DEF Place, EndsPipeline
<1>9. Counted'
  BY <1>1, <1>3, <1>4, <1>5 DEF Counted
<1>10. Interrupted'
  <2>1. Late = {}
    BY <1>2, <1>5 DEF Interrupted
  <2> QED
    BY <1>5, <2>1 DEF Interrupted
<1>11. Piping'
  BY <1>1, <1>3, <1>5, <1>6 DEF Piping, PipeOf, ReadsFrom
<1>12. Lazily'
  <2>1. ~Lazy'
    BY <1>1, <1>3 DEF Lazy
  <2> QED
    BY <1>3, <1>4, <1>5, <2>1 DEF Lazily, Chosen
<1> QED
  BY <1>7, <1>8, <1>9, <1>10, <1>11, <1>12

LEMMA SkipKeeps ==
  ASSUME Inv, Skip
  PROVE  Inv'
<1> USE DEF Inv
<1>1. /\ phase = "run" /\ iter <= Len(cmds) /\ Lazy
      /\ UNCHANGED <<world, main, cmds, cur_pid, cur_status, cnt_proc, fdpipe, foreign>>
  BY DEF Skip
<1>2. active_process
  BY Zenon DEF Skip
<1>3. /\ procs' = procs /\ lines' = lines /\ cmds' = cmds
      /\ cur_pid' = cur_pid /\ cnt_proc' = cnt_proc /\ fdpipe' = fdpipe /\ cur_status' = cur_status
      /\ pids' = pids /\ interrupts' = interrupts
  BY <1>1 DEF world, main
<1>4. active_process' = active_process /\ foreign' = foreign /\ eof' = eof
  BY <1>1, Zenon DEF world, main
<1>5. InRun /\ Ran' = Ran /\ Mine' = Mine /\ Late' = Late /\ Unwaited' = Unwaited
  BY <1>1, <1>3 DEF InRun, Ran, Mine, Late, Unwaited
<1>6. \A i : Of(i)' = Of(i)
  BY <1>3, <1>5 DEF Of
<1>7. RunHas
  BY <1>5, RunFacts
<1>8. AreProcesses(procs, lines)
  BY Zenon DEF Typed
<1>9. Same
  BY <1>3, <1>8, NoneAges, AgedSame DEF Ages
<1>10. prev_op \in {"||", "&&"}
  BY <1>1 DEF Lazy
<1>11. CASE iter = Len(cmds)
  <2>1. phase' = "prompt" /\ prev_op' = prev_op /\ iter' = iter
    BY <1>11 DEF Skip
  <2>2. Typed'
    BY <1>3, <1>4, <2>1 DEF Typed, Phases
  <2> QED
    BY <1>9, <2>1, <2>2, Leaves
<1>12. CASE iter # Len(cmds)
  <2>1. phase' = "run" /\ prev_op' = cmds[iter + 1].delim /\ iter' = iter + 2
    BY <1>1, <1>12 DEF Skip
  <2>2. NextHas
    BY <1>1, <1>7, <1>12, NextOp
  <2>3. InRun'
    BY <2>1 DEF InRun
  <2>4. Typed'
    <3>1. iter' \in Nat /\ iter' % 2 = 1 /\ prev_op' \in Ops
      BY <2>1, <2>2 DEF NextHas
    <3> QED
      BY <1>3, <1>4, <2>1, <3>1 DEF Typed, Phases
  <2>5. /\ \A p \in Ran : procs[p].cmd < iter /\ procs[p].cmd \in Nat
        /\ iter \in Nat /\ iter # 1 /\ cur_pid \in Ran
    <3>1. iter # 1
      BY <1>5, <1>10 DEF Place
    <3>2. \A p \in Ran : procs[p].cmd < iter
      BY <1>1, <1>5 DEF Place
    <3>3. cur_pid \in Ran
      BY <1>5, <3>1 DEF Place
    <3> QED
      BY <1>7, <3>1, <3>2, <3>3 DEF RunHas
  <2>6. Place'
    <3>1. \A p \in Ran : procs[p].cmd <= iter' /\ procs[p].cmd < iter'
      BY <2>1, <2>5
    <3>2. \A p \in Ran : procs[p].cmd % 2 = 1
      BY <1>7 DEF RunHas
    <3>3. iter' # 1 /\ iter' - 1 <= Len(cmds) /\ prev_op' = cmds[iter' - 1].delim
      <4>1. iter' - 1 = iter + 1
        BY <2>1, <2>5
      <4>2. iter + 1 <= Len(cmds) /\ iter' # 1
        BY <2>1, <2>2, <2>5 DEF NextHas
      <4> QED
        BY <2>1, <4>1, <4>2
    <3>4. /\ lines > 0
          /\ \A p, q \in Ran : p < q => procs[p].cmd < procs[q].cmd
          /\ \A p \in Ran : cur_pid \in Ran /\ p <= cur_pid
      BY <1>5 DEF Place
    <3> QED
      BY <1>3, <1>5, <2>1, <2>3, <2>5, <3>1, <3>2, <3>3, <3>4 DEF Place
  <2>7. Counted'
    <3>1. cnt_proc = 0
      BY <1>1, <1>5, <1>10 DEF Counted
    <3> QED
      BY <1>1, <1>3, <1>4, <1>5, <2>1, <2>3, <3>1 DEF Counted
  <2>8. Interrupted'
    BY <1>2, <1>5, <2>1 DEF Interrupted
  <2>9. Piping'
    <3>1. ASSUME NoPipeWord PROVE fdpipe = 0 /\ \A p \in Ran : ReadsFrom(p)
      BY <1>1, <1>5, <1>10, <3>1 DEF Piping
    <3>2. Of(iter) = {}
      BY <1>7, <2>5 DEF RunHas
    <3>3. iter' - 2 = iter
      BY <2>1, <2>5
    <3>6. Of(iter - 2)' = {}
      BY <1>3, <1>5, <1>7, <2>5, <3>3 DEF Of, RunHas
    <3>4. PipeOf(Of(iter - 2))' = {0}
      BY <3>6 DEF PipeOf
    <3>5. ASSUME NEW p \in Ran, ReadsFrom(p) PROVE ReadsFrom(p)'
      BY <1>3, <1>6, <3>5 DEF ReadsFrom, PipeOf
    <3> QED
      BY <1>3, <1>5, <2>1, <3>1, <3>4, <3>5 DEF Piping
  <2>10. Lazily'
    BY <1>3, <1>4, <1>5, <2>1 DEF Lazily, Chosen
  <2> QED
    BY <2>4, <2>6, <2>7, <2>8, <2>9, <2>10
<1> QED
  BY <1>11, <1>12

\* The operator before the command iter.
LEMMA OpBefore ==
  ASSUME Inv, phase \in {"run", "start"}
  PROVE  /\ \A d \in Ops : IsDelim(cmds, iter - 1, d) <=> iter # 1 /\ prev_op = d
         /\ iter # 1 => cur_pid \in Ran
         /\ iter = 1 => prev_op = ""
<1>1. InRun
  BY DEF InRun
<1>2. RunHas
  BY <1>1, RunFacts
<1>3. /\ iter \in Nat /\ iter % 2 = 1 /\ (iter - 1) % 2 = 0 /\ iter - 1 \in Int
      /\ LineHas(cmds) /\ Len(cmds) \in Nat
  BY <1>2, Parity DEF RunHas, LineHas
<1>4. \A d : IsDelim(cmds, iter - 1, d) <=> iter - 1 \in 1 .. Len(cmds) /\ cmds[iter - 1].delim = d
  BY <1>3, Zenon DEF LineHas
<1>5. IF iter = 1 THEN prev_op = ""
      ELSE cur_pid \in Ran /\ iter - 1 <= Len(cmds) /\ prev_op = cmds[iter - 1].delim
  BY <1>1, Zenon DEF Inv, Place
<1>6. iter # 1 => iter - 1 \in 1 .. Len(cmds)
  BY ONLY <1>3, <1>5
<1>7. iter = 1 => iter - 1 \notin 1 .. Len(cmds)
  BY ONLY <1>3
<1> QED
  BY <1>4, <1>5, <1>6, <1>7, Zenon

\* If everything before is waited for, cur_status is the status of cur_pid.
LEMMA OverHas ==
  ASSUME Inv, phase \in {"run", "start"}, prev_op \in {"||", "&&", ";"}, ~foreign
  PROVE  /\ \A p \in Ran : procs[p].state = "reaped"
         /\ cur_pid \in Ran /\ cur_status = procs[cur_pid].status
         /\ \A p \in Ran : p <= cur_pid
<1>1. InRun
  BY DEF InRun
<1>2. RunHas
  BY <1>1, RunFacts
<1>3. iter # 1 /\ cur_pid \in Ran /\ \A p \in Ran : p <= cur_pid
  BY <1>1 DEF Inv, Place
<1>4. cnt_proc = 0
  BY <1>1 DEF Inv, Counted
<1>5. Cardinality(Unwaited) = 0
  BY <1>1, <1>4 DEF Inv, Counted
<1>6. IsFiniteSet(Unwaited)
  <2>1. Unwaited \subseteq 1 .. Len(procs)
    BY DEF Unwaited, Ran
  <2>2. IsFiniteSet(1 .. Len(procs))
    <3>1. Len(procs) \in Nat
      BY <1>2, Zenon DEF RunHas
    <3>2. 1 \in Int /\ Len(procs) \in Int
      BY ONLY <3>1
    <3> QED
      BY <3>2, FS_Interval
  <2> QED
    BY <2>1, <2>2, FS_Subset
<1>7. Unwaited = {}
  BY <1>5, <1>6, FS_EmptySet
<1>8. \A p \in Ran : procs[p].state = "reaped"
  BY <1>7 DEF Unwaited
<1> QED
  BY <1>1, <1>3, <1>8 DEF Inv, Counted

LEMMA StartKeeps ==
  ASSUME Inv, Start
  PROVE  Inv'
<1>0. PICK n \in Nat : n = Len(procs) + 1
  <2>1. Len(procs) \in Nat
    BY Places, Zenon DEF Inv, Typed
  <2> QED
    BY <2>1
<1> DEFINE input == forward_input(cmds[iter])
           x == Process(iter, cmds[iter].params[1], input)
<1>1. /\ phase = "start" /\ phase' = "started"
      /\ cur_pid' = n /\ procs' = Append(procs, x)
      /\ fdpipe' = forward_output(cmds[iter])
  BY <1>0, Zenon DEF Start
<1>2. /\ pids' = pids /\ line' = line /\ lines' = lines /\ interrupts' = interrupts
      /\ cmds' = cmds /\ iter' = iter /\ prev_op' = prev_op /\ cur_status' = cur_status /\ cnt_proc' = cnt_proc
  BY Zenon DEF Start, main
<1>3. active_process' = active_process /\ foreign' = foreign /\ eof' = eof
  BY Zenon DEF Start, main
<1>4. InRun /\ InRun'
  BY <1>1 DEF InRun
<1>5. RunHas
  BY <1>4, RunFacts
<1>6. /\ lines \in Nat /\ AreProcesses(procs, lines) /\ cur_pid \in 0 .. Len(procs)
      /\ pids \subseteq 1 .. Len(procs) /\ \A p \in pids : procs[p].state # "reaped"
      /\ LineIs(cmds) /\ interrupts \in Nat /\ prev_op \in Ops \cup {""} /\ cur_status \in Status
      /\ fdpipe \in 0 .. Len(procs)
  BY Zenon DEF Inv, Typed
<1>7. active_process \in BOOLEAN /\ foreign \in BOOLEAN /\ eof \in BOOLEAN
  BY Zenon DEF Inv, Typed
<1>8. iter \in Nat /\ iter % 2 = 1 /\ cnt_proc \in Nat /\ Len(procs) \in Nat /\ n \in Nat
  <2>1. iter \in Nat /\ iter % 2 = 1 /\ cnt_proc \in Nat /\ Len(procs) \in Nat
    BY <1>5, Zenon DEF RunHas
  <2> QED
    BY <2>1
<1>9. Forked(x, iter, cmds[iter].params[1], input)
  BY Zenon DEF Forked
<1> HIDE DEF x, input
<1>10. /\ IsProcess(x) /\ x.line = lines /\ x.cmd = iter /\ x.input = input
       /\ x.state = "running" /\ x.late = ~active_process
  <2>1. /\ lines \in Nat /\ active_process \in BOOLEAN /\ iter \in Nat
        /\ Forked(x, iter, cmds[iter].params[1], input)
    BY <1>6, <1>7, <1>8, <1>9, Zenon
  <2> QED
    BY ONLY <2>1, ProcessIs, Zenon
<1>11. x.line \in 1 .. lines /\ lines <= lines
  <2>1. lines > 0
    BY <1>4 DEF Inv, Place
  <2>2. lines \in Nat /\ x.line = lines
    BY <1>6, <1>10, Zenon
  <2> QED
    BY ONLY <2>1, <2>2
<1>12. NewAt(procs, procs', x, lines)
  BY <1>1, <1>6, <1>10, <1>11, Appended, Zenon
<1>13. /\ AreProcesses(procs', lines') /\ Len(procs') = n /\ procs'[n] = x
       /\ \A p \in 1 .. Len(procs) : procs'[p] = procs[p]
       /\ \A p \in 1 .. n : p \in 1 .. Len(procs) \/ p = n
       /\ n \notin 1 .. Len(procs) /\ n \in 1 .. n /\ 1 .. Len(procs) \subseteq 1 .. n
       /\ n # 0
  <2>1. /\ AreProcesses(procs', lines') /\ Len(procs') = n /\ procs'[n] = x
        /\ \A p \in 1 .. Len(procs) : procs'[p] = procs[p]
    BY <1>0, <1>2, <1>12, Zenon DEF NewAt
  <2>2. /\ \A p \in 1 .. n : p \in 1 .. Len(procs) \/ p = n
        /\ n \notin 1 .. Len(procs) /\ n \in 1 .. n /\ 1 .. Len(procs) \subseteq 1 .. n
        /\ n # 0
    BY ONLY <1>0, <1>8
  <2> QED
    BY <2>1, <2>2, Zenon
<1>14. /\ Ran \subseteq 1 .. Len(procs) /\ n \notin Ran
       /\ \A p \in Ran : procs'[p] = procs[p] /\ p < n
  <2>1. Ran \subseteq 1 .. Len(procs)
    BY DEF Ran
  <2>2. \A p \in 1 .. Len(procs) : p < n
    BY ONLY <1>0, <1>8
  <2> QED
    BY <1>13, <2>1, <2>2, Zenon
<1>15. Ran' = Ran \cup {n}
  BY <1>2, <1>10, <1>13, Zenon DEF Ran
<1>16. Mine' = Ran'
  <2>1. DOMAIN procs' = 1 .. n
    BY <1>13, Places
  <2>2. iter # 0
    BY ONLY <1>8
  <2>3. \A p \in Ran : procs[p].cmd # 0
    <3>1. \A p \in Ran : procs[p].cmd \in Nat /\ procs[p].cmd % 2 = 1
      BY <1>5, Zenon DEF RunHas
    <3> QED
      BY ONLY <3>1
  <2>4. \A p \in Ran' : procs'[p].cmd # 0
    BY <1>10, <1>13, <1>14, <1>15, <2>2, <2>3, Zenon
  <2>5. Mine' = {p \in 1 .. n : procs'[p].line = lines' /\ procs'[p].cmd # 0}
    BY <2>1, Zenon DEF Mine
  <2>6. Ran' = {p \in 1 .. n : procs'[p].line = lines'}
    BY <1>13, Zenon DEF Ran
  <2> QED
    BY <2>4, <2>5, <2>6, Zenon
<1>17. \A p \in Ran : procs[p].cmd < iter /\ procs[p].cmd \in Nat /\ procs[p].cmd # iter /\ procs[p].cmd % 2 = 1
  <2>1. \A p \in Ran : procs[p].cmd < iter
    BY <1>1, <1>4 DEF Inv, Place
  <2> QED
    BY <1>5, <1>8, <2>1 DEF RunHas
<1>18. \A i : Of(i)' = Of(i) \cup (IF i = iter THEN {n} ELSE {})
  <2>1. \A i : Of(i)' = {p \in Ran' : procs'[p].cmd = i}
    BY <1>16, Zenon DEF Of
  <2>2. \A i : Of(i) = {p \in Ran : procs[p].cmd = i}
    BY <1>5, Zenon DEF RunHas
  <2> QED
    BY <1>10, <1>13, <1>14, <1>15, <2>1, <2>2
<1>19. Typed'
  <2>1. cur_pid' \in 0 .. Len(procs') /\ cur_pid' # 0
    BY ONLY <1>1, <1>8, <1>13
  <2>2. forward_output(cmds[iter]) \in {n, 0, fdpipe}
    BY <1>0, Zenon DEF forward_output
  <2>3. fdpipe' \in 0 .. Len(procs')
    <3>1. fdpipe' \in {n, 0, fdpipe}
      BY <1>1, <2>2, Zenon
    <3>2. fdpipe \in 0 .. Len(procs) /\ Len(procs') = n
      BY <1>6, <1>13, Zenon
    <3> QED
      BY ONLY <1>0, <1>8, <3>1, <3>2
  <2>4. pids' \subseteq 1 .. Len(procs') /\ \A p \in pids' : procs'[p].state # "reaped"
    BY <1>2, <1>6, <1>13
  <2>5. phase' \in Phases /\ phase' # "spawned" /\ phase' # "wait" /\ procs'[cur_pid'].state # "reaped"
    BY <1>1, <1>10, <1>13 DEF Phases
  <2> QED
    BY <1>2, <1>3, <1>6, <1>7, <1>8, <1>13, <2>1, <2>3, <2>4, <2>5, Zenon DEF Typed
<1>20. Place'
  <2>1. /\ lines' > 0
        /\ \A p, q \in Ran : p < q => procs[p].cmd < procs[q].cmd
        /\ iter <= Len(cmds)
        /\ IF iter = 1 THEN prev_op = ""
           ELSE cur_pid \in Ran /\ iter - 1 <= Len(cmds) /\ prev_op = cmds[iter - 1].delim
    BY <1>1, <1>2, <1>4 DEF Inv, Place
  <2>2. /\ \A p \in Ran' : procs'[p].cmd % 2 = 1 /\ procs'[p].cmd <= iter
        /\ procs'[n].cmd = iter /\ n \in Ran'
        /\ \A p \in Ran' : p <= n
    BY <1>8, <1>10, <1>13, <1>14, <1>15, <1>17
  <2>3. \A p, q \in Ran' : p < q => procs'[p].cmd < procs'[q].cmd
    <3>1. n \in Nat /\ \A p \in Ran : p \in Nat
      BY <1>8, <1>14
    <3>2. procs'[n].cmd = iter /\ \A p \in Ran : procs'[p].cmd = procs[p].cmd /\ p < n
      BY <1>10, <1>13, <1>14, Zenon
    <3>3. \A p, q \in Ran : p < q => procs[p].cmd < procs[q].cmd
      BY <2>1
    <3>4. \A p \in Ran : procs[p].cmd < iter
      BY <1>17
    <3>5. \A p \in Ran : ~(n < p)
      BY ONLY <3>1, <3>2
    <3>6. ~(n < n)
      BY ONLY <3>1
    <3>7. ASSUME NEW p \in Ran, NEW q \in Ran, p < q PROVE procs'[p].cmd < procs'[q].cmd
      BY <3>2, <3>3, <3>7, Zenon
    <3>8. ASSUME NEW p \in Ran PROVE procs'[p].cmd < procs'[n].cmd
      BY <3>2, <3>4, Zenon
    <3> QED
      BY <1>15, <3>5, <3>6, <3>7, <3>8, Zenon
  <2> QED
    BY <1>1, <1>2, <1>4, <2>1, <2>2, <2>3 DEF Place
<1>21. Counted'
  <2>1. Unwaited' = Unwaited \cup {n} /\ n \notin Unwaited
    BY <1>10, <1>13, <1>14, <1>15 DEF Unwaited
  <2>2. IsFiniteSet(Unwaited)
    <3>1. Unwaited \subseteq 1 .. Len(procs)
      BY DEF Unwaited, Ran
    <3>2. IsFiniteSet(1 .. Len(procs))
      BY <1>8, FS_Interval
    <3> QED
      BY <3>1, <3>2, FS_Subset
  <2>3. Cardinality(Unwaited') = Cardinality(Unwaited) + 1
    BY <2>1, <2>2, FS_AddElement
  <2>4. ~foreign => Cardinality(Unwaited) = cnt_proc
    BY <1>1, <1>4 DEF Inv, Counted
  <2>5. procs'[cur_pid'].state # "reaped" /\ phase' \notin {"run", "start"}
    BY <1>1, <1>10, <1>13
  <2> QED
    BY <1>1, <1>2, <1>3, <2>3, <2>4, <2>5 DEF Counted
<1>22. Interrupted'
  <2>1. Late = {}
    BY <1>1 DEF Inv, Interrupted
  <2>2. Late' \subseteq {n}
    <3>1. Late' = {p \in Ran' : procs'[p].late}
      BY <1>16, Zenon DEF Late
    <3>2. \A p \in Ran : ~procs'[p].late
      BY <1>5, <1>14, <2>1 DEF Late, RunHas
    <3> QED
      BY <1>15, <3>1, <3>2
  <2>3. n \in Late' => ~active_process'
    BY <1>3, <1>10, <1>13, Zenon DEF Late
  <2>4. Late' # {} => ~active_process'
    BY <2>2, <2>3, Zenon
  <2>5. \A p, q \in Late' : p = q
    BY <2>2
  <2>6. phase' # "start"
    BY <1>1
  <2> QED
    BY <2>4, <2>5, <2>6, Zenon DEF Interrupted
<1>23. Piping'
  <2> SUFFICES ASSUME NoPipeWord PROVE Piping'
    BY DEF Piping
  <2>1. /\ IF prev_op = "|" THEN fdpipe \in PipeOf(Of(iter - 2)) ELSE fdpipe = 0
        /\ \A p \in Ran : ReadsFrom(p)
    BY <1>1, <1>4 DEF Inv, Piping
  <2>2. IsDelim(cmds, iter - 1, "|") <=> iter # 1 /\ prev_op = "|"
    BY <1>1, OpBefore DEF Ops
  <2>3. iter = 1 => prev_op = ""
    BY <1>1, OpBefore
  <2>4. IsDelim(cmds, iter - 1, "|") <=> prev_op = "|"
    BY <2>2, <2>3
  <2>5. /\ cmds[iter].infile = "pipe" <=> IsDelim(cmds, iter - 1, "|")
        /\ cmds[iter].outfile = "pipe" <=> IsDelim(cmds, iter + 1, "|")
    <3>1. LineHas(cmds) /\ Len(cmds) \in Nat
      BY <1>5, Zenon DEF RunHas, LineHas
    <3>2. iter <= Len(cmds)
      BY <1>1, <1>4 DEF Inv, Place
    <3>3. iter \in 1 .. Len(cmds)
      BY ONLY <1>8, <3>1, <3>2
    <3> QED
      BY <1>8, <3>1, <3>3, Zenon DEF LineHas
  <2>6. Of(iter - 2)' = Of(iter - 2)
    <3>1. iter - 2 # iter
      BY ONLY <1>8
    <3>2. Of(iter - 2)' = {p \in Ran' : procs'[p].cmd = iter - 2}
      BY <1>2, <1>16 DEF Of
    <3>3. Of(iter - 2) = {p \in Ran : procs[p].cmd = iter - 2}
      BY <1>5, Zenon DEF RunHas
    <3>4. procs'[n].cmd = iter /\ \A p \in Ran : procs'[p] = procs[p]
      BY <1>10, <1>13, <1>14, Zenon
    <3> QED
      BY ONLY <1>15, <3>1, <3>2, <3>3, <3>4
  <2>7. ReadsFrom(n)'
    <3>1. procs'[n].cmd = iter /\ procs'[n].input = forward_input(cmds[iter])
      BY <1>10, <1>13, Zenon DEF input
    <3>2. CASE prev_op = "|"
      <4>1. procs'[n].input = fdpipe
        BY <2>4, <2>5, <3>1, <3>2 DEF forward_input
      <4>2. procs'[n].input \in PipeOf(Of(iter - 2)')
        BY <2>1, <2>6, <3>2, <4>1
      <4>3. Of(procs[n].cmd - 2)' = Of(iter - 2)'
        BY <1>2, <3>1, Zenon DEF Of
      <4> QED
        BY <1>2, <2>4, <3>1, <3>2, <4>2, <4>3, Zenon DEF ReadsFrom
    <3>3. CASE prev_op # "|"
      <4>1. cmds[iter].infile # "pipe"
        BY <2>4, <2>5, <3>3
      <4>2. procs'[n].input \in {Terminal, File}
        BY <3>1, <4>1 DEF forward_input
      <4> QED
        BY <1>2, <2>4, <3>1, <3>3, <4>2, Zenon DEF ReadsFrom
    <3> QED
      BY <3>2, <3>3
  <2>8. ASSUME NEW p \in Ran PROVE ReadsFrom(p)'
    <3>1. ReadsFrom(p) /\ procs'[p] = procs[p]
      BY <1>14, <2>1
    <3>2. procs[p].cmd - 2 # iter
      BY <1>8, <1>17
    <3>3. Of(procs[p].cmd - 2)' = Of(procs[p].cmd - 2)
      <4>1. Of(procs[p].cmd - 2)' = {q \in Ran' : procs'[q].cmd = procs[p].cmd - 2}
        BY <1>16, <3>1 DEF Of
      <4>2. Of(procs[p].cmd - 2) = {q \in Ran : procs[q].cmd = procs[p].cmd - 2}
        BY <1>5, Zenon DEF RunHas
      <4>3. procs'[n].cmd = iter /\ \A q \in Ran : procs'[q] = procs[q]
        BY <1>10, <1>13, <1>14, Zenon
      <4> QED
        BY ONLY <1>15, <3>2, <4>1, <4>2, <4>3
    <3> QED
      BY <1>2, <3>1, <3>3 DEF ReadsFrom, PipeOf
  <2>9. fdpipe' = IF IsDelim(cmds, iter + 1, "|") THEN n ELSE 0
    <3>1. CASE IsDelim(cmds, iter + 1, "|")
      BY <1>0, <1>1, <2>5, <3>1 DEF forward_output
    <3>2. CASE ~IsDelim(cmds, iter + 1, "|") /\ prev_op = "|"
      BY <1>1, <2>4, <2>5, <3>2 DEF forward_output
    <3>3. CASE ~IsDelim(cmds, iter + 1, "|") /\ prev_op # "|"
      BY <1>1, <2>1, <2>4, <2>5, <3>3 DEF forward_output
    <3> QED
      BY <3>1, <3>2, <3>3
  <2>10. \A p \in Ran' : ReadsFrom(p)'
    BY <1>15, <2>7, <2>8
  <2> QED
    BY <1>1, <1>2, <2>9, <2>10 DEF Piping
<1>24. Lazily'
  <2> SUFFICES ASSUME ~foreign PROVE \A p \in Ran' : Chosen(p)'
    BY <1>1, <1>3 DEF Lazily
  <2>1. ~Lazy /\ \A p \in Ran : Chosen(p)
    BY <1>1, <1>4 DEF Inv, Lazily
  <2>2. Chosen(n)'
    <3>6. CASE ~(iter > 1 /\ cmds[iter - 1].delim \in {"||", "&&"})
      BY <1>2, <1>10, <1>13, <3>6, Zenon DEF Chosen
    <3> SUFFICES ASSUME iter > 1, cmds[iter - 1].delim \in {"||", "&&"}
                 PROVE  \E q \in Ran' :
                          /\ procs'[q].cmd < iter /\ procs'[q].state = "reaped"
                          /\ procs'[q].status = "0" <=> cmds[iter - 1].delim = "&&"
                          /\ \A r \in Ran' : procs'[r].cmd < iter => r <= q
      BY <1>2, <1>10, <1>13, <3>6, Zenon DEF Chosen
    <3>1. prev_op = cmds[iter - 1].delim
      <4>1. iter # 1
        BY ONLY <1>8, iter > 1
      <4> QED
        BY <1>4, <4>1, Zenon DEF Inv, Place
    <3>2. /\ cur_pid \in Ran /\ cur_status = procs[cur_pid].status
          /\ procs[cur_pid].state = "reaped" /\ \A p \in Ran : p <= cur_pid
      BY <1>1, <3>1, OverHas
    <3>3. cur_status = "0" <=> cmds[iter - 1].delim = "&&"
      BY <2>1, <3>1 DEF Lazy
    <3>4. procs'[cur_pid] = procs[cur_pid] /\ procs[cur_pid].cmd < iter /\ cur_pid \in Ran'
      BY <1>14, <1>15, <1>17, <3>2
    <3>5. \A r \in Ran' : procs'[r].cmd < iter => r <= cur_pid
      BY <1>8, <1>10, <1>13, <1>15, <3>2
    <3> QED
      BY <3>2, <3>3, <3>4, <3>5
  <2>3. ASSUME NEW p \in Ran PROVE Chosen(p)'
    <3> DEFINE c == procs[p].cmd
    <3>1. procs'[p] = procs[p] /\ c \in Nat /\ c < iter /\ ~(iter < c)
      BY <1>8, <1>14, <1>17
    <3>2. Chosen(p)
      BY <2>1
    <3>3. CASE ~(c > 1 /\ cmds[c - 1].delim \in {"||", "&&"})
      BY <1>2, <3>1, <3>3, Zenon DEF Chosen
    <3>4. CASE c > 1 /\ cmds[c - 1].delim \in {"||", "&&"}
      <4>1. PICK q \in Ran : /\ procs[q].cmd < c /\ procs[q].state = "reaped"
                             /\ procs[q].status = "0" <=> cmds[c - 1].delim = "&&"
                             /\ \A r \in Ran : procs[r].cmd < c => r <= q
        BY <3>2, <3>4, Zenon DEF Chosen
      <4>2. procs'[q] = procs[q] /\ q \in Ran'
        BY <1>14, <1>15
      <4>3. ASSUME NEW r \in Ran', procs'[r].cmd < c PROVE r <= q
        <5>1. r # n
          BY <1>10, <1>13, <3>1, <4>3, Zenon
        <5>2. r \in Ran /\ procs'[r] = procs[r]
          BY <1>14, <1>15, <5>1
        <5> QED
          BY ONLY <4>1, <4>3, <5>2
      <4>4. \E k \in Ran' : /\ procs'[k].cmd < c /\ procs'[k].state = "reaped"
                            /\ procs'[k].status = "0" <=> cmds'[c - 1].delim = "&&"
                            /\ \A r \in Ran' : procs'[r].cmd < c => r <= k
        <5>1. /\ procs'[q].cmd < c /\ procs'[q].state = "reaped"
              /\ procs'[q].status = "0" <=> cmds'[c - 1].delim = "&&"
          BY ONLY <1>2, <4>1, <4>2
        <5> QED
          BY <4>2, <4>3, <5>1, Zenon
      <4>5. procs'[p].cmd = c
        BY <3>1, Zenon
      <4> HIDE DEF c
      <4> QED
        BY <4>4, <4>5, Zenon DEF Chosen
    <3> QED
      BY <3>3, <3>4
  <2> QED
    BY <1>15, <2>2, <2>3
<1> QED
  BY <1>19, <1>20, <1>21, <1>22, <1>23, <1>24 DEF Inv

LEMMA StartedKeeps ==
  ASSUME Inv, Started
  PROVE  Inv'
<1>1. /\ phase = "started" /\ cnt_proc' = cnt_proc + 1 /\ pids' = pids \cup {cur_pid}
      /\ UNCHANGED <<world, active_process, line, lines, cmds, cur_pid, cur_status, fdpipe, foreign>>
  BY Zenon DEF Started
<1>2. /\ procs' = procs /\ lines' = lines /\ cmds' = cmds /\ cur_pid' = cur_pid
      /\ fdpipe' = fdpipe /\ cur_status' = cur_status /\ interrupts' = interrupts
  BY <1>1 DEF world
<1>3. active_process' = active_process /\ foreign' = foreign /\ eof' = eof
  BY <1>1, Zenon DEF world
<1>4. InRun /\ Ran' = Ran /\ Mine' = Mine /\ Late' = Late /\ Unwaited' = Unwaited
  BY <1>1, <1>2 DEF InRun, Ran, Mine, Late, Unwaited
<1>5. RunHas
  BY <1>4, RunFacts
<1>6. /\ procs[cur_pid].state # "reaped" /\ cur_pid # 0
      /\ pids \subseteq 1 .. Len(procs) /\ \A p \in pids : procs[p].state # "reaped"
  BY <1>1, Zenon DEF Inv, Typed
<1>7. /\ lines > 0 /\ iter <= Len(cmds) /\ cur_pid \in Ran /\ procs[cur_pid].cmd = iter
      /\ \A p \in Ran : procs[p].cmd % 2 = 1 /\ procs[p].cmd <= iter
      /\ \A p, q \in Ran : p < q => procs[p].cmd < procs[q].cmd
      /\ \A p \in Ran : cur_pid \in Ran /\ p <= cur_pid
      /\ IF iter = 1 THEN prev_op = ""
         ELSE cur_pid \in Ran /\ iter - 1 <= Len(cmds) /\ prev_op = cmds[iter - 1].delim
  BY <1>1, <1>4 DEF Inv, Place
<1>8. cnt_proc' \in Nat /\ cnt_proc' > 0 /\ iter \in Nat /\ iter % 2 = 1
  <2>1. cnt_proc \in Nat /\ cnt_proc' = cnt_proc + 1
    BY <1>1, <1>5, Zenon DEF RunHas
  <2>2. iter \in Nat /\ iter % 2 = 1
    BY <1>5, Zenon DEF RunHas
  <2>3. cnt_proc' \in Nat /\ cnt_proc' > 0
    BY ONLY <2>1
  <2> QED
    BY <2>2, <2>3, Zenon
<1>9. pids' \subseteq 1 .. Len(procs) /\ \A p \in pids' : procs[p].state # "reaped"
  <2>1. cur_pid \in 1 .. Len(procs)
    BY <1>5, <1>7 DEF RunHas
  <2> QED
    BY <1>1, <1>6, <2>1
<1>10. /\ AreProcesses(procs, lines) /\ lines \in Nat /\ cur_pid \in 0 .. Len(procs)
       /\ LineIs(cmds) /\ interrupts \in Nat /\ prev_op \in Ops \cup {""} /\ cur_status \in Status
       /\ fdpipe \in 0 .. Len(procs)
       /\ eof \in BOOLEAN /\ active_process \in BOOLEAN /\ foreign \in BOOLEAN
  BY Zenon DEF Inv, Typed
<1>11. ~foreign => Cardinality(Unwaited) = cnt_proc'
  BY <1>1, <1>4 DEF Inv, Counted
<1>12. (cur_pid \in Ran /\ procs[cur_pid].state = "reaped") => cur_status = procs[cur_pid].status
  BY <1>6
<1>13. ASSUME phase' # "start" PROVE Interrupted'
  <2>1. (\A p, q \in Late : p = q) /\ (Late # {} => ~active_process)
    BY <1>4, Zenon DEF Inv, Interrupted
  <2> QED
    BY <1>3, <1>4, <1>13, <2>1, Zenon DEF Interrupted
<1>14. ASSUME NoPipeWord
       PROVE  /\ fdpipe = IF IsDelim(cmds, iter + 1, "|") THEN cur_pid ELSE 0
              /\ \A p \in Ran : ReadsFrom(p)'
  <2>1. /\ fdpipe = IF IsDelim(cmds, iter + 1, "|") THEN cur_pid ELSE 0
        /\ \A p \in Ran : ReadsFrom(p)
    BY <1>1, <1>4, <1>14 DEF Inv, Piping
  <2>2. ASSUME NEW p \in Ran PROVE ReadsFrom(p)'
    <3>1. ReadsFrom(p)
      BY <2>1
    <3> QED
      BY <1>2, <1>4, <3>1 DEF ReadsFrom, PipeOf, Of
  <2> QED
    BY <2>1, <2>2
<1>15. ASSUME phase' # "start" PROVE Lazily'
  <2>1. ~foreign => \A p \in Ran : Chosen(p)
    BY <1>1, <1>4 DEF Inv, Lazily
  <2> QED
    BY <1>2, <1>3, <1>4, <1>15, <2>1 DEF Lazily, Chosen
<1>16. CASE EndsPipeline
  <2>1. phase' = "wait" /\ prev_op' = prev_op /\ iter' = iter
    BY <1>16 DEF Started
  <2>2. Typed'
    BY <1>2, <1>3, <1>8, <1>9, <1>10, <2>1 DEF Typed, Phases
  <2>3. EndsPipeline'
    BY <1>2, <1>16, <2>1 DEF EndsPipeline
  <2>4. Place'
    BY <1>2, <1>4, <1>7, <2>1, <2>3 DEF Place
  <2>5. Counted'
    BY <1>2, <1>3, <1>4, <1>11, <1>12, <2>1 DEF Counted
  <2>6. Piping'
    BY <1>2, <1>4, <1>14, <2>1 DEF Piping
  <2> QED
    BY <1>13, <1>15, <2>1, <2>2, <2>4, <2>5, <2>6 DEF Inv
<1>17. CASE ~EndsPipeline
  <2>1. iter # Len(cmds) /\ cmds[iter + 1].delim \notin {"||", "&&", ";"}
    BY <1>17 DEF EndsPipeline
  <2>2. phase' = "run" /\ prev_op' = cmds[iter + 1].delim /\ iter' = iter + 2
    BY <1>17, <2>1 DEF Started, Advance
  <2>3. NextHas
    BY <1>5, <1>7, <2>1, NextOp
  <2>4. prev_op' \in {"|", "&"} /\ prev_op' \in Ops
    BY <2>1, <2>2, <2>3 DEF NextHas, Ops
  <2>5. iter' \in Nat /\ iter' % 2 = 1 /\ iter' # 1 /\ iter' - 1 = iter + 1 /\ iter' - 2 = iter /\ iter < iter'
    BY <1>8, <2>2, <2>3 DEF NextHas
  <2>6. Typed'
    BY <1>2, <1>3, <1>8, <1>9, <1>10, <2>2, <2>4, <2>5 DEF Typed, Phases
  <2>7. Place'
    <3>1. \A p \in Ran : procs[p].cmd <= iter' /\ procs[p].cmd < iter'
      <4>1. \A p \in Ran : procs[p].cmd \in Nat /\ procs[p].cmd <= iter
        BY <1>5, <1>7, Zenon DEF RunHas
      <4>2. iter \in Nat /\ iter' \in Nat /\ iter < iter'
        BY <1>8, <2>5, Zenon
      <4> QED
        BY ONLY <4>1, <4>2
    <3>2. iter' - 1 <= Len(cmds) /\ prev_op' = cmds[iter' - 1].delim
      BY <2>2, <2>3, <2>5 DEF NextHas
    <3> QED
      BY <1>2, <1>4, <1>7, <2>2, <2>5, <3>1, <3>2 DEF Place
  <2>8. Counted'
    BY <1>2, <1>3, <1>4, <1>11, <1>12, <2>2, <2>4 DEF Counted
  <2>9. Piping'
    <3>1. IsDelim(cmds, iter + 1, "|") <=> prev_op' = "|"
      BY <2>2, <2>3, Zenon DEF NextHas
    <3>2. cur_pid \in Of(iter - 2)'
      BY <1>2, <1>4, <1>5, <1>7, <2>5 DEF Of, RunHas
    <3>3. cur_pid \in PipeOf(Of(iter - 2)')
      BY <3>2 DEF PipeOf
    <3> QED
      BY <1>2, <1>4, <1>14, <2>2, <3>1, <3>3 DEF Piping, PipeOf
  <2> QED
    BY <1>13, <1>15, <2>2, <2>6, <2>7, <2>8, <2>9 DEF Inv
<1> QED
  BY <1>16, <1>17

LEMMA WaitKeeps ==
  ASSUME Inv, NEW p \in DOMAIN procs, Wait(p)
  PROVE  Inv'
<1>1. /\ phase = "wait" /\ waited_for(p) /\ cur_status' = StatusAfter(p) /\ cnt_proc' = cnt_proc - 1
      /\ UNCHANGED <<eof, interrupts, active_process, line, lines, cmds, cur_pid, fdpipe>>
  BY Zenon DEF Wait
<1>2. /\ lines' = lines /\ cmds' = cmds /\ cur_pid' = cur_pid
      /\ fdpipe' = fdpipe /\ interrupts' = interrupts
  BY <1>1
<1>3. /\ active_process' = active_process /\ eof' = eof
      /\ foreign' = (foreign \/ procs[p].line # lines) /\ pids' = pids \ {p}
  BY Zenon DEF Wait, waited_for
<1>4. InRun
  BY <1>1 DEF InRun
<1>5. RunHas
  BY <1>4, RunFacts
<1>6. /\ AreProcesses(procs, lines) /\ lines \in Nat /\ cur_pid \in 0 .. Len(procs)
      /\ LineIs(cmds) /\ interrupts \in Nat /\ prev_op \in Ops \cup {""} /\ cur_status \in Status
      /\ fdpipe \in 0 .. Len(procs) /\ pids \subseteq 1 .. Len(procs)
      /\ eof \in BOOLEAN /\ active_process \in BOOLEAN /\ foreign \in BOOLEAN
      /\ \A q \in pids : procs[q].state # "reaped"
  BY Zenon DEF Inv, Typed
<1>7. Ages({p}) /\ procs[p].state = "zombie" /\ p \in 1 .. Len(procs)
  BY <1>1, <1>5, <1>6, WaitedAges DEF RunHas
<1>8. Same
  BY <1>2, <1>6, <1>7, AgedSame DEF Ages
<1>9. /\ AreProcesses(procs', lines') /\ Len(procs') = Len(procs)
      /\ Ran' = Ran /\ Mine' = Mine /\ Late' = Late /\ \A i : Of(i)' = Of(i)
      /\ \A q \in Ran : procs'[q].cmd = procs[q].cmd /\ procs'[q].input = procs[q].input
      /\ Ran \subseteq 1 .. Len(procs)
  BY <1>8 DEF Same, Ran
<1>10. \A q \in 1 .. Len(procs) :
         /\ procs'[q].state = "reaped" <=> procs[q].state = "reaped" \/ q = p
         /\ procs[q].state = "reaped" \/ q = p => procs'[q].status = procs[q].status
  BY <1>7 DEF Ages, Waited, Aged, Older
<1>11. cnt_proc \in Nat /\ cnt_proc > 0 /\ cnt_proc' \in Nat /\ iter \in Nat /\ iter % 2 = 1
  <2>1. cnt_proc > 0
    BY <1>1, Zenon DEF Inv, Typed
  <2>2. cnt_proc \in Nat /\ iter \in Nat /\ iter % 2 = 1 /\ cnt_proc' = cnt_proc - 1
    BY <1>1, <1>5, Zenon DEF RunHas
  <2>3. cnt_proc' \in Nat
    BY ONLY <2>1, <2>2
  <2> QED
    BY <2>1, <2>2, <2>3, Zenon
<1>12. pids' \subseteq 1 .. Len(procs) /\ \A q \in pids' : procs'[q].state # "reaped"
  BY <1>3, <1>6, <1>10
<1>13. cur_status' \in Status
  <2>1. procs[p].status \in Status
    BY <1>6, <1>7, Places
  <2> QED
    BY <1>1, <1>6, <2>1 DEF StatusAfter
<1>14. foreign' \in BOOLEAN /\ (~foreign' => ~foreign /\ p \in Ran)
  BY <1>3, <1>6, <1>7 DEF Ran
<1>15. /\ lines > 0 /\ iter <= Len(cmds) /\ cur_pid \in Ran /\ procs[cur_pid].cmd = iter
       /\ \A q \in Ran : procs[q].cmd % 2 = 1 /\ procs[q].cmd <= iter
       /\ \A q, r \in Ran : q < r => procs[q].cmd < procs[r].cmd
       /\ \A q \in Ran : cur_pid \in Ran /\ q <= cur_pid
       /\ IF iter = 1 THEN prev_op = ""
          ELSE cur_pid \in Ran /\ iter - 1 <= Len(cmds) /\ prev_op = cmds[iter - 1].delim
       /\ EndsPipeline
  BY <1>1, <1>4 DEF Inv, Place
<1>16. ~foreign' => Cardinality(Unwaited') = cnt_proc'
  <2> SUFFICES ASSUME ~foreign' PROVE Cardinality(Unwaited') = cnt_proc'
    OBVIOUS
  <2>1. ~foreign /\ p \in Ran
    BY <1>14
  <2>2. Cardinality(Unwaited) = cnt_proc
    BY <1>1, <1>4, <2>1 DEF Inv, Counted
  <2>3. p \in Unwaited
    BY <1>7, <2>1 DEF Unwaited
  <2>4. Unwaited' = Unwaited \ {p}
    BY <1>9, <1>10 DEF Unwaited
  <2>5. IsFiniteSet(Unwaited)
    <3>1. Unwaited \subseteq 1 .. Len(procs)
      BY DEF Unwaited, Ran
    <3>2. Len(procs) \in Nat
      BY <1>5, Zenon DEF RunHas
    <3>3. 1 \in Int /\ Len(procs) \in Int
      BY ONLY <3>2
    <3>4. IsFiniteSet(1 .. Len(procs))
      BY <3>3, FS_Interval
    <3> QED
      BY <3>1, <3>4, FS_Subset
  <2>6. Cardinality(Unwaited') = Cardinality(Unwaited) - 1
    BY <2>3, <2>4, <2>5, FS_RemoveElement
  <2> QED
    BY <1>1, <2>2, <2>6
<1>17. procs'[cur_pid].state = "reaped" => cur_status' = procs'[cur_pid].status
  <2>1. cur_pid \in 1 .. Len(procs)
    BY <1>9, <1>15
  <2>2. procs[cur_pid].state = "reaped" => cur_status = procs[cur_pid].status
    BY <1>4, <1>15, Zenon DEF Inv, Counted
  <2> QED
    BY <1>1, <1>10, <2>1, <2>2 DEF StatusAfter
<1>18. ASSUME phase' # "start" PROVE Interrupted'
  <2>1. (\A q, r \in Late : q = r) /\ (Late # {} => ~active_process)
    BY <1>4, Zenon DEF Inv, Interrupted
  <2> QED
    BY <1>3, <1>9, <1>18, <2>1, Zenon DEF Interrupted
<1>19. ASSUME NoPipeWord
       PROVE  /\ fdpipe = IF IsDelim(cmds, iter + 1, "|") THEN cur_pid ELSE 0
              /\ \A q \in Ran : ReadsFrom(q)'
  <2>1. /\ fdpipe = IF IsDelim(cmds, iter + 1, "|") THEN cur_pid ELSE 0
        /\ \A q \in Ran : ReadsFrom(q)
    BY <1>1, <1>4, <1>19 DEF Inv, Piping
  <2>2. ASSUME NEW q \in Ran PROVE ReadsFrom(q)'
    <3>1. ReadsFrom(q) /\ procs'[q].cmd = procs[q].cmd /\ procs'[q].input = procs[q].input
      BY <1>9, <2>1
    <3>2. Of(procs[q].cmd - 2)' = Of(procs[q].cmd - 2)
      <4>1. Of(procs[q].cmd - 2)' = {r \in Ran' : procs'[r].cmd = procs[q].cmd - 2}
        BY <1>5, <1>9, <3>1 DEF Of, RunHas
      <4>2. Of(procs[q].cmd - 2) = {r \in Ran : procs[r].cmd = procs[q].cmd - 2}
        BY <1>5, Zenon DEF RunHas
      <4> QED
        BY <1>9, <4>1, <4>2
    <3> QED
      BY <1>2, <3>1, <3>2 DEF ReadsFrom, PipeOf
  <2> QED
    BY <2>1, <2>2
<1>20. ASSUME phase' # "start" PROVE Lazily'
  <2> SUFFICES ASSUME ~foreign', NEW q \in Ran PROVE Chosen(q)'
    BY <1>9, <1>20 DEF Lazily
  <2>1. Chosen(q)
    BY <1>1, <1>4, <1>14 DEF Inv, Lazily
  <2>2. \A r \in Ran : /\ procs[r].state = "reaped" =>
                            procs'[r].state = "reaped" /\ procs'[r].status = procs[r].status
                       /\ procs'[r].cmd = procs[r].cmd
    BY <1>9, <1>10
  <2> QED
    BY <1>2, <1>9, <2>1, <2>2 DEF Chosen
<1>21. CASE cnt_proc # 1
  <2>1. phase' = "wait" /\ prev_op' = prev_op /\ iter' = iter
    BY <1>1, <1>21 DEF Wait
  <2>2. cnt_proc' > 0
    BY <1>1, <1>11, <1>21
  <2>3. Typed'
    BY <1>2, <1>3, <1>6, <1>9, <1>11, <1>12, <1>13, <1>14, <2>1, <2>2 DEF Typed, Phases
  <2>4. EndsPipeline'
    BY <1>2, <1>15, <2>1 DEF EndsPipeline
  <2>5. Place'
    BY <1>2, <1>9, <1>15, <2>1, <2>4 DEF Place
  <2>6. Counted'
    BY <1>2, <1>9, <1>16, <1>17, <2>1 DEF Counted
  <2>7. Piping'
    BY <1>2, <1>9, <1>19, <2>1 DEF Piping
  <2> QED
    BY <1>18, <1>20, <2>1, <2>3, <2>5, <2>6, <2>7 DEF Inv
<1>22. CASE cnt_proc = 1 /\ iter = Len(cmds)
  <2>1. phase' = "prompt" /\ prev_op' = prev_op /\ iter' = iter
    BY <1>22 DEF Wait, Advance
  <2>2. Typed'
    BY <1>2, <1>3, <1>6, <1>9, <1>11, <1>12, <1>13, <1>14, <2>1 DEF Typed, Phases
  <2>3. Interrupted
    BY DEF Inv
  <2> QED
    BY <1>8, <2>1, <2>2, <2>3, Leaves
<1>23. CASE cnt_proc = 1 /\ iter # Len(cmds)
  <2>1. phase' = "run" /\ prev_op' = cmds[iter + 1].delim /\ iter' = iter + 2
    BY <1>23 DEF Wait, Advance
  <2>2. NextHas
    BY <1>5, <1>15, <1>23, NextOp
  <2>3. prev_op' \in {"||", "&&", ";"} /\ prev_op' \in Ops
    BY <1>15, <1>23, <2>1, <2>2 DEF NextHas, EndsPipeline
  <2>4. iter' \in Nat /\ iter' % 2 = 1 /\ iter' # 1 /\ iter' - 1 = iter + 1 /\ iter < iter'
    BY <1>11, <2>1, <2>2 DEF NextHas
  <2>5. Typed'
    BY <1>2, <1>3, <1>6, <1>9, <1>11, <1>12, <1>13, <1>14, <2>1, <2>3, <2>4 DEF Typed, Phases
  <2>6. Place'
    <3>1. \A q \in Ran : procs[q].cmd <= iter' /\ procs[q].cmd < iter'
      <4>1. \A q \in Ran : procs[q].cmd \in Nat /\ procs[q].cmd <= iter
        BY <1>5, <1>15, Zenon DEF RunHas
      <4>2. iter \in Nat /\ iter' \in Nat /\ iter < iter'
        BY <1>11, <2>4, Zenon
      <4> QED
        BY ONLY <4>1, <4>2
    <3>2. iter' - 1 <= Len(cmds) /\ prev_op' = cmds[iter' - 1].delim
      BY <2>1, <2>2, <2>4 DEF NextHas
    <3> QED
      BY <1>2, <1>9, <1>15, <2>1, <2>4, <3>1, <3>2 DEF Place
  <2>7. cnt_proc' = 0
    BY <1>1, <1>23
  <2>8. Counted'
    BY <1>2, <1>9, <1>16, <1>17, <2>1, <2>7 DEF Counted
  <2>9. Piping'
    <3>1. IsDelim(cmds, iter + 1, "|") <=> prev_op' = "|"
      BY <2>1, <2>2, Zenon DEF NextHas
    <3>2. ~IsDelim(cmds, iter + 1, "|") /\ prev_op' # "|"
      BY <2>3, <3>1
    <3> QED
      BY <1>2, <1>9, <1>19, <2>1, <3>2 DEF Piping
  <2> QED
    BY <1>18, <1>20, <2>1, <2>5, <2>6, <2>8, <2>9 DEF Inv
<1> QED
  BY <1>21, <1>22, <1>23

----------------------------------------------------------------------------
(* The theorems *)

LEMMA NextKeeps ==
  ASSUME Inv, [Next]_vars
  PROVE  Inv'
<1>1. CASE UNCHANGED vars
  <2>1. AreProcesses(procs, lines) /\ procs' = procs
    BY <1>1, Zenon DEF vars, world, Inv, Typed
  <2>2. Ages({})
    BY <2>1, NoneAges
  <2>3. pids \subseteq pids' /\ \A p \in pids : procs[p].state # "reaped"
    BY <1>1, Zenon DEF vars, main, Inv, Typed
  <2>4. pids' = pids /\ \A p \in pids' : procs'[p].state # "reaped"
    BY <1>1, <2>1, <2>3 DEF vars, main
  <2>5. /\ lines' = lines /\ phase' = phase
        /\ cmds' = cmds /\ iter' = iter /\ prev_op' = prev_op /\ cur_pid' = cur_pid
        /\ cur_status' = cur_status /\ cnt_proc' = cnt_proc /\ fdpipe' = fdpipe /\ foreign' = foreign
        /\ eof' = eof /\ interrupts' = interrupts /\ active_process' = active_process
    BY <1>1, Zenon DEF vars, world, main, runs
  <2>6. /\ eof' \in BOOLEAN /\ interrupts' \in Nat /\ active_process' \in {FALSE, active_process}
    BY <2>5, Zenon DEF Inv, Typed
  <2>7. Outside
    BY <2>2, <2>4, <2>5, <2>6, Zenon DEF Outside
  <2> QED
    BY <2>7, OutsideKeeps
<1>2. CASE Next
  <2>1. CASE Shell
    <3>1. CASE run
      BY <3>1, MainKeeps, SkipKeeps, DecideKeeps, StartKeeps, StartedKeeps, WaitKeeps DEF run
    <3> QED
      BY <2>1, <3>1, MainKeeps, WorldKeeps DEF Shell
  <2> QED
    BY <1>2, <2>1, ReadLineKeeps, WorldKeeps DEF Next
<1> QED
  BY <1>1, <1>2

LEMMA InvHolds == Spec => []Inv
<1>1. Init => Inv
  BY InitHas
<1>2. Inv /\ [Next]_vars => Inv'
  BY NextKeeps
<1> QED
  BY <1>1, <1>2, PTL DEF Spec

\* Every state of the shell is well typed: the pids it keeps are of children that
\* are not waited for yet (main.cpp:80, 94), the pid and the pipe of run are those
\* of processes that were started.
THEOREM TypeCorrect == Spec => []TypeOK
<1>1. ASSUME Inv PROVE TypeOK
  <2>1. Typed
    BY <1>1 DEF Inv
  <2>2. AreProcesses(procs, lines)
    BY <2>1, Zenon DEF Typed
  <2>3. /\ DOMAIN procs = 1 .. Len(procs)
        /\ \A p \in 1 .. Len(procs) : /\ procs[p].line \in 1 .. lines /\ procs[p].state \in States
                                      /\ procs[p].status \in Status /\ procs[p].late \in BOOLEAN
    BY <2>2, Places, Zenon
  <2>4. \A p \in DOMAIN procs :
          /\ procs[p].state \in {"running", "zombie", "reaped"} /\ procs[p].status \in Status
          /\ procs[p].line \in 1 .. lines /\ procs[p].late \in BOOLEAN
    BY <2>3, Zenon DEF States
  <2>5. prev_op \in {"", "||", "&&", ";", "|", "&"}
    BY <2>1 DEF Typed, Ops
  <2>6. phase \in {"prompt", "read", "spawned", "run", "start", "started", "wait", "final",
                   "ended", "undefined"}
    BY <2>1, Zenon DEF Typed, Phases
  <2> QED
    BY <2>1, <2>3, <2>4, <2>5, <2>6, Zenon DEF Typed, TypeOK
<1> QED
  BY <1>1, InvHolds, PTL

\* When run decides by || or && or goes on behind a ; (main.cpp:166), every process
\* of the line has been waited for, and cur_status is the status of the one started
\* last (main.cpp:197), if no wait returned a child of another line.
THEOREM Over == Spec => []PipelineIsOver
<1>1. ASSUME Inv PROVE PipelineIsOver
  <2> SUFFICES ASSUME phase = "run", prev_op \in {";", "||", "&&"}, ~foreign
               PROVE  /\ \A p \in Mine : procs[p].state = "reaped"
                      /\ \A p \in Mine : (\A q \in Mine : q <= p) => cur_status = procs[p].status
    BY DEF PipelineIsOver
  <2>1. /\ \A p \in Ran : procs[p].state = "reaped"
        /\ cur_pid \in Ran /\ cur_status = procs[cur_pid].status
        /\ \A p \in Ran : p <= cur_pid
    BY <1>1, OverHas
  <2>2. Mine = Ran /\ \A p \in Ran : p \in Int
    <3>1. InRun
      BY DEF InRun
    <3>2. RunHas
      BY <1>1, <3>1, RunFacts
    <3>3. Mine = Ran /\ \A p \in Ran : p \in 1 .. Len(procs)
      BY <3>2, Zenon DEF RunHas
    <3>5. Len(procs) \in Nat
      BY <3>2, Zenon DEF RunHas
    <3>4. \A p \in 1 .. Len(procs) : p \in Int
      BY ONLY <3>5
    <3> QED
      BY <3>3, <3>4, Zenon
  <2>3. ASSUME NEW p \in Mine, \A q \in Mine : q <= p
        PROVE  cur_status = procs[p].status
    <3>1. cur_pid <= p /\ p <= cur_pid /\ p \in Int /\ cur_pid \in Int
      BY <2>1, <2>2, <2>3
    <3>2. p = cur_pid
      BY ONLY <3>1
    <3> QED
      BY <2>1, <3>2
  <2> QED
    BY <2>1, <2>2, <2>3
<1> QED
  BY <1>1, InvHolds, PTL

\* A command behind a | reads from the pipe of the command before it, if that was
\* started, and no other command reads from a pipe, whatever was skipped in
\* between (main.cpp:117, 135), unless a word of the line is "pipe".
THEOREM Connected == NoPipeWord => (Spec => []PipesConnect)
<1> SUFFICES ASSUME NoPipeWord PROVE Spec => []PipesConnect
  OBVIOUS
<1>1. ASSUME Inv PROVE PipesConnect
  <2> SUFFICES ASSUME NEW p \in Mine, InRun
               PROVE  IF IsDelim(cmds, procs[p].cmd - 1, "|")
                      THEN procs[p].input \in PipeOf(Of(procs[p].cmd - 2))
                      ELSE procs[p].input \in {Terminal, File}
    BY Zenon DEF PipesConnect, PipeOf
  <2>1. p \in Ran
    BY <1>1, RunFacts DEF RunHas
  <2>2. ReadsFrom(p)
    BY <1>1, <2>1 DEF Inv, Piping
  <2> QED
    BY <2>2, Zenon DEF ReadsFrom
<1>2. NoPipeWord
  OBVIOUS
<1> QED
  BY <1>1, <1>2, InvHolds, PTL

\* After SIGINT run starts at most the command it was starting (main.cpp:164), and
\* nothing of the line once it has seen it.
THEOREM Stops == Spec => []StopsAfterInterrupt
<1>1. ASSUME Inv PROVE StopsAfterInterrupt
  <2>1. \A p, q \in Late : p = q
    BY <1>1 DEF Inv, Interrupted
  <2>2. CASE Late = {}
    <3>1. Cardinality(Late) = 0
      BY <2>2, FS_EmptySet
    <3> QED
      BY <3>1 DEF StopsAfterInterrupt, Late
  <2>3. CASE Late # {}
    <3>1. PICK p : p \in Late
      BY <2>3
    <3>2. Late = {p}
      BY <2>1, <3>1
    <3>3. Cardinality(Late) = 1
      BY <3>2, FS_Singleton
    <3> QED
      BY <3>3 DEF StopsAfterInterrupt, Late
  <2> QED
    BY <2>2, <2>3
<1> QED
  BY <1>1, InvHolds, PTL

\* In a line without pipes a command behind || runs only if what ran before it
\* failed, and one behind && only if it succeeded (main.cpp:166), in every mixture
\* of || && ; and however many are skipped, if no wait returned a child of another
\* line.
THEOREM LazyEnough == Spec => []LazyUnlessPiped
<1>1. ASSUME Inv PROVE LazyUnlessPiped
  <2> SUFFICES ASSUME InRun, ~foreign, \A i \in DOMAIN cmds : ~IsDelim(cmds, i, "|"), NEW p \in Mine
               PROVE  RunsLazily(p)
    BY DEF LazyUnlessPiped
  <2> DEFINE c == procs[p].cmd
  <2>1. RunHas
    BY <1>1, RunFacts
  <2>2. Mine = Ran /\ c \in Nat /\ c % 2 = 1 /\ (c - 1) % 2 = 0 /\ c - 1 \in Int /\ c > 0
    <3>1. Mine = Ran /\ c \in Nat /\ c % 2 = 1
      BY <2>1 DEF RunHas
    <3> HIDE DEF c
    <3> QED
      BY <3>1, Parity
  <2>3. Chosen(p)
    BY <1>1, <2>2 DEF Inv, Lazily
  <2>4. \A i : ~IsDelim(cmds, i, "|")
    BY Zenon DEF IsDelim
  <2>5. FirstOfPipeline(c) = c
    <3> DEFINE P(k) == /\ k % 2 = 1 /\ ~IsDelim(cmds, k - 1, "|")
                       /\ \A j \in k + 1 .. c : j % 2 = 0 => IsDelim(cmds, j, "|")
    <3> HIDE DEF c
    <3>1. c \in 1 .. c /\ P(c)
      <4>1. c \in 1 .. c /\ \A j \in c + 1 .. c : FALSE
        BY ONLY <2>2
      <4> QED
        BY <2>2, <2>4, <4>1
    <3>2. ASSUME NEW k \in 1 .. c, P(k) PROVE k = c
      <4>1. k % 2 = 1 /\ \A j \in k + 1 .. c : ~(j % 2 = 0)
        BY <2>4, <3>2
      <4> HIDE DEF P
      <4>2. k + 1 \notin k + 1 .. c
        <5>1. (k + 1) % 2 = 0
          BY ONLY <4>1, <2>2, k \in 1 .. c
        <5> DEFINE j == k + 1
        <5>2. \A i \in j .. c : ~(i % 2 = 0)
          BY <4>1, Zenon
        <5> HIDE DEF j
        <5>3. j \notin j .. c
          <6>1. j % 2 = 0
            BY <5>1 DEF j
          <6> QED
            BY <5>2, <6>1, Zenon
        <5> QED
          BY <5>3, Zenon DEF j
      <4> QED
        BY ONLY <2>2, <4>2, k \in 1 .. c
    <3>3. FirstOfPipeline(c) = CHOOSE k \in 1 .. c : P(k)
      BY Zenon DEF FirstOfPipeline
    <3> HIDE DEF P
    <3> QED
      BY <3>1, <3>2, <3>3
  <2>6. \A d : IsDelim(cmds, c - 1, d) <=> c - 1 \in 1 .. Len(cmds) /\ cmds[c - 1].delim = d
    <3>1. LineHas(cmds)
      BY <2>1, Zenon DEF RunHas
    <3> HIDE DEF c
    <3> QED
      BY <2>2, <3>1, Zenon DEF LineHas
  <2>7. ASSUME NEW d \in {"||", "&&"}, IsDelim(cmds, c - 1, d)
        PROVE  procs[LastBefore(c)].status = "0" <=> d = "&&"
    <3>1. c > 1 /\ cmds[c - 1].delim = d
      <4>1. c - 1 \in 1 .. Len(cmds) /\ cmds[c - 1].delim = d
        BY <2>6, <2>7
      <4>2. Len(cmds) \in Nat
        BY <2>1 DEF RunHas, LineHas
      <4> HIDE DEF c
      <4>3. c > 1
        BY ONLY <2>2, <4>1, <4>2
      <4> QED
        BY <4>1, <4>3
    <3>2. PICK q \in Ran : /\ procs[q].cmd < c /\ procs[q].state = "reaped"
                           /\ procs[q].status = "0" <=> cmds[c - 1].delim = "&&"
                           /\ \A r \in Ran : procs[r].cmd < c => r <= q
      BY <2>3, <2>7, <3>1, Zenon DEF Chosen
    <3> DEFINE ran == {r \in Mine : procs[r].cmd < c}
    <3>3. q \in ran /\ \A r \in ran : r <= q
      BY <2>2, <3>2
    <3>4. \A r \in ran : r \in Int
      BY <2>1, <2>2 DEF RunHas
    <3>5. LastBefore(c) = CHOOSE r \in ran : \A k \in ran : k <= r
      BY Zenon DEF LastBefore
    <3> HIDE DEF ran, c
    <3>6. \A r \in ran : (\A k \in ran : k <= r) => r = q
      BY ONLY <3>3, <3>4
    <3>7. LastBefore(c) = q
      BY <3>3, <3>5, <3>6
    <3> QED
      BY <3>1, <3>2, <3>7
  <2>8. /\ IsDelim(cmds, c - 1, "||") => procs[LastBefore(c)].status # "0"
        /\ IsDelim(cmds, c - 1, "&&") => procs[LastBefore(c)].status = "0"
    <3> HIDE DEF c
    <3>1. IsDelim(cmds, c - 1, "||") => (procs[LastBefore(c)].status = "0" <=> "||" = "&&")
      BY <2>7
    <3>2. IsDelim(cmds, c - 1, "&&") => (procs[LastBefore(c)].status = "0" <=> "&&" = "&&")
      BY <2>7
    <3> QED
      BY <3>1, <3>2
  <2> QED
    BY <2>5, <2>8, Zenon DEF RunsLazily
<1> QED
  BY <1>1, InvHolds, PTL

\* In run, the entities are those that parse makes of the line that was read, the
\* line is not for the background, and the parser defines it.
Parsed(s) == cmds = parse(s).cmds /\ parse(s).bkgr_mode = FALSE /\ parse(s).defined
LineRead == InRun => line \in Lines /\ Parsed(line)

LEMMA LineReadHolds == Spec => []LineRead
<1>1. Init => LineRead
  <2>1. Init => phase = "prompt"
    BY Zenon DEF Init
  <2>2. Init => ~InRun
    BY <2>1 DEF InRun
  <2> QED
    BY <2>2, Zenon DEF LineRead
<1>2. ASSUME LineRead, [Next]_vars PROVE LineRead'
  <2>1. CASE ReadLine
    <3> SUFFICES ASSUME InRun' PROVE line' \in Lines /\ Parsed(line)'
      BY DEF LineRead
    <3> DEFINE p == parse(line')
    <3>1. line' \in Lines
      BY <2>1, Zenon DEF ReadLine
    <3>2. /\ phase' = CASE ~p.defined -> "undefined"
                        [] p.defined /\ ~active_process -> "prompt"
                        [] p.defined /\ active_process /\ p.bkgr_mode -> "spawned"
                        [] OTHER -> "run"
          /\ cmds' = IF p.defined THEN p.cmds ELSE <<>>
      BY <2>1, Zenon DEF ReadLine
    <3>3. p.bkgr_mode \in BOOLEAN
      BY DEF parse, IsDelim
    <3> HIDE DEF p
    <3>4. p.defined /\ ~p.bkgr_mode
      BY <3>2 DEF InRun
    <3>5. cmds' = p.cmds /\ p.bkgr_mode = FALSE /\ p.defined
      BY <3>2, <3>3, <3>4
    <3> QED
      BY <3>1, <3>5, Zenon DEF Parsed, p
  <2>2. CASE UNCHANGED <<cmds, line>> /\ (InRun' => InRun)
    <3>1. cmds' = cmds /\ line' = line
      BY <2>2
    <3>2. Parsed(line) => Parsed(line)'
      BY <3>1 DEF Parsed
    <3> QED
      BY <1>2, <2>2, <3>1, <3>2, Zenon DEF LineRead
  <2>3. CASE UNCHANGED vars
    BY <2>2, <2>3 DEF vars, main, runs, InRun
  <2>4. CASE Shell \/ handler \/ EndInput \/ \E p \in DOMAIN procs : Ends(p)
    <3>1. UNCHANGED <<cmds, line>> /\ (InRun' => InRun)
      BY <2>4 DEF Shell, run, handler, EndInput, Ends, Prompt, Spawned, EndOfInput, Finish, Return,
                  Skip, Decide, Start, Started, Wait, Reap, Advance, main, runs, world, InRun
    <3> QED
      BY <2>2, <3>1
  <2> QED
    BY <1>2, <2>1, <2>3, <2>4 DEF Next
<1> QED
  BY <1>1, <1>2, PTL DEF Spec

\* A line that is well written and that the parser defines is given back by its
\* entities, up to its blanks: putting symbols for || and && (parser.cpp:46), splitting
\* the line (parser.cpp:20), taking the redirections out (parser.cpp:87) and putting
\* || and && back (parser.cpp:106) loses and adds nothing else, whatever its length;
\* and a line with a piece of blanks, such as "a & " or "a | | b", is not defined.
THEOREM UnparseParse ==
  \A s \in Seq(STRING) : WellWritten(s) /\ parse(s).defined => Faithful(parse(s), s)
BY LineUndone, Zenon

\* What run executes are the commands, files and operators of the line that was
\* read, and none of its pieces is blank, if every line that may be typed is well
\* written.
THEOREM Reconstructed == (\A s \in Lines : WellWritten(s)) => (Spec => []ParsedRight)
<1> SUFFICES ASSUME \A s \in Lines : WellWritten(s) PROVE Spec => []ParsedRight
  OBVIOUS
<1>1. ASSUME LineRead PROVE ParsedRight
  <2> SUFFICES ASSUME InRun PROVE Faithful([cmds |-> cmds, bkgr_mode |-> FALSE], line)
    BY Zenon DEF ParsedRight
  <2> DEFINE p == parse(line)
             q == [cmds |-> cmds, bkgr_mode |-> FALSE]
  <2>1. cmds = p.cmds /\ p.bkgr_mode = FALSE /\ p.defined
    BY <1>1, Zenon DEF LineRead, Parsed
  <2>2. line \in Seq(STRING) /\ WellWritten(line)
    BY <1>1, ShellAssumption, Zenon DEF LineRead
  <2>3. Faithful(p, line)
    BY <2>1, <2>2, LineUndone, Zenon
  <2>4. q.cmds = cmds /\ q.bkgr_mode = FALSE
    OBVIOUS
  <2> HIDE DEF p, q
  <2>5. Unparse(q) = Unparse(p)
    BY <2>1, <2>4, Zenon DEF Unparse
  <2>6. Faithful(q, line)
    BY <2>3, <2>5, Zenon DEF Faithful
  <2> QED
    BY <2>6, Zenon DEF q
<1>2. \A s \in Lines : WellWritten(s)
  OBVIOUS
<1> QED
  BY <1>1, <1>2, LineReadHolds, PTL
=============================================================================
