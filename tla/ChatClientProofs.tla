-------------------------- MODULE ChatClientProofs --------------------------
(***************************************************************************)
(* Proofs about ChatClient: the order in which the words reach the server, *)
(* when the client ends, and needwrite.                                    *)
(***************************************************************************)
EXTENDS ChatClient, SequenceLemmas

----------------------------------------------------------------------------
(* Flatten *)

\* f[i] joins the first i of the sequences, for i up to k.
Joins(f, ss, k) ==
  f = [i \in 0 .. k |-> IF i = 0 THEN <<>> ELSE f[i - 1] \o ss[i]]

\* Such functions are determined by their recursion.
LEMMA JoinsStep ==
  ASSUME NEW f, NEW ss, NEW k \in Nat, Joins(f, ss, k)
  PROVE  /\ f[0] = <<>>
         /\ \A i \in 0 .. k - 1 : f[i + 1] = f[i] \o ss[i + 1]
<1>1. ASSUME NEW i \in 0 .. k PROVE f[i] = IF i = 0 THEN <<>> ELSE f[i - 1] \o ss[i]
  BY Zenon DEF Joins
<1>2. ASSUME NEW i \in 0 .. k - 1 PROVE f[i + 1] = f[i] \o ss[i + 1]
  <2> DEFINE j == i + 1
  <2>1. j \in 0 .. k /\ j # 0 /\ j - 1 = i
    OBVIOUS
  <2> HIDE DEF j
  <2>2. f[j] = f[j - 1] \o ss[j]
    BY <1>1, <2>1, Zenon
  <2> QED
    BY <2>1, <2>2, Zenon DEF j
<1>3. f[0] = <<>>
  <2>1. 0 \in 0 .. k
    OBVIOUS
  <2> QED
    BY <1>1, <2>1, Zenon
<1> QED
  BY <1>2, <1>3

\* The joined sequences as the last value of a function on the prefixes.
LEMMA FlattenJoins ==
  ASSUME NEW S, NEW ss \in Seq(Seq(S))
  PROVE  \E f \in [0 .. Len(ss) -> Seq(S)] : Joins(f, ss, Len(ss)) /\ Flatten(ss) = f[Len(ss)]
<1> DEFINE n == Len(ss)
           K == {k \in 0 .. n : \E f : Joins(f, ss, k)}
<1>0. n \in Nat /\ \A i \in 1 .. n : ss[i] \in Seq(S)
  BY LenProperties
<1> HIDE DEF n
<1>1. 0 \in K
  <2> DEFINE g == [i \in 0 .. 0 |-> <<>>]
  <2>1. g = [i \in 0 .. 0 |-> IF i = 0 THEN <<>> ELSE g[i - 1] \o ss[i]]
    BY SMT
  <2>2. Joins(g, ss, 0)
    BY <2>1 DEF Joins
  <2> HIDE DEF g
  <2> QED
    BY <1>0, <2>2
<1>2. ASSUME NEW k \in 0 .. n - 1, k \in K PROVE k + 1 \in K
  <2>1. PICK f : Joins(f, ss, k)
    BY <1>2
  <2> DEFINE g == [i \in 0 .. k + 1 |-> IF i = k + 1 THEN f[k] \o ss[k + 1] ELSE f[i]]
             h == [i \in 0 .. k + 1 |-> IF i = 0 THEN <<>> ELSE g[i - 1] \o ss[i]]
  <2>2. k + 1 \in 0 .. n /\ k \in Nat /\ k + 1 # 0
    BY <1>0
  <2>3. ASSUME NEW i \in 0 .. k + 1 PROVE g[i] = h[i]
    <3>1. CASE i = k + 1
      <4>1. i - 1 = k /\ i # 0 /\ k \in 0 .. k + 1 /\ k # k + 1
        BY <2>2, <3>1
      <4>2. g[k] = f[k]
        BY <4>1, Zenon
      <4> QED
        BY <3>1, <4>1, <4>2, Zenon
    <3>2. CASE i # k + 1
      <4>1. i \in 0 .. k /\ (i # 0 => i - 1 \in 0 .. k + 1 /\ i - 1 # k + 1)
        BY <2>2, <3>2
      <4>2. f[i] = IF i = 0 THEN <<>> ELSE f[i - 1] \o ss[i]
        BY <2>1, <4>1, Zenon DEF Joins
      <4> QED
        BY <3>2, <4>1, <4>2, Zenon
    <3> QED
      BY <3>1, <3>2
  <2>4. g = h
    BY <2>3, Zenon
  <2>5. Joins(g, ss, k + 1)
    BY <2>4, Zenon DEF Joins
  <2> HIDE DEF g, h
  <2> QED
    BY <2>2, <2>5
<1> HIDE DEF K
<1>3. 0 .. n \subseteq K
  BY <1>0, <1>1, <1>2, UpTo, Zenon
<1>4. \E f : Joins(f, ss, n)
  BY <1>0, <1>3 DEF K
<1> DEFINE F == CHOOSE f : Joins(f, ss, n)
<1>5. Joins(F, ss, n)
  BY <1>4, Zenon
<1>6. Flatten(ss) = F[n]
  BY Zenon DEF Flatten, Joins, n
<1> HIDE DEF F
<1>7. F \in [0 .. n -> Seq(S)]
  <2> DEFINE T == {k \in 0 .. n : F[k] \in Seq(S)}
  <2>0. F[0] = <<>> /\ \A i \in 0 .. n - 1 : F[i + 1] = F[i] \o ss[i + 1]
    BY <1>0, <1>5, JoinsStep
  <2>1. 0 \in T
    <3>1. <<>> \in Seq(S) /\ 0 \in 0 .. n
      BY <1>0, EmptySeq
    <3> QED
      BY <2>0, <3>1, Zenon
  <2>2. ASSUME NEW k \in 0 .. n - 1, k \in T PROVE k + 1 \in T
    <3>1. F[k] \in Seq(S) /\ ss[k + 1] \in Seq(S) /\ k + 1 \in 0 .. n
      BY <1>0, <2>2
    <3>2. F[k] \o ss[k + 1] \in Seq(S)
      BY <3>1, ConcatProperties, Zenon
    <3> QED
      BY <2>0, <3>1, <3>2
  <2> HIDE DEF T
  <2>3. 0 .. n \subseteq T
    BY <1>0, <2>1, <2>2, UpTo, Zenon
  <2>4. F = [i \in 0 .. n |-> F[i]]
    BY <1>5, Zenon DEF Joins
  <2> QED
    BY <2>3, <2>4 DEF T
<1> QED
  BY <1>5, <1>6, <1>7 DEF n

LEMMA FlattenType ==
  ASSUME NEW S, NEW ss \in Seq(Seq(S))
  PROVE  Flatten(ss) \in Seq(S)
<1>1. PICK f \in [0 .. Len(ss) -> Seq(S)] : Flatten(ss) = f[Len(ss)]
  BY FlattenJoins, Zenon
<1>2. Len(ss) \in 0 .. Len(ss)
  BY LenProperties
<1> QED
  BY <1>1, <1>2

LEMMA FlattenEmpty == Flatten(<<>>) = <<>>
<1>1. <<>> \in Seq(Seq(Nat)) /\ Len(<<>>) = 0 /\ 0 \in Nat
  BY EmptySeq
<1>2. PICK f \in [0 .. Len(<<>>) -> Seq(Nat)] : Joins(f, <<>>, 0) /\ Flatten(<<>>) = f[0]
  BY <1>1, FlattenJoins, Zenon
<1> QED
  BY <1>1, <1>2, JoinsStep, Zenon

\* A sequence more is joined at the end.
LEMMA FlattenAppend ==
  ASSUME NEW S, NEW ss \in Seq(Seq(S)), NEW s \in Seq(S)
  PROVE  Flatten(Append(ss, s)) = Flatten(ss) \o s
<1> DEFINE n == Len(ss)
           tt == Append(ss, s)
<1>1. /\ tt \in Seq(Seq(S)) /\ n \in Nat /\ Len(tt) = n + 1 /\ tt[n + 1] = s
      /\ \A i \in 1 .. n : tt[i] = ss[i]
  BY AppendProperties, LenProperties
<1>2. PICK f \in [0 .. n -> Seq(S)] : Joins(f, ss, n) /\ Flatten(ss) = f[n]
  BY FlattenJoins, Zenon
<1> HIDE DEF n, tt
<1>3. PICK g \in [0 .. n + 1 -> Seq(S)] : Joins(g, tt, n + 1) /\ Flatten(tt) = g[n + 1]
  BY <1>1, FlattenJoins, Zenon
<1>4. f[0] = <<>> /\ \A i \in 0 .. n - 1 : f[i + 1] = f[i] \o ss[i + 1]
  BY <1>1, <1>2, JoinsStep
<1>5. g[0] = <<>> /\ \A i \in 0 .. n : g[i + 1] = g[i] \o tt[i + 1]
  <2>1. n + 1 \in Nat /\ (n + 1) - 1 = n
    BY <1>1
  <2>2. g[0] = <<>> /\ \A i \in 0 .. (n + 1) - 1 : g[i + 1] = g[i] \o tt[i + 1]
    BY <1>3, <2>1, JoinsStep, Zenon
  <2> QED
    BY <2>1, <2>2, Zenon
<1> DEFINE T == {k \in 0 .. n : f[k] = g[k]}
<1>6. 0 \in T
  <2>1. 0 \in 0 .. n
    BY <1>1
  <2> QED
    BY <2>1, <1>4, <1>5, Zenon
<1>7. ASSUME NEW k \in 0 .. n - 1, k \in T PROVE k + 1 \in T
  <2>1. f[k + 1] = f[k] \o ss[k + 1] /\ g[k + 1] = g[k] \o tt[k + 1]
    <3>1. k \in 0 .. n
      BY <1>1
    <3> QED
      BY <3>1, <1>4, <1>5, Zenon
  <2>2. tt[k + 1] = ss[k + 1] /\ k + 1 \in 0 .. n
    BY <1>1
  <2> QED
    BY <1>7, <2>1, <2>2
<1> HIDE DEF T
<1>8. 0 .. n \subseteq T
  BY <1>1, <1>6, <1>7, UpTo, Zenon
<1>9. f[n] = g[n] /\ g[n + 1] = g[n] \o s
  <2>1. n \in 0 .. n
    BY <1>1
  <2>2. f[n] = g[n]
    BY <2>1, <1>8 DEF T
  <2>3. g[n + 1] = g[n] \o tt[n + 1]
    BY <2>1, <1>5, Zenon
  <2> QED
    BY <1>1, <2>2, <2>3, Zenon
<1> QED
  BY <1>2, <1>3, <1>9 DEF tt

\* The first sequence comes first.
LEMMA FlattenTail ==
  ASSUME NEW S, NEW ss \in Seq(Seq(S)), ss # <<>>
  PROVE  /\ Head(ss) \in Seq(S) /\ Tail(ss) \in Seq(Seq(S))
         /\ Flatten(ss) = Head(ss) \o Flatten(Tail(ss))
<1>0. ASSUME NEW x \in Seq(S), NEW y \in Seq(S), NEW z \in Seq(S)
      PROVE  (x \o y) \o z = x \o (y \o z)
  <2>1. Associates(x, y, z)
    BY ONLY <1>0, Assoc, Zenon
  <2> QED
    BY <2>1, Zenon DEF Associates
<1> DEFINE n == Len(ss) - 1
           tt == Tail(ss)
           s == Head(ss)
<1>1. /\ tt \in Seq(Seq(S)) /\ n \in Nat /\ Len(ss) = n + 1 /\ Len(tt) = n
      /\ s \in Seq(S) /\ s = ss[1]
      /\ \A i \in 1 .. n : tt[i] = ss[i + 1]
  BY HeadTailProperties, LenProperties, EmptySeq
<1> HIDE DEF n, tt, s
<1>2. PICK f \in [0 .. n + 1 -> Seq(S)] : Joins(f, ss, n + 1) /\ Flatten(ss) = f[n + 1]
  <2>1. \E f \in [0 .. Len(ss) -> Seq(S)] : Joins(f, ss, Len(ss)) /\ Flatten(ss) = f[Len(ss)]
    BY FlattenJoins, Zenon
  <2> QED
    BY <1>1, <2>1, Zenon
<1>3. PICK g \in [0 .. n -> Seq(S)] : Joins(g, tt, n) /\ Flatten(tt) = g[n]
  BY <1>1, FlattenJoins, Zenon
<1>4. f[0] = <<>> /\ \A i \in 0 .. n : f[i + 1] = f[i] \o ss[i + 1]
  <2>1. n + 1 \in Nat /\ (n + 1) - 1 = n
    BY <1>1
  <2>2. f[0] = <<>> /\ \A i \in 0 .. (n + 1) - 1 : f[i + 1] = f[i] \o ss[i + 1]
    BY <1>2, <2>1, JoinsStep, Zenon
  <2> QED
    BY <2>1, <2>2, Zenon
<1>5. g[0] = <<>> /\ \A i \in 0 .. n - 1 : g[i + 1] = g[i] \o tt[i + 1]
  BY <1>1, <1>3, JoinsStep, ZenonT(40)
<1> DEFINE T == {k \in 0 .. n : f[k + 1] = s \o g[k]}
<1>6. 0 \in T
  <2>0. 0 + 1 = 1 /\ 0 \in 0 .. n
    BY <1>1
  <2>1. f[0 + 1] = f[0] \o ss[0 + 1]
    BY <1>4, <2>0, Zenon
  <2>2. <<>> \o s = s /\ s \o <<>> = s
    BY <1>1, ConcatEmptySeq
  <2> QED
    BY <1>1, <1>4, <1>5, <2>0, <2>1, <2>2, Zenon
<1>7. ASSUME NEW k \in 0 .. n - 1, k \in T PROVE k + 1 \in T
  <2>1. k + 1 \in 0 .. n /\ k \in 0 .. n /\ k + 1 \in 1 .. n
    BY <1>1
  <2>2. f[k + 1 + 1] = f[k + 1] \o ss[k + 1 + 1] /\ f[k + 1] = s \o g[k]
    BY <1>4, <1>7, <2>1
  <2>3. g[k + 1] = g[k] \o tt[k + 1] /\ tt[k + 1] = ss[k + 1 + 1]
    BY <1>1, <1>5, <2>1
  <2>4. g[k] \in Seq(S) /\ tt[k + 1] \in Seq(S)
    BY <1>1, <1>3, <2>1, ElementOfSeq
  <2>5. (s \o g[k]) \o tt[k + 1] = s \o (g[k] \o tt[k + 1])
    BY <1>0, <1>1, <2>4, Zenon
  <2>6. f[k + 1 + 1] = s \o g[k + 1]
    <3>1. f[k + 1 + 1] = (s \o g[k]) \o tt[k + 1]
      BY <2>2, <2>3, Zenon
    <3> QED
      BY <2>3, <2>5, <3>1, Zenon
  <2> QED
    BY <2>1, <2>6
<1> HIDE DEF T
<1>8. 0 .. n \subseteq T
  BY <1>1, <1>6, <1>7, UpTo, Zenon
<1>9. f[n + 1] = s \o g[n]
  BY <1>1, <1>8, SMTT(30) DEF T
<1> QED
  BY <1>1, <1>2, <1>3, <1>9 DEF tt, s

----------------------------------------------------------------------------
(* The inductive invariant *)

\* What the server has and gets from what waits on the way.
Stream == got \o net \o queue \o cin \o Flatten(tty)

\* The words that were typed, and the empty messages of the end of input.
Given == [i \in 1 .. typed + empties |-> IF i <= typed THEN i ELSE Empty]

\* Words wait to be sent only while needwrite is set, needwrite outlives them
\* only until writeFds returns, a word can be sent only on a connection that was
\* made, and an empty message means that nothing more will be typed.
Coupled ==
  /\ queue # <<>> => needwrite
  /\ needwrite /\ queue = <<>> => "write" \in todo
  /\ "write" \in todo => peer # "connecting"
  /\ empties > 0 => eof

Inv ==
  /\ TypeOK /\ Coupled /\ ExitOnlyIfClosed
  /\ peer # "closed" => Stream = Given

LEMMA GivenIs ==
  ASSUME typed \in Nat, empties \in Nat
  PROVE  Given = IF empties = 0 THEN [i \in 1 .. typed |-> i]
                 ELSE [i \in 1 .. typed + empties |-> IF i <= typed THEN i ELSE Empty]
BY DEF Given

\* The stream is one of words, whichever way it is put together.
LEMMA Streams ==
  ASSUME TypeOK
  PROVE  /\ got \in Seq(Nat) /\ net \in Seq(Nat) /\ queue \in Seq(Nat) /\ cin \in Seq(Nat)
         /\ tty \in Seq(Seq(Nat)) /\ Flatten(tty) \in Seq(Nat)
         /\ got \o net \in Seq(Nat) /\ got \o net \o queue \in Seq(Nat)
         /\ got \o net \o queue \o cin \in Seq(Nat)
<1>1. 0 .. typed \subseteq Nat /\ 1 .. typed \subseteq Nat
  BY DEF TypeOK
<1>2. Seq(0 .. typed) \subseteq Seq(Nat) /\ Seq(1 .. typed) \subseteq Seq(Nat)
  BY <1>1, SeqSubset
<1>3. Seq(Seq(1 .. typed)) \subseteq Seq(Seq(Nat))
  BY <1>2, SeqSubset
<1>4. /\ got \in Seq(Nat) /\ net \in Seq(Nat) /\ queue \in Seq(Nat) /\ cin \in Seq(Nat)
      /\ tty \in Seq(Seq(Nat))
  BY <1>2, <1>3 DEF TypeOK
<1>5. Flatten(tty) \in Seq(Nat)
  BY <1>4, FlattenType
<1>6. got \o net \in Seq(Nat)
  BY <1>4, ConcatProperties
<1>7. (got \o net) \o queue \in Seq(Nat)
  BY <1>4, <1>6, ConcatProperties
<1>8. ((got \o net) \o queue) \o cin \in Seq(Nat)
  BY <1>4, <1>7, ConcatProperties
<1> QED
  BY <1>4, <1>5, <1>6, <1>7, <1>8

LEMMA InitInv == Init => Inv
<1> SUFFICES ASSUME Init PROVE Inv
  OBVIOUS
<1>0. Len(<<>>) = 0 /\ \A S : <<>> \in Seq(S)
  BY EmptySeq
<1>1. TypeOK
  <2>1. /\ tty \in Seq(Seq(1 .. typed)) /\ lines \in Seq(LineSizes)
        /\ net \in Seq(0 .. typed) /\ got \in Seq(0 .. typed)
        /\ cin \in Seq(1 .. typed) /\ queue \in Seq(0 .. typed)
    BY <1>0, Zenon DEF Init
  <2>2. Len(net) <= Limit
    BY <1>0, ClientAssumption DEF Init
  <2>3. /\ eof \in BOOLEAN /\ peer \in {"connecting", "up", "closed"}
        /\ needwrite \in BOOLEAN /\ todo \subseteq {"stdin", "read", "write"}
        /\ exited \in BOOLEAN
    BY Zenon DEF Init
  <2>4. typed \in Nat /\ inbound \in 0 .. received /\ received \in Nat
    BY DEF Init
  <2>5. empties \in 0 .. MaxEmpty
    BY ClientAssumption DEF Init
  <2> QED
    BY <2>1, <2>2, <2>3, <2>4, <2>5 DEF TypeOK
<1>2. Coupled /\ ExitOnlyIfClosed
  BY DEF Init, Coupled, ExitOnlyIfClosed
<1>3. Stream = <<>>
  BY FlattenEmpty, EmptySeq, ConcatEmptySeq DEF Init, Stream
<1>4. Given = <<>>
  BY DEF Init, Given
<1> QED
  BY <1>1, <1>2, <1>3, <1>4 DEF Inv

----------------------------------------------------------------------------
(* Types *)

LEMMA TypeType == TypeOK /\ Type => TypeOK'
<1> SUFFICES ASSUME TypeOK, Type PROVE TypeOK'
  OBVIOUS
<1>1. PICK n \in LineSizes :
        /\ tty' = Append(tty, [i \in 1 .. n |-> typed + i])
        /\ typed' = typed + n
        /\ lines' = Append(lines, n)
  BY DEF Type
<1> DEFINE line == [i \in 1 .. n |-> typed + i]
<1>2. n \in Nat /\ typed \in Nat /\ typed' \in Nat
  BY <1>1, ClientAssumption DEF TypeOK
<1>3. 0 .. typed \subseteq 0 .. typed' /\ 1 .. typed \subseteq 1 .. typed'
  BY <1>1, <1>2
<1>4. /\ Seq(0 .. typed) \subseteq Seq(0 .. typed')
      /\ Seq(1 .. typed) \subseteq Seq(1 .. typed')
  BY <1>3, SeqSubset
<1>5. Seq(Seq(1 .. typed)) \subseteq Seq(Seq(1 .. typed'))
  BY <1>4, SeqSubset
<1>6. line \in Seq(1 .. typed')
  <2>1. line \in [1 .. n -> 1 .. typed']
    BY <1>1, <1>2
  <2> QED
    BY <1>2, <2>1, SeqDef
<1> HIDE DEF line
<1>7. tty' \in Seq(Seq(1 .. typed'))
  <2>1. tty \in Seq(Seq(1 .. typed')) /\ tty' = Append(tty, line)
    BY <1>1, <1>5 DEF TypeOK, line
  <2> QED
    BY <1>6, <2>1, AppendProperties, Zenon
<1>8. lines' \in Seq(LineSizes)
  BY <1>1, AppendProperties DEF TypeOK
<1>9. UNCHANGED <<eof, peer, net, got, inbound, received, cin, queue, needwrite, todo, empties, exited>>
  BY DEF Type, server, client
<1> QED
  BY <1>2, <1>4, <1>7, <1>8, <1>9 DEF TypeOK

LEMMA TypeReadWord == TypeOK /\ ReadWord => TypeOK'
<1> SUFFICES ASSUME TypeOK, ReadWord PROVE TypeOK'
  OBVIOUS
<1>1. UNCHANGED <<eof, lines, typed, peer, net, got, inbound, received, exited>>
  BY DEF ReadWord, server
<1>2. typed \in Nat /\ 1 .. typed \subseteq 0 .. typed /\ Empty \in 0 .. typed
  BY DEF TypeOK, Empty
<1>3. /\ tty \in Seq(Seq(1 .. typed)) /\ cin \in Seq(1 .. typed) /\ queue \in Seq(0 .. typed)
      /\ todo \subseteq {"stdin", "read", "write"} /\ needwrite \in BOOLEAN
      /\ empties \in 0 .. MaxEmpty
  BY DEF TypeOK
<1>4. /\ tty' \in Seq(Seq(1 .. typed)) /\ cin' \in Seq(1 .. typed) /\ queue' \in Seq(0 .. typed)
      /\ todo' \subseteq {"stdin", "read", "write"} /\ needwrite' \in BOOLEAN
      /\ empties' \in 0 .. MaxEmpty
  <2>1. CASE cin # <<>> /\ cin' = Tail(cin) /\ add_message(Head(cin))
             /\ todo' = todo \ {"stdin"} /\ UNCHANGED <<tty, empties>>
    <3>1. Head(cin) \in 1 .. typed /\ Tail(cin) \in Seq(1 .. typed)
      BY <1>3, <2>1, HeadTailProperties
    <3>2. queue' = Append(queue, Head(cin)) /\ Head(cin) \in 0 .. typed
      BY <1>2, <2>1, <3>1 DEF add_message
    <3>3. queue' \in Seq(0 .. typed)
      BY <1>3, <3>2, AppendProperties
    <3> QED
      BY <1>3, <2>1, <3>1, <3>3 DEF add_message
  <2>2. CASE cin = <<>> /\ tty # <<>> /\ cin' = Head(tty) /\ tty' = Tail(tty)
             /\ UNCHANGED <<queue, needwrite, todo, empties>>
    <3>1. Head(tty) \in Seq(1 .. typed) /\ Tail(tty) \in Seq(Seq(1 .. typed))
      BY <1>3, <2>2, HeadTailProperties
    <3> QED
      BY <1>3, <2>2, <3>1
  <2>3. CASE empties < MaxEmpty /\ add_message(Empty) /\ todo' = todo \ {"stdin"}
             /\ empties' = empties + 1 /\ UNCHANGED <<tty, cin>>
    <3>1. queue' \in Seq(0 .. typed)
      BY <1>2, <1>3, <2>3, AppendProperties DEF add_message
    <3>2. empties' \in 0 .. MaxEmpty
      BY <1>3, <2>3, ClientAssumption
    <3> QED
      BY <1>3, <2>3, <3>1, <3>2 DEF add_message
  <2> QED
    BY <2>1, <2>2, <2>3 DEF ReadWord
<1> QED
  BY <1>1, <1>4 DEF TypeOK

LEMMA TypeWriteFds == TypeOK /\ Coupled /\ writeFds => TypeOK'
<1> SUFFICES ASSUME TypeOK, Coupled, writeFds PROVE TypeOK'
  OBVIOUS
<1>1. CASE Sent
  <2>1. PICK n \in 1 .. Len(queue) :
          /\ queue' = SubSeq(queue, n + 1, Len(queue))
          /\ peer = "up" => n <= Limit - Len(net)
          /\ net' = IF peer = "up" THEN net \o SubSeq(queue, 1, n) ELSE net
    BY <1>1 DEF Sent
  <2>2. n \in 0 .. Len(queue) /\ queue \in Seq(0 .. typed) /\ net \in Seq(0 .. typed)
        /\ Len(net) <= Limit
    BY LenProperties DEF TypeOK
  <2> DEFINE front == SubSeq(queue, 1, n)
             back == SubSeq(queue, n + 1, Len(queue))
  <2>3. /\ front \in Seq(0 .. typed) /\ Len(front) = n
        /\ back \in Seq(0 .. typed)
    BY <2>2, CutSeq, Zenon
  <2> HIDE DEF front, back
  <2>4. net \o front \in Seq(0 .. typed) /\ Len(net \o front) = Len(net) + n
    BY <2>2, <2>3, ConcatProperties
  <2>5. queue' = back /\ net' = IF peer = "up" THEN net \o front ELSE net
    BY <2>1 DEF front, back
  <2>6. net' \in Seq(0 .. typed) /\ Len(net') <= Limit /\ queue' \in Seq(0 .. typed)
    <3>1. Len(net) \in Nat /\ n \in Nat /\ Limit \in Nat
      BY <2>2, LenProperties, ClientAssumption
    <3>2. CASE peer = "up"
      <4>1. n <= Limit - Len(net) /\ net' = net \o front
        BY <2>1, <2>5, <3>2
      <4>2. Len(net \o front) <= Limit
        BY <2>4, <3>1, <4>1
      <4> QED
        BY <2>3, <2>4, <2>5, <4>1, <4>2
    <3>3. CASE peer # "up"
      BY <2>2, <2>3, <2>5, <3>3
    <3> QED
      BY <3>2, <3>3
  <2>7. UNCHANGED <<user, peer, got, inbound, received, cin, needwrite, todo, empties, exited>>
    BY <1>1 DEF Sent
  <2> QED
    BY <2>6, <2>7 DEF TypeOK, user
<1>2. CASE ~Sent
  <2>1. /\ UNCHANGED <<user, server, cin, queue, empties>>
        /\ needwrite' \in BOOLEAN /\ todo' \subseteq {"stdin", "read", "write"}
        /\ exited' \in BOOLEAN
    BY <1>2 DEF writeFds, WouldBlock, Exit, TypeOK, user, server
  <2> QED
    BY <2>1 DEF TypeOK, user, server
<1> QED
  BY <1>1, <1>2

LEMMA TypeStep == TypeOK /\ Coupled /\ [Next]_vars => TypeOK'
<1> SUFFICES ASSUME TypeOK, Coupled, [Next]_vars PROVE TypeOK'
  OBVIOUS
<1>1. CASE Type
  BY <1>1, TypeType
<1>2. CASE EndInput \/ Answer
  BY <1>2 DEF EndInput, Answer, TypeOK, server, client, user
<1>3. CASE ServerReceives
  <2>1. /\ net \in Seq(0 .. typed) /\ got \in Seq(0 .. typed) /\ net # <<>>
        /\ net' = Tail(net) /\ got' = Append(got, Head(net)) /\ Len(net) <= Limit
    BY <1>3 DEF ServerReceives, TypeOK
  <2>2. net' \in Seq(0 .. typed) /\ Len(net') = Len(net) - 1 /\ got' \in Seq(0 .. typed)
    BY <2>1, HeadTailProperties, AppendProperties
  <2>3. Len(net') <= Limit
    <3>1. Len(net) \in Nat /\ Limit \in Nat
      BY <2>1, LenProperties, ClientAssumption
    <3> QED
      BY <2>1, <2>2, <3>1
  <2> QED
    BY <1>3, <2>2, <2>3 DEF ServerReceives, TypeOK, user, client
<1>4. CASE ServerSends \/ ServerCloses \/ Select \/ readServer
  <2>1. UNCHANGED <<user, net, got, cin, queue, needwrite, empties>>
    BY <1>4 DEF ServerSends, ServerCloses, Select, readServer, Exit, client, server, user
  <2>2. /\ peer' \in {"connecting", "up", "closed"} /\ exited' \in BOOLEAN
        /\ todo' \subseteq {"stdin", "read", "write"}
    BY <1>4 DEF ServerSends, ServerCloses, Select, readServer, Exit, client, server, Reported, TypeOK
  <2>3. inbound' \in 0 .. received' /\ received' \in Nat
    BY <1>4, SMTT(30) DEF ServerSends, ServerCloses, Select, readServer, Exit, client, server, TypeOK
  <2> QED
    BY <2>1, <2>2, <2>3 DEF TypeOK, user
<1>5. CASE ReadWord
  BY <1>5, TypeReadWord
<1>6. CASE writeFds
  BY <1>6, TypeWriteFds
<1>7. CASE UNCHANGED vars
  BY <1>7 DEF vars, user, server, client, TypeOK
<1> QED
  BY <1>1, <1>2, <1>3, <1>4, <1>5, <1>6, <1>7 DEF Next, Client

LEMMA CoupledStep == TypeOK /\ Coupled /\ ExitOnlyIfClosed /\ [Next]_vars => Coupled' /\ ExitOnlyIfClosed'
<1> SUFFICES ASSUME TypeOK, Coupled, ExitOnlyIfClosed, [Next]_vars
             PROVE  Coupled' /\ ExitOnlyIfClosed'
  OBVIOUS
<1> USE DEF Coupled, ExitOnlyIfClosed
<1>1. CASE Type \/ EndInput \/ Answer \/ ServerReceives \/ ServerSends \/ ServerCloses \/ UNCHANGED vars
  BY <1>1, SMTT(30) DEF TypeOK, Type, EndInput, Answer, ServerReceives, ServerSends, ServerCloses, vars, user, server, client
<1>2. CASE Select
  BY <1>2 DEF Select, Reported, user, server
<1>3. CASE ReadWord
  <2>1. ASSUME NEW word PROVE Append(queue, word) # <<>>
    <3>1. queue \in Seq(Nat \cup {word})
      <4>1. queue \in Seq(0 .. typed) /\ 0 .. typed \subseteq Nat \cup {word}
        BY DEF TypeOK
      <4> QED
        BY <4>1, SeqSubset
    <3> QED
      BY <3>1, AppendProperties
  <2> QED
    BY <1>3, <2>1 DEF ReadWord, add_message, server
<1>4. CASE readServer
  BY <1>4 DEF readServer, Exit, user, server
<1>5. CASE writeFds
  BY <1>5 DEF writeFds, Sent, WouldBlock, Exit, user, server
<1> QED
  BY <1>1, <1>2, <1>3, <1>4, <1>5 DEF Next, Client

----------------------------------------------------------------------------
(* The order of the words *)

\* What a step adds to the words that were given.
LEMMA GivenGrows ==
  ASSUME typed \in Nat, empties \in Nat
  PROVE  /\ Given \in Seq(Nat)
         /\ \A n \in Nat : (empties = 0 /\ typed' = typed + n /\ empties' = empties) =>
              Given' = Given \o [i \in 1 .. n |-> typed + i]
         /\ (typed' = typed /\ empties' = empties + 1) => Given' = Append(Given, Empty)
<1>1. Given \in Seq(Nat) /\ Len(Given) = typed + empties
  <2>1. typed + empties \in Nat /\ Given \in [1 .. typed + empties -> Nat]
    BY DEF Given, Empty
  <2> QED
    BY <2>1, SeqOfNats, Zenon
<1>2. ASSUME NEW n \in Nat, empties = 0, typed' = typed + n, empties' = empties
      PROVE  Given' = Given \o [i \in 1 .. n |-> typed + i]
  <2>1. Given = Bytes(0, typed) /\ Given' = Bytes(0, typed + n)
    BY <1>2 DEF Given, Bytes
  <2>2. [i \in 1 .. n |-> typed + i] = Bytes(0 + typed, n)
    BY DEF Bytes
  <2>3. Bytes(0, typed) \o Bytes(0 + typed, n) = Bytes(0, typed + n)
    BY BytesConcat
  <2> QED
    BY <2>1, <2>2, <2>3
<1>3. ASSUME typed' = typed, empties' = empties + 1
      PROVE  Given' = Append(Given, Empty)
  <2> DEFINE m == typed + empties
  <2>1. /\ m \in Nat /\ Given' \in [1 .. m + 1 -> Nat]
        /\ \A i \in 1 .. m + 1 : Given'[i] = IF i <= typed THEN i ELSE Empty
        /\ \A i \in 1 .. m : Given[i] = IF i <= typed THEN i ELSE Empty
    BY <1>3 DEF Given, Empty
  <2>2. Given' \in Seq(Nat) /\ Len(Given') = m + 1
    <3>1. m + 1 \in Nat
      BY <2>1
    <3> QED
      BY <2>1, <3>1, SeqOfNats, Zenon
  <2>3. /\ Append(Given, Empty) \in Seq(Nat) /\ Len(Append(Given, Empty)) = m + 1
        /\ \A i \in 1 .. m : Append(Given, Empty)[i] = Given[i]
        /\ Append(Given, Empty)[m + 1] = Empty
    <3>1. Empty \in Nat
      BY DEF Empty
    <3> QED
      BY <1>1, <3>1, AppendProperties
  <2> HIDE DEF m
  <2>4. \A i \in 1 .. m + 1 : Given'[i] = Append(Given, Empty)[i]
    <3>1. ASSUME NEW i \in 1 .. m + 1 PROVE Given'[i] = Append(Given, Empty)[i]
      <4>1. CASE i \in 1 .. m
        BY <2>1, <2>3, <4>1
      <4>2. CASE i = m + 1
        <5>1. ~(i <= typed)
          BY <4>2 DEF m
        <5> QED
          BY <2>1, <2>3, <4>2, <5>1
      <4>3. i \in 1 .. m \/ i = m + 1
        BY <2>1
      <4> QED
        BY <4>1, <4>2, <4>3
    <3> QED
      BY <3>1
  <2> QED
    BY <2>2, <2>3, <2>4, SeqEqual
<1> QED
  BY <1>1, <1>2, <1>3

\* A word leaves cin, or the end of the input makes one, and it is queued.
LEMMA StreamReadWord ==
  ASSUME TypeOK, Coupled, ReadWord, Stream = Given
  PROVE  Stream' = Given'
<1> DEFINE front == got \o net
           flat == Flatten(tty)
<1>1. /\ front \in Seq(Nat) /\ queue \in Seq(Nat) /\ cin \in Seq(Nat) /\ flat \in Seq(Nat)
      /\ tty \in Seq(Seq(Nat)) /\ front \o queue \in Seq(Nat)
  BY Streams
<1>2. typed \in Nat /\ empties \in Nat /\ typed' = typed /\ got' = got /\ net' = net
  BY DEF TypeOK, ReadWord, server
<1>3. Stream = ((front \o queue) \o cin) \o flat
  BY DEF Stream
<1>4. Stream' = ((front \o queue') \o cin') \o Flatten(tty')
  BY <1>2 DEF Stream
<1> HIDE DEF front, flat
<1>5. CASE cin # <<>> /\ cin' = Tail(cin) /\ queue' = Append(queue, Head(cin))
           /\ UNCHANGED <<tty, empties>>
  <2>1. Head(cin) \in Nat
    BY <1>1, <1>5, HeadTailProperties
  <2> DEFINE h == Head(cin)
             a == front \o queue
  <2> HIDE DEF h, a
  <2>2. front \o Append(queue, h) = Append(front \o queue, h)
    BY <1>1, <2>1, AppendBehind, SMTT(30) DEF h
  <2>6. a \in Seq(Nat)
    BY <1>1 DEF a
  <2>3. Append(a, Head(cin)) \o Tail(cin) = a \o cin
    BY <1>1, <1>5, <2>6, MoveHead, ZenonT(40)
  <2>5. (front \o queue') \o cin' = (front \o queue) \o cin
    BY <1>5, <2>2, <2>3, Zenon DEF a, h
  <2>4. Given' = Given
    BY <1>2, <1>5 DEF Given
  <2> QED
    BY <1>3, <1>4, <1>5, <2>4, <2>5 DEF flat
<1>6. CASE cin = <<>> /\ tty # <<>> /\ cin' = Head(tty) /\ tty' = Tail(tty)
           /\ UNCHANGED <<queue, empties>>
  <2>1. /\ Head(tty) \in Seq(Nat) /\ Tail(tty) \in Seq(Seq(Nat))
        /\ flat = Head(tty) \o Flatten(Tail(tty))
    BY <1>1, <1>6, FlattenTail DEF flat
  <2>2. Flatten(Tail(tty)) \in Seq(Nat)
    BY <2>1, FlattenType
  <2>3. (front \o queue) \o cin = front \o queue
    BY <1>1, <1>6, ConcatEmptySeq
  <2>4. ((front \o queue) \o Head(tty)) \o Flatten(Tail(tty))
          = (front \o queue) \o (Head(tty) \o Flatten(Tail(tty)))
    <3>1. Associates(front \o queue, Head(tty), Flatten(Tail(tty)))
      BY <1>1, <2>1, <2>2, Assoc, Zenon
    <3> QED
      BY <3>1, Zenon DEF Associates
  <2>5. Given' = Given
    BY <1>2, <1>6 DEF Given
  <2> QED
    BY <1>3, <1>4, <1>6, <2>1, <2>3, <2>4, <2>5
<1>7. CASE cin = <<>> /\ tty = <<>> /\ queue' = Append(queue, Empty)
           /\ empties' = empties + 1 /\ UNCHANGED <<tty, cin>>
  <2>1. flat = <<>>
    BY <1>7, FlattenEmpty DEF flat
  <2>2. Stream = front \o queue
    BY <1>1, <1>3, <1>7, <2>1, ConcatEmptySeq
  <2>3. Empty \in Nat
    BY DEF Empty
  <2>4. Append(queue, Empty) \in Seq(Nat) /\ Append(front \o queue, Empty) \in Seq(Nat)
        /\ front \o queue' = Append(front \o queue, Empty)
    BY <1>1, <1>7, <2>3, AppendBehind, AppendProperties, SMTT(30)
  <2>5. Stream' = Append(front \o queue, Empty)
    BY <1>4, <1>7, <2>1, <2>4, ConcatEmptySeq DEF flat
  <2>6. Given' = Append(Given, Empty)
    BY <1>2, <1>7, GivenGrows
  <2> QED
    BY <2>2, <2>5, <2>6
<1> QED
  BY <1>5, <1>6, <1>7 DEF ReadWord, add_message

\* The other steps of the client and the server move words along the stream.
LEMMA StreamMoves ==
  ASSUME TypeOK, Coupled, ServerReceives \/ writeFds, Stream = Given, peer' # "closed"
  PROVE  Stream' = Given'
<1>1. /\ got \in Seq(Nat) /\ net \in Seq(Nat) /\ queue \in Seq(Nat)
      /\ got \o net \in Seq(Nat)
  BY Streams
<1>2. UNCHANGED <<tty, cin, typed, empties>>
  BY DEF ServerReceives, writeFds, Sent, WouldBlock, Exit, user, client
<1>3. (got \o net \o queue)' = got \o net \o queue
  <2>1. CASE ServerReceives
    <3>1. net # <<>> /\ net' = Tail(net) /\ got' = Append(got, Head(net)) /\ queue' = queue
      BY <2>1 DEF ServerReceives, client
    <3>2. got' \o net' = got \o net
      BY <1>1, <3>1, MoveHead, SMTT(30)
    <3> QED
      BY <3>1, <3>2
  <2>2. CASE writeFds /\ Sent
    <3>1. peer = "up"
      BY <2>2 DEF writeFds, Sent, Coupled, TypeOK
    <3>2. PICK n \in 1 .. Len(queue) :
            /\ queue' = SubSeq(queue, n + 1, Len(queue))
            /\ net' = net \o SubSeq(queue, 1, n)
      BY <2>2, <3>1 DEF Sent
    <3>3. n \in 0 .. Len(queue) /\ got' = got
      BY <2>2 DEF Sent
    <3> DEFINE s == SubSeq(queue, 1, n)
               r == SubSeq(queue, n + 1, Len(queue))
    <3>4. s \in Seq(Nat) /\ r \in Seq(Nat) /\ s \o r = queue
      BY <1>1, <3>3, CutSeq, Zenon
    <3> HIDE DEF s, r
    <3>6. ((got \o net) \o s) \o r = (got \o net) \o (s \o r)
      <4>1. Associates(got \o net, s, r)
        BY <1>1, <3>4, Assoc, Zenon
      <4> QED
        BY <4>1, Zenon DEF Associates
    <3>5. (got \o net) \o s = got \o (net \o s)
      <4>1. Associates(got, net, s)
        BY <1>1, <3>4, Assoc, Zenon
      <4> QED
        BY <4>1, Zenon DEF Associates
    <3> QED
      BY <3>2, <3>3, <3>4, <3>5, <3>6, Zenon DEF s, r
  <2>3. CASE writeFds /\ ~Sent
    BY <2>3 DEF writeFds, WouldBlock, Exit, server
  <2> QED
    BY <2>1, <2>2, <2>3
<1>4. Stream' = Stream
  BY <1>2, <1>3, Zenon DEF Stream
<1>5. Given' = Given
  BY <1>2 DEF Given
<1> QED
  BY <1>4, <1>5

LEMMA StreamStep ==
  ASSUME Inv, [Next]_vars, peer' # "closed"
  PROVE  Stream' = Given'
<1>1. TypeOK /\ Coupled /\ Stream = Given
  <2>1. peer # "closed"
    BY DEF Next, Type, EndInput, Answer, ServerReceives, ServerSends, ServerCloses, Client,
           Select, ReadWord, readServer, writeFds, Sent, WouldBlock, Exit, vars, user, server
  <2> QED
    BY <2>1 DEF Inv
<1>2. CASE Type
  <2>1. PICK n \in LineSizes :
          tty' = Append(tty, [i \in 1 .. n |-> typed + i]) /\ typed' = typed + n
    BY <1>2 DEF Type
  <2>2. UNCHANGED <<got, net, queue, cin, empties>> /\ ~eof
    BY <1>2 DEF Type, server, client
  <2>3. typed \in Nat /\ empties = 0 /\ n \in Nat
    BY <1>1, <2>2, ClientAssumption DEF TypeOK, Coupled
  <2> DEFINE line == [i \in 1 .. n |-> typed + i]
             rest == got \o net \o queue \o cin
  <2>4. line \in Seq(Nat)
    <3>1. line \in [1 .. n -> Nat]
      BY <2>3
    <3> QED
      BY <2>3, <3>1, SeqOfNats, Zenon
  <2>5. Given' = Given \o line
    BY <2>1, <2>2, <2>3, GivenGrows
  <2>6. tty \in Seq(Seq(Nat)) /\ Flatten(tty) \in Seq(Nat) /\ rest \in Seq(Nat)
    BY <1>1, Streams
  <2>7. Stream = rest \o Flatten(tty) /\ Stream' = rest \o Flatten(tty')
    BY <2>2 DEF Stream
  <2> HIDE DEF line, rest
  <2>8. Flatten(tty') = Flatten(tty) \o line
    BY <2>1, <2>4, <2>6, FlattenAppend DEF line
  <2>9. (rest \o Flatten(tty)) \o line = rest \o (Flatten(tty) \o line)
    <3>1. Associates(rest, Flatten(tty), line)
      BY <2>4, <2>6, Assoc, Zenon
    <3> QED
      BY <3>1, Zenon DEF Associates
  <2> QED
    BY <1>1, <2>5, <2>7, <2>8, <2>9, Zenon
<1>3. CASE ReadWord
  BY <1>1, <1>3, StreamReadWord
<1>4. CASE ServerReceives \/ writeFds
  BY <1>1, <1>4, StreamMoves
<1>5. CASE EndInput \/ Answer \/ ServerSends \/ ServerCloses \/ Select \/ readServer \/ UNCHANGED vars
  <2>1. UNCHANGED <<got, net, queue, cin, tty, typed, empties>>
    BY <1>5 DEF EndInput, Answer, ServerSends, ServerCloses, Select, readServer, Exit, vars,
                user, server, client
  <2> QED
    BY <1>1, <2>1 DEF Stream, Given
<1> QED
  BY <1>2, <1>3, <1>4, <1>5 DEF Next, Client

----------------------------------------------------------------------------
(* The theorems *)

LEMMA Invariant == Spec => []Inv
<1>1. Inv /\ [Next]_vars => Inv'
  BY TypeStep, CoupledStep, StreamStep DEF Inv
<1> QED
  BY InitInv, <1>1, PTL DEF Spec

\* Every variable keeps its type; the kernel's buffer keeps its limit.
THEOREM TypeCorrect == Spec => []TypeOK
<1>1. Inv => TypeOK
  BY DEF Inv
<1> QED
  BY <1>1, Invariant, PTL

\* The words reach the server in the order they were typed, each once, with the
\* empty messages of the end of input behind them.
THEOREM Order == Spec => []InOrder
<1>1. Inv => InOrder
  <2> SUFFICES ASSUME Inv PROVE InOrder
    OBVIOUS
  <2>1. typed \in Nat /\ empties \in Nat
    BY DEF Inv, TypeOK
  <2> QED
    BY <2>1, GivenIs DEF Inv, InOrder, Stream
<1> QED
  BY <1>1, Invariant, PTL

\* Only the server ends the client.
THEOREM Ending == Spec => []ExitOnlyIfClosed
<1>1. Inv => ExitOnlyIfClosed
  BY DEF Inv
<1> QED
  BY <1>1, Invariant, PTL

\* When select is called, needwrite says whether a word waits to be sent.
THEOREM Needwrite == Spec => []NeedwriteIsRight
<1>1. Inv => NeedwriteIsRight
  BY DEF Inv, Coupled, NeedwriteIsRight, TypeOK
<1> QED
  BY <1>1, Invariant, PTL
=============================================================================
