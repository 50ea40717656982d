-------------------------- MODULE ChatServerProofs --------------------------
(***************************************************************************)
(* Proofs about ChatServer: what every client hears and in which order,    *)
(* that nothing said is lost, and what may end the server.                 *)
(***************************************************************************)
EXTENDS ChatServer, SequenceLemmas, FiniteSetTheorems

----------------------------------------------------------------------------
(* The inductive invariant *)

\* The server's socket for c is not closed.
Alive(c) == conn[c] \in {"up", "left"}

\* No two open sockets have one descriptor.
Distinct(fds) ==
  \A c, d \in Clients : (Alive(c) /\ Alive(d) /\ fds[c] = fds[d] /\ fds[c] # 0) => c = d

\* Who has a descriptor, who waits for one, and what is left on one.
Descriptors ==
  /\ Distinct(fdOf)
  /\ \A c \in Clients : (conn[c] = "off" => fdOf[c] = 0) /\ (conn[c] = "gone" => fdOf[c] # 0)
  /\ \A i \in 1 .. Len(backlog) : fdOf[backlog[i]] = 0 /\ Alive(backlog[i])
  /\ \A i, j \in 1 .. Len(backlog) : backlog[i] = backlog[j] => i = j
  /\ \A fd \in Fds : fd \in entries <=> \E c \in Clients : fdOf[c] = fd
  /\ \A fd \in Fds : queue[fd] # <<>> => fd \in entries
  /\ reading # 0 => Holder(fdOf, reading) # {}

\* A Message in the middle of a message was left so by a client that left.
Torn ==
  \A fd \in Fds : receiver[fd] = "torn" =>
    \E c \in Clients : fdOf[c] = fd /\ conn[c] \in {"left", "gone"}

\* What a client is to hear, and has heard.
Stream(c) == <<Welcome>> \o SubSeq(log, joined[c] + 1, Len(log))
StreamOf(c) ==
  /\ joined[c] <= Len(log) /\ heard[c] <= Len(Stream(c))
  /\ net[c] \o queue[fdOf[c]] = SubSeq(Stream(c), heard[c] + 1, Len(Stream(c)))
Streams ==
  /\ \A c \in Clients : FirstOwner(c) => StreamOf(c)
  /\ \A c \in Clients : fdOf[c] = 0 => net[c] = <<>> /\ heard[c] = 0

\* What was said and not received: the last messages, and behind them at most
\* the piece that a client leaves behind.
InboxOf(c) ==
  /\ conn[c] = "off" => inbox[c] = <<>> /\ said[c] = 0
  /\ conn[c] = "up" =>
       /\ Len(inbox[c]) <= said[c]
       /\ \A k \in 1 .. Len(inbox[c]) : inbox[c][k] = Said(c, (said[c] - Len(inbox[c])) + k)
       /\ fdOf[c] = 0 => Len(inbox[c]) = said[c]
  /\ \A k \in 1 .. Len(inbox[c]) : inbox[c][k] = Part \/ \E n \in Nat \ {0} : inbox[c][k] = Said(c, n)
Inboxes == \A c \in Clients : InboxOf(c)

Places(c, n) == {i \in 1 .. Len(log) : log[i] = Said(c, n)}

\* Which messages were broadcast, and in which order.
LoggedOf(c) ==
  LET received == said[c] - Len(inbox[c])
  IN  /\ \A n \in Nat \ {0} : n <= received <=> Places(c, n) # {}
      /\ \A n, m \in Nat \ {0} : \A i \in Places(c, n), j \in Places(c, m) : i < j => n < m
Logged ==
  /\ \A c \in Clients : FirstOwner(c) => LoggedOf(c)
  /\ \A c \in Clients : fdOf[c] = 0 => \A n \in Nat \ {0} : Places(c, n) = {}

Inv == TypeOK /\ ExitOnlyAfterALeave /\ Descriptors /\ Torn /\ Streams /\ Inboxes /\ Logged

----------------------------------------------------------------------------
(* Sequences *)

\* A piece of a sequence behind a prefix of it.
LEMMA CutUnits ==
  ASSUME NEW s \in Seq(Units), NEW n \in 0 .. Len(s)
  PROVE  /\ SubSeq(s, 1, n) \in Seq(Units) /\ Len(SubSeq(s, 1, n)) = n
         /\ SubSeq(s, n + 1, Len(s)) \in Seq(Units)
         /\ Len(SubSeq(s, n + 1, Len(s))) = Len(s) - n
         /\ SubSeq(s, 1, n) \o SubSeq(s, n + 1, Len(s)) = s
BY CutSeq, Zenon

\* Its elements.
LEMMA CutElements ==
  ASSUME NEW s \in Seq(Units), NEW n \in 0 .. Len(s)
  PROVE  /\ \A k \in 1 .. n : SubSeq(s, 1, n)[k] = s[k]
         /\ \A k \in 1 .. Len(s) - n : SubSeq(s, n + 1, Len(s))[k] = s[n + k]
<1>1. Len(s) \in Nat /\ \A k \in 1 .. Len(s) : s[k] \in Units
  BY LenProperties
<1>2. \A k \in 1 .. n - 1 + 1 : SubSeq(s, 1, n)[k] = s[1 + k - 1]
  <2>1. 1 \in Int /\ n \in Int /\ \A k \in 1 .. n : s[k] \in Units
    BY <1>1
  <2> QED
    BY <2>1, SubSeqProperties
<1>3. \A k \in 1 .. Len(s) - (n + 1) + 1 : SubSeq(s, n + 1, Len(s))[k] = s[(n + 1) + k - 1]
  <2>1. n + 1 \in Int /\ Len(s) \in Int /\ \A k \in n + 1 .. Len(s) : s[k] \in Units
    BY <1>1
  <2> QED
    BY <2>1, SubSeqProperties
<1>4. ASSUME NEW k \in 1 .. n PROVE SubSeq(s, 1, n)[k] = s[k]
  <2>1. k \in 1 .. n - 1 + 1 /\ 1 + k - 1 = k
    BY <1>4
  <2> QED
    BY <1>2, <2>1
<1>5. ASSUME NEW k \in 1 .. Len(s) - n PROVE SubSeq(s, n + 1, Len(s))[k] = s[n + k]
  <2>1. k \in 1 .. Len(s) - (n + 1) + 1 /\ (n + 1) + k - 1 = n + k
    BY <1>1, <1>5
  <2> QED
    BY <1>3, <2>1
<1> QED
  BY <1>4, <1>5

\* What is joined to a sequence is joined to what is left behind a prefix.
LEMMA CutBehind ==
  ASSUME NEW a \in Seq(Units), NEW b \in Seq(Units), NEW n \in 0 .. Len(a)
  PROVE  SubSeq(a \o b, n + 1, Len(a \o b)) = SubSeq(a, n + 1, Len(a)) \o b
<1> DEFINE w == a \o b
           front == SubSeq(a, 1, n)
           back == SubSeq(a, n + 1, Len(a))
           rest == SubSeq(w, n + 1, Len(w))
<1>1. w \in Seq(Units) /\ Len(w) = Len(a) + Len(b) /\ Len(a) \in Nat /\ Len(b) \in Nat
  BY ConcatProperties, LenProperties
<1>2. n \in 0 .. Len(w)
  BY <1>1
<1>3. front \in Seq(Units) /\ back \in Seq(Units) /\ front \o back = a
  BY CutUnits
<1>4. rest \in Seq(Units) /\ SubSeq(w, 1, n) \o rest = w
  <2> HIDE DEF w
  <2> QED
    BY <1>1, <1>2, CutUnits
<1>5. SubSeq(w, 1, n) = front
  <2>1. CASE n = 0
    <3>1. SubSeq(w, 1, 0) = <<>> /\ SubSeq(a, 1, 0) = <<>>
      BY SubSeqEmpty
    <3> QED
      BY <2>1, <3>1
  <2>2. CASE n # 0
    <3>1. 1 \in 1 .. Len(a) /\ n \in 1 .. Len(a)
      BY <1>1, <2>2
    <3> QED
      BY <3>1, SubSeqOfConcat1
  <2> QED
    BY <2>1, <2>2
<1> HIDE DEF front, back, rest
<1>6. front \o rest = front \o (back \o b) /\ back \o b \in Seq(Units)
  <2>1. (front \o back) \o b = front \o (back \o b)
    <3>1. Associates(front, back, b)
      BY <1>3, Assoc, Zenon
    <3> QED
      BY <3>1, Zenon DEF Associates
  <2> QED
    BY <1>3, <1>4, <1>5, <2>1, ConcatProperties
<1>7. rest = back \o b
  BY <1>3, <1>4, <1>6, ConcatSimplifications, Zenon
<1> QED
  BY <1>7 DEF rest, back, w

\* What is left behind one more element.
LEMMA CutNext ==
  ASSUME NEW s \in Seq(Units), NEW n \in 0 .. Len(s), NEW a \in Seq(Units), NEW b \in Seq(Units),
         a # <<>>, a \o b = SubSeq(s, n + 1, Len(s))
  PROVE  /\ n + 1 <= Len(s)
         /\ Tail(a) \o b = SubSeq(s, (n + 1) + 1, Len(s))
<1>1. Len(s) \in Nat /\ Len(a) \in Nat \ {0} /\ Len(b) \in Nat
  BY LenProperties, EmptySeq
<1>2. a \o b \in Seq(Units) /\ Len(a \o b) = Len(a) + Len(b)
  BY ConcatProperties
<1>3. Len(a \o b) = Len(s) - n
  BY CutUnits
<1>4. n + 1 <= Len(s)
  BY <1>1, <1>2, <1>3
<1>5. Tail(a) \o b = Tail(a \o b)
  <2>1. a \o b # <<>> /\ 1 \in 0 .. Len(a)
    <3>1. a \o b # <<>>
      BY ConcatSimplifications, Zenon
    <3> QED
      BY <1>1, <3>1
  <2>2. Tail(a) = SubSeq(a, 2, Len(a)) /\ Tail(a \o b) = SubSeq(a \o b, 2, Len(a \o b))
    BY <1>2, <2>1, TailIsSubSeq
  <2>3. SubSeq(a \o b, 1 + 1, Len(a \o b)) = SubSeq(a, 1 + 1, Len(a)) \o b
    BY <2>1, CutBehind
  <2>4. 1 + 1 = 2
    OBVIOUS
  <2> QED
    BY <2>2, <2>3, <2>4, Zenon
<1>6. Tail(SubSeq(s, n + 1, Len(s))) = SubSeq(s, (n + 1) + 1, Len(s))
  <2>1. n + 1 \in 1 .. Len(s) /\ Len(s) \in n + 1 .. Len(s)
    BY <1>1, <1>4
  <2> QED
    BY <2>1, HeadTailOfSubSeq
<1> QED
  BY <1>4, <1>5, <1>6

----------------------------------------------------------------------------
(* Sending *)

\* What writeMessages does, when it does not end the process: what a client
\* that stays was sent and what waits for it make up what waited before, and no
\* buffer of the kernel gets more than its limit.
LEMMA WriteMessagesIs ==
  ASSUME TypeOK, NEW fds \in [Clients -> Fds \cup {0}], NEW q \in [Fds -> Seq(Units)],
         NEW unread, NEW fate, NEW events \in [Fds -> SUBSET {"in", "out"}],
         Distinct(fds), ~WriteFails(fds, q, fate),
         writeMessages(fds, q, unread, fate, events)
  PROVE  /\ queue' \in [Fds -> Seq(Units)] /\ net' \in [Clients -> Seq(Units)]
         /\ \A c \in Clients : Len(net'[c]) <= Limit
         /\ need_write' \in [Fds -> BOOLEAN] /\ ready' \in [Fds -> SUBSET {"in", "out"}]
         /\ \A c \in Clients : IF conn[c] = "up" /\ fds[c] # 0
                               THEN net'[c] \o queue'[fds[c]] = net[c] \o q[fds[c]]
                               ELSE net'[c] = net[c]
         /\ \A fd \in Fds : q[fd] = <<>> => queue'[fd] = <<>>
<1> DEFINE n == [fd \in Fds |-> IF q[fd] = <<>> THEN 0 ELSE Sendable(fds, fd, q, fate)]
<1>0. 0 \notin Fds /\ Limit \in Nat
  BY ServerAssumption
<1>1. /\ queue' = [fd \in Fds |-> SubSeq(q[fd], n[fd] + 1, Len(q[fd]))]
      /\ net' = [c \in Clients |->
                   IF conn[c] = "up" /\ fds[c] # 0
                   THEN net[c] \o SubSeq(q[fds[c]], 1, n[fds[c]]) ELSE net[c]]
      /\ need_write' = [fd \in Fds |-> n[fd] < Len(q[fd])]
  BY DEF writeMessages
<1>2. ready' \in [Fds -> SUBSET {"in", "out"}]
  BY DEF writeMessages
<1>3. \A c \in Clients : net[c] \in Seq(Units) /\ Len(net[c]) \in Nat /\ Len(net[c]) <= Limit
  BY LenProperties DEF TypeOK
<1>4. \A fd \in Fds : q[fd] \in Seq(Units) /\ Len(q[fd]) \in Nat
  BY LenProperties
<1>5. ASSUME NEW c \in Clients, conn[c] = "up", fds[c] # 0
      PROVE  Holder(fds, fds[c]) = {c} /\ fds[c] \in Fds /\ fds[c] \notin Abandoned(fds)
  <2>1. fds[c] \in Fds
    BY <1>5
  <2>2. Holder(fds, fds[c]) = {c}
    BY <1>5 DEF Distinct, Alive, Holder
  <2> QED
    BY <1>5, <2>1, <2>2 DEF Abandoned
<1>6. ASSUME NEW c \in Clients, conn[c] = "up", fds[c] # 0
      PROVE  n[fds[c]] \in 0 .. Len(q[fds[c]]) /\ n[fds[c]] <= Limit - Len(net[c])
  <2>1. /\ Holder(fds, fds[c]) = {c} /\ fds[c] \in Fds /\ fds[c] \notin Abandoned(fds)
        /\ Len(q[fds[c]]) \in Nat /\ Len(net[c]) \in Nat /\ Len(net[c]) <= Limit
    BY <1>3, <1>4, <1>5, <1>6
  <2> DEFINE who == CHOOSE d \in Holder(fds, fds[c]) : TRUE
  <2>2. who \in Holder(fds, fds[c]) /\ who = c
    BY <2>1
  <2>3. Sendable(fds, fds[c], q, fate) =
          IF Len(q[fds[c]]) < Limit - Len(net[c]) THEN Len(q[fds[c]]) ELSE Limit - Len(net[c])
    <3>1. Sendable(fds, fds[c], q, fate) =
            IF Len(q[fds[c]]) < Limit - Len(net[who]) THEN Len(q[fds[c]]) ELSE Limit - Len(net[who])
      BY <2>1 DEF Sendable
    <3> HIDE DEF who
    <3> QED
      BY <2>2, <3>1
  <2>4. n[fds[c]] = IF q[fds[c]] = <<>> THEN 0 ELSE Sendable(fds, fds[c], q, fate)
    BY <2>1
  <2> HIDE DEF n
  <2> DEFINE l == Len(q[fds[c]])
             k == Len(net[c])
             m == n[fds[c]]
  <2>5. m = 0 \/ m = IF l < Limit - k THEN l ELSE Limit - k
    BY <2>3, <2>4, Zenon
  <2>6. l \in Nat /\ k \in Nat /\ k <= Limit
    BY <2>1
  <2> HIDE DEF l, k, m
  <2>7. m \in 0 .. l /\ m <= Limit - k
    BY <1>0, <2>5, <2>6
  <2> QED
    BY <2>7 DEF l, k, m
<1>7. ASSUME NEW fd \in Fds PROVE n[fd] \in 0 .. Len(q[fd])
  <2>1. CASE q[fd] = <<>>
    BY <1>4, <2>1
  <2>2. CASE q[fd] # <<>> /\ fd \in Abandoned(fds)
    BY <1>4, <2>2 DEF Sendable
  <2>3. CASE q[fd] # <<>> /\ fd \notin Abandoned(fds)
    <3>1. Holder(fds, fd) # {}
      BY <2>3 DEF WriteFails
    <3>2. PICK c \in Holder(fds, fd) : TRUE
      BY <3>1
    <3>3. conn[c] = "up" /\ c \in Clients /\ fds[c] = fd
      BY <2>3, <3>2 DEF Abandoned, Holder
    <3> QED
      BY <1>0, <1>6, <3>3
  <2> QED
    BY <2>1, <2>2, <2>3
<1> HIDE DEF n
<1>8. ASSUME NEW fd \in Fds
      PROVE  /\ SubSeq(q[fd], n[fd] + 1, Len(q[fd])) \in Seq(Units)
             /\ SubSeq(q[fd], 1, n[fd]) \in Seq(Units) /\ Len(SubSeq(q[fd], 1, n[fd])) = n[fd]
             /\ SubSeq(q[fd], 1, n[fd]) \o SubSeq(q[fd], n[fd] + 1, Len(q[fd])) = q[fd]
  BY <1>4, <1>7, CutUnits
<1>9. queue' \in [Fds -> Seq(Units)] /\ need_write' \in [Fds -> BOOLEAN]
  BY <1>1, <1>8
<1>10. ASSUME NEW c \in Clients, conn[c] = "up", fds[c] # 0
       PROVE  /\ net'[c] \in Seq(Units) /\ Len(net'[c]) <= Limit
              /\ net'[c] \o queue'[fds[c]] = net[c] \o q[fds[c]]
  <2> DEFINE a == net[c]
             b == SubSeq(q[fds[c]], 1, n[fds[c]])
             d == SubSeq(q[fds[c]], n[fds[c]] + 1, Len(q[fds[c]]))
  <2>1. net'[c] = a \o b /\ queue'[fds[c]] = d
    BY <1>1, <1>5, <1>10
  <2>2. /\ a \in Seq(Units) /\ b \in Seq(Units) /\ d \in Seq(Units) /\ b \o d = q[fds[c]]
        /\ Len(b) = n[fds[c]]
    BY <1>3, <1>5, <1>8, <1>10
  <2>3. n[fds[c]] \in Nat /\ n[fds[c]] <= Limit - Len(a) /\ Len(a) \in Nat
    BY <1>3, <1>4, <1>5, <1>6, <1>10
  <2> HIDE DEF a, b, d
  <2>4. a \o b \in Seq(Units) /\ Len(a \o b) = Len(a) + Len(b)
    BY <2>2, ConcatProperties
  <2>5. (a \o b) \o d = a \o (b \o d)
    <3>1. Associates(a, b, d)
      BY <2>2, Assoc, Zenon
    <3> QED
      BY <3>1, Zenon DEF Associates
  <2>6. Len(a \o b) <= Limit
    BY <1>0, <2>2, <2>3, <2>4
  <2> QED
    BY <2>1, <2>2, <2>4, <2>5, <2>6 DEF a
<1>11. ASSUME NEW c \in Clients, ~(conn[c] = "up" /\ fds[c] # 0) PROVE net'[c] = net[c]
  BY <1>1, <1>11
<1>12. net' \in [Clients -> Seq(Units)] /\ \A c \in Clients : Len(net'[c]) <= Limit
  <2>1. \A c \in Clients : net'[c] \in Seq(Units) /\ Len(net'[c]) <= Limit
    BY <1>3, <1>10, <1>11
  <2>2. net' = [c \in Clients |-> net'[c]]
    BY <1>1
  <2> QED
    BY <2>1, <2>2
<1>13. ASSUME NEW fd \in Fds, q[fd] = <<>> PROVE queue'[fd] = <<>>
  <2>1. n[fd] = 0 /\ Len(<<>>) = 0
    BY <1>13, EmptySeq DEF n
  <2>2. queue'[fd] = SubSeq(<<>>, 0 + 1, 0)
    BY <1>1, <1>13, <2>1
  <2> QED
    BY <2>2
<1> QED
  BY <1>2, <1>9, <1>10, <1>11, <1>12, <1>13
----------------------------------------------------------------------------
(* Descriptors *)

\* Notify keeps the type of the events.
LEMMA NotifyIs ==
  ASSUME TypeOK, NEW c \in Clients, NEW e \in {"in", "out"}, Notify(c, e)
  PROVE  ready' \in [Fds -> SUBSET {"in", "out"}]
BY DEF TypeOK, Notify

\* Each client holds at most one descriptor and one that waits for accept holds
\* none: a descriptor is left for it.
LEMMA NewFdIs ==
  ASSUME TypeOK, Descriptors, backlog # <<>>
  PROVE  NewFd \in Fds /\ Holder(fdOf, NewFd) = {}
<1> DEFINE unused == {fd \in Fds : Holder(fdOf, fd) = {}}
           c == Head(backlog)
<1>1. Fds \subseteq Nat /\ IsFiniteSet(Fds) /\ IsFiniteSet(Clients) /\ 0 \notin Fds
      /\ Cardinality(Clients) <= Cardinality(Fds)
  BY ServerAssumption
<1>2. c \in Clients /\ fdOf[c] = 0
  <2>1. c = backlog[1] /\ c \in Clients /\ 1 \in 1 .. Len(backlog)
    BY HeadTailProperties, EmptySeq, LenProperties DEF TypeOK
  <2> QED
    BY <2>1 DEF Descriptors
<1>3. unused # {}
  <2> SUFFICES ASSUME unused = {} PROVE FALSE
    OBVIOUS
  <2> DEFINE f == [fd \in Fds |-> CHOOSE d \in Clients : d \in Holder(fdOf, fd)]
             others == Clients \ {c}
  <2>1. ASSUME NEW fd \in Fds PROVE f[fd] \in others /\ fdOf[f[fd]] = fd
    <3>1. \E d \in Clients : d \in Holder(fdOf, fd)
      BY DEF Holder
    <3>2. f[fd] \in Clients /\ f[fd] \in Holder(fdOf, fd)
      BY <3>1
    <3> HIDE DEF f
    <3> QED
      BY <1>1, <1>2, <3>2 DEF Holder
  <2>2. f \in [Fds -> others]
    BY <2>1
  <2>3. IsFiniteSet(others) /\ Cardinality(others) = Cardinality(Clients) - 1
    BY <1>1, <1>2, FS_RemoveElement
  <2>4. Cardinality(Clients) \in Nat /\ Cardinality(Fds) \in Nat
    BY <1>1, FS_CardinalityType
  <2>5. Cardinality(others) < Cardinality(Fds)
    BY <1>1, <2>3, <2>4
  <2> HIDE DEF f, others
  <2>6. IsFiniteSet(Fds) /\ IsFiniteSet(others)
    BY <1>1, <2>3
  <2>7. \E x, y \in Fds : x # y /\ f[x] = f[y]
    BY ONLY <2>2, <2>5, <2>6, FS_PigeonHole
  <2> QED
    BY <2>1, <2>7
<1>4. \E fd \in unused : \A other \in unused : fd <= other
  <2>1. unused \in SUBSET Nat
    BY <1>1
  <2> HIDE DEF unused
  <2> QED
    BY <1>3, <2>1, LeastNatural
<1>5. NewFd = CHOOSE fd \in unused : \A other \in unused : fd <= other
  BY DEF NewFd
<1>6. NewFd \in unused
  <2> HIDE DEF unused
  <2> QED
    BY <1>4, <1>5
<1> QED
  BY <1>6

\* writeMessages ends the process only when a client has left: what waits for a
\* descriptor was put there when a client had it.
LEMMA WriteFailsIs ==
  ASSUME NEW fds, NEW q, NEW fate, WriteFails(fds, q, fate), TypeOK,
         \A fd \in Fds : q[fd] # <<>> => \E c \in Clients : fds[c] = fd /\ conn[c] # "off"
  PROVE  \E c \in Clients : conn[c] \in {"left", "gone"}
<1>1. PICK fd \in Fds : q[fd] # <<>> /\ (Holder(fds, fd) = {} \/ fd \in Abandoned(fds))
  BY DEF WriteFails
<1>2. CASE Holder(fds, fd) = {}
  BY <1>1, <1>2 DEF Holder, TypeOK
<1>3. CASE fd \in Abandoned(fds)
  BY <1>3 DEF Abandoned, Holder
<1> QED
  BY <1>1, <1>2, <1>3

----------------------------------------------------------------------------
(* The clients' steps *)

\* c connects: it waits for accept, and has sent and heard nothing.
LEMMA ConnectKeeps ==
  ASSUME Inv, NEW c \in Clients, Connect(c)
  PROVE  Inv'
<1> USE DEF Inv
<1>0. 0 \notin Fds
  BY ServerAssumption
<1>1. /\ conn[c] = "off" /\ conn' = [conn EXCEPT ![c] = "up"] /\ backlog' = Append(backlog, c)
      /\ masterReady' = TRUE
  BY DEF Connect
<1>2. /\ fdOf' = fdOf /\ inbox' = inbox /\ net' = net /\ ready' = ready
      /\ entries' = entries /\ queue' = queue /\ need_write' = need_write
      /\ receiver' = receiver /\ reading' = reading /\ exited' = exited
      /\ said' = said /\ log' = log /\ joined' = joined /\ heard' = heard
  BY DEF Connect, server, history
<1>3. /\ conn \in [Clients -> {"off", "up", "left", "gone"}] /\ backlog \in Seq(Clients)
      /\ Len(backlog) \in Nat
  BY LenProperties DEF TypeOK
<1>4. /\ backlog' \in Seq(Clients) /\ Len(backlog') = Len(backlog) + 1
      /\ \A i \in 1 .. Len(backlog') :
           backlog'[i] = IF i = Len(backlog) + 1 THEN c ELSE backlog[i]
  BY <1>1, <1>3, AppendProperties
<1>5. /\ conn'[c] = "up" /\ \A d \in Clients \ {c} : conn'[d] = conn[d]
      /\ conn' \in [Clients -> {"off", "up", "left", "gone"}]
  BY <1>1, <1>3
<1>6. fdOf[c] = 0 /\ inbox[c] = <<>> /\ said[c] = 0
  BY <1>1 DEF Descriptors, Inboxes, InboxOf
<1>7. TypeOK'
  BY <1>1, <1>2, <1>4, <1>5 DEF TypeOK
<1>8. ExitOnlyAfterALeave'
  BY <1>1, <1>2, <1>5 DEF ExitOnlyAfterALeave
<1>9. Descriptors'
  <2>1. Distinct(fdOf)'
    BY <1>2, <1>5, <1>6 DEF Descriptors, Distinct, Alive
  <2>2. \A d \in Clients : (conn'[d] = "off" => fdOf'[d] = 0) /\ (conn'[d] = "gone" => fdOf'[d] # 0)
    BY <1>2, <1>5 DEF Descriptors
  <2>3. \A i \in 1 .. Len(backlog) : /\ backlog[i] # c /\ backlog[i] \in Clients
                                     /\ fdOf[backlog[i]] = 0 /\ Alive(backlog[i])
    BY <1>1, <1>3 DEF Descriptors, Alive
  <2>4. \A i \in 1 .. Len(backlog') : /\ fdOf'[backlog'[i]] = 0
                                      /\ conn'[backlog'[i]] \in {"up", "left"}
    BY <1>2, <1>3, <1>4, <1>5, <1>6, <2>3 DEF Alive
  <2>5. \A i, j \in 1 .. Len(backlog') : backlog'[i] = backlog'[j] => i = j
    BY <1>3, <1>4, <2>3 DEF Descriptors
  <2>6. reading' # 0 => Holder(fdOf, reading)' # {}
    BY <1>2, <1>5 DEF Descriptors, Holder
  <2> QED
    BY <1>2, <2>1, <2>2, <2>4, <2>5, <2>6 DEF Descriptors, Alive
<1>10. Torn'
  BY <1>1, <1>2, <1>5 DEF Torn
<1>11. \A d \in Clients : FirstOwner(d)' => FirstOwner(d)
  BY <1>2, <1>5, <1>6 DEF FirstOwner
<1>12. Streams'
  BY <1>2, <1>11 DEF Streams, StreamOf, Stream
<1>13. Inboxes'
  <2>1. Len(<<>>) = 0
    BY EmptySeq
  <2> QED
    BY <1>2, <1>5, <1>6, <2>1 DEF Inboxes, InboxOf
<1>14. Logged'
  BY <1>2, <1>11, SMTT(30) DEF Logged, LoggedOf, Places
<1> QED
  BY <1>7, <1>8, <1>9, <1>10, <1>12, <1>13, <1>14

\* c says something.
LEMMA SayKeeps ==
  ASSUME Inv, NEW c \in Clients, Say(c)
  PROVE  Inv'
<1> USE DEF Inv
<1> DEFINE new == Said(c, said[c] + 1)
<1>1. /\ conn[c] = "up" /\ said' = [said EXCEPT ![c] = @ + 1]
      /\ inbox' = [inbox EXCEPT ![c] = Append(@, new)]
      /\ ready' \in [Fds -> SUBSET {"in", "out"}]
  BY NotifyIs DEF Say
<1>2. /\ conn' = conn /\ fdOf' = fdOf /\ backlog' = backlog /\ net' = net
      /\ masterReady' = masterReady /\ entries' = entries /\ queue' = queue
      /\ need_write' = need_write /\ receiver' = receiver /\ reading' = reading
      /\ exited' = exited /\ log' = log /\ joined' = joined /\ heard' = heard
  BY DEF Say, server
<1>3. /\ said \in [Clients -> Nat] /\ inbox \in [Clients -> Seq(Units)]
      /\ inbox[c] \in Seq(Units) /\ Len(inbox[c]) \in Nat
  BY LenProperties DEF TypeOK
<1>4. /\ said'[c] = said[c] + 1 /\ \A d \in Clients \ {c} : said'[d] = said[d]
      /\ said' \in [Clients -> Nat]
  BY <1>1, <1>3
<1>5. new \in Units /\ new = Said(c, said[c] + 1)
  BY <1>3 DEF Units, Said
<1> HIDE DEF new
<1>6. /\ inbox'[c] \in Seq(Units) /\ Len(inbox'[c]) = Len(inbox[c]) + 1
      /\ \A k \in 1 .. Len(inbox[c]) + 1 :
           inbox'[c][k] = IF k = Len(inbox[c]) + 1 THEN new ELSE inbox[c][k]
  <2>1. inbox'[c] = Append(inbox[c], new)
    BY <1>1, <1>3
  <2> QED
    BY <1>3, <1>5, <2>1, AppendProperties
<1>7. \A d \in Clients \ {c} : inbox'[d] = inbox[d]
  BY <1>1, <1>3
<1>8. inbox' \in [Clients -> Seq(Units)]
  BY <1>1, <1>3, <1>6, <1>7
<1>9. TypeOK'
  BY <1>1, <1>2, <1>4, <1>8 DEF TypeOK
<1>10. ExitOnlyAfterALeave' /\ Descriptors' /\ Torn' /\ Streams'
  <2>1. ExitOnlyAfterALeave' /\ Descriptors' /\ Torn'
    BY <1>2 DEF ExitOnlyAfterALeave, Descriptors, Distinct, Alive, Holder, Torn
  <2>2. Streams'
    BY <1>2, Zenon DEF Streams, FirstOwner, StreamOf, Stream
  <2> QED
    BY <2>1, <2>2
<1>11. InboxOf(c)'
  <2>1. /\ Len(inbox[c]) <= said[c]
        /\ \A k \in 1 .. Len(inbox[c]) : inbox[c][k] = Said(c, (said[c] - Len(inbox[c])) + k)
        /\ fdOf[c] = 0 => Len(inbox[c]) = said[c]
        /\ \A k \in 1 .. Len(inbox[c]) : inbox[c][k] = Part \/ \E n \in Nat \ {0} : inbox[c][k] = Said(c, n)
    BY <1>1 DEF Inboxes, InboxOf
  <2>2. Len(inbox'[c]) <= said'[c] /\ (fdOf'[c] = 0 => Len(inbox'[c]) = said'[c])
    BY <1>2, <1>3, <1>4, <1>6, <2>1
  <2>3. ASSUME NEW k \in 1 .. Len(inbox'[c])
        PROVE  /\ inbox'[c][k] = Said(c, (said'[c] - Len(inbox'[c])) + k)
               /\ inbox'[c][k] = Part \/ \E n \in Nat \ {0} : inbox'[c][k] = Said(c, n)
    <3>1. CASE k = Len(inbox[c]) + 1
      <4>1. said[c] \in Nat /\ Len(inbox'[c]) = k /\ k \in Nat /\ k \in 1 .. Len(inbox[c]) + 1
        BY <1>3, <1>6, <3>1
      <4>2. (said'[c] - Len(inbox'[c])) + k = said[c] + 1 /\ said[c] + 1 \in Nat \ {0}
        BY <1>4, <4>1
      <4>3. inbox'[c][k] = new
        BY <1>6, <3>1, <4>1
      <4> QED
        BY <1>5, <4>2, <4>3
    <3>2. CASE k # Len(inbox[c]) + 1
      <4>1. /\ k \in 1 .. Len(inbox[c])
            /\ (said'[c] - Len(inbox'[c])) + k = (said[c] - Len(inbox[c])) + k
            /\ inbox'[c][k] = inbox[c][k]
        BY <1>3, <1>4, <1>6, <2>3, <3>2
      <4> QED
        BY <2>1, <4>1
    <3> QED
      BY <3>1, <3>2
  <2> QED
    BY <1>1, <1>2, <2>2, <2>3 DEF InboxOf
<1>12. Inboxes'
  <2>1. ASSUME NEW d \in Clients \ {c} PROVE InboxOf(d)'
    BY <1>2, <1>4, <1>7, SMTT(30) DEF Inboxes, InboxOf
  <2> QED
    BY <1>11, <2>1 DEF Inboxes
<1>13. Logged'
  <2>1. \A d \in Clients : said'[d] - Len(inbox'[d]) = said[d] - Len(inbox[d])
    BY <1>3, <1>4, <1>6, <1>7
  <2> QED
    BY <1>2, <2>1 DEF Logged, LoggedOf, Places, FirstOwner
<1> QED
  BY <1>9, <1>10, <1>12, <1>13

\* c reads the next message of its stream.
LEMMA ReadKeeps ==
  ASSUME Inv, NEW c \in Clients, Read(c)
  PROVE  Inv'
<1> USE DEF Inv
<1>0. Limit \in Nat
  BY ServerAssumption
<1>1. /\ conn[c] = "up" /\ net[c] # <<>> /\ net' = [net EXCEPT ![c] = Tail(@)]
      /\ heard' = [heard EXCEPT ![c] = @ + 1]
      /\ ready' \in [Fds -> SUBSET {"in", "out"}]
  BY NotifyIs DEF Read, TypeOK
<1>2. /\ conn' = conn /\ fdOf' = fdOf /\ backlog' = backlog /\ inbox' = inbox
      /\ masterReady' = masterReady /\ entries' = entries /\ queue' = queue
      /\ need_write' = need_write /\ receiver' = receiver /\ reading' = reading
      /\ exited' = exited /\ said' = said /\ log' = log /\ joined' = joined
  BY DEF Read, server
<1>3. /\ heard \in [Clients -> Nat] /\ net \in [Clients -> Seq(Units)]
      /\ net[c] \in Seq(Units) /\ Len(net[c]) \in Nat /\ Len(net[c]) <= Limit
  BY LenProperties DEF TypeOK
<1>4. /\ heard'[c] = heard[c] + 1 /\ \A d \in Clients \ {c} : heard'[d] = heard[d]
      /\ heard' \in [Clients -> Nat]
      /\ net'[c] = Tail(net[c]) /\ \A d \in Clients \ {c} : net'[d] = net[d]
  BY <1>1, <1>3
<1>5. Tail(net[c]) \in Seq(Units) /\ Len(Tail(net[c])) = Len(net[c]) - 1
  BY <1>1, <1>3, HeadTailProperties
<1>6. net' \in [Clients -> Seq(Units)]
  BY <1>1, <1>3, <1>5
<1>7. \A d \in Clients : Len(net'[d]) <= Limit
  <2>1. Len(net'[c]) <= Limit
    BY <1>0, <1>3, <1>4, <1>5
  <2> QED
    BY <1>4, <2>1 DEF TypeOK
<1>8. TypeOK'
  BY <1>1, <1>2, <1>4, <1>6, <1>7 DEF TypeOK
<1>9. ExitOnlyAfterALeave' /\ Descriptors' /\ Torn' /\ Inboxes' /\ Logged'
  BY <1>2 DEF ExitOnlyAfterALeave, Descriptors, Distinct, Alive, Holder, Torn, Inboxes,
              InboxOf, Logged, LoggedOf, Places, FirstOwner
<1>10. fdOf[c] # 0
  BY <1>1 DEF Streams
<1>11. ASSUME FirstOwner(c) PROVE StreamOf(c)'
  <2> DEFINE s == Stream(c)
             q == queue[fdOf[c]]
  <2>1. /\ joined[c] <= Len(log) /\ heard[c] <= Len(s)
        /\ net[c] \o q = SubSeq(s, heard[c] + 1, Len(s))
    BY <1>11 DEF Streams, StreamOf
  <2>2. log \in Seq(Units) /\ joined[c] \in Nat /\ fdOf[c] \in Fds /\ heard[c] \in Nat
    BY <1>10 DEF TypeOK
  <2>3. s \in Seq(Units) /\ q \in Seq(Units)
    <3>1. SubSeq(log, joined[c] + 1, Len(log)) \in Seq(Units)
      <4>1. joined[c] \in 0 .. Len(log)
        BY <2>1, <2>2, LenProperties
      <4> QED
        BY <2>2, <4>1, CutUnits
    <3>2. <<Welcome>> \in Seq(Units)
      BY DEF Units
    <3>3. s \in Seq(Units)
      BY <3>1, <3>2, ConcatProperties DEF Stream
    <3> QED
      BY <2>2, <3>3 DEF TypeOK
  <2> HIDE DEF s, q
  <2>4. heard[c] \in 0 .. Len(s)
    BY <2>1, <2>2, <2>3, LenProperties
  <2>5. heard[c] + 1 <= Len(s) /\ Tail(net[c]) \o q = SubSeq(s, (heard[c] + 1) + 1, Len(s))
    BY <1>1, <1>3, <2>1, <2>3, <2>4, CutNext
  <2>6. Stream(c)' = s /\ queue'[fdOf'[c]] = q
    BY <1>2, Zenon DEF Stream, s, q
  <2> QED
    BY <1>2, <1>4, <2>1, <2>5, <2>6, Zenon DEF StreamOf
<1>12. Streams'
  <2>1. ASSUME NEW d \in Clients, d # c, FirstOwner(d) PROVE StreamOf(d)'
    BY <1>2, <1>4, <2>1 DEF Streams, StreamOf, Stream
  <2>2. \A d \in Clients : FirstOwner(d)' => FirstOwner(d)
    BY <1>2 DEF FirstOwner
  <2>3. \A d \in Clients : fdOf'[d] = 0 => net'[d] = <<>> /\ heard'[d] = 0
    BY <1>2, <1>4, <1>10 DEF Streams
  <2> QED
    BY <1>11, <2>1, <2>2, <2>3 DEF Streams
<1> QED
  BY <1>8, <1>9, <1>12

\* c closes its connection.
LEMMA LeaveKeeps ==
  ASSUME Inv, NEW c \in Clients, Leave(c)
  PROVE  Inv'
<1> USE DEF Inv
<1>1. PICK rest \in {<<>>, <<Part>>} :
        /\ conn[c] = "up" /\ conn' = [conn EXCEPT ![c] = "left"]
        /\ inbox' = [inbox EXCEPT ![c] = @ \o rest]
  BY DEF Leave
<1>2. ready' \in [Fds -> SUBSET {"in", "out"}]
  BY NotifyIs DEF Leave
<1>3. /\ fdOf' = fdOf /\ backlog' = backlog /\ net' = net
      /\ masterReady' = masterReady /\ entries' = entries /\ queue' = queue
      /\ need_write' = need_write /\ receiver' = receiver /\ reading' = reading
      /\ exited' = exited /\ said' = said /\ log' = log /\ joined' = joined /\ heard' = heard
  BY DEF Leave, server, history
<1>4. /\ conn \in [Clients -> {"off", "up", "left", "gone"}] /\ inbox \in [Clients -> Seq(Units)]
      /\ inbox[c] \in Seq(Units) /\ Len(inbox[c]) \in Nat
  BY LenProperties DEF TypeOK
<1>5. /\ conn'[c] = "left" /\ \A d \in Clients \ {c} : conn'[d] = conn[d]
      /\ conn' \in [Clients -> {"off", "up", "left", "gone"}]
      /\ \A d \in Clients \ {c} : inbox'[d] = inbox[d]
  BY <1>1, <1>4
<1>6. /\ inbox'[c] \in Seq(Units)
      /\ \A k \in 1 .. Len(inbox'[c]) :
           \/ k \in 1 .. Len(inbox[c]) /\ inbox'[c][k] = inbox[c][k]
           \/ inbox'[c][k] = Part
  <2>1. inbox'[c] = inbox[c] \o rest
    BY <1>1, <1>4
  <2>2. CASE rest = <<>>
    BY <1>4, <2>1, <2>2, ConcatEmptySeq
  <2>3. CASE rest = <<Part>>
    <3>1. Part \in Units /\ inbox'[c] = Append(inbox[c], Part)
      BY <1>4, <2>1, <2>3, AppendIsConcat DEF Units
    <3> QED
      BY <1>4, <3>1, AppendProperties
  <2> QED
    BY <1>1, <2>2, <2>3
<1>7. inbox' \in [Clients -> Seq(Units)]
  BY <1>1, <1>4, <1>5, <1>6
<1>8. TypeOK'
  BY <1>2, <1>3, <1>5, <1>7 DEF TypeOK
<1>9. ExitOnlyAfterALeave'
  BY <1>5 DEF ExitOnlyAfterALeave
<1>10. \A d \in Clients : Alive(d)' <=> Alive(d)
  BY <1>1, <1>5 DEF Alive
<1>11. Descriptors'
  <2>1. Distinct(fdOf)'
    BY <1>3, <1>10 DEF Descriptors, Distinct
  <2>2. \A d \in Clients : (conn'[d] = "off" => fdOf'[d] = 0) /\ (conn'[d] = "gone" => fdOf'[d] # 0)
    BY <1>3, <1>5 DEF Descriptors
  <2>3. \A i \in 1 .. Len(backlog') : fdOf'[backlog'[i]] = 0 /\ conn'[backlog'[i]] \in {"up", "left"}
    <3>1. ASSUME NEW i \in 1 .. Len(backlog)
          PROVE  fdOf[backlog[i]] = 0 /\ conn'[backlog[i]] \in {"up", "left"}
      <4>1. backlog[i] \in Clients
        BY LenProperties DEF TypeOK
      <4>2. fdOf[backlog[i]] = 0 /\ conn[backlog[i]] \in {"up", "left"}
        BY DEF Descriptors, Alive
      <4> QED
        BY <1>5, <4>1, <4>2
    <3> QED
      BY <1>3, <3>1
  <2>5. reading' # 0 => Holder(fdOf, reading)' # {}
    BY <1>1, <1>3, <1>5 DEF Descriptors, Holder
  <2> QED
    BY <1>3, <2>1, <2>2, <2>3, <2>5 DEF Descriptors, Alive
<1>12. Torn'
  BY <1>3, <1>5 DEF Torn
<1>13. \A d \in Clients : FirstOwner(d)' => FirstOwner(d) /\ d # c
  BY <1>3, <1>5 DEF FirstOwner
<1>14. Streams'
  BY <1>3, <1>13 DEF Streams, StreamOf, Stream
<1>15. Inboxes'
  <2>1. InboxOf(c)'
    <3>1. \A k \in 1 .. Len(inbox[c]) : inbox[c][k] = Part \/ \E n \in Nat \ {0} : inbox[c][k] = Said(c, n)
      BY DEF Inboxes, InboxOf
    <3> QED
      BY <1>5, <1>6, <3>1 DEF InboxOf
  <2>2. ASSUME NEW d \in Clients \ {c} PROVE InboxOf(d)'
    BY <1>3, <1>5 DEF Inboxes, InboxOf
  <2> QED
    BY <2>1, <2>2 DEF Inboxes
<1>16. Logged'
  BY <1>3, <1>5, <1>13, SMTT(30) DEF Logged, LoggedOf, Places
<1> QED
  BY <1>8, <1>9, <1>11, <1>12, <1>14, <1>15, <1>16

----------------------------------------------------------------------------
(* The server's steps *)

\* The process ends after a client has left.
LEMMA ExitKeeps ==
  ASSUME Inv, Exit, \E c \in Clients : conn[c] \in {"left", "gone"}
  PROVE  Inv'
<1> USE DEF Inv
<1>1. /\ conn' = conn /\ fdOf' = fdOf /\ backlog' = backlog /\ inbox' = inbox /\ net' = net
      /\ ready' = ready /\ masterReady' = masterReady /\ entries' = entries /\ queue' = queue
      /\ need_write' = need_write /\ receiver' = receiver /\ reading' = reading
      /\ said' = said /\ log' = log /\ joined' = joined /\ heard' = heard /\ exited' = TRUE
  BY DEF Exit, kernel, history
<1>2. TypeOK'
  BY <1>1 DEF TypeOK
<1>3. ExitOnlyAfterALeave'
  BY <1>1 DEF ExitOnlyAfterALeave
<1>4. Descriptors' /\ Torn'
  BY <1>1 DEF Descriptors, Distinct, Alive, Holder, Torn
<1>5. Streams'
  BY <1>1, Zenon DEF Streams, FirstOwner, StreamOf, Stream
<1>6. Inboxes' /\ Logged'
  BY <1>1 DEF Inboxes, InboxOf, Logged, LoggedOf, Places, FirstOwner
<1> QED
  BY <1>2, <1>3, <1>4, <1>5, <1>6

\* readClient begins or ends: no more than the events and what it works on.
LEMMA ReadingKeeps ==
  ASSUME Inv, ready' \in [Fds -> SUBSET {"in", "out"}],
         reading' \in {0} \cup {fd \in Fds : Holder(fdOf, fd) # {}},
         UNCHANGED <<conn, fdOf, backlog, inbox, net, masterReady, entries, queue,
                     need_write, receiver, exited, history>>
  PROVE  Inv'
<1> USE DEF Inv
<1>1. /\ conn' = conn /\ fdOf' = fdOf /\ backlog' = backlog /\ inbox' = inbox /\ net' = net
      /\ masterReady' = masterReady /\ entries' = entries /\ queue' = queue
      /\ need_write' = need_write /\ receiver' = receiver /\ exited' = exited
      /\ said' = said /\ log' = log /\ joined' = joined /\ heard' = heard
  BY DEF history
<1>2. TypeOK'
  BY <1>1 DEF TypeOK
<1>3. ExitOnlyAfterALeave'
  BY <1>1 DEF ExitOnlyAfterALeave
<1>4. Descriptors' /\ Torn'
  BY <1>1 DEF Descriptors, Distinct, Alive, Holder, Torn
<1>5. Streams'
  BY <1>1, Zenon DEF Streams, FirstOwner, StreamOf, Stream
<1>6. Inboxes' /\ Logged'
  BY <1>1 DEF Inboxes, InboxOf, Logged, LoggedOf, Places, FirstOwner
<1> QED
  BY <1>2, <1>3, <1>4, <1>5, <1>6

\* The server closes the connection of a client that has left.  Nothing that
\* waits for its descriptor is erased.
LEMMA DeleteKeeps ==
  ASSUME Inv, NEW fd \in Fds, deleteClient(fd),
         \E c \in Holder(fdOf, fd) : conn[c] = "left"
  PROVE  Inv'
<1> USE DEF Inv
<1>0. 0 \notin Fds
  BY ServerAssumption
<1>1. /\ fdOf' = fdOf /\ backlog' = backlog /\ inbox' = inbox /\ net' = net
      /\ masterReady' = masterReady /\ queue' = queue /\ need_write' = need_write
      /\ exited' = exited /\ said' = said /\ log' = log /\ joined' = joined /\ heard' = heard
      /\ ready' = [ready EXCEPT ![fd] = {}] /\ reading' = 0
  BY DEF deleteClient, history
<1>2. entries' = entries /\ receiver' = receiver
  BY DEF deleteClient, deleteSockFd, TypeOK
<1>3. PICK c \in Clients : conn[c] = "left" /\ fdOf[c] = fd /\ Holder(fdOf, fd) = {c}
  BY <1>0 DEF Holder, Descriptors, Distinct, Alive
<1>4. /\ conn \in [Clients -> {"off", "up", "left", "gone"}]
      /\ conn' = [d \in Clients |-> IF d \in Holder(fdOf, fd) THEN "gone" ELSE conn[d]]
  BY DEF TypeOK, deleteClient
<1>5. /\ conn'[c] = "gone" /\ \A d \in Clients \ {c} : conn'[d] = conn[d]
      /\ conn' \in [Clients -> {"off", "up", "left", "gone"}]
  BY <1>3, <1>4
<1>6. TypeOK'
  BY <1>1, <1>2, <1>5 DEF TypeOK
<1>7. ExitOnlyAfterALeave'
  BY <1>5 DEF ExitOnlyAfterALeave
<1>8. Descriptors'
  <2>1. Distinct(fdOf)'
    BY <1>1, <1>5 DEF Descriptors, Distinct, Alive
  <2>2. \A d \in Clients : (conn'[d] = "off" => fdOf'[d] = 0) /\ (conn'[d] = "gone" => fdOf'[d] # 0)
    BY <1>0, <1>1, <1>3, <1>5 DEF Descriptors
  <2>3. ASSUME NEW i \in 1 .. Len(backlog)
        PROVE  fdOf[backlog[i]] = 0 /\ conn'[backlog[i]] \in {"up", "left"}
    <3>1. backlog[i] \in Clients
      BY LenProperties DEF TypeOK
    <3>2. fdOf[backlog[i]] = 0 /\ conn[backlog[i]] \in {"up", "left"}
      BY DEF Descriptors, Alive
    <3> QED
      BY <1>0, <1>3, <1>5, <3>1, <3>2
  <2> QED
    BY <1>1, <1>2, <2>1, <2>2, <2>3 DEF Descriptors, Alive
<1>9. Torn'
  BY <1>1, <1>2, <1>5 DEF Torn
<1>10. \A d \in Clients : FirstOwner(d)' => FirstOwner(d)
  BY <1>1, <1>5 DEF FirstOwner
<1>11. Streams'
  BY <1>1, <1>10 DEF Streams, StreamOf, Stream
<1>12. Inboxes'
  <2>1. ASSUME NEW d \in Clients PROVE InboxOf(d)'
    BY <1>1, <1>5 DEF Inboxes, InboxOf
  <2> QED
    BY <2>1 DEF Inboxes
<1>13. Logged'
  BY <1>1, <1>10 DEF Logged, LoggedOf, Places
<1> QED
  BY <1>6, <1>7, <1>8, <1>9, <1>11, <1>12, <1>13

\* A connection is accepted.  Its client is the only one that ever had the
\* descriptor, or there is nothing to say about it.
LEMMA AcceptKeeps ==
  ASSUME Inv, processMasterEvent,
         NEW c \in Clients, c = Head(backlog), NEW fd \in Fds, fd = NewFd
  PROVE  Inv'
<1> USE DEF Inv
<1> DEFINE fds == [fdOf EXCEPT ![c] = fd]
           q == [queue EXCEPT ![fd] = Append(@, Welcome)]
           events == [ready EXCEPT ![fd] = IF inbox[c] # <<>> \/ conn[c] = "left" THEN {"in"} ELSE {}]
<1>0. 0 \notin Fds
  BY ServerAssumption
<1>1. PICK fate \in [Abandoned(fds) -> Fate] :
        IF WriteFails(fds, q, fate) THEN Exit
        ELSE /\ fdOf' = fds /\ backlog' = Tail(backlog) /\ masterReady' = FALSE
             /\ joined' = [joined EXCEPT ![c] = Len(log)]
             /\ add_client(fd)
             /\ writeMessages(fds, q, inbox, fate, events)
             /\ UNCHANGED <<conn, inbox, reading, exited, said, log, heard>>
  BY Zenon DEF processMasterEvent
<1>2. backlog # <<>>
  BY DEF processMasterEvent
<1>3. fd \in Fds /\ Holder(fdOf, fd) = {}
  BY <1>2, NewFdIs
<1>4. /\ c = backlog[1] /\ c \in Clients /\ Len(backlog) \in Nat \ {0}
      /\ Tail(backlog) \in Seq(Clients) /\ Len(Tail(backlog)) = Len(backlog) - 1
      /\ \A i \in 1 .. Len(backlog) - 1 : Tail(backlog)[i] = backlog[i + 1]
  BY <1>2, HeadTailProperties, LenProperties, EmptySeq DEF TypeOK
<1>5. fdOf[c] = 0 /\ conn[c] \in {"up", "left"}
  BY <1>4 DEF Descriptors, Alive
<1>6. /\ fdOf \in [Clients -> Fds \cup {0}] /\ queue \in [Fds -> Seq(Units)]
      /\ conn \in [Clients -> {"off", "up", "left", "gone"}]
  BY DEF TypeOK
<1>7. Welcome \in Units /\ queue[fd] \in Seq(Units)
  BY <1>3, <1>6 DEF Units
<1>8. Append(queue[fd], Welcome) \in Seq(Units)
  BY <1>7, AppendProperties
<1>9. events \in [Fds -> SUBSET {"in", "out"}]
  BY DEF TypeOK
<1> HIDE DEF events
<1>10. /\ fds \in [Clients -> Fds \cup {0}] /\ fds[c] = fd
       /\ \A d \in Clients \ {c} : fds[d] = fdOf[d]
       /\ q \in [Fds -> Seq(Units)] /\ q[fd] = Append(queue[fd], Welcome)
       /\ \A f \in Fds \ {fd} : q[f] = queue[f]
  BY <1>3, <1>4, <1>6, <1>8
<1> HIDE DEF fds, q
<1>11. CASE WriteFails(fds, q, fate)
  <2>1. ASSUME NEW f \in Fds, q[f] # <<>>
        PROVE  \E d \in Clients : fds[d] = f /\ conn[d] # "off"
    <3>1. CASE f = fd
      BY <1>4, <1>5, <1>10, <3>1
    <3>2. CASE f # fd
      <4>1. PICK d \in Clients : fdOf[d] = f
        BY <1>10, <2>1, <3>2 DEF Descriptors
      <4> QED
        BY <1>0, <1>5, <1>10, <4>1 DEF Descriptors
    <3> QED
      BY <3>1, <3>2
  <2>2. \E d \in Clients : conn[d] \in {"left", "gone"}
    BY <1>11, <2>1, WriteFailsIs
  <2> QED
    BY <1>1, <1>11, <2>2, ExitKeeps
<1>12. CASE ~WriteFails(fds, q, fate)
  <2>1. /\ fdOf' = fds /\ backlog' = Tail(backlog) /\ masterReady' = FALSE
        /\ joined' = [joined EXCEPT ![c] = Len(log)]
        /\ entries' = entries \cup {fd} /\ receiver' = receiver
        /\ conn' = conn /\ inbox' = inbox /\ reading' = reading /\ exited' = exited
        /\ said' = said /\ log' = log /\ heard' = heard
        /\ writeMessages(fds, q, inbox, fate, events)
    BY <1>1, <1>12 DEF add_client
  <2>2. Distinct(fds)
    BY <1>3, <1>10, SMTT(30) DEF Descriptors, Distinct, Alive, Holder
  <2>3. /\ queue' \in [Fds -> Seq(Units)] /\ net' \in [Clients -> Seq(Units)]
        /\ \A d \in Clients : Len(net'[d]) <= Limit
        /\ need_write' \in [Fds -> BOOLEAN] /\ ready' \in [Fds -> SUBSET {"in", "out"}]
        /\ \A d \in Clients : IF conn[d] = "up" /\ fds[d] # 0
                              THEN net'[d] \o queue'[fds[d]] = net[d] \o q[fds[d]]
                              ELSE net'[d] = net[d]
        /\ \A f \in Fds : q[f] = <<>> => queue'[f] = <<>>
    BY <1>9, <1>10, <1>12, <2>1, <2>2, WriteMessagesIs
  <2>4. log \in Seq(Units) /\ Len(log) \in Nat /\ joined \in [Clients -> Nat]
    BY LenProperties DEF TypeOK
  <2>5. /\ joined' \in [Clients -> Nat] /\ joined'[c] = Len(log)
        /\ \A d \in Clients \ {c} : joined'[d] = joined[d]
    BY <1>4, <2>1, <2>4
  <2>6. TypeOK'
    BY <1>3, <1>4, <1>10, <2>1, <2>3, <2>5 DEF TypeOK
  <2>7. ExitOnlyAfterALeave'
    BY <2>1 DEF ExitOnlyAfterALeave
  <2>8. Descriptors'
    <3>1. Distinct(fdOf)'
      BY <2>1, <2>2 DEF Distinct, Alive
    <3>2. \A d \in Clients : (conn'[d] = "off" => fdOf'[d] = 0) /\ (conn'[d] = "gone" => fdOf'[d] # 0)
      BY <1>0, <1>3, <1>5, <1>10, <2>1 DEF Descriptors
    <3>3. ASSUME NEW i \in 1 .. Len(Tail(backlog))
          PROVE  /\ fds[Tail(backlog)[i]] = 0
                 /\ conn[Tail(backlog)[i]] \in {"up", "left"}
      <4>1. /\ Tail(backlog)[i] = backlog[i + 1] /\ i + 1 \in 1 .. Len(backlog)
            /\ i + 1 # 1 /\ 1 \in 1 .. Len(backlog)
        BY <1>4
      <4>2. backlog[i + 1] # backlog[1] /\ backlog[i + 1] \in Clients
        BY <4>1, LenProperties DEF Descriptors, TypeOK
      <4> QED
        BY <1>4, <1>10, <4>1, <4>2 DEF Descriptors, Alive
    <3>4. ASSUME NEW i \in 1 .. Len(Tail(backlog)), NEW j \in 1 .. Len(Tail(backlog)),
                 Tail(backlog)[i] = Tail(backlog)[j]
          PROVE  i = j
      <4>1. /\ Tail(backlog)[i] = backlog[i + 1] /\ i + 1 \in 1 .. Len(backlog)
            /\ Tail(backlog)[j] = backlog[j + 1] /\ j + 1 \in 1 .. Len(backlog)
        BY <1>4
      <4>2. i + 1 = j + 1
        BY <3>4, <4>1 DEF Descriptors
      <4> QED
        BY <1>4, <4>2
    <3>5. ASSUME NEW f \in Fds PROVE f \in entries' <=> \E d \in Clients : fdOf'[d] = f
      <4>1. CASE f = fd
        BY <1>10, <2>1, <4>1
      <4>2. CASE f # fd
        <5>1. f \in entries' <=> \E d \in Clients : fdOf[d] = f
          BY <2>1, <4>2 DEF Descriptors
        <5>2. \A d \in Clients : fdOf'[d] = f <=> fdOf[d] = f
          BY <1>0, <1>5, <1>10, <2>1, <4>2
        <5> QED
          BY <5>1, <5>2
      <4> QED
        BY <4>1, <4>2
    <3>6. \A f \in Fds : queue'[f] # <<>> => f \in entries'
      BY <1>10, <2>1, <2>3 DEF Descriptors
    <3>7. reading' = 0
      BY <2>1 DEF processMasterEvent, InWait
    <3> QED
      BY <2>1, <3>1, <3>2, <3>3, <3>4, <3>5, <3>6, <3>7 DEF Descriptors, Alive
  <2>9. Torn'
    BY <1>0, <1>5, <1>10, <2>1 DEF Torn
  <2>10. ASSUME NEW d \in Clients \ {c}, FirstOwner(d)'
         PROVE  FirstOwner(d) /\ fdOf[d] # fd /\ fdOf[d] \in Fds /\ fds[d] = fdOf[d]
    <3>1. conn[d] = "up" /\ fds[d] # 0 /\ \A e \in Clients \ {d} : fds[e] # fds[d]
      BY <2>1, <2>10 DEF FirstOwner
    <3>2. fds[d] = fdOf[d] /\ fds[c] = fd /\ \A e \in Clients \ {d, c} : fdOf[e] = fds[e]
      BY <1>10
    <3> QED
      BY <1>4, <1>5, <1>6, <3>1, <3>2 DEF FirstOwner
  <2>11. ASSUME NEW d \in Clients \ {c}, FirstOwner(d)' PROVE StreamOf(d)'
    <3>1. FirstOwner(d) /\ fdOf[d] # fd /\ fdOf[d] \in Fds /\ fds[d] = fdOf[d]
      BY <2>10, <2>11
    <3>2. net'[d] \o queue'[fdOf[d]] = net[d] \o queue[fdOf[d]]
      BY <1>0, <1>10, <2>3, <3>1, ZenonT(40) DEF FirstOwner
    <3>3. StreamOf(d)
      BY <3>1 DEF Streams
    <3> QED
      BY <2>1, <2>5, <3>1, <3>2, <3>3 DEF StreamOf, Stream
  <2>12. ASSUME FirstOwner(c)' PROVE StreamOf(c)'
    <3>1. conn[c] = "up" /\ \A d \in Clients \ {c} : fds[d] # fd
      BY <1>10, <2>1, <2>12 DEF FirstOwner
    <3>2. queue[fd] = <<>> /\ net[c] = <<>> /\ heard[c] = 0
      <4>1. \A d \in Clients : fdOf[d] # fd
        BY <1>0, <1>3, <1>5, <1>10, <3>1
      <4>2. fd \notin entries
        BY <4>1 DEF Descriptors
      <4> QED
        BY <1>5, <4>2 DEF Descriptors, Streams
    <3>3. net'[c] \o queue'[fd] = <<>> \o Append(<<>>, Welcome)
      <4>1. fds[c] = fd /\ fds[c] # 0
        BY <1>0, <1>10
      <4>2. net'[c] \o queue'[fds[c]] = net[c] \o q[fds[c]]
        BY <2>3, <3>1, <4>1
      <4> QED
        BY <1>10, <3>2, <4>1, <4>2, Zenon
    <3>4. SubSeq(log, Len(log) + 1, Len(log)) = <<>>
      BY <2>4, SubSeqEmpty
    <3>5. /\ <<>> \in Seq(Units) /\ <<Welcome>> \in Seq(Units)
          /\ Append(<<>>, Welcome) = <<>> \o <<Welcome>>
      BY <1>7, EmptySeq, AppendIsConcat
    <3>6. <<>> \o <<Welcome>> = <<Welcome>> /\ <<Welcome>> \o <<>> = <<Welcome>>
      BY <3>5, ConcatEmptySeq
    <3>7. Stream(c)' = <<Welcome>>
      BY <2>1, <2>5, <3>4, <3>6, Zenon DEF Stream
    <3>8. SubSeq(<<Welcome>>, 0 + 1, Len(<<Welcome>>)) = <<Welcome>>
      <4>1. 0 + 1 = 1
        OBVIOUS
      <4> QED
        BY <3>5, <4>1, SubSeqFull, Zenon
    <3>9. joined'[c] <= Len(log') /\ heard'[c] <= Len(Stream(c)') /\ heard'[c] = 0
      BY <2>1, <2>4, <2>5, <3>2, <3>7
    <3> QED
      BY <1>10, <2>1, <3>3, <3>5, <3>6, <3>7, <3>8, <3>9, Zenon DEF StreamOf
  <2>13. Streams'
    <3>1. \A d \in Clients : fdOf'[d] = 0 => net'[d] = <<>> /\ heard'[d] = 0
      BY <1>0, <1>3, <1>10, <2>1, <2>3 DEF Streams
    <3> QED
      BY <2>11, <2>12, <3>1 DEF Streams
  <2>14. Inboxes'
    <3>1. ASSUME NEW d \in Clients PROVE InboxOf(d)'
      <4>1. fdOf'[d] = 0 => fdOf[d] = 0
        BY <1>0, <1>3, <1>10, <2>1
      <4> QED
        BY <2>1, <4>1 DEF Inboxes, InboxOf
    <3> QED
      BY <3>1 DEF Inboxes
  <2>15. Logged'
    <3>1. \A d \in Clients, n \in Nat : Places(d, n)' = Places(d, n)
      BY <2>1 DEF Places
    <3>2. ASSUME NEW d \in Clients \ {c}, FirstOwner(d)' PROVE LoggedOf(d)'
      <4>1. LoggedOf(d)
        BY <2>10, <3>2 DEF Logged
      <4> QED
        BY <2>1, <4>1 DEF LoggedOf, Places
    <3>3. ASSUME FirstOwner(c)' PROVE LoggedOf(c)'
      <4>1. conn[c] = "up"
        BY <2>1, <3>3 DEF FirstOwner
      <4>2. Len(inbox[c]) = said[c] /\ said[c] \in Nat
        BY <1>4, <1>5, <4>1 DEF Inboxes, InboxOf, TypeOK
      <4>3. said'[c] - Len(inbox'[c]) = 0
        BY <2>1, <4>2
      <4>4. \A n \in Nat \ {0} : Places(c, n)' = {}
        BY <1>4, <1>5, <2>1 DEF Logged, Places
      <4> QED
        BY <4>3, <4>4 DEF LoggedOf
    <3>4. \A d \in Clients : fdOf'[d] = 0 => fdOf[d] = 0
      BY <1>0, <1>3, <1>10, <2>1
    <3> QED
      BY <3>1, <3>2, <3>3, <3>4 DEF Logged
  <2> QED
    BY <2>6, <2>7, <2>8, <2>9, <2>13, <2>14, <2>15
<1> QED
  BY <1>11, <1>12

\* What process makes of a part of what c sent: whole messages of c, except on a
\* descriptor that somebody who left had before.
LEMMA ProcessIs ==
  ASSUME Inv, NEW c \in Clients, NEW fd \in Fds, Alive(c), fdOf[c] = fd,
         NEW n \in 1 .. Len(inbox[c]), NEW got \in process(fd, SubSeq(inbox[c], 1, n))
  PROVE  /\ got.msgs \in Seq(Units) /\ got.receiver \in {"none", "aligned", "torn"}
         /\ got.receiver = "torn" => \E d \in Clients : fdOf[d] = fd /\ conn[d] \in {"left", "gone"}
         /\ \A k \in 1 .. Len(got.msgs) :
              got.msgs[k] \in {Part, Garbled} \/ \E m \in Nat \ {0} : got.msgs[k] = Said(c, m)
         /\ FirstOwner(c) => got.msgs = SubSeq(inbox[c], 1, n)
<1> USE DEF Inv
<1> DEFINE part == SubSeq(inbox[c], 1, n)
<1>1. inbox[c] \in Seq(Units) /\ Len(inbox[c]) \in Nat /\ n \in 0 .. Len(inbox[c]) /\ n \in Nat \ {0}
  BY LenProperties DEF TypeOK
<1>2. /\ part \in Seq(Units) /\ Len(part) = n
      /\ \A k \in 1 .. n : part[k] = inbox[c][k]
  BY <1>1, CutUnits, CutElements
<1>3. \A k \in 1 .. n : part[k] = Part \/ \E m \in Nat \ {0} : part[k] = Said(c, m)
  BY <1>1, <1>2 DEF Inboxes, InboxOf
<1>4. conn[c] = "up" => part[n] # Part
  <2> SUFFICES ASSUME conn[c] = "up" PROVE part[n] # Part
    OBVIOUS
  <2>1. /\ Len(inbox[c]) <= said[c] /\ said[c] \in Nat
        /\ inbox[c][n] = Said(c, (said[c] - Len(inbox[c])) + n)
    BY <1>1 DEF Inboxes, InboxOf, TypeOK
  <2>2. (said[c] - Len(inbox[c])) + n # 0
    BY <1>1, <2>1
  <2>3. part[n] = inbox[c][n]
    BY <1>1, <1>2
  <2> QED
    BY <2>1, <2>2, <2>3 DEF Said, Part
<1> HIDE DEF part
<1>5. CASE receiver[fd] = "torn"
  <2>1. got \in [msgs : {<<>>, <<Garbled>>}, receiver : {"torn", "aligned"}]
    BY <1>5, Zenon DEF process
  <2>2. got.msgs \in {<<>>, <<Garbled>>} /\ got.receiver \in {"torn", "aligned"}
    BY <2>1
  <2>3. \E d \in Clients : fdOf[d] = fd /\ conn[d] \in {"left", "gone"}
    BY <1>5 DEF Torn
  <2>4. ~FirstOwner(c)
    BY <2>3 DEF FirstOwner
  <2>5. /\ <<>> \in Seq(Units) /\ <<Garbled>> \in Seq(Units) /\ Len(<<>>) = 0
        /\ Len(<<Garbled>>) = 1 /\ <<Garbled>>[1] = Garbled
    BY EmptySeq DEF Units
  <2>6. ASSUME NEW k \in 1 .. Len(got.msgs) PROVE got.msgs[k] = Garbled
    <3>1. CASE got.msgs = <<>>
      BY <2>5, <2>6, <3>1
    <3>2. CASE got.msgs = <<Garbled>>
      BY <2>5, <2>6, <3>2
    <3> QED
      BY <2>2, <3>1, <3>2
  <2> QED
    BY <2>2, <2>3, <2>4, <2>5, <2>6
<1>6. CASE receiver[fd] # "torn"
  <2>1. got = [msgs |-> Whole(part), receiver |-> After(part)]
    BY <1>6 DEF process, part
  <2>2. got.msgs = Whole(part) /\ got.receiver = After(part)
    BY <2>1
  <2>3. CASE part[n] = Part
    <3>1. conn[c] = "left"
      BY <1>4, <2>3 DEF Alive
    <3>2. got.msgs = SubSeq(part, 1, n - 1) /\ got.receiver = "torn"
      BY <1>2, <2>2, <2>3 DEF Whole, After
    <3>3. n - 1 \in 0 .. Len(part) /\ \A k \in 1 .. n - 1 : k \in 1 .. n
      BY <1>1, <1>2
    <3>4. /\ SubSeq(part, 1, n - 1) \in Seq(Units) /\ Len(SubSeq(part, 1, n - 1)) = n - 1
          /\ \A k \in 1 .. n - 1 : SubSeq(part, 1, n - 1)[k] = part[k]
      BY <1>2, <3>3, CutUnits, CutElements
    <3>5. ~FirstOwner(c)
      BY <3>1 DEF FirstOwner
    <3>6. \A k \in 1 .. Len(got.msgs) : got.msgs[k] = part[k] /\ k \in 1 .. n
      BY <3>2, <3>3, <3>4
    <3> QED
      BY <1>3, <3>1, <3>2, <3>4, <3>5, <3>6
  <2>4. CASE part[n] # Part
    <3>1. got.msgs = part /\ got.receiver = "aligned"
      BY <1>2, <2>2, <2>4 DEF Whole, After
    <3> QED
      BY <1>2, <1>3, <3>1 DEF part
  <2> QED
    BY <2>3, <2>4
<1> QED
  BY <1>5, <1>6

\* The messages in what c sent reach every queue and the log.
LEMMA ReceiveKeeps ==
  ASSUME Inv, NEW fd \in Fds, NEW c \in Holder(fdOf, fd), reading = fd, Receive(c, fd)
  PROVE  Inv'
<1> USE DEF Inv
<1>0. 0 \notin Fds
  BY ServerAssumption
<1>1. c \in Clients /\ fdOf[c] = fd /\ Alive(c) /\ conn[c] \in {"up", "left"}
  BY DEF Holder, Alive
<1>2. PICK n \in 1 .. Len(inbox[c]), fate \in [Abandoned(fdOf) -> Fate] :
        \E got \in process(fd, SubSeq(inbox[c], 1, n)) :
          IF WriteFails(fdOf, broadcast(got.msgs), fate) THEN Exit
          ELSE /\ inbox' = [inbox EXCEPT ![c] = SubSeq(@, n + 1, Len(@))]
               /\ receiver' = [receiver EXCEPT ![fd] = got.receiver]
               /\ log' = log \o got.msgs
               /\ writeMessages(fdOf, broadcast(got.msgs), inbox', fate, ready)
               /\ UNCHANGED <<conn, fdOf, backlog, masterReady, entries, reading, exited,
                              said, joined, heard>>
  BY Zenon DEF Receive
<1>3. PICK got \in process(fd, SubSeq(inbox[c], 1, n)) :
          IF WriteFails(fdOf, broadcast(got.msgs), fate) THEN Exit
          ELSE /\ inbox' = [inbox EXCEPT ![c] = SubSeq(@, n + 1, Len(@))]
               /\ receiver' = [receiver EXCEPT ![fd] = got.receiver]
               /\ log' = log \o got.msgs
               /\ writeMessages(fdOf, broadcast(got.msgs), inbox', fate, ready)
               /\ UNCHANGED <<conn, fdOf, backlog, masterReady, entries, reading, exited,
                              said, joined, heard>>
  BY <1>2, Zenon
<1> DEFINE msgs == got.msgs
           q == broadcast(msgs)
           s == inbox[c]
<1>4. /\ msgs \in Seq(Units) /\ got.receiver \in {"none", "aligned", "torn"}
      /\ got.receiver = "torn" => \E d \in Clients : fdOf[d] = fd /\ conn[d] \in {"left", "gone"}
      /\ \A k \in 1 .. Len(msgs) :
           msgs[k] \in {Part, Garbled} \/ \E m \in Nat \ {0} : msgs[k] = Said(c, m)
      /\ FirstOwner(c) => msgs = SubSeq(s, 1, n)
  BY <1>1, ProcessIs
<1>5. /\ queue \in [Fds -> Seq(Units)] /\ \A f \in Fds : queue[f] \in Seq(Units)
      /\ entries \subseteq Fds
  BY DEF TypeOK
<1> HIDE DEF msgs
<1>6. /\ \A f \in Fds : q[f] = IF f \in entries THEN queue[f] \o msgs ELSE queue[f]
      /\ q \in [Fds -> Seq(Units)]
  <2>1. \A f \in Fds : queue[f] \o msgs \in Seq(Units)
    BY <1>4, <1>5, ConcatProperties
  <2> QED
    BY <1>5, <2>1 DEF broadcast
<1> HIDE DEF q
<1>7. CASE WriteFails(fdOf, q, fate)
  <2>1. ASSUME NEW f \in Fds, q[f] # <<>>
        PROVE  \E d \in Clients : fdOf[d] = f /\ conn[d] # "off"
    <3>1. PICK d \in Clients : fdOf[d] = f
      BY <1>6, <2>1 DEF Descriptors
    <3> QED
      BY <1>0, <3>1 DEF Descriptors
  <2>2. \E d \in Clients : conn[d] \in {"left", "gone"}
    BY <1>7, <2>1, WriteFailsIs
  <2>3. Exit
    BY <1>3, <1>7 DEF q, msgs
  <2> QED
    BY <2>2, <2>3, ExitKeeps
<1>8. CASE ~WriteFails(fdOf, q, fate)
  <2>1. /\ inbox' = [inbox EXCEPT ![c] = SubSeq(s, n + 1, Len(s))]
        /\ receiver' = [receiver EXCEPT ![fd] = got.receiver]
        /\ log' = log \o msgs
        /\ conn' = conn /\ fdOf' = fdOf /\ backlog' = backlog /\ masterReady' = masterReady
        /\ entries' = entries /\ reading' = reading /\ exited' = exited
        /\ said' = said /\ joined' = joined /\ heard' = heard
        /\ writeMessages(fdOf, q, inbox', fate, ready)
    BY <1>3, <1>8 DEF q, msgs
  <2>2. /\ queue' \in [Fds -> Seq(Units)] /\ net' \in [Clients -> Seq(Units)]
        /\ \A d \in Clients : Len(net'[d]) <= Limit
        /\ need_write' \in [Fds -> BOOLEAN] /\ ready' \in [Fds -> SUBSET {"in", "out"}]
        /\ \A d \in Clients : IF conn[d] = "up" /\ fdOf[d] # 0
                              THEN net'[d] \o queue'[fdOf[d]] = net[d] \o q[fdOf[d]]
                              ELSE net'[d] = net[d]
        /\ \A f \in Fds : q[f] = <<>> => queue'[f] = <<>>
    <3>1. fdOf \in [Clients -> Fds \cup {0}] /\ ready \in [Fds -> SUBSET {"in", "out"}]
      BY DEF TypeOK
    <3>2. PICK unread : unread = inbox'
      OBVIOUS
    <3>3. Distinct(fdOf) /\ writeMessages(fdOf, q, unread, fate, ready)
      BY <2>1, <3>2 DEF Descriptors
    <3> QED
      BY <1>6, <1>8, <3>1, <3>3, WriteMessagesIs
  <2>3. /\ s \in Seq(Units) /\ Len(s) \in Nat /\ n \in 0 .. Len(s) /\ n \in Nat \ {0} /\ n <= Len(s)
        /\ inbox \in [Clients -> Seq(Units)]
    BY <1>1, LenProperties DEF TypeOK
  <2>4. /\ SubSeq(s, n + 1, Len(s)) \in Seq(Units) /\ Len(SubSeq(s, n + 1, Len(s))) = Len(s) - n
        /\ \A k \in 1 .. Len(s) - n : SubSeq(s, n + 1, Len(s))[k] = s[n + k]
        /\ Len(SubSeq(s, 1, n)) = n /\ \A k \in 1 .. n : SubSeq(s, 1, n)[k] = s[k]
    BY <2>3, CutUnits, CutElements
  <2>5. /\ inbox' \in [Clients -> Seq(Units)] /\ Len(inbox'[c]) = Len(s) - n
        /\ \A k \in 1 .. Len(s) - n : inbox'[c][k] = s[n + k]
        /\ \A d \in Clients \ {c} : inbox'[d] = inbox[d]
    BY <1>1, <2>1, <2>3, <2>4
  <2>6. /\ log \in Seq(Units) /\ Len(log) \in Nat /\ Len(msgs) \in Nat /\ log' \in Seq(Units)
        /\ Len(log') = Len(log) + Len(msgs)
        /\ \A i \in 1 .. Len(log) + Len(msgs) :
             log'[i] = IF i <= Len(log) THEN log[i] ELSE msgs[i - Len(log)]
    BY <1>4, <2>1, ConcatProperties, LenProperties DEF TypeOK
  <2>7. receiver \in [Fds -> {"none", "aligned", "torn"}]
    BY DEF TypeOK
  <2>8. TypeOK'
    BY <1>4, <2>1, <2>2, <2>5, <2>6 DEF TypeOK
  <2>9. ExitOnlyAfterALeave'
    BY <2>1 DEF ExitOnlyAfterALeave
  <2>10. Descriptors'
    <3>1. \A f \in Fds : queue'[f] # <<>> => f \in entries
      BY <1>6, <2>2 DEF Descriptors
    <3> QED
      BY <2>1, <3>1 DEF Descriptors, Distinct, Alive, Holder
  <2>11. Torn'
    BY <1>4, <2>1, <2>7 DEF Torn
  <2>12. \A d \in Clients : FirstOwner(d)' <=> FirstOwner(d)
    BY <2>1 DEF FirstOwner
  <2>13. ASSUME NEW d \in Clients, FirstOwner(d) PROVE StreamOf(d)'
    <3> DEFINE j == joined[d]
               h == heard[d]
               t == SubSeq(log, j + 1, Len(log))
               w == Stream(d)
               v == queue[fdOf[d]]
    <3>1. /\ j <= Len(log) /\ h <= Len(w) /\ net[d] \o v = SubSeq(w, h + 1, Len(w))
      BY <2>13 DEF Streams, StreamOf
    <3>2. j \in Nat /\ h \in Nat /\ net[d] \in Seq(Units) /\ fdOf[d] \in Fds
          /\ conn[d] = "up" /\ fdOf[d] # 0
      BY <2>13 DEF TypeOK, FirstOwner
    <3>3. fdOf[d] \in entries /\ v \in Seq(Units)
      BY <1>5, <3>2 DEF Descriptors
    <3>4. net'[d] \o queue'[fdOf[d]] = net[d] \o (v \o msgs)
      BY <1>6, <2>2, <3>2, <3>3
    <3>5. j \in 0 .. Len(log)
      BY <2>6, <3>1, <3>2
    <3>6. SubSeq(log', j + 1, Len(log')) = t \o msgs /\ t \in Seq(Units)
      <4>1. t \in Seq(Units)
        BY <2>6, <3>5, CutUnits
      <4>2. SubSeq(log \o msgs, j + 1, Len(log \o msgs)) = t \o msgs
        BY <1>4, <2>6, <3>5, CutBehind
      <4> QED
        BY <2>1, <4>1, <4>2
    <3>7. w = <<Welcome>> \o t /\ <<Welcome>> \in Seq(Units)
      BY DEF Stream, Units
    <3>8. Stream(d)' = <<Welcome>> \o (t \o msgs)
      BY <2>1, <3>6, Zenon DEF Stream
    <3> HIDE DEF j, h, t, w, v
    <3>9. w \in Seq(Units) /\ Stream(d)' = w \o msgs
      <4>1. Associates(<<Welcome>>, t, msgs)
        BY <1>4, <3>6, <3>7, Assoc, Zenon
      <4>2. (<<Welcome>> \o t) \o msgs = <<Welcome>> \o (t \o msgs)
        BY <4>1, Zenon DEF Associates
      <4> DEFINE e == <<Welcome>>
      <4> HIDE DEF e
      <4>3. e \in Seq(Units) /\ t \in Seq(Units) => e \o t \in Seq(Units)
        BY ONLY ConcatProperties
      <4> QED
        BY <3>6, <3>7, <3>8, <4>2, <4>3, Zenon DEF e
    <3>10. h \in 0 .. Len(w) /\ Len(w \o msgs) = Len(w) + Len(msgs) /\ Len(w) \in Nat
      BY <1>4, <3>1, <3>2, <3>9, LenProperties, ConcatProperties
    <3>11. SubSeq(w \o msgs, h + 1, Len(w \o msgs)) = SubSeq(w, h + 1, Len(w)) \o msgs
      BY <1>4, <3>9, <3>10, CutBehind
    <3>12. net[d] \o (v \o msgs) = (net[d] \o v) \o msgs
      <4>1. Associates(net[d], v, msgs)
        BY <1>4, <3>2, <3>3, Assoc, Zenon
      <4> QED
        BY <4>1, Zenon DEF Associates
    <3>13. joined'[d] = j /\ heard'[d] = h /\ queue'[fdOf'[d]] = queue'[fdOf[d]]
      BY <2>1 DEF j, h
    <3>14. j <= Len(log')
      BY <2>6, <3>1, <3>2
    <3>15. h <= Len(w \o msgs)
      BY <2>6, <3>1, <3>2, <3>10
    <3>16. net'[d] \o queue'[fdOf'[d]] = SubSeq(Stream(d)', h + 1, Len(Stream(d)'))
      BY <3>1, <3>4, <3>9, <3>11, <3>12, <3>13, Zenon
    <3> QED
      BY <3>9, <3>13, <3>14, <3>15, <3>16, Zenon DEF StreamOf
  <2>14. Streams'
    <3>1. \A d \in Clients : fdOf[d] = 0 => net'[d] = net[d]
      BY <2>2
    <3> QED
      BY <2>1, <2>12, <2>13, <3>1 DEF Streams
  <2>15. InboxOf(c)'
    <3>1. /\ conn[c] = "up" => Len(s) <= said[c] /\ said[c] \in Nat
          /\ conn[c] = "up" => \A k \in 1 .. Len(s) : s[k] = Said(c, (said[c] - Len(s)) + k)
          /\ \A k \in 1 .. Len(s) : s[k] = Part \/ \E m \in Nat \ {0} : s[k] = Said(c, m)
      BY <1>1 DEF Inboxes, InboxOf, TypeOK
    <3>2. conn[c] = "up" => Len(inbox'[c]) <= said[c]
      BY <2>3, <2>5, <3>1
    <3>3. ASSUME NEW k \in 1 .. Len(inbox'[c])
          PROVE  /\ conn[c] = "up" => inbox'[c][k] = Said(c, (said[c] - Len(inbox'[c])) + k)
                 /\ inbox'[c][k] = Part \/ \E m \in Nat \ {0} : inbox'[c][k] = Said(c, m)
      <4>1. inbox'[c][k] = s[n + k] /\ n + k \in 1 .. Len(s) /\ k \in Nat
        BY <2>3, <2>5
      <4>2. conn[c] = "up" => (said[c] - Len(s)) + (n + k) = (said[c] - Len(inbox'[c])) + k
        BY <2>3, <2>5, <3>1, <4>1
      <4> QED
        BY <3>1, <4>1, <4>2
    <3> QED
      BY <1>0, <1>1, <2>1, <3>2, <3>3 DEF InboxOf
  <2>16. Inboxes'
    <3>1. ASSUME NEW d \in Clients \ {c} PROVE InboxOf(d)'
      BY <2>1, <2>5 DEF Inboxes, InboxOf
    <3> QED
      BY <2>15, <3>1 DEF Inboxes
  <2>17. ASSUME NEW d \in Clients \ {c}, NEW m \in Nat \ {0} PROVE Places(d, m)' = Places(d, m)
    <3>1. ASSUME NEW k \in 1 .. Len(msgs) PROVE msgs[k] # Said(d, m)
      BY <1>1, <1>4 DEF Said, Part, Garbled
    <3>2. ASSUME NEW i \in 1 .. Len(log'), log'[i] = Said(d, m)
          PROVE  i \in 1 .. Len(log) /\ log[i] = Said(d, m)
      <4>1. CASE i <= Len(log)
        BY <2>6, <3>2, <4>1
      <4>2. CASE ~(i <= Len(log))
        <5>1. i - Len(log) \in 1 .. Len(msgs) /\ log'[i] = msgs[i - Len(log)]
          BY <2>6, <4>2
        <5> QED
          BY <3>1, <3>2, <5>1
      <4> QED
        BY <4>1, <4>2
    <3>3. ASSUME NEW i \in 1 .. Len(log) PROVE i \in 1 .. Len(log') /\ log'[i] = log[i]
      BY <2>6
    <3> QED
      BY <3>2, <3>3 DEF Places
  <2>18. ASSUME FirstOwner(c) PROVE LoggedOf(c)'
    <3> DEFINE r == said[c] - Len(s)
    <3>1. /\ conn[c] = "up" /\ said[c] \in Nat /\ Len(s) <= said[c]
          /\ \A k \in 1 .. Len(s) : s[k] = Said(c, (said[c] - Len(s)) + k)
      BY <1>1, <2>18 DEF Inboxes, InboxOf, TypeOK, FirstOwner
    <3>2. /\ \A m \in Nat \ {0} : m <= r <=> Places(c, m) # {}
          /\ \A m, l \in Nat \ {0} : \A i \in Places(c, m), j \in Places(c, l) : i < j => m < l
      BY <1>1, <2>18 DEF Logged, LoggedOf
    <3>3. r \in Nat /\ said'[c] - Len(inbox'[c]) = r + n
      BY <2>1, <2>3, <2>5, <3>1
    <3>4. Len(msgs) = n /\ \A k \in 1 .. n : msgs[k] = Said(c, r + k)
      <4>1. msgs = SubSeq(s, 1, n)
        BY <1>4, <2>18, Zenon
      <4>2. Len(msgs) = n /\ \A k \in 1 .. n : msgs[k] = s[k]
        BY <2>4, <4>1, Zenon
      <4>3. \A k \in 1 .. n : k \in 1 .. Len(s)
        BY <2>3
      <4> QED
        BY <3>1, <4>2, <4>3, Zenon
    <3> HIDE DEF r
    <3>5. ASSUME NEW i \in 1 .. Len(log) PROVE i \in 1 .. Len(log') /\ log'[i] = log[i]
      BY <2>6
    <3>6. ASSUME NEW k \in 1 .. n
          PROVE  Len(log) + k \in 1 .. Len(log') /\ log'[Len(log) + k] = Said(c, r + k)
      <4>1. /\ Len(log) + k \in 1 .. Len(log) + Len(msgs) /\ ~(Len(log) + k <= Len(log))
            /\ (Len(log) + k) - Len(log) = k
        BY <2>3, <2>6, <3>4
      <4> QED
        BY <2>6, <3>4, <4>1
    <3>7. ASSUME NEW m \in Nat \ {0}, NEW i \in 1 .. Len(log'), log'[i] = Said(c, m)
          PROVE  \/ i \in Places(c, m)
                 \/ i > Len(log) /\ m = r + (i - Len(log))
      <4>1. CASE i <= Len(log)
        BY <2>6, <3>7, <4>1 DEF Places
      <4>2. CASE ~(i <= Len(log))
        <5> DEFINE k == i - Len(log)
        <5>1. k \in 1 .. n /\ Len(log) + k = i /\ i > Len(log)
          BY <2>6, <3>4, <4>2
        <5> HIDE DEF k
        <5>2. Said(c, r + k) = Said(c, m)
          BY <3>6, <3>7, <5>1
        <5>3. m = r + k
          BY <5>2 DEF Said
        <5> QED
          BY <5>1, <5>3 DEF k
      <4> QED
        BY <4>1, <4>2
    <3>8. ASSUME NEW m \in Nat \ {0} PROVE m <= r + n <=> Places(c, m)' # {}
      <4>1. CASE m <= r
        <5>1. PICK i \in Places(c, m) : TRUE
          BY <3>2, <4>1
        <5>2. i \in Places(c, m)'
          BY <3>5, <5>1 DEF Places
        <5> QED
          BY <2>3, <3>3, <4>1, <5>2
      <4>2. CASE r < m /\ m <= r + n
        <5>1. m - r \in 1 .. n /\ r + (m - r) = m
          BY <2>3, <3>3, <4>2
        <5>2. Len(log) + (m - r) \in 1 .. Len(log') /\ log'[Len(log) + (m - r)] = Said(c, m)
          BY <3>6, <5>1
        <5>3. Len(log) + (m - r) \in Places(c, m)'
          BY <5>2 DEF Places
        <5> QED
          BY <4>2, <5>3
      <4>3. CASE r + n < m
        <5>1. Places(c, m) = {}
          BY <2>3, <3>2, <3>3, <4>3
        <5>2. ASSUME NEW i \in Places(c, m)' PROVE FALSE
          <6>1. i \in 1 .. Len(log') /\ log'[i] = Said(c, m)
            BY <5>2 DEF Places
          <6>2. i > Len(log) /\ m = r + (i - Len(log))
            BY <3>7, <5>1, <6>1
          <6>3. i - Len(log) <= n
            BY <2>6, <3>4, <6>1
          <6> QED
            BY <2>3, <2>6, <3>3, <4>3, <6>1, <6>2, <6>3
        <5>3. ~(m <= r + n)
          BY <2>3, <3>3, <4>3
        <5> QED
          BY <5>2, <5>3
      <4> QED
        BY <2>3, <3>3, <4>1, <4>2, <4>3
    <3>9. ASSUME NEW m \in Nat \ {0}, NEW l \in Nat \ {0},
                 NEW i \in Places(c, m)', NEW j \in Places(c, l)', i < j
          PROVE  m < l
      <4>1. /\ i \in 1 .. Len(log') /\ log'[i] = Said(c, m)
            /\ j \in 1 .. Len(log') /\ log'[j] = Said(c, l)
        BY DEF Places
      <4>2. CASE i \in Places(c, m) /\ j \in Places(c, l)
        BY <3>2, <3>9, <4>2
      <4>3. CASE i \in Places(c, m) /\ j > Len(log) /\ l = r + (j - Len(log))
        <5>1. m <= r
          BY <3>2, <4>3
        <5> QED
          BY <2>6, <3>3, <4>1, <4>3, <5>1
      <4>4. CASE i > Len(log) /\ m = r + (i - Len(log)) /\ j \in Places(c, l)
        <5>1. j \in 1 .. Len(log)
          BY <4>4 DEF Places
        <5> QED
          BY <2>6, <3>9, <4>1, <4>4, <5>1
      <4>5. CASE i > Len(log) /\ m = r + (i - Len(log)) /\ j > Len(log) /\ l = r + (j - Len(log))
        BY <2>6, <3>3, <3>9, <4>1, <4>5
      <4> QED
        BY <3>7, <4>1, <4>2, <4>3, <4>4, <4>5
    <3> QED
      BY <3>3, <3>8, <3>9 DEF LoggedOf
  <2>19. Logged'
    <3>1. ASSUME NEW d \in Clients \ {c}, FirstOwner(d) PROVE LoggedOf(d)'
      <4>1. LoggedOf(d)
        BY <3>1 DEF Logged
      <4>2. said'[d] - Len(inbox'[d]) = said[d] - Len(inbox[d])
        BY <2>1, <2>5
      <4> QED
        BY <2>17, <4>1, <4>2 DEF LoggedOf
    <3>2. ASSUME NEW d \in Clients, fdOf'[d] = 0, NEW m \in Nat \ {0} PROVE Places(d, m)' = {}
      <4>1. d # c /\ fdOf[d] = 0
        BY <1>0, <1>1, <2>1, <3>2
      <4> QED
        BY <2>17, <4>1 DEF Logged
    <3> QED
      BY <2>12, <2>18, <3>1, <3>2 DEF Logged
  <2> QED
    BY <2>8, <2>9, <2>10, <2>11, <2>14, <2>16, <2>19
<1> QED
  BY <1>7, <1>8

----------------------------------------------------------------------------
(* The invariant holds in every behaviour *)

LEMMA InitInv == Init => Inv
<1> SUFFICES ASSUME Init PROVE Inv
  OBVIOUS
<1>0. <<>> \in Seq(Units) /\ <<>> \in Seq(Clients) /\ Len(<<>>) = 0 /\ Limit \in Nat
  BY EmptySeq, ServerAssumption
<1>1. TypeOK
  <2>1. \A c \in Clients : net[c] = <<>>
    BY DEF Init
  <2>2. \A c \in Clients : Len(net[c]) <= Limit
    BY <1>0, <2>1
  <2> QED
    BY <1>0, <2>2 DEF Init, TypeOK
<1>2. ExitOnlyAfterALeave /\ Torn
  BY DEF Init, ExitOnlyAfterALeave, Torn
<1>3. Descriptors
  BY <1>0, ServerAssumption DEF Init, Descriptors, Distinct, Alive
<1>4. \A c \in Clients : ~FirstOwner(c)
  BY DEF Init, FirstOwner
<1>5. Streams
  BY <1>4 DEF Init, Streams
<1>6. Inboxes
  BY <1>0 DEF Init, Inboxes, InboxOf
<1>7. Logged
  BY <1>0, <1>4 DEF Init, Logged, Places
<1> QED
  BY <1>1, <1>2, <1>3, <1>5, <1>6, <1>7 DEF Inv

LEMMA NextInv == Inv /\ [Next]_vars => Inv'
<1> SUFFICES ASSUME Inv, [Next]_vars PROVE Inv'
  OBVIOUS
<1>1. CASE processMasterEvent
  <2>1. backlog # <<>>
    BY <1>1 DEF processMasterEvent
  <2>2. Head(backlog) \in Clients /\ NewFd \in Fds
    BY <2>1, HeadTailProperties, NewFdIs DEF Inv, TypeOK
  <2> QED
    BY <1>1, <2>2, AcceptKeeps, Zenon
<1>2. ASSUME NEW fd \in Fds, processClientEvent(fd) PROVE Inv'
  <2>1. PICK c \in Holder(fdOf, fd) :
          \/ conn[c] = "left" /\ Exit
          \/ conn[c] = "left" /\ deleteClient(fd)
          \/ /\ ready' = [ready EXCEPT ![fd] = {}]
             /\ reading' = IF "in" \in ready[fd] \/ inbox[c] # <<>> THEN fd ELSE 0
             /\ UNCHANGED <<conn, fdOf, backlog, inbox, net, masterReady, entries, queue,
                            need_write, receiver, exited, history>>
    BY <1>2 DEF processClientEvent
  <2>2. CASE conn[c] = "left" /\ Exit
    BY <2>2, ExitKeeps DEF Holder
  <2>3. CASE conn[c] = "left" /\ deleteClient(fd)
    BY <2>3, DeleteKeeps
  <2>4. CASE /\ ready' = [ready EXCEPT ![fd] = {}]
             /\ reading' = IF "in" \in ready[fd] \/ inbox[c] # <<>> THEN fd ELSE 0
             /\ UNCHANGED <<conn, fdOf, backlog, inbox, net, masterReady, entries, queue,
                            need_write, receiver, exited, history>>
    <3>1. ready' \in [Fds -> SUBSET {"in", "out"}]
      BY <2>4 DEF Inv, TypeOK
    <3>2. Holder(fdOf, fd) # {}
      BY <2>1
    <3>3. reading' \in {0} \cup {f \in Fds : Holder(fdOf, f) # {}}
      BY <2>4, <3>2
    <3> QED
      BY <2>4, <3>1, <3>3, ReadingKeeps, Zenon
  <2> QED
    BY <2>1, <2>2, <2>3, <2>4
<1>3. ASSUME NEW fd \in Fds, readClient(fd) PROVE Inv'
  <2>1. /\ reading = fd
        /\ \E c \in Holder(fdOf, fd) :
             \/ Receive(c, fd)
             \/ /\ Drained(c)
                /\ reading' = 0
                /\ UNCHANGED <<kernel, entries, queue, need_write, receiver, exited, history>>
             \/ /\ inbox[c] = <<>> /\ conn[c] = "left"
                /\ deleteClient(fd) \/ Exit
    BY <1>3 DEF readClient
  <2>2. PICK c \in Holder(fdOf, fd) :
             \/ Receive(c, fd)
             \/ /\ Drained(c)
                /\ reading' = 0
                /\ UNCHANGED <<kernel, entries, queue, need_write, receiver, exited, history>>
             \/ /\ inbox[c] = <<>> /\ conn[c] = "left"
                /\ deleteClient(fd) \/ Exit
    BY <2>1
  <2>3. CASE Receive(c, fd)
    BY <2>1, <2>3, ReceiveKeeps
  <2>4. CASE /\ reading' = 0
             /\ UNCHANGED <<kernel, entries, queue, need_write, receiver, exited, history>>
    <3>1. ready' \in [Fds -> SUBSET {"in", "out"}]
      BY <2>4 DEF Inv, TypeOK, kernel
    <3>2. UNCHANGED <<conn, fdOf, backlog, inbox, net, masterReady, entries, queue,
                      need_write, receiver, exited, history>>
      BY <2>4 DEF kernel
    <3>3. reading' \in {0} \cup {f \in Fds : Holder(fdOf, f) # {}}
      BY <2>4
    <3> QED
      BY <3>1, <3>2, <3>3, ReadingKeeps, Zenon
  <2>5. CASE conn[c] = "left" /\ (deleteClient(fd) \/ Exit)
    <3>1. \E d \in Clients : conn[d] \in {"left", "gone"}
      BY <2>5 DEF Holder
    <3>2. \E d \in Holder(fdOf, fd) : conn[d] = "left"
      BY <2>5
    <3> QED
      BY <2>5, <3>1, <3>2, ExitKeeps, DeleteKeeps
  <2> QED
    BY <2>2, <2>3, <2>4, <2>5
<1>4. ASSUME NEW c \in Clients, Connect(c) \/ Say(c) \/ Read(c) \/ Leave(c) PROVE Inv'
  BY <1>4, ConnectKeeps, SayKeeps, ReadKeeps, LeaveKeeps
<1>5. CASE UNCHANGED vars
  <2>1. UNCHANGED <<conn, fdOf, backlog, inbox, net, masterReady, entries, queue,
                    need_write, receiver, exited, history>>
        /\ ready' = ready /\ reading' = reading
    BY <1>5 DEF vars, kernel, server
  <2>2. ready' \in [Fds -> SUBSET {"in", "out"}]
    BY <2>1 DEF Inv, TypeOK
  <2>3. reading' \in {0} \cup {f \in Fds : Holder(fdOf, f) # {}}
    BY <2>1 DEF Inv, TypeOK, Descriptors
  <2> QED
    BY <2>1, <2>2, <2>3, ReadingKeeps, Zenon
<1> QED
  BY <1>1, <1>2, <1>3, <1>4, <1>5 DEF Next, Server

LEMMA Always == Spec => []Inv
<1>1. Init => Inv
  BY InitInv
<1>2. Inv /\ [Next]_vars => Inv'
  BY NextInv
<1> QED
  BY <1>1, <1>2, PTL DEF Spec

----------------------------------------------------------------------------
(* What follows *)

\* The state has its type; no client's share of the kernel's buffers is exceeded.
THEOREM TypeCorrect == Spec => []TypeOK
<1>1. Inv => TypeOK
  BY DEF Inv
<1> QED
  BY <1>1, Always, PTL

\* The server ends only after a client has closed its connection: however many
\* clients there are and however slowly they read, they do not end it.
THEOREM Ending == Spec => []ExitOnlyAfterALeave
<1>1. Inv => ExitOnlyAfterALeave
  BY DEF Inv
<1> QED
  BY <1>1, Always, PTL

\* Every client hears the greeting and then what was broadcast since it was
\* accepted, each message once and all in the order of the log, unless somebody
\* had its descriptor before.
THEOREM Order == Spec => []SameOrder
<1>1. Inv => SameOrder
  BY DEF Inv, Streams, StreamOf, Stream, SameOrder
<1> QED
  BY <1>1, Always, PTL

\* What such a client says is broadcast, once and in the order it was said.
THEOREM Lossless == Spec => []NoneLost
<1>1. ASSUME Inv, NEW c \in Clients, FirstOwner(c)
      PROVE  inbox[c] = [k \in 1 .. Len(inbox[c]) |-> Said(c, (said[c] - Len(inbox[c])) + k)]
  <2>1. \A k \in 1 .. Len(inbox[c]) : inbox[c][k] = Said(c, (said[c] - Len(inbox[c])) + k)
    BY <1>1 DEF Inv, Inboxes, InboxOf, FirstOwner
  <2>2. inbox[c] = [k \in 1 .. Len(inbox[c]) |-> inbox[c][k]]
    <3>1. inbox[c] \in [1 .. Len(inbox[c]) -> Units]
      BY <1>1, LenProperties DEF Inv, TypeOK
    <3> QED
      BY <3>1
  <2> QED
    BY <2>1, <2>2
<1>2. ASSUME Inv, NEW c \in Clients, FirstOwner(c) PROVE LoggedOf(c)
  BY <1>2 DEF Inv, Logged
<1>3. 1 .. MaxTalk \subseteq Nat \ {0}
  OBVIOUS
<1>4. Inv => NoneLost
  BY <1>1, <1>2, <1>3 DEF NoneLost, LoggedOf, Places
<1> QED
  BY <1>4, Always, PTL

=============================================================================
