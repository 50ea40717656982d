---------------------------- MODULE ProxyProofs ----------------------------
(***************************************************************************)
(* Proofs about Proxy: both relays of a client are byte queues that end    *)
(* together, and a client is kept alive by its handlers.                   *)
(***************************************************************************)
EXTENDS Proxy, SequenceLemmas

----------------------------------------------------------------------------
(* The inductive invariant *)

Ops == [kind : {"none", "receive", "send"}, state : {"none", "pending", "done", "failed"},
        size : 0 .. BufSize]

\* The functions the relays are kept in, completely typed.
Typed ==
  /\ ind_number \in 1 .. MaxNumber + 1 /\ cur_client = ind_number - 1
  /\ connecting \in [Numbers -> {"no", "pending", "done", "failed", "made", "refused"}]
  /\ open \in [Numbers -> BOOLEAN]
  /\ op \in [Numbers -> [Dirs -> Ops]]
  /\ buf \in [Numbers -> [Dirs -> Seq(Nat)]] /\ out \in [Numbers -> [Dirs -> Seq(Nat)]]
  /\ size_message \in [Numbers -> [Dirs -> Nat]] /\ cur_size \in [Numbers -> [Dirs -> Nat]]
  /\ wrote \in [Numbers -> [Dirs -> Nat]] /\ taken \in [Numbers -> [Dirs -> Nat]]
  /\ left \in [Numbers -> [Dirs -> BOOLEAN]]

\* The map has its clients under the number of the next one, and numbers that were
\* not given out are unused.
Book ==
  /\ \A k \in DOMAIN clients : k \in 1 .. ind_number - 1 /\ clients[k] = k - 1
  /\ \A c \in Numbers : c >= cur_client => connecting[c] = "no"

\* The sockets of a client are open until its connect fails or it stops.
Sockets ==
  \A c \in Numbers :
    /\ connecting[c] = "no" => ~open[c]
    /\ connecting[c] \in {"pending", "done", "failed"} => open[c]

\* One relay.  While bytes are sent, the buffer holds the last ones that were
\* taken, of which size_message - cur_size are not out; while bytes are
\* received, all that were taken are out.
RelayOK(conn, isopen, o, b, sm, cs, w, t, sent) ==
  /\ t <= w /\ Len(sent) <= t
  /\ b \in Seq(1 .. t) /\ Len(b) <= BufSize /\ cs <= sm /\ sm <= Len(b)
  /\ conn # "made" => o = Idle /\ sm = 0 /\ cs = 0 /\ Len(sent) = t
  /\ o.state = "pending" => isopen
  /\ (o.kind = "receive" /\ o.state = "pending") => sm = 0 /\ cs = 0 /\ Len(sent) = t
  /\ (o.kind = "receive" /\ o.state = "done") =>
       /\ sm = 0 /\ cs = 0 /\ Len(sent) = t - o.size
       /\ b = Bytes(t - o.size, o.size)
  /\ (o.kind = "send" /\ o.state = "pending") =>
       b = Bytes(t - sm, sm) /\ Len(sent) = (t - sm) + cs
  /\ (o.kind = "send" /\ o.state = "done") =>
       /\ b = Bytes(t - sm, sm) /\ Len(sent) = (t - sm) + cs + o.size
       /\ cs + o.size <= sm

RelayAt(c, d) ==
  /\ wrote[c][d] <= MaxWrites[c][d]
  /\ RelayOK(connecting[c], open[c], op[c][d], buf[c][d], size_message[c][d], cur_size[c][d],
             wrote[c][d], taken[c][d], out[c][d])

Relays == \A c \in Numbers, d \in Dirs : RelayAt(c, d)

Inv == Typed /\ Book /\ Sockets /\ Relays

LEMMA InvTypeOK == Inv => TypeOK
<1> SUFFICES ASSUME Inv PROVE TypeOK
  OBVIOUS
<1> USE ProxyAssumption
<1>1. /\ ind_number \in Numbers \cup {MaxNumber + 1} /\ cur_client = ind_number - 1
      /\ connecting \in [Numbers -> {"no", "pending", "done", "failed", "made", "refused"}]
      /\ open \in [Numbers -> BOOLEAN]
  BY DEF Inv, Typed, Numbers
<1>2. DOMAIN clients \subseteq Numbers /\ \A k \in DOMAIN clients : clients[k] \in Numbers
  BY DEF Inv, Typed, Book, Numbers
<1>3. ASSUME NEW c \in Numbers, NEW d \in Dirs
      PROVE  /\ op[c][d].kind \in {"none", "receive", "send"}
             /\ op[c][d].state \in {"none", "pending", "done", "failed"}
             /\ op[c][d].size \in 0 .. BufSize
             /\ buf[c][d] \in Seq(1 .. taken[c][d]) /\ Len(buf[c][d]) <= BufSize
             /\ size_message[c][d] \in 0 .. Len(buf[c][d])
             /\ cur_size[c][d] \in 0 .. size_message[c][d]
             /\ taken[c][d] \in 0 .. wrote[c][d] /\ wrote[c][d] \in 0 .. MaxWrites[c][d]
             /\ left[c][d] \in BOOLEAN
  <2>1. op[c][d] \in Ops /\ left[c][d] \in BOOLEAN
    BY DEF Inv, Typed
  <2>2. /\ size_message[c][d] \in Nat /\ cur_size[c][d] \in Nat
        /\ wrote[c][d] \in Nat /\ taken[c][d] \in Nat /\ MaxWrites[c][d] \in Nat
        /\ buf[c][d] \in Seq(Nat)
    BY DEF Inv, Typed
  <2>3. Len(buf[c][d]) \in Nat
    BY <2>2, LenProperties
  <2>4. RelayAt(c, d)
    BY DEF Inv, Relays
  <2> QED
    BY <2>1, <2>2, <2>3, <2>4 DEF RelayAt, RelayOK, Ops
<1> QED
  BY <1>1, <1>2, <1>3, Zenon DEF TypeOK

LEMMA InitInv == Init => Inv
<1> SUFFICES ASSUME Init PROVE Inv
  OBVIOUS
<1> USE ProxyAssumption
<1>0. Len(<<>>) = 0 /\ \A S : <<>> \in Seq(S)
  BY EmptySeq
<1>1. Typed
  BY <1>0 DEF Init, Typed, EachRelay, Idle, Ops
<1>2. Book
  BY DEF Init, Book
<1>3. Sockets
  BY DEF Init, Sockets
<1>4. ASSUME NEW c \in Numbers, NEW d \in Dirs PROVE RelayAt(c, d)
  <2>1. /\ connecting[c] = "no" /\ open[c] = FALSE /\ op[c][d] = Idle /\ buf[c][d] = <<>>
        /\ size_message[c][d] = 0 /\ cur_size[c][d] = 0 /\ wrote[c][d] = 0 /\ taken[c][d] = 0
        /\ out[c][d] = <<>> /\ MaxWrites[c][d] \in Nat
    BY DEF Init, EachRelay
  <2> QED
    BY <1>0, <2>1 DEF RelayAt, RelayOK, Idle
<1> QED
  BY <1>1, <1>2, <1>3, <1>4 DEF Inv, Relays

----------------------------------------------------------------------------
(* Types *)

LEMMA Indices ==
  ASSUME Typed, NEW c \in Numbers, NEW d \in Dirs
  PROVE  /\ op[c][d] \in Ops /\ buf[c][d] \in Seq(Nat) /\ out[c][d] \in Seq(Nat)
         /\ size_message[c][d] \in Nat /\ cur_size[c][d] \in Nat
         /\ wrote[c][d] \in Nat /\ taken[c][d] \in Nat /\ left[c][d] \in BOOLEAN
         /\ Len(buf[c][d]) \in Nat /\ Len(out[c][d]) \in Nat
<1>1. buf[c][d] \in Seq(Nat) /\ out[c][d] \in Seq(Nat)
  BY DEF Typed
<1>2. Len(buf[c][d]) \in Nat /\ Len(out[c][d]) \in Nat
  BY <1>1, LenProperties
<1> QED
  BY <1>1, <1>2 DEF Typed

\* The operations that a step leaves or starts are operations.
LEMMA SomeOps ==
  /\ Idle \in Ops /\ Pending("receive") \in Ops /\ Pending("send") \in Ops
  /\ [Pending("receive") EXCEPT !.state = "failed"] \in Ops
  /\ [Pending("send") EXCEPT !.state = "failed"] \in Ops
BY ProxyAssumption DEF Idle, Pending, Ops

LEMMA CancelledOps ==
  ASSUME NEW ops \in [Dirs -> Ops]
  PROVE  /\ Cancelled(ops) \in [Dirs -> Ops]
         /\ \A f \in Dirs : /\ Cancelled(ops)[f].state # "pending"
                            /\ Cancelled(ops)[f].state # "failed" => Cancelled(ops)[f] = ops[f]
BY DEF Cancelled, Ops

LEMMA Update2 ==
  ASSUME NEW X, NEW F \in [Numbers -> [Dirs -> X]], NEW c \in Numbers, NEW d \in Dirs, NEW x \in X,
         NEW G, G = [F EXCEPT ![c][d] = x]
  PROVE  /\ G \in [Numbers -> [Dirs -> X]]
         /\ \A e \in Numbers, f \in Dirs : G[e][f] = IF e = c /\ f = d THEN x ELSE F[e][f]
OBVIOUS

LEMMA CompleteIs ==
  ASSUME op \in [Numbers -> [Dirs -> Ops]], NEW c \in Numbers, NEW d \in Dirs,
         NEW state \in {"done", "failed"}, NEW n \in 0 .. BufSize, Complete(c, d, state, n)
  PROVE  /\ op' = [op EXCEPT ![c][d] = [kind |-> op[c][d].kind, state |-> state, size |-> n]]
         /\ [kind |-> op[c][d].kind, state |-> state, size |-> n] \in Ops
<1>1. PICK k \in {"none", "receive", "send"}, s \in {"none", "pending", "done", "failed"}, z \in 0 .. BufSize :
        op[c][d] = [kind |-> k, state |-> s, size |-> z]
  BY ZenonT(40) DEF Ops
<1> DEFINE o1 == [kind |-> k, state |-> state, size |-> z]
           o2 == [kind |-> k, state |-> state, size |-> n]
           p1 == [op EXCEPT ![c][d] = o1]
<1>2. [op[c][d] EXCEPT !.state = state] = o1 /\ op[c][d].kind = k
  BY <1>1
<1>3. [o1 EXCEPT !.size = n] = o2
  OBVIOUS
<1>4. o1 \in Ops /\ o2 \in Ops
  BY DEF Ops
<1> HIDE DEF o1, Ops
<1>5. op' = [p1 EXCEPT ![c][d].size = n]
  BY <1>2 DEF Complete
<1>6. p1[c][d] = o1 /\ p1 \in [Numbers -> [Dirs -> Ops]]
  BY <1>4
<1>7. op' = [p1 EXCEPT ![c][d] = o2]
  BY <1>3, <1>5, <1>6
<1>8. op' = [op EXCEPT ![c][d] = o2]
  <2> HIDE DEF o2
  <2> QED BY <1>4, <1>7
<1> QED
  BY <1>2, <1>4, <1>8

\* Every relay but that of c in direction d keeps its operation and its bytes.
Elsewhere(c, d) ==
  \A e \in Numbers, f \in Dirs : (e # c \/ f # d) =>
    /\ op'[e][f] = op[e][f] /\ buf'[e][f] = buf[e][f]
    /\ size_message'[e][f] = size_message[e][f] /\ cur_size'[e][f] = cur_size[e][f]
    /\ wrote'[e][f] = wrote[e][f] /\ taken'[e][f] = taken[e][f] /\ out'[e][f] = out[e][f]

Result(kind, state, n) == [kind |-> kind, state |-> state, size |-> n]

LEMMA CompletedOp ==
  ASSUME Typed, NEW c \in Numbers, NEW d \in Dirs, NEW state \in {"done", "failed"},
         NEW n \in 0 .. BufSize, Complete(c, d, state, n)
  PROVE  /\ op' \in [Numbers -> [Dirs -> Ops]]
         /\ op'[c][d] = Result(op[c][d].kind, state, n)
         /\ \A e \in Numbers, f \in Dirs : (e # c \/ f # d) => op'[e][f] = op[e][f]
<1>1. op \in [Numbers -> [Dirs -> Ops]]
  BY DEF Typed
<1>2. /\ op' = [op EXCEPT ![c][d] = Result(op[c][d].kind, state, n)]
      /\ Result(op[c][d].kind, state, n) \in Ops
  BY <1>1, CompleteIs DEF Result
<1> QED
  BY <1>1, <1>2, Update2

LEMMA ReceivedIs ==
  ASSUME Typed, NEW c \in Numbers, NEW d \in Dirs, Received(c, d)
  PROVE  /\ Typed' /\ Elsewhere(c, d)
         /\ UNCHANGED <<connecting, open, size_message, cur_size, wrote, out>>
         /\ op[c][d].kind = "receive" /\ op[c][d].state = "pending"
         /\ \/ \E n \in 1 .. BufSize :
                 /\ n <= wrote[c][d] - taken[c][d]
                 /\ op'[c][d] = Result("receive", "done", n)
                 /\ buf'[c][d] = Bytes(taken[c][d], n) /\ taken'[c][d] = taken[c][d] + n
            \/ op'[c][d] = Result("receive", "failed", 0) /\ UNCHANGED <<buf, taken>>
<1>1. taken[c][d] \in Nat /\ \A n \in Nat : Bytes(taken[c][d], n) \in Seq(Nat)
  BY Indices, BytesSeq
<1>2. BufSize \in Nat /\ 1 .. BufSize \subseteq 0 .. BufSize /\ 1 .. BufSize \subseteq Nat
  BY ProxyAssumption
<1>3. CASE \E n \in 1 .. BufSize :
             /\ n <= wrote[c][d] - taken[c][d]
             /\ Complete(c, d, "done", n)
             /\ buf' = [buf EXCEPT ![c][d] = Bytes(taken[c][d], n)]
             /\ taken' = [taken EXCEPT ![c][d] = @ + n]
  <2>1. PICK n \in 1 .. BufSize :
             /\ n <= wrote[c][d] - taken[c][d]
             /\ Complete(c, d, "done", n)
             /\ buf' = [buf EXCEPT ![c][d] = Bytes(taken[c][d], n)]
             /\ taken' = [taken EXCEPT ![c][d] = taken[c][d] + n]
    BY <1>3
  <2>2. n \in Nat /\ n \in 0 .. BufSize /\ taken[c][d] + n \in Nat
    BY ONLY <1>1, <1>2, <2>1, SMTT(30)
  <2>3. /\ op' \in [Numbers -> [Dirs -> Ops]] /\ op'[c][d] = Result("receive", "done", n)
        /\ \A e \in Numbers, f \in Dirs : (e # c \/ f # d) => op'[e][f] = op[e][f]
    BY <2>1, <2>2, CompletedOp DEF Received
  <2>4. /\ buf' \in [Numbers -> [Dirs -> Seq(Nat)]] /\ buf'[c][d] = Bytes(taken[c][d], n)
        /\ \A e \in Numbers, f \in Dirs : (e # c \/ f # d) => buf'[e][f] = buf[e][f]
    <3>1. Bytes(taken[c][d], n) \in Seq(Nat)
      BY <1>1, <2>2
    <3> QED
      BY <2>1, <3>1, Update2, SMTT(30) DEF Typed
  <2>5. /\ taken' \in [Numbers -> [Dirs -> Nat]] /\ taken'[c][d] = taken[c][d] + n
        /\ \A e \in Numbers, f \in Dirs : (e # c \/ f # d) => taken'[e][f] = taken[e][f]
    BY <2>1, <2>2, Update2 DEF Typed
  <2>6. /\ op[c][d].kind = "receive" /\ op[c][d].state = "pending"
        /\ UNCHANGED <<father, connecting, open, size_message, cur_size, wrote, out, left>>
    BY DEF Received
  <2>7. Typed'
    BY <2>3, <2>4, <2>5, <2>6 DEF Typed, father
  <2>8. Elsewhere(c, d)
    BY <2>3, <2>4, <2>5, <2>6 DEF Elsewhere
  <2> QED
    BY <2>1, <2>3, <2>4, <2>5, <2>6, <2>7, <2>8
<1>4. CASE Complete(c, d, "failed", 0) /\ UNCHANGED <<buf, taken>>
  <2>1. /\ op' \in [Numbers -> [Dirs -> Ops]] /\ op'[c][d] = Result("receive", "failed", 0)
        /\ \A e \in Numbers, f \in Dirs : (e # c \/ f # d) => op'[e][f] = op[e][f]
    BY <1>2, <1>4, CompletedOp DEF Received
  <2>2. /\ op[c][d].kind = "receive" /\ op[c][d].state = "pending"
        /\ UNCHANGED <<father, connecting, open, size_message, cur_size, wrote, out, left>>
    BY DEF Received
  <2>3. Typed'
    BY ONLY <1>4, <2>1, <2>2, Typed, Zenon DEF Typed, father
  <2>4. Elsewhere(c, d)
    BY <1>4, <2>1, <2>2 DEF Elsewhere
  <2> QED
    BY <1>4, <2>1, <2>2, <2>3, <2>4
<1> QED
  BY <1>3, <1>4 DEF Received

\* A piece of a message of a buffer is in the buffer.
LEMMA PieceBounds ==
  ASSUME NEW n \in Nat, NEW size \in Nat, NEW cur \in Nat, NEW len \in Nat, NEW max \in Nat,
         n <= size - cur, cur <= size, size <= len, len <= max
  PROVE  n \in 0 .. max /\ cur \in 0 .. len /\ cur + n \in cur .. len
OBVIOUS

LEMMA SentIs ==
  ASSUME Typed, Relays, NEW c \in Numbers, NEW d \in Dirs, Sent(c, d)
  PROVE  /\ Typed' /\ Elsewhere(c, d)
         /\ UNCHANGED <<connecting, open, buf, size_message, cur_size, wrote, taken>>
         /\ op[c][d].kind = "send" /\ op[c][d].state = "pending"
         /\ \/ \E n \in 1 .. size_message[c][d] - cur_size[c][d] :
                 /\ op'[c][d] = Result("send", "done", n)
                 /\ out'[c][d] = out[c][d] \o SubSeq(buf[c][d], cur_size[c][d] + 1, cur_size[c][d] + n)
                 /\ out' = [out EXCEPT ![c][d] = out'[c][d]]
            \/ op'[c][d] = Result("send", "failed", 0) /\ UNCHANGED out
<1>1. /\ RelayAt(c, d)
      /\ size_message[c][d] \in Nat /\ cur_size[c][d] \in Nat /\ buf[c][d] \in Seq(Nat)
      /\ Len(buf[c][d]) \in Nat /\ out[c][d] \in Seq(Nat)
  BY Indices DEF Relays
<1>2. /\ op[c][d].kind = "send" /\ op[c][d].state = "pending"
      /\ UNCHANGED <<father, connecting, open, buf, size_message, cur_size, wrote, taken, left>>
  BY ONLY Sent(c, d), ZenonT(20) DEF Sent
<1>3. CASE \E n \in 1 .. size_message[c][d] - cur_size[c][d] :
             /\ Complete(c, d, "done", n)
             /\ out' = [out EXCEPT ![c][d] =
                          @ \o SubSeq(buf[c][d], cur_size[c][d] + 1, cur_size[c][d] + n)]
  <2>1. PICK n \in 1 .. size_message[c][d] - cur_size[c][d] :
             /\ Complete(c, d, "done", n)
             /\ out' = [out EXCEPT ![c][d] =
                          out[c][d] \o SubSeq(buf[c][d], cur_size[c][d] + 1, cur_size[c][d] + n)]
    BY <1>3
  <2>2. /\ size_message[c][d] <= Len(buf[c][d]) /\ Len(buf[c][d]) <= BufSize
        /\ cur_size[c][d] <= size_message[c][d] /\ BufSize \in Nat
    BY <1>1, ProxyAssumption DEF RelayAt, RelayOK
  <2>3. /\ n \in 0 .. BufSize /\ cur_size[c][d] \in 0 .. Len(buf[c][d])
        /\ cur_size[c][d] + n \in cur_size[c][d] .. Len(buf[c][d])
    <3>1. n \in 1 .. size_message[c][d] - cur_size[c][d]
      BY <2>1
    <3>2. n \in Nat /\ n <= size_message[c][d] - cur_size[c][d]
      BY <1>1, <3>1
    <3> QED
      BY <1>1, <2>2, <3>2, PieceBounds, Zenon
  <2> DEFINE piece == SubSeq(buf[c][d], cur_size[c][d] + 1, cur_size[c][d] + n)
  <2>4. piece \in Seq(Nat)
    BY <1>1, <2>3, SubSeqNats, Zenon
  <2>5. out' = [out EXCEPT ![c][d] = out[c][d] \o piece]
    BY <2>1
  <2> HIDE DEF piece
  <2>6. out[c][d] \o piece \in Seq(Nat)
    BY <1>1, <2>4, ConcatProperties
  <2>7. /\ out' \in [Numbers -> [Dirs -> Seq(Nat)]] /\ out'[c][d] = out[c][d] \o piece
        /\ \A e \in Numbers, f \in Dirs : (e # c \/ f # d) => out'[e][f] = out[e][f]
    BY <2>5, <2>6, Update2, SMTT(30) DEF Typed
  <2>8. /\ op' \in [Numbers -> [Dirs -> Ops]] /\ op'[c][d] = Result("send", "done", n)
        /\ \A e \in Numbers, f \in Dirs : (e # c \/ f # d) => op'[e][f] = op[e][f]
    BY <1>2, <2>1, <2>3, CompletedOp
  <2>9. Typed'
    BY <1>2, <2>7, <2>8 DEF Typed, father
  <2>10. Elsewhere(c, d)
    BY <1>2, <2>7, <2>8 DEF Elsewhere
  <2> QED
    BY <1>2, <2>5, <2>7, <2>8, <2>9, <2>10 DEF piece
<1>4. CASE Complete(c, d, "failed", 0) /\ UNCHANGED out
  <2>1. /\ op' \in [Numbers -> [Dirs -> Ops]] /\ op'[c][d] = Result("send", "failed", 0)
        /\ \A e \in Numbers, f \in Dirs : (e # c \/ f # d) => op'[e][f] = op[e][f]
    BY <1>2, <1>4, CompletedOp, ProxyAssumption
  <2>2. Typed'
    BY <1>2, <1>4, <2>1 DEF Typed, father
  <2>3. Elsewhere(c, d)
    BY <1>2, <1>4, <2>1 DEF Elsewhere
  <2> QED
    BY <1>2, <1>4, <2>1, <2>2, <2>3
<1> QED
  BY <1>3, <1>4, ZenonT(40) DEF Sent

LEMMA WriteIs ==
  ASSUME Typed, NEW c \in Numbers, NEW d \in Dirs, Write(c, d)
  PROVE  /\ Typed' /\ Elsewhere(c, d)
         /\ UNCHANGED <<connecting, open, op, buf, size_message, cur_size, taken, out>>
         /\ wrote[c][d] < MaxWrites[c][d] /\ wrote'[c][d] = wrote[c][d] + 1
<1>1. wrote[c][d] + 1 \in Nat
  BY Indices
<1>2. /\ wrote[c][d] < MaxWrites[c][d]
      /\ wrote' = [wrote EXCEPT ![c][d] = wrote[c][d] + 1]
      /\ UNCHANGED <<father, relay, taken, out, left>>
  BY DEF Write
<1>3. /\ wrote' \in [Numbers -> [Dirs -> Nat]] /\ wrote'[c][d] = wrote[c][d] + 1
      /\ \A e \in Numbers, f \in Dirs : (e # c \/ f # d) => wrote'[e][f] = wrote[e][f]
  BY <1>1, <1>2, Update2 DEF Typed
<1>4. Typed'
  BY <1>2, <1>3 DEF Typed, father, relay
<1>5. Elsewhere(c, d)
  BY <1>2, <1>3 DEF Elsewhere, relay
<1> QED
  BY <1>2, <1>3, <1>4, <1>5 DEF relay

LEMMA LeaveIs ==
  ASSUME Typed, NEW c \in Numbers, NEW d \in Dirs, Leave(c, d)
  PROVE  Typed' /\ UNCHANGED <<father, relay, wrote, taken, out>>
BY DEF Typed, Leave, father, relay

LEMMA ConnectedIs ==
  ASSUME Typed, NEW c \in Numbers, Connected(c)
  PROVE  /\ Typed' /\ UNCHANGED <<father, open, op, buf, size_message, cur_size, peers>>
         /\ connecting[c] = "pending" /\ connecting'[c] \in {"done", "failed"}
         /\ \A e \in Numbers : e # c => connecting'[e] = connecting[e]
BY DEF Typed, Connected, father, peers

LEMMA StopIs ==
  ASSUME Typed, NEW c \in Numbers, NEW d \in Dirs, stop(c, d)
  PROVE  /\ Typed'
         /\ UNCHANGED <<ind_number, cur_client, connecting, buf, size_message, cur_size, peers>>
         /\ open' = [open EXCEPT ![c] = FALSE] /\ open'[c] = FALSE
         /\ \A e \in Numbers : e # c => op'[e] = op[e] /\ open'[e] = open[e]
         /\ op'[c][d] = Idle
         /\ \A f \in Dirs : /\ op'[c][f].state # "pending"
                            /\ op'[c][f].state # "failed" => op'[c][f] \in {Idle, op[c][f]}
         /\ erase(c)
<1> DEFINE rest == [op[c] EXCEPT ![d] = Idle]
<1>0. op \in [Numbers -> [Dirs -> Ops]]
  BY DEF Typed
<1>1. rest \in [Dirs -> Ops] /\ \A f \in Dirs : rest[f] = IF f = d THEN Idle ELSE op[c][f]
  BY <1>0, SomeOps
<1>2. op' = [op EXCEPT ![c] = Cancelled(rest)]
  BY DEF stop
<1>3. Idle.state = "none"
  BY DEF Idle
<1> HIDE DEF rest
<1>4. /\ Cancelled(rest) \in [Dirs -> Ops]
      /\ \A f \in Dirs : /\ Cancelled(rest)[f].state # "pending"
                         /\ Cancelled(rest)[f].state # "failed" => Cancelled(rest)[f] = rest[f]
  BY <1>1, CancelledOps
<1>5. op' \in [Numbers -> [Dirs -> Ops]] /\ op'[c] = Cancelled(rest)
      /\ \A e \in Numbers : e # c => op'[e] = op[e]
  BY <1>0, <1>2, <1>4
<1>6. Cancelled(rest)[d] = Idle
  BY <1>1, <1>3 DEF Cancelled
<1>7. /\ UNCHANGED <<ind_number, cur_client, connecting, buf, size_message, cur_size, peers>>
      /\ open' = [open EXCEPT ![c] = FALSE]
      /\ erase(c)
  BY DEF stop
<1>8. open' \in [Numbers -> BOOLEAN] /\ open'[c] = FALSE /\ \A e \in Numbers : e # c => open'[e] = open[e]
  BY <1>7 DEF Typed
<1>9. Typed'
  BY <1>5, <1>7, <1>8 DEF Typed, peers
<1> QED
  BY <1>1, <1>4, <1>5, <1>6, <1>7, <1>8, <1>9

\* A started operation is pending, or has failed where the sockets are closed.
LEMMA StartIs ==
  ASSUME Typed, NEW c \in Numbers, NEW d \in Dirs, NEW kind \in {"receive", "send"},
         Start(c, d, kind)
  PROVE  /\ op' \in [Numbers -> [Dirs -> Ops]]
         /\ op'[c][d] = Result(kind, IF open[c] THEN "pending" ELSE "failed", 0)
         /\ \A e \in Numbers, f \in Dirs : (e # c \/ f # d) => op'[e][f] = op[e][f]
<1>1. op \in [Numbers -> [Dirs -> Ops]] /\ open[c] \in BOOLEAN
  BY DEF Typed
<1> DEFINE o == Result(kind, IF open[c] THEN "pending" ELSE "failed", 0)
<1>2. o \in Ops
  BY <1>1, ProxyAssumption DEF Result, Ops
<1>3. [Pending(kind) EXCEPT !.state = "failed"] = Result(kind, "failed", 0)
      /\ Pending(kind) = Result(kind, "pending", 0)
  BY DEF Pending, Result
<1>4. op' = [op EXCEPT ![c][d] = o]
  BY <1>1, <1>3 DEF Start
<1> QED
  BY <1>1, <1>2, <1>4, Update2

\* A handler that goes on: the bytes received are sent, or the rest of them, or
\* the next ones are received.
LEMMA ReadIs ==
  ASSUME Typed, NEW c \in Numbers, NEW d \in Dirs, Read(c, d), ~Failed(c, d, "receive")
  PROVE  /\ Typed' /\ Elsewhere(c, d)
         /\ UNCHANGED <<father, connecting, open, buf, peers>>
         /\ op[c][d].kind = "receive" /\ op[c][d].state = "done"
         /\ cur_size'[c][d] = 0 /\ size_message'[c][d] = op[c][d].size
         /\ op'[c][d] = Result("send", IF open[c] THEN "pending" ELSE "failed", 0)
<1>1. op[c][d].size \in Nat
  BY Indices, ProxyAssumption DEF Ops
<1>2. /\ op[c][d].kind = "receive" /\ op[c][d].state = "done"
      /\ cur_size' = [cur_size EXCEPT ![c][d] = 0]
      /\ size_message' = [size_message EXCEPT ![c][d] = op[c][d].size]
      /\ Start(c, d, "send")
      /\ UNCHANGED <<father, connecting, open, buf, peers>>
  BY DEF Read
<1>3. /\ op' \in [Numbers -> [Dirs -> Ops]]
      /\ op'[c][d] = Result("send", IF open[c] THEN "pending" ELSE "failed", 0)
      /\ \A e \in Numbers, f \in Dirs : (e # c \/ f # d) => op'[e][f] = op[e][f]
  BY <1>2, StartIs
<1>4. /\ cur_size' \in [Numbers -> [Dirs -> Nat]] /\ cur_size'[c][d] = 0
      /\ \A e \in Numbers, f \in Dirs : (e # c \/ f # d) => cur_size'[e][f] = cur_size[e][f]
  BY <1>2, Update2 DEF Typed
<1>5. /\ size_message' \in [Numbers -> [Dirs -> Nat]] /\ size_message'[c][d] = op[c][d].size
      /\ \A e \in Numbers, f \in Dirs : (e # c \/ f # d) => size_message'[e][f] = size_message[e][f]
  BY <1>1, <1>2, Update2 DEF Typed
<1>6. Typed'
  BY <1>2, <1>3, <1>4, <1>5 DEF Typed, father, peers
<1>7. Elsewhere(c, d)
  BY <1>2, <1>3, <1>4, <1>5 DEF Elsewhere, peers
<1> QED
  BY <1>2, <1>3, <1>4, <1>5, <1>6, <1>7

LEMMA WrittenIs ==
  ASSUME Typed, NEW c \in Numbers, NEW d \in Dirs, Written(c, d), ~Failed(c, d, "send")
  PROVE  /\ Typed' /\ Elsewhere(c, d)
         /\ UNCHANGED <<father, connecting, open, buf, peers>>
         /\ op[c][d].kind = "send" /\ op[c][d].state = "done"
         /\ \/ /\ AllSent(c, d) /\ cur_size'[c][d] = 0 /\ size_message'[c][d] = 0
               /\ op'[c][d] = Result("receive", IF open[c] THEN "pending" ELSE "failed", 0)
            \/ /\ cur_size'[c][d] = cur_size[c][d] + op[c][d].size
               /\ size_message'[c][d] = size_message[c][d]
               /\ op'[c][d] = Result("send", IF open[c] THEN "pending" ELSE "failed", 0)
<1>1. op[c][d].size \in Nat /\ cur_size[c][d] + op[c][d].size \in Nat
  BY Indices, ProxyAssumption DEF Ops
<1>2. /\ op[c][d].kind = "send" /\ op[c][d].state = "done"
      /\ UNCHANGED <<father, connecting, open, buf, peers>>
  BY DEF Written
<1>3. CASE /\ AllSent(c, d)
           /\ cur_size' = [cur_size EXCEPT ![c][d] = 0]
           /\ size_message' = [size_message EXCEPT ![c][d] = 0]
           /\ Start(c, d, "receive")
  <2>3. /\ op' \in [Numbers -> [Dirs -> Ops]]
        /\ op'[c][d] = Result("receive", IF open[c] THEN "pending" ELSE "failed", 0)
        /\ \A e \in Numbers, f \in Dirs : (e # c \/ f # d) => op'[e][f] = op[e][f]
    BY <1>3, StartIs
  <2>4. /\ cur_size' \in [Numbers -> [Dirs -> Nat]] /\ cur_size'[c][d] = 0
        /\ \A e \in Numbers, f \in Dirs : (e # c \/ f # d) => cur_size'[e][f] = cur_size[e][f]
    BY <1>3, Update2 DEF Typed
  <2>5. /\ size_message' \in [Numbers -> [Dirs -> Nat]] /\ size_message'[c][d] = 0
        /\ \A e \in Numbers, f \in Dirs : (e # c \/ f # d) => size_message'[e][f] = size_message[e][f]
    BY <1>3, Update2 DEF Typed
  <2>6. Typed'
    BY <1>2, <2>3, <2>4, <2>5 DEF Typed, father, peers
  <2>7. Elsewhere(c, d)
    BY <1>2, <2>3, <2>4, <2>5 DEF Elsewhere, peers
  <2> QED
    BY <1>2, <1>3, <2>3, <2>4, <2>5, <2>6, <2>7
<1>4. CASE /\ cur_size' = [cur_size EXCEPT ![c][d] = @ + op[c][d].size]
           /\ Start(c, d, "send")
           /\ UNCHANGED size_message
  <2>1. cur_size' = [cur_size EXCEPT ![c][d] = cur_size[c][d] + op[c][d].size]
    BY <1>4
  <2>3. /\ op' \in [Numbers -> [Dirs -> Ops]]
        /\ op'[c][d] = Result("send", IF open[c] THEN "pending" ELSE "failed", 0)
        /\ \A e \in Numbers, f \in Dirs : (e # c \/ f # d) => op'[e][f] = op[e][f]
    BY <1>4, StartIs
  <2>4. /\ cur_size' \in [Numbers -> [Dirs -> Nat]]
        /\ cur_size'[c][d] = cur_size[c][d] + op[c][d].size
        /\ \A e \in Numbers, f \in Dirs : (e # c \/ f # d) => cur_size'[e][f] = cur_size[e][f]
    BY <1>1, <2>1, Update2 DEF Typed
  <2>6. Typed'
    BY <1>2, <1>4, <2>3, <2>4 DEF Typed, father, peers
  <2>7. Elsewhere(c, d)
    BY <1>2, <1>4, <2>3, <2>4 DEF Elsewhere, peers
  <2> QED
    BY <1>2, <1>4, <2>3, <2>4, <2>6, <2>7
<1> QED
  BY <1>3, <1>4 DEF Written

LEMMA ConnectIs ==
  ASSUME Typed, NEW c \in Numbers, connect(c)
  PROVE  /\ Typed'
         /\ UNCHANGED <<father, buf, size_message, peers>>
         /\ \A e \in Numbers : e # c => /\ connecting'[e] = connecting[e] /\ open'[e] = open[e]
                                        /\ op'[e] = op[e] /\ cur_size'[e] = cur_size[e]
         /\ \/ /\ connecting[c] = "done" /\ connecting'[c] = "made" /\ UNCHANGED open
               /\ \A d \in Dirs : op'[c][d] = Pending("receive") /\ cur_size'[c][d] = 0
            \/ /\ connecting[c] = "failed" /\ connecting'[c] = "refused"
               /\ UNCHANGED <<op, cur_size>>
               /\ open' = [open EXCEPT ![c] = FALSE] /\ open'[c] = FALSE
<1>1. /\ connecting' \in [Numbers -> {"no", "pending", "done", "failed", "made", "refused"}]
      /\ \A e \in Numbers : e # c => connecting'[e] = connecting[e]
      /\ UNCHANGED <<father, buf, size_message, peers>>
  BY DEF connect, Typed
<1>2. CASE connecting[c] = "failed"
  <2>1. /\ connecting'[c] = "refused" /\ UNCHANGED <<op, cur_size>>
        /\ open' = [open EXCEPT ![c] = FALSE]
    BY <1>2 DEF connect, Typed
  <2>2. open' \in [Numbers -> BOOLEAN] /\ open'[c] = FALSE /\ \A e \in Numbers : e # c => open'[e] = open[e]
    BY <2>1 DEF Typed
  <2>3. Typed'
    BY <1>1, <2>1, <2>2 DEF Typed, father, peers
  <2> QED
    BY <1>1, <1>2, <2>1, <2>2, <2>3
<1>3. CASE connecting[c] = "done"
  <2> DEFINE pend == [d \in Dirs |-> Pending("receive")]
             zero == [d \in Dirs |-> 0]
  <2>1. connecting'[c] = "made" /\ UNCHANGED open /\ op' = [op EXCEPT ![c] = pend]
        /\ cur_size' = [cur_size EXCEPT ![c] = zero]
    BY <1>3 DEF connect, Typed
  <2>2. pend \in [Dirs -> Ops] /\ zero \in [Dirs -> Nat]
    BY SomeOps
  <2>3. \A d \in Dirs : pend[d] = Pending("receive") /\ zero[d] = 0
    OBVIOUS
  <2> HIDE DEF pend, zero
  <2>4. op' \in [Numbers -> [Dirs -> Ops]] /\ op'[c] = pend /\ \A e \in Numbers : e # c => op'[e] = op[e]
    BY <2>1, <2>2 DEF Typed
  <2>5. cur_size' \in [Numbers -> [Dirs -> Nat]] /\ cur_size'[c] = zero
        /\ \A e \in Numbers : e # c => cur_size'[e] = cur_size[e]
    BY <2>1, <2>2 DEF Typed
  <2>6. Typed'
    BY <1>1, <2>1, <2>4, <2>5 DEF Typed, father, peers
  <2> QED
    BY <1>1, <1>3, <2>1, <2>3, <2>4, <2>5, <2>6
<1> QED
  BY <1>2, <1>3 DEF connect

LEMMA AcceptIs ==
  ASSUME Typed, handle_accept
  PROVE  /\ Typed' /\ UNCHANGED <<op, buf, size_message, cur_size, peers>>
         /\ cur_client \in Numbers /\ ind_number' = ind_number + 1 /\ cur_client' = ind_number
         /\ add_client
         /\ connecting'[cur_client] = "pending" /\ open'[cur_client] = TRUE
         /\ open' = [open EXCEPT ![cur_client] = TRUE]
         /\ \A e \in Numbers : e # cur_client => connecting'[e] = connecting[e] /\ open'[e] = open[e]
<1>1. /\ ind_number \in 1 .. MaxNumber /\ cur_client = ind_number - 1
      /\ cur_client \in Numbers /\ ind_number' \in 1 .. MaxNumber + 1
      /\ ind_number' = ind_number + 1 /\ cur_client' = ind_number /\ cur_client' = ind_number' - 1
  BY ProxyAssumption DEF Typed, handle_accept, set_new_client, Numbers
<1>2. /\ open' = [open EXCEPT ![cur_client] = TRUE]
      /\ connecting' = [connecting EXCEPT ![cur_client] = "pending"]
      /\ add_client
      /\ UNCHANGED <<op, buf, size_message, cur_size, peers>>
  BY DEF handle_accept
<1>3. /\ open' \in [Numbers -> BOOLEAN] /\ open'[cur_client] = TRUE
      /\ \A e \in Numbers : e # cur_client => open'[e] = open[e]
  BY <1>1, <1>2 DEF Typed
<1>4. /\ connecting' \in [Numbers -> {"no", "pending", "done", "failed", "made", "refused"}]
      /\ connecting'[cur_client] = "pending"
      /\ \A e \in Numbers : e # cur_client => connecting'[e] = connecting[e]
  BY <1>1, <1>2 DEF Typed
<1>5. Typed'
  BY <1>1, <1>2, <1>3, <1>4 DEF Typed, peers
<1> QED
  BY <1>1, <1>2, <1>3, <1>4, <1>5

LEMMA AcceptErrorIs ==
  ASSUME Typed, handle_accept_error
  PROVE  /\ Typed' /\ UNCHANGED <<clients, relay, peers>>
         /\ cur_client \in Numbers /\ ind_number' = ind_number + 1 /\ cur_client' = ind_number
<1>1. /\ ind_number \in 1 .. MaxNumber /\ cur_client = ind_number - 1
      /\ cur_client \in Numbers /\ ind_number' \in 1 .. MaxNumber + 1
      /\ ind_number' = ind_number + 1 /\ cur_client' = ind_number /\ cur_client' = ind_number' - 1
  BY ProxyAssumption DEF Typed, handle_accept_error, set_new_client, Numbers
<1>2. UNCHANGED <<clients, relay, peers>>
  BY DEF handle_accept_error
<1>3. Typed'
  BY <1>1, <1>2 DEF Typed, relay, peers
<1> QED
  BY <1>1, <1>2, <1>3

----------------------------------------------------------------------------
(* The relays *)

LEMMA BytesUpTo ==
  ASSUME NEW a \in Nat, NEW n \in Nat
  PROVE  Bytes(a, n) \in Seq(1 .. a + n)
<1>1. Bytes(a, n) \in [1 .. n -> 1 .. a + n]
  BY DEF Bytes
<1> QED
  BY <1>1, SeqDef

LEMMA RelayReceived ==
  ASSUME NEW conn, NEW isopen, NEW o, NEW b, NEW sm \in Nat, NEW cs \in Nat, NEW w \in Nat, NEW t \in Nat,
         NEW sent \in Seq(Nat), RelayOK(conn, isopen, o, b, sm, cs, w, t, sent),
         o.kind = "receive", o.state = "pending", NEW n \in 1 .. BufSize, n <= w - t
  PROVE  RelayOK(conn, isopen, Result("receive", "done", n), Bytes(t, n), sm, cs, w, t + n, sent)
<1>1. n \in Nat /\ n <= BufSize /\ BufSize \in Nat /\ t + n <= w /\ (t + n) - n = t
  BY ProxyAssumption
<1>2. Bytes(t, n) \in Seq(1 .. t + n) /\ Len(Bytes(t, n)) = n
  BY <1>1, BytesUpTo, BytesSeq
<1>3. conn = "made" /\ sm = 0 /\ cs = 0 /\ Len(sent) = t
  BY DEF RelayOK, Idle
<1> QED
  BY <1>1, <1>2, <1>3 DEF RelayOK, Result

\* An operation that is neither under way nor done says nothing of the bytes.
LEMMA RelayFailed ==
  ASSUME NEW conn, NEW isopen, NEW o, NEW b, NEW sm, NEW cs, NEW w, NEW t,
         NEW sent, RelayOK(conn, isopen, o, b, sm, cs, w, t, sent), conn = "made",
         NEW o2, o2.state \notin {"pending", "done"}, NEW isopen2
  PROVE  RelayOK(conn, isopen2, o2, b, sm, cs, w, t, sent)
BY DEF RelayOK

\* Sockets may close and a connection may fail where nothing is under way.
LEMMA RelayQuiet ==
  ASSUME NEW conn, NEW isopen, NEW o, NEW b, NEW sm, NEW cs, NEW w, NEW t,
         NEW sent, RelayOK(conn, isopen, o, b, sm, cs, w, t, sent), conn # "made",
         NEW isopen2, NEW conn2, conn2 # "made"
  PROVE  RelayOK(conn2, isopen2, o, b, sm, cs, w, t, sent)
BY DEF RelayOK, Idle

LEMMA RelayConnected ==
  ASSUME NEW conn, NEW isopen, NEW o, NEW b, NEW sm, NEW cs, NEW w, NEW t,
         NEW sent, RelayOK(conn, isopen, o, b, sm, cs, w, t, sent), conn # "made"
  PROVE  RelayOK("made", TRUE, Pending("receive"), b, sm, 0, w, t, sent)
BY DEF RelayOK, Pending

LEMMA RelayWrote ==
  ASSUME NEW conn, NEW isopen, NEW o, NEW b, NEW sm, NEW cs, NEW w \in Nat, NEW t \in Nat,
         NEW sent, RelayOK(conn, isopen, o, b, sm, cs, w, t, sent)
  PROVE  RelayOK(conn, isopen, o, b, sm, cs, w + 1, t, sent)
BY DEF RelayOK

\* What is sent is the next bytes of the stream.
LEMMA RelaySent ==
  ASSUME Typed, NEW c \in Numbers, NEW d \in Dirs, RelayAt(c, d),
         op[c][d].kind = "send", op[c][d].state = "pending",
         NEW n \in 1 .. size_message[c][d] - cur_size[c][d],
         NEW piece, piece = SubSeq(buf[c][d], cur_size[c][d] + 1, cur_size[c][d] + n)
  PROVE  /\ piece = Bytes(Len(out[c][d]), n) /\ Len(out[c][d]) + n <= wrote[c][d]
         /\ RelayOK(connecting[c], open[c], Result("send", "done", n), buf[c][d], size_message[c][d],
                    cur_size[c][d], wrote[c][d], taken[c][d], out[c][d] \o piece)
<1> DEFINE conn == connecting[c]
           isopen == open[c]
           o == op[c][d]
           b == buf[c][d]
           sm == size_message[c][d]
           cs == cur_size[c][d]
           w == wrote[c][d]
           t == taken[c][d]
           sent == out[c][d]
<1>0. /\ RelayOK(conn, isopen, o, b, sm, cs, w, t, sent) /\ o.kind = "send" /\ o.state = "pending"
      /\ sm \in Nat /\ cs \in Nat /\ w \in Nat /\ t \in Nat /\ sent \in Seq(Nat)
      /\ n \in 1 .. sm - cs /\ piece = SubSeq(b, cs + 1, cs + n)
  BY Indices DEF RelayAt
<1> HIDE DEF conn, isopen, o, b, sm, cs, w, t, sent
<1>1. /\ conn = "made" /\ b = Bytes(t - sm, sm) /\ Len(sent) = (t - sm) + cs
      /\ t <= w /\ b \in Seq(1 .. t) /\ Len(b) <= BufSize /\ cs <= sm /\ sm <= Len(b)
  BY <1>0 DEF RelayOK, Idle
<1>2. sm <= t
  <2>1. Len(sent) \in Nat /\ Len(sent) <= t
    BY <1>0, LenProperties DEF RelayOK
  <2>2. sm = 0 \/ sm > 0
    BY <1>0
  <2>3. CASE sm > 0
    <3>1. b \in [1 .. Len(b) -> 1 .. t] /\ Len(b) \in Nat
      BY <1>1, LenProperties
    <3>4. Len(b) \in Nat /\ sm <= Len(b) /\ sm \in Nat
      BY <1>0, <1>1, LenProperties
    <3>5. 1 \in 1 .. Len(b)
      BY <2>3, <3>4
    <3>2. b[1] \in 1 .. t
      BY <3>1, <3>5
    <3>3. b[1] = (t - sm) + 1
      BY <1>0, <1>1, <2>3 DEF Bytes
    <3> QED
      BY <1>0, <3>2, <3>3
  <2> QED
    BY <1>0, <2>2, <2>3
<1>3. /\ t - sm \in Nat /\ cs \in 0 .. sm /\ cs + n \in cs .. sm /\ n \in Nat
      /\ (cs + n) - cs = n
  BY <1>0, <1>1, <1>2
<1>4. piece = Bytes(Len(sent), n)
  <2>1. SubSeq(Bytes(t - sm, sm), cs + 1, cs + n) = Bytes((t - sm) + cs, (cs + n) - cs)
    BY <1>0, <1>3, BytesSub, Zenon
  <2>2. b = Bytes(t - sm, sm) /\ Len(sent) = (t - sm) + cs /\ (cs + n) - cs = n
    BY <1>1, <1>3
  <2> QED
    BY <1>0, <2>1, <2>2, Zenon
<1>5. Len(sent) \in Nat
  BY <1>0, LenProperties
<1>6. piece \in Seq(Nat) /\ Len(piece) = n
  <2>1. Bytes(Len(sent), n) \in Seq(Nat) /\ Len(Bytes(Len(sent), n)) = n
    BY <1>3, <1>5, BytesSeq, Zenon
  <2> QED
    BY <1>4, <2>1, Zenon
<1>7. Len(sent \o piece) = Len(sent) + n
  BY <1>0, <1>6, ConcatProperties
<1>8. Len(sent) + n <= t /\ Len(sent) + n <= w /\ Len(sent) + n = (t - sm) + cs + n /\ cs + n <= sm
  BY <1>0, <1>1, <1>3
<1>9. RelayOK(conn, isopen, Result("send", "done", n), b, sm, cs, w, t, sent \o piece)
  BY <1>0, <1>1, <1>7, <1>8 DEF RelayOK, Result
<1> QED
  BY <1>4, <1>8, <1>9 DEF conn, isopen, b, sm, cs, w, t, sent

\* All that was received is sent next.
LEMMA RelayRead ==
  ASSUME NEW conn, NEW isopen \in BOOLEAN, NEW o \in Ops, NEW b, NEW sm \in Nat, NEW cs \in Nat,
         NEW w \in Nat, NEW t \in Nat,
         NEW sent \in Seq(Nat), RelayOK(conn, isopen, o, b, sm, cs, w, t, sent),
         o.kind = "receive", o.state = "done"
  PROVE  RelayOK(conn, isopen, Result("send", IF isopen THEN "pending" ELSE "failed", 0),
                 b, o.size, 0, w, t, sent)
<1>1. /\ conn = "made" /\ b = Bytes(t - o.size, o.size) /\ Len(sent) = t - o.size
      /\ t <= w /\ b \in Seq(1 .. t) /\ Len(b) <= BufSize
  BY DEF RelayOK, Idle
<1>2. o.size \in Nat /\ Len(sent) \in Nat
  BY LenProperties, ProxyAssumption DEF Ops
<1>3. t - o.size \in Nat
  BY <1>1, <1>2
<1>4. Len(b) = o.size
  BY <1>1, <1>2, <1>3, BytesSeq
<1> QED
  BY <1>1, <1>2, <1>3, <1>4 DEF RelayOK, Result

\* The rest of a message is sent next, or the next bytes are received.
LEMMA RelayWritten ==
  ASSUME NEW conn, NEW isopen \in BOOLEAN, NEW o \in Ops, NEW b, NEW sm \in Nat, NEW cs \in Nat,
         NEW w \in Nat, NEW t \in Nat,
         NEW sent \in Seq(Nat), RelayOK(conn, isopen, o, b, sm, cs, w, t, sent),
         o.kind = "send", o.state = "done"
  PROVE  /\ sm = cs + o.size =>
              RelayOK(conn, isopen, Result("receive", IF isopen THEN "pending" ELSE "failed", 0),
                      b, 0, 0, w, t, sent)
         /\ RelayOK(conn, isopen, Result("send", IF isopen THEN "pending" ELSE "failed", 0),
                    b, sm, cs + o.size, w, t, sent)
<1>1. /\ conn = "made" /\ b = Bytes(t - sm, sm) /\ Len(sent) = (t - sm) + cs + o.size
      /\ cs + o.size <= sm
      /\ t <= w /\ b \in Seq(1 .. t) /\ Len(b) <= BufSize /\ sm <= Len(b) /\ Len(sent) <= t
  BY DEF RelayOK, Idle
<1>2. o.size \in Nat /\ Len(sent) \in Nat /\ Len(b) \in Nat
  BY <1>1, LenProperties, ProxyAssumption DEF Ops
<1>3. Len(sent) = (t - sm) + (cs + o.size)
  BY <1>1, <1>2
<1>4. sm = cs + o.size => Len(sent) = t
  BY <1>1, <1>2, SMTT(30)
<1> DEFINE cs2 == cs + o.size
<1>5. cs2 \in Nat /\ cs2 <= sm /\ Len(sent) = (t - sm) + cs2
  BY <1>1, <1>2, <1>3, SMTT(30)
<1> HIDE DEF cs2
<1>6. RelayOK(conn, isopen, Result("send", IF isopen THEN "pending" ELSE "failed", 0),
              b, sm, cs2, w, t, sent)
  BY <1>1, <1>2, <1>5 DEF RelayOK, Result
<1>7. sm = cs + o.size =>
        RelayOK(conn, isopen, Result("receive", IF isopen THEN "pending" ELSE "failed", 0),
                b, 0, 0, w, t, sent)
  BY <1>1, <1>2, <1>4 DEF RelayOK, Result
<1> QED
  BY <1>6, <1>7 DEF cs2

----------------------------------------------------------------------------
(* The invariant holds *)

\* A relay that a step leaves alone.
LEMMA RelayKept ==
  ASSUME Relays, NEW e \in Numbers, NEW f \in Dirs,
         connecting'[e] = connecting[e], open'[e] = open[e], op'[e][f] = op[e][f],
         buf'[e][f] = buf[e][f], size_message'[e][f] = size_message[e][f],
         cur_size'[e][f] = cur_size[e][f], wrote'[e][f] = wrote[e][f],
         taken'[e][f] = taken[e][f], out'[e][f] = out[e][f]
  PROVE  RelayAt(e, f)'
BY DEF Relays, RelayAt

LEMMA RelaysElsewhere ==
  ASSUME Relays, NEW c \in Numbers, NEW d \in Dirs, Elsewhere(c, d), UNCHANGED <<connecting, open>>,
         RelayAt(c, d)'
  PROVE  Relays'
<1>1. ASSUME NEW e \in Numbers, NEW f \in Dirs, e # c \/ f # d PROVE RelayAt(e, f)'
  BY <1>1, RelayKept DEF Elsewhere
<1> QED
  BY <1>1 DEF Relays

LEMMA RelaysReceived ==
  ASSUME Typed, Relays, NEW c \in Numbers, NEW d \in Dirs, Received(c, d)
  PROVE  Relays'
<1>1. RelayAt(c, d)
  BY DEF Relays
<1>2. /\ size_message[c][d] \in Nat /\ cur_size[c][d] \in Nat /\ wrote[c][d] \in Nat
      /\ taken[c][d] \in Nat /\ out[c][d] \in Seq(Nat)
  BY Indices
<1>3. /\ Elsewhere(c, d) /\ UNCHANGED <<connecting, open, size_message, cur_size, wrote, out>>
      /\ op[c][d].kind = "receive" /\ op[c][d].state = "pending"
      /\ \/ \E n \in 1 .. BufSize :
              /\ n <= wrote[c][d] - taken[c][d]
              /\ op'[c][d] = Result("receive", "done", n)
              /\ buf'[c][d] = Bytes(taken[c][d], n) /\ taken'[c][d] = taken[c][d] + n
         \/ op'[c][d] = Result("receive", "failed", 0) /\ UNCHANGED <<buf, taken>>
  BY ReceivedIs
<1>4. CASE \E n \in 1 .. BufSize :
              /\ n <= wrote[c][d] - taken[c][d]
              /\ op'[c][d] = Result("receive", "done", n)
              /\ buf'[c][d] = Bytes(taken[c][d], n) /\ taken'[c][d] = taken[c][d] + n
  <2>1. PICK n \in 1 .. BufSize :
              /\ n <= wrote[c][d] - taken[c][d]
              /\ op'[c][d] = Result("receive", "done", n)
              /\ buf'[c][d] = Bytes(taken[c][d], n) /\ taken'[c][d] = taken[c][d] + n
    BY <1>4
  <2>2. RelayOK(connecting[c], open[c], Result("receive", "done", n), Bytes(taken[c][d], n),
                size_message[c][d], cur_size[c][d], wrote[c][d], taken[c][d] + n, out[c][d])
    BY <1>1, <1>2, <1>3, <2>1, RelayReceived, ZenonT(40) DEF RelayAt
  <2> QED
    BY <1>1, <1>3, <2>1, <2>2, RelaysElsewhere DEF RelayAt
<1>5. CASE op'[c][d] = Result("receive", "failed", 0) /\ UNCHANGED <<buf, taken>>
  <2>1. connecting[c] = "made"
    BY <1>1, <1>3 DEF RelayAt, RelayOK, Idle
  <2>2. op'[c][d].state \notin {"pending", "done"}
    BY <1>5 DEF Result
  <2>3. RelayOK(connecting[c], open[c], op'[c][d], buf[c][d],
                size_message[c][d], cur_size[c][d], wrote[c][d], taken[c][d], out[c][d])
    BY <1>1, <2>1, <2>2, RelayFailed, Zenon DEF RelayAt
  <2> QED
    BY <1>1, <1>3, <1>5, <2>3, RelaysElsewhere DEF RelayAt
<1> QED
  BY <1>3, <1>4, <1>5

LEMMA RelaysSent ==
  ASSUME Typed, Relays, NEW c \in Numbers, NEW d \in Dirs, Sent(c, d)
  PROVE  Relays'
<1>1. RelayAt(c, d)
  BY DEF Relays
<1>2. /\ size_message[c][d] \in Nat /\ cur_size[c][d] \in Nat /\ wrote[c][d] \in Nat
      /\ taken[c][d] \in Nat /\ out[c][d] \in Seq(Nat)
  BY Indices
<1>3. /\ Elsewhere(c, d) /\ UNCHANGED <<connecting, open, buf, size_message, cur_size, wrote, taken>>
      /\ op[c][d].kind = "send" /\ op[c][d].state = "pending"
      /\ \/ \E n \in 1 .. size_message[c][d] - cur_size[c][d] :
              /\ op'[c][d] = Result("send", "done", n)
              /\ out'[c][d] = out[c][d] \o SubSeq(buf[c][d], cur_size[c][d] + 1, cur_size[c][d] + n)
         \/ op'[c][d] = Result("send", "failed", 0) /\ UNCHANGED out
  BY SentIs
<1>4. CASE \E n \in 1 .. size_message[c][d] - cur_size[c][d] :
              /\ op'[c][d] = Result("send", "done", n)
              /\ out'[c][d] = out[c][d] \o SubSeq(buf[c][d], cur_size[c][d] + 1, cur_size[c][d] + n)
  <2>1. PICK n \in 1 .. size_message[c][d] - cur_size[c][d] :
              /\ op'[c][d] = Result("send", "done", n)
              /\ out'[c][d] = out[c][d] \o SubSeq(buf[c][d], cur_size[c][d] + 1, cur_size[c][d] + n)
    BY <1>4
  <2> DEFINE piece == SubSeq(buf[c][d], cur_size[c][d] + 1, cur_size[c][d] + n)
  <2>2. RelayOK(connecting[c], open[c], Result("send", "done", n), buf[c][d],
                size_message[c][d], cur_size[c][d], wrote[c][d], taken[c][d], out[c][d] \o piece)
    <3>2. n \in 1 .. size_message[c][d] - cur_size[c][d]
      BY <2>1
    <3> HIDE DEF piece
    <3> QED
      BY <1>1, <1>3, <3>2, RelaySent, Zenon DEF piece
  <2> QED
    BY <1>1, <1>3, <2>1, <2>2, RelaysElsewhere, ZenonT(40) DEF RelayAt
<1>5. CASE op'[c][d] = Result("send", "failed", 0) /\ UNCHANGED out
  <2>1. connecting[c] = "made"
    BY <1>1, <1>3 DEF RelayAt, RelayOK, Idle
  <2>2. op'[c][d].state \notin {"pending", "done"}
    BY <1>5 DEF Result
  <2>3. RelayOK(connecting[c], open[c], op'[c][d], buf[c][d],
                size_message[c][d], cur_size[c][d], wrote[c][d], taken[c][d], out[c][d])
    BY <1>1, <2>1, <2>2, RelayFailed, Zenon DEF RelayAt
  <2> QED
    BY <1>1, <1>3, <1>5, <2>3, RelaysElsewhere, SMTT(30) DEF RelayAt
<1> QED
  BY <1>3, <1>4, <1>5

LEMMA RelaysWrite ==
  ASSUME Typed, Relays, NEW c \in Numbers, NEW d \in Dirs, Write(c, d)
  PROVE  Relays'
<1>1. RelayAt(c, d) /\ wrote[c][d] \in Nat /\ taken[c][d] \in Nat /\ MaxWrites[c][d] \in Nat
  BY Indices, ProxyAssumption DEF Relays
<1>2. /\ Elsewhere(c, d) /\ UNCHANGED <<connecting, open, op, buf, size_message, cur_size, taken, out>>
      /\ wrote[c][d] < MaxWrites[c][d] /\ wrote'[c][d] = wrote[c][d] + 1
  BY WriteIs
<1>3. RelayOK(connecting[c], open[c], op[c][d], buf[c][d], size_message[c][d], cur_size[c][d],
              wrote[c][d] + 1, taken[c][d], out[c][d])
  BY <1>1, RelayWrote, Zenon DEF RelayAt
<1>4. wrote[c][d] + 1 <= MaxWrites[c][d]
  BY <1>1, <1>2
<1> QED
  BY <1>2, <1>3, <1>4, RelaysElsewhere DEF RelayAt

LEMMA RelaysStop ==
  ASSUME Typed, Relays, NEW c \in Numbers, NEW d \in Dirs, stop(c, d), op[c][d].state = "failed"
  PROVE  Relays'
<1>1. /\ UNCHANGED <<connecting, buf, size_message, cur_size, peers>>
      /\ \A e \in Numbers : e # c => op'[e] = op[e] /\ open'[e] = open[e]
      /\ \A f \in Dirs : /\ op'[c][f].state # "pending"
                         /\ op'[c][f].state # "failed" => op'[c][f] \in {Idle, op[c][f]}
      /\ open'[c] = FALSE
  BY StopIs
<1>2. connecting[c] = "made"
  BY DEF Relays, RelayAt, RelayOK, Idle
<1>3. ASSUME NEW f \in Dirs PROVE RelayAt(c, f)'
  <2>1. RelayAt(c, f)
    BY DEF Relays
  <2>2. RelayOK(connecting[c], FALSE, op'[c][f], buf[c][f], size_message[c][f], cur_size[c][f],
                wrote[c][f], taken[c][f], out[c][f])
    <3>1. CASE op'[c][f] = op[c][f]
      BY <1>1, <2>1, <3>1 DEF RelayAt, RelayOK
    <3>2. CASE op'[c][f].state \notin {"pending", "done"}
      BY <1>2, <2>1, <3>2, RelayFailed, Zenon DEF RelayAt
    <3>3. /\ op'[c][f].state # "pending"
          /\ op'[c][f].state # "failed" => op'[c][f] \in {Idle, op[c][f]}
      BY <1>1
    <3>4. Idle.state = "none"
      BY DEF Idle
    <3> QED
      BY <3>1, <3>2, <3>3, <3>4
  <2>3. /\ connecting' = connecting /\ buf' = buf /\ size_message' = size_message
        /\ cur_size' = cur_size /\ wrote' = wrote /\ taken' = taken /\ out' = out
        /\ open'[c] = FALSE
    BY <1>1 DEF peers
  <2> QED
    BY <2>1, <2>2, <2>3 DEF RelayAt
<1>4. ASSUME NEW e \in Numbers, NEW f \in Dirs, e # c PROVE RelayAt(e, f)'
  BY <1>1, <1>4, RelayKept DEF peers
<1> QED
  BY <1>3, <1>4 DEF Relays

LEMMA RelaysRead ==
  ASSUME Typed, Relays, NEW c \in Numbers, NEW d \in Dirs, Read(c, d)
  PROVE  Relays'
<1>1. CASE Failed(c, d, "receive")
  BY <1>1, RelaysStop DEF Failed
<1>2. CASE ~Failed(c, d, "receive")
  <2>1. /\ Elsewhere(c, d) /\ UNCHANGED <<connecting, open, buf, peers>>
        /\ op[c][d].kind = "receive" /\ op[c][d].state = "done"
        /\ cur_size'[c][d] = 0 /\ size_message'[c][d] = op[c][d].size
        /\ op'[c][d] = Result("send", IF open[c] THEN "pending" ELSE "failed", 0)
    BY <1>2, ReadIs
  <2>2. RelayAt(c, d) /\ open[c] \in BOOLEAN
    BY DEF Relays, Typed
  <2>3. /\ size_message[c][d] \in Nat /\ cur_size[c][d] \in Nat /\ wrote[c][d] \in Nat
        /\ taken[c][d] \in Nat /\ out[c][d] \in Seq(Nat) /\ op[c][d] \in Ops
    BY Indices
  <2>4. RelayOK(connecting[c], open[c], Result("send", IF open[c] THEN "pending" ELSE "failed", 0),
                buf[c][d], op[c][d].size, 0, wrote[c][d], taken[c][d], out[c][d])
    BY <2>1, <2>2, <2>3, RelayRead, Zenon DEF RelayAt
  <2> QED
    BY <2>1, <2>2, <2>4, RelaysElsewhere DEF RelayAt, peers
<1> QED
  BY <1>1, <1>2

LEMMA RelaysWritten ==
  ASSUME Typed, Relays, NEW c \in Numbers, NEW d \in Dirs, Written(c, d)
  PROVE  Relays'
<1>1. CASE Failed(c, d, "send")
  BY <1>1, RelaysStop DEF Failed
<1>2. CASE ~Failed(c, d, "send")
  <2>1. /\ Elsewhere(c, d) /\ UNCHANGED <<connecting, open, buf, peers>>
        /\ op[c][d].kind = "send" /\ op[c][d].state = "done"
        /\ \/ /\ size_message[c][d] = cur_size[c][d] + op[c][d].size
              /\ cur_size'[c][d] = 0 /\ size_message'[c][d] = 0
              /\ op'[c][d] = Result("receive", IF open[c] THEN "pending" ELSE "failed", 0)
           \/ /\ cur_size'[c][d] = cur_size[c][d] + op[c][d].size
              /\ size_message'[c][d] = size_message[c][d]
              /\ op'[c][d] = Result("send", IF open[c] THEN "pending" ELSE "failed", 0)
    BY <1>2, WrittenIs DEF AllSent
  <2>2. RelayAt(c, d) /\ open[c] \in BOOLEAN
    BY DEF Relays, Typed
  <2>3. /\ size_message[c][d] \in Nat /\ cur_size[c][d] \in Nat /\ wrote[c][d] \in Nat
        /\ taken[c][d] \in Nat /\ out[c][d] \in Seq(Nat) /\ op[c][d] \in Ops
    BY Indices
  <2>4. /\ size_message[c][d] = cur_size[c][d] + op[c][d].size =>
             RelayOK(connecting[c], open[c], Result("receive", IF open[c] THEN "pending" ELSE "failed", 0),
                     buf[c][d], 0, 0, wrote[c][d], taken[c][d], out[c][d])
        /\ RelayOK(connecting[c], open[c], Result("send", IF open[c] THEN "pending" ELSE "failed", 0),
                   buf[c][d], size_message[c][d], cur_size[c][d] + op[c][d].size,
                   wrote[c][d], taken[c][d], out[c][d])
    BY <2>1, <2>2, <2>3, RelayWritten, Zenon DEF RelayAt
  <2> QED
    BY <2>1, <2>2, <2>4, RelaysElsewhere DEF RelayAt, peers
<1> QED
  BY <1>1, <1>2

LEMMA RelaysConnect ==
  ASSUME Typed, Sockets, Relays, NEW c \in Numbers, connect(c)
  PROVE  Relays'
<1>1. /\ UNCHANGED <<buf, size_message, peers>>
      /\ \A e \in Numbers : e # c => /\ connecting'[e] = connecting[e] /\ open'[e] = open[e]
                                     /\ op'[e] = op[e] /\ cur_size'[e] = cur_size[e]
      /\ \/ /\ connecting[c] = "done" /\ connecting'[c] = "made" /\ UNCHANGED open
            /\ \A d \in Dirs : op'[c][d] = Pending("receive") /\ cur_size'[c][d] = 0
         \/ /\ connecting[c] = "failed" /\ connecting'[c] = "refused"
            /\ UNCHANGED <<op, cur_size>> /\ open'[c] = FALSE
  BY ConnectIs
<1>2. connecting[c] = "done" => open[c] = TRUE
  BY DEF Sockets, Typed
<1>3. connecting[c] # "made"
  BY <1>1
<1>4. ASSUME NEW d \in Dirs PROVE RelayAt(c, d)'
  <2>1. RelayAt(c, d)
    BY DEF Relays
  <2>2. RelayOK("made", TRUE, Pending("receive"), buf[c][d], size_message[c][d], 0,
                wrote[c][d], taken[c][d], out[c][d])
    BY <1>3, <2>1, RelayConnected, Zenon DEF RelayAt
  <2>3. RelayOK("refused", FALSE, op[c][d], buf[c][d], size_message[c][d], cur_size[c][d],
                wrote[c][d], taken[c][d], out[c][d])
    BY <1>3, <2>1, RelayQuiet DEF RelayAt
  <2> QED
    BY <1>1, <1>2, <2>1, <2>2, <2>3 DEF RelayAt, peers
<1>5. ASSUME NEW e \in Numbers, NEW d \in Dirs, e # c PROVE RelayAt(e, d)'
  BY <1>1, <1>5, RelayKept DEF peers
<1> QED
  BY <1>4, <1>5 DEF Relays

LEMMA RelaysAccept ==
  ASSUME Typed, Book, Relays, handle_accept
  PROVE  Relays'
<1>1. PICK c \in Numbers : c = cur_client
  BY AcceptIs
<1>2. /\ UNCHANGED <<op, buf, size_message, cur_size, peers>>
      /\ connecting'[c] = "pending" /\ open'[c] = TRUE
      /\ \A e \in Numbers : e # c => connecting'[e] = connecting[e] /\ open'[e] = open[e]
  BY <1>1, AcceptIs
<1>3. connecting[c] = "no"
  BY <1>1 DEF Book, Typed
<1>4. ASSUME NEW d \in Dirs PROVE RelayAt(c, d)'
  <2>1. RelayAt(c, d)
    BY DEF Relays
  <2>2. RelayOK("pending", TRUE, op[c][d], buf[c][d], size_message[c][d],
                cur_size[c][d], wrote[c][d], taken[c][d], out[c][d])
    BY <1>3, <2>1, RelayQuiet DEF RelayAt
  <2>3. /\ op' = op /\ buf' = buf /\ size_message' = size_message
        /\ cur_size' = cur_size /\ wrote' = wrote /\ taken' = taken /\ out' = out
        /\ connecting'[c] = "pending" /\ open'[c] = TRUE
    BY <1>2 DEF peers
  <2> QED
    BY <2>1, <2>2, <2>3 DEF RelayAt
<1>5. ASSUME NEW e \in Numbers, NEW d \in Dirs, e # c PROVE RelayAt(e, d)'
  BY <1>2, <1>5, RelayKept DEF peers
<1> QED
  BY <1>4, <1>5 DEF Relays

LEMMA BookAccept ==
  ASSUME Typed, Book, Sockets, handle_accept
  PROVE  Book' /\ Sockets'
<1>1. /\ cur_client \in Numbers /\ ind_number \in Nat
      /\ ind_number' = ind_number + 1 /\ cur_client' = ind_number /\ cur_client = ind_number - 1
      /\ add_client
      /\ connecting'[cur_client] = "pending" /\ open'[cur_client] = TRUE
      /\ \A e \in Numbers : e # cur_client => connecting'[e] = connecting[e] /\ open'[e] = open[e]
  <2>1. ind_number \in Nat /\ cur_client = ind_number - 1
    BY ProxyAssumption DEF Typed
  <2> QED
    BY <2>1, AcceptIs
<1>2. ASSUME NEW k \in DOMAIN clients'
      PROVE  k \in 1 .. ind_number' - 1 /\ clients'[k] = k - 1
  <2>1. /\ k \in DOMAIN clients \cup {ind_number}
        /\ clients'[k] = IF k = ind_number THEN cur_client ELSE clients[k]
    BY <1>1, <1>2 DEF add_client
  <2>2. CASE k = ind_number
    <3>1. k \in 1 .. ind_number' - 1 /\ cur_client = k - 1
      BY <1>1, <2>2, ProxyAssumption DEF Numbers
    <3> QED
      BY <1>1, <2>1, <2>2, <3>1
  <2>3. CASE k # ind_number
    <3>1. k \in 1 .. ind_number - 1 /\ clients[k] = k - 1
      BY <2>1, <2>3 DEF Book
    <3> QED
      BY <1>1, <2>1, <2>3, <3>1
  <2> QED
    BY <2>2, <2>3
<1>3. ASSUME NEW c \in Numbers, c >= cur_client' PROVE connecting'[c] = "no"
  BY <1>1, <1>3 DEF Book, Numbers
<1>4. Sockets'
  BY <1>1 DEF Sockets
<1> QED
  BY <1>2, <1>3, <1>4 DEF Book

LEMMA BookAcceptError ==
  ASSUME Typed, Book, Sockets, Relays, handle_accept_error
  PROVE  Book' /\ Sockets' /\ Relays'
<1>1. /\ UNCHANGED <<clients, relay, peers>> /\ cur_client \in Numbers /\ ind_number \in Nat
      /\ ind_number' = ind_number + 1 /\ cur_client' = ind_number /\ cur_client = ind_number - 1
  BY AcceptErrorIs, ProxyAssumption DEF Typed
<1>2. ASSUME NEW k \in DOMAIN clients
      PROVE  k \in 1 .. ind_number' - 1 /\ clients[k] = k - 1
  <2>1. k \in 1 .. ind_number - 1 /\ clients[k] = k - 1
    BY DEF Book
  <2> QED
    BY <1>1, <2>1
<1>3. ASSUME NEW c \in Numbers, c >= cur_client' PROVE connecting[c] = "no"
  BY <1>1, <1>3 DEF Book, Numbers
<1>4. Sockets' /\ Relays'
  BY <1>1 DEF Sockets, Relays, RelayAt, relay, peers
<1> QED
  BY <1>1, <1>2, <1>3, <1>4 DEF Book, relay

LEMMA BookStop ==
  ASSUME Typed, Book, Sockets, NEW c \in Numbers, NEW d \in Dirs, stop(c, d), connecting[c] = "made"
  PROVE  Book' /\ Sockets'
<1>1. /\ UNCHANGED <<ind_number, cur_client, connecting>> /\ open'[c] = FALSE
      /\ \A e \in Numbers : e # c => open'[e] = open[e]
      /\ erase(c)
  BY StopIs
<1>2. /\ DOMAIN clients' = DOMAIN clients \ {c}
      /\ \A k \in DOMAIN clients' : clients'[k] = clients[k]
  BY <1>1 DEF erase, Restrict
<1>3. Book'
  BY <1>1, <1>2 DEF Book
<1>4. Sockets'
  BY <1>1 DEF Sockets
<1> QED
  BY <1>3, <1>4

LEMMA BookConnect ==
  ASSUME Typed, Book, Sockets, NEW c \in Numbers, connect(c) \/ Connected(c)
  PROVE  Book' /\ Sockets'
<1>1. /\ UNCHANGED <<father>>
      /\ \A e \in Numbers : e # c => connecting'[e] = connecting[e] /\ open'[e] = open[e]
      /\ connecting[c] # "no"
      /\ \/ connecting'[c] \in {"made", "refused"}
         \/ UNCHANGED open /\ connecting[c] = "pending" /\ connecting'[c] \in {"done", "failed"}
  <2>1. CASE connect(c)
    BY <2>1, ConnectIs
  <2>2. CASE Connected(c)
    BY <2>2, ConnectedIs
  <2> QED
    BY <2>1, <2>2
<1>2. Book'
  BY <1>1 DEF Book, father
<1>3. Sockets'
  BY <1>1 DEF Sockets
<1> QED
  BY <1>2, <1>3

LEMMA BookKept ==
  ASSUME Book, Sockets, UNCHANGED <<father, connecting, open>>
  PROVE  Book' /\ Sockets'
BY DEF Book, Sockets, father

LEMMA RelaysConnected ==
  ASSUME Typed, Relays, NEW c \in Numbers, Connected(c)
  PROVE  Relays'
<1>1. /\ UNCHANGED <<open, op, buf, size_message, cur_size, peers>>
      /\ connecting[c] # "made" /\ connecting'[c] # "made"
      /\ \A e \in Numbers : e # c => connecting'[e] = connecting[e]
  BY ConnectedIs
<1>2. ASSUME NEW d \in Dirs PROVE RelayAt(c, d)'
  <2>1. RelayAt(c, d)
    BY DEF Relays
  <2>2. RelayOK(connecting'[c], open[c], op[c][d], buf[c][d], size_message[c][d],
                cur_size[c][d], wrote[c][d], taken[c][d], out[c][d])
    BY <1>1, <2>1, RelayQuiet DEF RelayAt
  <2> QED
    BY <1>1, <2>1, <2>2 DEF RelayAt, peers
<1>3. ASSUME NEW e \in Numbers, NEW d \in Dirs, e # c PROVE RelayAt(e, d)'
  BY <1>1, <1>3, RelayKept DEF peers
<1> QED
  BY <1>2, <1>3 DEF Relays

\* An operation exists only where the connection was made.
LEMMA OpsOfMade ==
  ASSUME Relays, NEW c \in Numbers, NEW d \in Dirs, op[c][d].state # "none"
  PROVE  connecting[c] = "made"
BY DEF Relays, RelayAt, RelayOK, Idle

LEMMA HandlerInv ==
  ASSUME Inv, NEW c \in Numbers, Handler(c)
  PROVE  Inv'
<1>1. CASE connect(c)
  BY <1>1, ConnectIs, BookConnect, RelaysConnect DEF Inv
<1>2. ASSUME NEW d \in Dirs, Read(c, d) PROVE Inv'
  <2>1. Relays'
    BY <1>2, RelaysRead DEF Inv
  <2>2. CASE Failed(c, d, "receive")
    <3>1. stop(c, d) /\ connecting[c] = "made"
      BY <2>2, OpsOfMade DEF Failed, Inv
    <3> QED
      BY <2>1, <3>1, StopIs, BookStop DEF Inv
  <2>3. CASE ~Failed(c, d, "receive")
    BY <1>2, <2>1, <2>3, ReadIs, BookKept DEF Inv
  <2> QED
    BY <2>2, <2>3
<1>3. ASSUME NEW d \in Dirs, Written(c, d) PROVE Inv'
  <2>1. Relays'
    BY <1>3, RelaysWritten DEF Inv
  <2>2. CASE Failed(c, d, "send")
    <3>1. stop(c, d) /\ connecting[c] = "made"
      BY <2>2, OpsOfMade DEF Failed, Inv
    <3> QED
      BY <2>1, <3>1, StopIs, BookStop DEF Inv
  <2>3. CASE ~Failed(c, d, "send")
    BY <1>3, <2>1, <2>3, WrittenIs, BookKept DEF Inv
  <2> QED
    BY <2>2, <2>3
<1> QED
  BY <1>1, <1>2, <1>3 DEF Handler, userRead, userWrite, serverRead, serverWrite, Dirs

LEMMA KernelInv ==
  ASSUME Inv, NEW c \in Numbers, Kernel(c)
  PROVE  Inv'
<1>1. CASE Connected(c)
  BY <1>1, ConnectedIs, BookConnect, RelaysConnected DEF Inv
<1>2. ASSUME NEW d \in Dirs, Received(c, d) PROVE Inv'
  <2>1. Typed' /\ UNCHANGED <<father, connecting, open>>
    <3>1. Typed'
      BY <1>2, ReceivedIs, Zenon DEF Inv
    <3>2. UNCHANGED <<father, connecting, open>>
      BY ONLY <1>2, Zenon DEF Received
    <3> QED
      BY ONLY <3>1, <3>2, Zenon
  <2> QED
    BY <1>2, <2>1, BookKept, RelaysReceived DEF Inv
<1>3. ASSUME NEW d \in Dirs, Sent(c, d) PROVE Inv'
  <2>1. Typed' /\ UNCHANGED <<father, connecting, open>>
    BY <1>3, SentIs DEF Sent, Inv
  <2> QED
    BY <1>3, <2>1, BookKept, RelaysSent DEF Inv
<1> QED
  BY <1>1, <1>2, <1>3 DEF Kernel

LEMMA PeersInv ==
  ASSUME Inv, NEW c \in Numbers, NEW d \in Dirs, Write(c, d) \/ Leave(c, d)
  PROVE  Inv'
<1>1. CASE Write(c, d)
  <2>1. Typed' /\ UNCHANGED <<father, connecting, open>>
    BY <1>1, WriteIs DEF Write, Inv, relay
  <2> QED
    BY <1>1, <2>1, BookKept, RelaysWrite DEF Inv
<1>2. CASE Leave(c, d)
  <2>1. Typed' /\ UNCHANGED <<father, relay, wrote, taken, out>>
    BY <1>2, LeaveIs DEF Inv
  <2>2. Relays' /\ Book' /\ Sockets'
    BY <2>1, BookKept DEF Inv, Relays, RelayAt, relay
  <2> QED
    BY <2>1, <2>2 DEF Inv
<1> QED
  BY <1>1, <1>2

LEMMA NextInv == Inv /\ [Next]_vars => Inv'
<1> SUFFICES ASSUME Inv, [Next]_vars PROVE Inv'
  OBVIOUS
<1>1. CASE handle_accept
  BY <1>1, AcceptIs, BookAccept, RelaysAccept DEF Inv
<1>2. CASE handle_accept_error
  BY <1>2, AcceptErrorIs, BookAcceptError DEF Inv
<1>3. ASSUME NEW c \in Numbers, Handler(c) \/ Kernel(c) \/ \E d \in Dirs : Write(c, d) \/ Leave(c, d)
      PROVE  Inv'
  BY <1>3, HandlerInv, KernelInv, PeersInv
<1>4. CASE UNCHANGED vars
  BY <1>4 DEF Inv, Typed, Book, Sockets, Relays, RelayAt, vars, father, relay, peers
<1> QED
  BY <1>1, <1>2, <1>3, <1>4 DEF Next

LEMMA Invariant == Spec => []Inv
<1>1. Init => Inv
  BY InitInv
<1>2. Inv /\ [Next]_vars => Inv'
  BY NextInv
<1> QED
  BY <1>1, <1>2, PTL DEF Spec

----------------------------------------------------------------------------
(* Operations while the sockets are open *)

ServedAt(c) == open[c] => Connecting(c) \/ \A d \in Dirs : op[c][d] # Idle
Served == \A c \in Numbers : ServedAt(c)

\* A client that a step does not open, whose connect it does not change and whose
\* operations it does not end, stays served.
LEMMA ServedKept ==
  ASSUME NEW c \in Numbers, ServedAt(c), open'[c] = open[c], connecting'[c] = connecting[c],
         \A d \in Dirs : op[c][d] # Idle => op'[c][d] # Idle
  PROVE  ServedAt(c)'
BY DEF ServedAt, Connecting

\* A step of one relay that goes on with another operation.
LEMMA ServedGoesOn ==
  ASSUME Served, NEW c \in Numbers, NEW d \in Dirs, Elsewhere(c, d),
         UNCHANGED <<connecting, open>>, op'[c][d] # Idle
  PROVE  Served'
<1>1. ASSUME NEW e \in Numbers PROVE ServedAt(e)'
  <2>1. ServedAt(e)
    BY DEF Served
  <2>2. \A f \in Dirs : op[e][f] # Idle => op'[e][f] # Idle
    BY DEF Elsewhere
  <2> QED
    BY <2>1, <2>2, ServedKept
<1> QED
  BY <1>1 DEF Served

LEMMA ServedHandler ==
  ASSUME Inv, Served, NEW c \in Numbers, Handler(c)
  PROVE  Served'
<1>0. Typed
  BY DEF Inv
<1>1. CASE connect(c)
  <2>1. ServedAt(c)'
    <3>1. Pending("receive") # Idle
      BY DEF Pending, Idle
    <3> QED
      BY <1>0, <1>1, <3>1, ConnectIs DEF ServedAt
  <2>2. ASSUME NEW e \in Numbers, e # c PROVE ServedAt(e)'
    <3>1. ServedAt(e) /\ open'[e] = open[e] /\ connecting'[e] = connecting[e] /\ op'[e] = op[e]
      BY <1>0, <1>1, <2>2, ConnectIs DEF Served
    <3> QED
      BY <3>1, ServedKept
  <2> QED
    BY <2>1, <2>2 DEF Served
<1>2. ASSUME NEW d \in Dirs, stop(c, d) PROVE Served'
  <2>1. /\ open'[c] = FALSE /\ UNCHANGED connecting
        /\ \A e \in Numbers : e # c => op'[e] = op[e] /\ open'[e] = open[e]
    BY <1>0, <1>2, StopIs
  <2>2. ASSUME NEW e \in Numbers, e # c PROVE ServedAt(e)'
    <3>1. ServedAt(e)
      BY DEF Served
    <3> QED
      BY <2>1, <2>2, <3>1, ServedKept
  <2> QED
    BY <2>1, <2>2 DEF Served, ServedAt
<1>3. ASSUME NEW kind, NEW state, kind # "none" PROVE Result(kind, state, 0) # Idle
  BY <1>3 DEF Result, Idle
<1>4. ASSUME NEW d \in Dirs, Read(c, d), ~Failed(c, d, "receive") PROVE Served'
  <2>1. /\ Elsewhere(c, d) /\ UNCHANGED <<connecting, open>>
        /\ op'[c][d] = Result("send", IF open[c] THEN "pending" ELSE "failed", 0)
    BY <1>0, <1>4, ReadIs
  <2> QED
    BY <1>3, <2>1, ServedGoesOn
<1>5. ASSUME NEW d \in Dirs, Written(c, d), ~Failed(c, d, "send") PROVE Served'
  <2>1. /\ Elsewhere(c, d) /\ UNCHANGED <<connecting, open>>
        /\ \/ op'[c][d] = Result("receive", IF open[c] THEN "pending" ELSE "failed", 0)
           \/ op'[c][d] = Result("send", IF open[c] THEN "pending" ELSE "failed", 0)
    BY <1>0, <1>5, WrittenIs
  <2> QED
    BY <1>3, <2>1, ServedGoesOn
<1>6. ASSUME NEW d \in Dirs, Read(c, d) \/ Written(c, d) PROVE Served'
  BY <1>2, <1>4, <1>5, <1>6 DEF Failed
<1> QED
  BY <1>1, <1>6 DEF Handler, userRead, userWrite, serverRead, serverWrite, Dirs

LEMMA ServedKernel ==
  ASSUME Inv, Served, NEW c \in Numbers, Kernel(c)
  PROVE  Served'
<1>0. Typed /\ Relays
  BY DEF Inv
<1>1. CASE Connected(c)
  <2>1. /\ UNCHANGED <<open, op>> /\ connecting'[c] \in {"done", "failed"}
        /\ \A e \in Numbers : e # c => connecting'[e] = connecting[e]
    BY <1>0, <1>1, ConnectedIs
  <2>2. ASSUME NEW e \in Numbers, e # c PROVE ServedAt(e)'
    <3>1. ServedAt(e)
      BY DEF Served
    <3> QED
      BY <2>1, <2>2, <3>1, ServedKept
  <2> QED
    BY <2>1, <2>2 DEF Served, ServedAt, Connecting
<1>2. ASSUME NEW kind, NEW state, NEW n, kind # "none" PROVE Result(kind, state, n) # Idle
  BY <1>2 DEF Result, Idle
<1>3. ASSUME NEW d \in Dirs, Received(c, d) PROVE Served'
  <2>1. /\ Elsewhere(c, d) /\ UNCHANGED <<connecting, open>>
        /\ \E state, n : op'[c][d] = Result("receive", state, n)
    BY <1>0, <1>3, ReceivedIs
  <2> QED
    BY <1>2, <2>1, ServedGoesOn
<1>4. ASSUME NEW d \in Dirs, Sent(c, d) PROVE Served'
  <2>1. /\ Elsewhere(c, d) /\ UNCHANGED <<connecting, open>>
        /\ \E state, n : op'[c][d] = Result("send", state, n)
    BY <1>0, <1>4, SentIs
  <2> QED
    BY <1>2, <2>1, ServedGoesOn
<1> QED
  BY <1>1, <1>3, <1>4 DEF Kernel

LEMMA ServedStep == Inv /\ Served /\ [Next]_vars => Served'
<1> SUFFICES ASSUME Inv, Served, [Next]_vars PROVE Served'
  OBVIOUS
<1>1. CASE handle_accept
  <2>1. /\ UNCHANGED op /\ connecting'[cur_client] = "pending"
        /\ \A e \in Numbers : e # cur_client => connecting'[e] = connecting[e] /\ open'[e] = open[e]
    BY <1>1, AcceptIs DEF Inv
  <2>2. ASSUME NEW e \in Numbers, e # cur_client PROVE ServedAt(e)'
    <3>1. ServedAt(e)
      BY DEF Served
    <3> QED
      BY <2>1, <2>2, <3>1, ServedKept
  <2> QED
    BY <2>1, <2>2 DEF Served, ServedAt, Connecting
<1>2. ASSUME UNCHANGED <<connecting, open, op>> PROVE Served'
  BY <1>2 DEF Served, ServedAt, Connecting
<1>3. CASE handle_accept_error
  BY <1>2, <1>3 DEF handle_accept_error, relay
<1>4. ASSUME NEW c \in Numbers, NEW d \in Dirs, Write(c, d) \/ Leave(c, d) PROVE Served'
  BY <1>2, <1>4 DEF Write, Leave, relay
<1>5. CASE UNCHANGED vars
  BY <1>2, <1>5 DEF vars, relay
<1> QED
  BY <1>1, <1>3, <1>4, <1>5, ServedHandler, ServedKernel DEF Next

----------------------------------------------------------------------------
(* The refinement: the relays are the queues of RelayPair *)

\* The queue of a relay, and the pairs whose queues deliver.
Fifo == [c \in Numbers |-> [d \in Dirs |-> Bytes(Len(out[c][d]), wrote[c][d] - Len(out[c][d]))]]
OpenPairs == {c \in Numbers : connecting[c] = "no" \/ open[c]}

LEMMA NoBytes == Bytes(0, 0) = <<>>
BY DEF Bytes

LEMMA AppendByte ==
  ASSUME NEW a \in Nat, NEW n \in Nat
  PROVE  Append(Bytes(a, n), a + n + 1) = Bytes(a, n + 1)
<1>1. Bytes(a, n) \in Seq(Nat) /\ Bytes(a + n, 1) = <<a + n + 1>> /\ a + n + 1 \in Nat
  BY BytesSeq DEF Bytes
<1>2. Append(Bytes(a, n), a + n + 1) = Bytes(a, n) \o <<a + n + 1>>
  BY <1>1, AppendIsConcat
<1>3. Bytes(a, n) \o Bytes(a + n, 1) = Bytes(a, n + 1)
  <2>1. 1 \in Nat
    OBVIOUS
  <2> QED
    BY <2>1, BytesConcat, Zenon
<1> QED
  BY <1>1, <1>2, <1>3, Zenon

LEMMA FifoAt ==
  ASSUME NEW c \in Numbers, NEW d \in Dirs
  PROVE  /\ Fifo[c][d] = Bytes(Len(out[c][d]), wrote[c][d] - Len(out[c][d]))
         /\ Fifo'[c][d] = Bytes(Len(out'[c][d]), wrote'[c][d] - Len(out'[c][d]))
BY DEF Fifo

LEMMA SentBehind ==
  ASSUME Typed, Relays, NEW c \in Numbers, NEW d \in Dirs
  PROVE  /\ Len(out[c][d]) \in Nat /\ wrote[c][d] \in Nat /\ wrote[c][d] - Len(out[c][d]) \in Nat
         /\ Len(Fifo[c][d]) = wrote[c][d] - Len(out[c][d])
<1>1. Len(out[c][d]) \in Nat /\ wrote[c][d] \in Nat /\ taken[c][d] \in Nat
  BY Indices
<1>2. wrote[c][d] - Len(out[c][d]) \in Nat
  BY <1>1 DEF Relays, RelayAt, RelayOK
<1>3. Len(Bytes(Len(out[c][d]), wrote[c][d] - Len(out[c][d]))) = wrote[c][d] - Len(out[c][d])
  BY <1>1, <1>2, BytesSeq, Zenon
<1> QED
  BY <1>1, <1>2, <1>3, FifoAt, Zenon

\* Only the queue of c in direction d changes.
LEMMA FifoUpdate ==
  ASSUME NEW c \in Numbers, NEW d \in Dirs, NEW x, Fifo'[c][d] = x,
         \A e \in Numbers, f \in Dirs : (e # c \/ f # d) =>
            out'[e][f] = out[e][f] /\ wrote'[e][f] = wrote[e][f]
  PROVE  Fifo' = [Fifo EXCEPT ![c][d] = x]
<1>1. ASSUME NEW e \in Numbers, NEW f \in Dirs
      PROVE  Fifo'[e][f] = IF e = c /\ f = d THEN x ELSE Fifo[e][f]
  BY FifoAt
<1>2. /\ Fifo = [e \in Numbers |-> [f \in Dirs |-> Fifo[e][f]]]
      /\ Fifo' = [e \in Numbers |-> [f \in Dirs |-> Fifo'[e][f]]]
  BY DEF Fifo
<1> DEFINE a == Fifo
           b == Fifo'
<1> HIDE DEF a, b
<1>3. /\ a = [e \in Numbers |-> [f \in Dirs |-> a[e][f]]]
      /\ b = [e \in Numbers |-> [f \in Dirs |-> b[e][f]]]
      /\ \A e \in Numbers, f \in Dirs : b[e][f] = IF e = c /\ f = d THEN x ELSE a[e][f]
  BY <1>1, <1>2 DEF a, b
<1> DEFINE g == [a EXCEPT ![c][d] = x]
           X == {a[e][f] : e \in Numbers, f \in Dirs} \cup {x}
<1>5. a \in [Numbers -> [Dirs -> X]] /\ x \in X
  <2>1. \A e \in Numbers, f \in Dirs : a[e][f] \in X
    OBVIOUS
  <2> HIDE DEF X
  <2>2. [e \in Numbers |-> [f \in Dirs |-> a[e][f]]] \in [Numbers -> [Dirs -> X]]
    BY <2>1
  <2> QED
    BY <1>3, <2>2 DEF X
<1> HIDE DEF X
<1>6. /\ g \in [Numbers -> [Dirs -> X]]
      /\ \A e \in Numbers, f \in Dirs : g[e][f] = IF e = c /\ f = d THEN x ELSE a[e][f]
  BY <1>5, Update2
<1> HIDE DEF g
<1>7. g = [e \in Numbers |-> [f \in Dirs |-> g[e][f]]]
  BY <1>6
<1>8. \A e \in Numbers, f \in Dirs : g[e][f] = b[e][f]
  BY <1>3, <1>6
<1>4. b = [a EXCEPT ![c][d] = x]
  BY <1>3, <1>7, <1>8 DEF g
<1> QED
  BY <1>4 DEF a, b

LEMMA PairStutter ==
  ASSUME UNCHANGED <<out, wrote>>, OpenPairs' = OpenPairs
  PROVE  UNCHANGED Pair!vars
BY DEF Pair!vars, OpenPairs

LEMMA PairWrite ==
  ASSUME Typed, Relays, NEW c \in Numbers, NEW d \in Dirs, Write(c, d)
  PROVE  Pair!Next
<1>1. /\ Elsewhere(c, d) /\ UNCHANGED <<connecting, open, out>> /\ wrote'[c][d] = wrote[c][d] + 1
  BY WriteIs
<1> DEFINE L == Len(out[c][d])
           w == wrote[c][d]
<1>2. L \in Nat /\ w \in Nat /\ w - L \in Nat /\ Len(Fifo[c][d]) = w - L
      /\ Fifo[c][d] = Bytes(L, w - L) /\ Fifo'[c][d] = Bytes(L, (w + 1) - L)
  BY <1>1, SentBehind, FifoAt
<1> HIDE DEF L, w
<1>3. L + (w - L) + 1 = L + Len(Fifo[c][d]) + 1 /\ (w - L) + 1 = (w + 1) - L
  BY <1>2
<1>4. Append(Bytes(L, w - L), L + (w - L) + 1) = Bytes(L, (w - L) + 1)
  BY <1>2, AppendByte
<1>5. Fifo'[c][d] = Append(Fifo[c][d], L + Len(Fifo[c][d]) + 1)
  BY <1>2, <1>3, <1>4
<1>6. Fifo' = [Fifo EXCEPT ![c][d] = Append(Fifo[c][d], L + Len(Fifo[c][d]) + 1)]
  BY <1>1, <1>5, FifoUpdate DEF Elsewhere
<1>7. Fifo' = [Fifo EXCEPT ![c][d] = Append(@, Len(out[c][d]) + Len(@) + 1)]
  BY <1>6 DEF L
<1>8. UNCHANGED <<out, OpenPairs>>
  BY <1>1 DEF OpenPairs
<1>9. Pair!Write(c, d)
  BY ONLY <1>7, <1>8, Zenon DEF Pair!Write, Fifo, OpenPairs
<1> QED
  BY <1>9 DEF Pair!Next

LEMMA PairDeliver ==
  ASSUME Typed, Relays, NEW c \in Numbers, NEW d \in Dirs, Sent(c, d)
  PROVE  Pair!Next \/ UNCHANGED Pair!vars
<1>1. /\ Elsewhere(c, d) /\ UNCHANGED <<connecting, open, wrote>>
      /\ op[c][d].kind = "send" /\ op[c][d].state = "pending"
      /\ \/ \E n \in 1 .. size_message[c][d] - cur_size[c][d] :
              /\ out'[c][d] = out[c][d] \o SubSeq(buf[c][d], cur_size[c][d] + 1, cur_size[c][d] + n)
              /\ out' = [out EXCEPT ![c][d] = out'[c][d]]
         \/ UNCHANGED out
  BY SentIs
<1>2. UNCHANGED OpenPairs /\ RelayAt(c, d)
  BY <1>1 DEF OpenPairs, Relays
<1>3. CASE UNCHANGED out
  BY <1>1, <1>2, <1>3, PairStutter
<1>4. ASSUME NEW n \in 1 .. size_message[c][d] - cur_size[c][d],
             out'[c][d] = out[c][d] \o SubSeq(buf[c][d], cur_size[c][d] + 1, cur_size[c][d] + n),
             out' = [out EXCEPT ![c][d] = out'[c][d]]
      PROVE  Pair!Next
  <2> DEFINE piece == SubSeq(buf[c][d], cur_size[c][d] + 1, cur_size[c][d] + n)
             L == Len(out[c][d])
             w == wrote[c][d]
  <2>1. piece = Bytes(L, n) /\ L + n <= w
    <3> HIDE DEF piece
    <3> QED
      BY <1>1, <1>2, RelaySent, Zenon DEF piece
  <2>2. out' = [out EXCEPT ![c][d] = out[c][d] \o piece] /\ out'[c][d] = out[c][d] \o piece
    BY <1>4
  <2>3. L \in Nat /\ w \in Nat /\ w - L \in Nat /\ Len(Fifo[c][d]) = w - L
        /\ Fifo[c][d] = Bytes(L, w - L) /\ out[c][d] \in Seq(Nat)
    BY SentBehind, FifoAt, Indices
  <2>4. n \in Nat \ {0}
    BY Indices
  <2> HIDE DEF piece, L, w
  <2>5. n \in 0 .. w - L /\ n \in 1 .. w - L /\ (w - L) - n = w - (L + n)
    BY <2>1, <2>3, <2>4
  <2>6. SubSeq(Bytes(L, w - L), 1, n) = piece
        /\ SubSeq(Bytes(L, w - L), n + 1, w - L) = Bytes(L + n, (w - L) - n)
    BY <2>1, <2>3, <2>5, BytesSplit, Zenon
  <2>7. Len(out'[c][d]) = L + n
    <3>1. piece \in Seq(Nat) /\ Len(piece) = n
      BY <2>1, <2>3, <2>4, BytesSeq
    <3> QED
      BY <2>2, <2>3, <3>1, ConcatProperties DEF L
  <2>8. Fifo'[c][d] = SubSeq(Fifo[c][d], n + 1, Len(Fifo[c][d]))
    <3>1. Fifo'[c][d] = Bytes(L + n, w - (L + n))
      BY <1>1, <2>7, FifoAt DEF w
    <3> QED
      BY <2>3, <2>5, <2>6, <3>1
  <2>9. Fifo' = [Fifo EXCEPT ![c][d] = SubSeq(Fifo[c][d], n + 1, Len(Fifo[c][d]))]
    BY <1>1, <2>8, FifoUpdate DEF Elsewhere
  <2>10. out' = [out EXCEPT ![c][d] = out[c][d] \o SubSeq(Fifo[c][d], 1, n)]
    BY <2>2, <2>3, <2>6
  <2>11. n \in 1 .. Len(Fifo[c][d]) /\ c \in OpenPairs
    BY <1>1, <1>2, <2>3, <2>5 DEF OpenPairs, RelayAt, RelayOK
  <2>12. /\ out' = [out EXCEPT ![c][d] = @ \o SubSeq(Fifo[c][d], 1, n)]
         /\ Fifo' = [Fifo EXCEPT ![c][d] = SubSeq(@, n + 1, Len(@))]
    BY <2>9, <2>10, SMTT(30)
  <2>13. Pair!Deliver(c, d)
    BY <1>2, <2>11, <2>12 DEF Pair!Deliver, Fifo, OpenPairs
  <2> QED
    BY <2>13 DEF Pair!Next
<1> QED
  BY <1>1, <1>3, <1>4

\* A client that closes its sockets ends both its relays.
LEMMA PairClose ==
  ASSUME Typed, NEW c \in Numbers, connecting'[c] # "no", open'[c] = FALSE, UNCHANGED <<out, wrote>>,
         \A e \in Numbers : e # c => connecting'[e] = connecting[e] /\ open'[e] = open[e]
  PROVE  Pair!Next
<1>1. OpenPairs' = OpenPairs \ {c}
  BY DEF OpenPairs
<1>2. Fifo' = Fifo
  BY DEF Fifo
<1>3. Pair!Close(c)
  BY <1>1, <1>2 DEF Pair!Close, Fifo, OpenPairs
<1> QED
  BY <1>3 DEF Pair!Next

LEMMA PairHandler ==
  ASSUME Inv, NEW c \in Numbers, Handler(c)
  PROVE  Pair!Next \/ UNCHANGED Pair!vars
<1>1. CASE connect(c)
  <2>1. /\ UNCHANGED <<out, wrote>>
        /\ \A e \in Numbers : e # c => connecting'[e] = connecting[e] /\ open'[e] = open[e]
        /\ \/ connecting[c] = "done" /\ connecting'[c] = "made" /\ UNCHANGED open
           \/ connecting'[c] = "refused" /\ open'[c] = FALSE
    BY <1>1, ConnectIs DEF Inv, peers
  <2>2. CASE connecting[c] = "done" /\ connecting'[c] = "made" /\ UNCHANGED open
    <3>1. open[c]
      BY <2>2 DEF Inv, Sockets
    <3> QED
      BY <2>1, <2>2, <3>1, PairStutter DEF OpenPairs
  <2>3. CASE connecting'[c] = "refused" /\ open'[c] = FALSE
    BY <2>1, <2>3, PairClose DEF Inv
  <2> QED
    BY <2>1, <2>2, <2>3
<1>2. ASSUME NEW d \in Dirs, NEW kind \in {"receive", "send"}, Failed(c, d, kind)
      PROVE  Pair!Next
  <2>1. stop(c, d) /\ connecting[c] = "made"
    BY <1>2, OpsOfMade DEF Failed, Inv
  <2>2. /\ UNCHANGED <<connecting, out, wrote>> /\ open'[c] = FALSE
        /\ \A e \in Numbers : e # c => open'[e] = open[e]
    BY <2>1, StopIs DEF Inv, peers
  <2> QED
    BY <2>1, <2>2, PairClose DEF Inv
<1>3. ASSUME NEW d \in Dirs, Read(c, d) PROVE Pair!Next \/ UNCHANGED Pair!vars
  <2>1. CASE ~Failed(c, d, "receive")
    BY <1>3, <2>1, ReadIs, PairStutter DEF Inv, OpenPairs, peers
  <2> QED
    BY <1>2, <2>1
<1>4. ASSUME NEW d \in Dirs, Written(c, d) PROVE Pair!Next \/ UNCHANGED Pair!vars
  <2>1. CASE ~Failed(c, d, "send")
    BY <1>4, <2>1, WrittenIs, PairStutter DEF Inv, OpenPairs, peers
  <2> QED
    BY <1>2, <2>1
<1> QED
  BY <1>1, <1>3, <1>4 DEF Handler, userRead, userWrite, serverRead, serverWrite, Dirs

LEMMA PairAccept ==
  ASSUME Inv, handle_accept
  PROVE  UNCHANGED Pair!vars
<1>1. PICK c \in Numbers : c = cur_client
  BY AcceptIs DEF Inv
<1>2. /\ UNCHANGED <<out, wrote>>
      /\ connecting'[c] = "pending" /\ open'[c] = TRUE
      /\ \A e \in Numbers : e # c => connecting'[e] = connecting[e] /\ open'[e] = open[e]
  BY <1>1, AcceptIs DEF Inv, peers
<1>3. connecting[c] = "no"
  BY <1>1 DEF Inv, Book, Typed
<1>4. OpenPairs' = OpenPairs
  BY <1>2, <1>3 DEF OpenPairs
<1> QED
  BY <1>2, <1>4, PairStutter

LEMMA PairStep == Inv /\ [Next]_vars => [Pair!Next]_Pair!vars
<1> SUFFICES ASSUME Inv, [Next]_vars PROVE Pair!Next \/ UNCHANGED Pair!vars
  OBVIOUS
<1>1. CASE handle_accept
  BY <1>1, PairAccept
<1>2. CASE handle_accept_error \/ UNCHANGED vars
  <2>1. UNCHANGED <<out, wrote, connecting, open>>
    BY <1>2 DEF handle_accept_error, vars, relay, peers
  <2> QED
    BY <2>1, PairStutter DEF OpenPairs
<1>3. ASSUME NEW c \in Numbers, Handler(c) PROVE Pair!Next \/ UNCHANGED Pair!vars
  BY <1>3, PairHandler
<1>4. ASSUME NEW c \in Numbers, Connected(c) PROVE UNCHANGED Pair!vars
  <2>1. /\ UNCHANGED <<out, wrote, open>>
        /\ connecting[c] = "pending" /\ connecting'[c] \in {"done", "failed"}
        /\ \A e \in Numbers : e # c => connecting'[e] = connecting[e]
    BY <1>4, ConnectedIs DEF Inv, peers
  <2> QED
    BY <2>1, PairStutter DEF OpenPairs
<1>5. ASSUME NEW c \in Numbers, NEW d \in Dirs, Received(c, d) PROVE UNCHANGED Pair!vars
  BY <1>5, ReceivedIs, PairStutter DEF Inv, OpenPairs
<1>6. ASSUME NEW c \in Numbers, NEW d \in Dirs, Sent(c, d) PROVE Pair!Next \/ UNCHANGED Pair!vars
  BY <1>6, PairDeliver DEF Inv
<1>7. ASSUME NEW c \in Numbers, NEW d \in Dirs, Write(c, d) PROVE Pair!Next
  BY <1>7, PairWrite DEF Inv
<1>8. ASSUME NEW c \in Numbers, NEW d \in Dirs, Leave(c, d) PROVE UNCHANGED Pair!vars
  BY <1>8, LeaveIs, PairStutter DEF Inv, OpenPairs, relay
<1> QED
  BY <1>1, <1>2, <1>3, <1>4, <1>5, <1>6, <1>7, <1>8 DEF Next, Kernel

LEMMA PairInit == Init => Pair!Init
<1> SUFFICES ASSUME Init PROVE Pair!Init
  OBVIOUS
<1>1. Len(<<>>) = 0 /\ 0 - 0 = 0
  BY EmptySeq
<1>2. Fifo = [c \in Numbers |-> [d \in Dirs |-> <<>>]]
  BY <1>1, NoBytes DEF Init, EachRelay, Fifo
<1>3. out = Fifo /\ OpenPairs = Numbers
  BY <1>2 DEF Init, EachRelay, OpenPairs
<1> QED
  BY <1>2, <1>3 DEF Pair!Init, Fifo, OpenPairs

----------------------------------------------------------------------------
(* The theorems *)

\* Types: sizes and positions stay in their buffers and streams.
THEOREM TypeCorrect == Spec => []TypeOK
<1>1. Inv => TypeOK
  BY InvTypeOK
<1> QED
  BY <1>1, Invariant, PTL

\* While its sockets are open, a client waits for its connect or for an operation
\* in each direction, though the map may have lost it (proxy.cpp:67, 97); when they
\* are closed, it waits for none that is pending.
THEOREM Kept == Spec => []KeptByHandlers
<1>1. Init => Served
  BY DEF Init, Served, ServedAt
<1>2. Inv /\ Served /\ [Next]_vars => Served'
  BY ServedStep
<1>3. Inv /\ Served => KeptByHandlers
  <2> SUFFICES ASSUME Inv, Served, NEW c \in Numbers, ~open[c]
               PROVE  ~Connecting(c) /\ \A d \in Dirs : op[c][d].state # "pending"
    BY DEF KeptByHandlers, Served, ServedAt
  <2>1. ~Connecting(c)
    BY DEF Inv, Sockets, Connecting
  <2>2. ASSUME NEW d \in Dirs PROVE op[c][d].state # "pending"
    BY DEF Inv, Relays, RelayAt, RelayOK
  <2> QED
    BY <2>1, <2>2
<1> QED
  BY <1>1, <1>2, <1>3, Invariant, PTL DEF Spec

\* Both relays of a client are queues that lose, repeat and reorder no byte and
\* end together: every step of the proxy is a step of RelayPair or none.
THEOREM Refinement == Spec => ImplementsRelay
<1>1. Inv /\ [Next]_vars => [Pair!Next]_Pair!vars
  BY PairStep
<1>2. Init => Pair!Init
  BY PairInit
<1> QED
  BY <1>1, <1>2, Invariant, PTL DEF Spec, ImplementsRelay, Pair!Spec
=============================================================================
