--------------------------- MODULE FramingProofs ---------------------------
(***************************************************************************)
(* Proofs about the two halves of the chat's framing, which share no state *)
(* and no step: first the receiving half, then the sending half.           *)
(***************************************************************************)
EXTENDS MessageFraming, SendQueue, SequenceLemmas, WellFoundedInduction

(***************************************************************************)
(* The receiving half, for every header size, buffer size, list of message *)
(* lengths and every way of cutting the stream.  The argument is that      *)
(* Synced is inductive: however a buffer falls across headers and bodies,  *)
(* the Message object stands exactly at the last byte received.            *)
(***************************************************************************)

----------------------------------------------------------------------------
(* The stream *)

\* A non-empty set of numbers has a least one.
LEMMA LeastElement ==
  ASSUME NEW T \in SUBSET Nat, T # {}
  PROVE  \E k \in T : \A j \in T : k <= j
<1> DEFINE R == OpToRel(<, Nat)
<1>1. PICK k \in T : \A j \in T : <<j, k>> \notin R
  <2>1. IsWellFoundedOn(R, Nat)
    BY NatLessThanWellFounded
  <2> QED
    BY <2>1, WFMin
<1>2. ASSUME NEW j \in T PROVE k <= j
  <2>1. ~(j < k)
    BY <1>1 DEF OpToRel
  <2> QED
    BY <2>1
<1> QED
  BY <1>2

\* Frames do not overlap: an earlier one ends where a later one starts, or
\* before.
LEMMA StartMonotonic ==
  ASSUME NEW i \in Frames, NEW j \in 1 .. NMsgs + 1, i < j
  PROVE  Start[i + 1] <= Start[j]
<1> DEFINE T == {k \in Nat : k \in 1 .. NMsgs + 1 /\ i < k /\ ~(Start[i + 1] <= Start[k])}
<1> SUFFICES ASSUME T # {} PROVE FALSE
  <2> i + 1 \in 1 .. NMsgs + 1
    BY SizesAssumption DEF Frames
  <2> QED
    BY SizesAssumption, StartAssumption
<1>1. PICK k \in T : \A l \in T : k <= l
  BY LeastElement
<1>2. k # i + 1
  BY <1>1, StartAssumption, SizesAssumption DEF Frames
<1>3. k - 1 \in Frames /\ i < k - 1
  BY <1>1, <1>2, SizesAssumption DEF Frames
<1>4. Start[i + 1] <= Start[k - 1]
  <2>1. k - 1 \notin T
    BY <1>1, <1>3
  <2> QED
    BY <2>1, <1>3, SizesAssumption DEF Frames
<1>5. Start[k] = Start[k - 1] + Header + MsgLen[k - 1]
  BY <1>3, StartAssumption DEF Frames
<1>6. /\ Header \in Nat /\ MsgLen[k - 1] \in Nat
      /\ Start[k - 1] \in Nat /\ Start[k] \in Nat /\ Start[i + 1] \in Nat
  <2>1. k \in 1 .. NMsgs + 1 /\ k - 1 \in 1 .. NMsgs + 1 /\ i + 1 \in 1 .. NMsgs + 1
    BY <1>1, <1>3, SizesAssumption DEF Frames
  <2> QED
    BY <2>1, <1>3, StartAssumption, SizesAssumption
<1>7. Start[i + 1] <= Start[k]
  BY <1>4, <1>5, <1>6
<1> QED
  BY <1>1, <1>7

\* The numbers a proof about frame i needs.
LEMMA FrameFacts ==
  /\ StreamLen \in Nat
  /\ \A i \in Frames : /\ MsgLen[i] \in Nat
                       /\ Start[i] \in Nat
                       /\ i + 1 \in 1 .. NMsgs + 1
                       /\ Start[i + 1] \in Nat
                       /\ Start[i + 1] = Start[i] + Header + MsgLen[i]
                       /\ Start[i + 1] <= StreamLen
  /\ \A i \in 1 .. NMsgs + 1 : /\ Start[i] \in Nat
                               /\ Start[i] < StreamLen => i \in Frames
<1>1. StreamLen \in Nat
  BY SizesAssumption, StartAssumption DEF StreamLen
<1>2. ASSUME NEW i \in Frames PROVE Start[i + 1] <= StreamLen
  BY StartMonotonic, SizesAssumption DEF Frames, StreamLen
<1> QED
  BY <1>1, <1>2, SizesAssumption, StartAssumption, SMTT(30) DEF Frames, StreamLen

----------------------------------------------------------------------------
(* Reading the stream *)

\* The header of a frame reads as the length of that frame and no other.
LEMMA DecodeHeader ==
  ASSUME NEW i \in Frames
  PROVE  Decode(Bytes(Start[i], Header)) = MsgLen[i]
<1> DEFINE I == {l \in Frames : Bytes(Start[i], Header) = Bytes(Start[l], Header)}
<1>1. \A l \in Frames : Start[l] \in Nat /\ Header \in Nat /\ 1 \in 1 .. Header
  BY FrameFacts, SizesAssumption
<1>2. ASSUME NEW l \in Frames, NEW k \in Frames, l < k PROVE Start[l] < Start[k]
  <2>1. Start[l + 1] <= Start[k]
    BY <1>2, StartMonotonic, SizesAssumption DEF Frames
  <2> QED
    BY <2>1, <1>1, FrameFacts, SizesAssumption
<1>3. ASSUME NEW l \in I PROVE l = i
  <2>1. Bytes(Start[i], Header)[1] = Bytes(Start[l], Header)[1]
    BY <1>3
  <2>2. /\ Bytes(Start[i], Header)[1] = Start[i] + 1
        /\ Bytes(Start[l], Header)[1] = Start[l] + 1
    BY <1>1 DEF Bytes
  <2>3. ~(l < i) /\ ~(i < l)
    BY <2>1, <2>2, <1>1, <1>2
  <2> QED
    BY <2>3, SizesAssumption DEF Frames
<1>4. I = {i}
  BY <1>3
<1> QED
  BY <1>4 DEF Decode

\* What "+=" appends has the right type, and is the whole buffer when the
\* buffer holds no 0.
LEMMA CStringFacts ==
  ASSUME NEW b \in Seq(Nat)
  PROVE  /\ CString(b) \in Seq(Nat)
         /\ (\A k \in 1 .. Len(b) : b[k] \notin Nul) => CString(b) = b
<1> DEFINE zeros == {k \in 1 .. Len(b) : b[k] \in Nul}
           z == CHOOSE k \in zeros : \A j \in zeros : k <= j
<1>1. CASE zeros = {}
  BY <1>1 DEF CString
<1>2. CASE zeros # {}
  <2>1. zeros \in SUBSET Nat
    BY LenProperties
  <2>2. z \in zeros
    BY <1>2, <2>1, LeastElement
  <2>3. z - 1 \in Int /\ \A k \in 1 .. z - 1 : b[k] \in Nat
    <3>1. Len(b) \in Nat /\ b \in [1 .. Len(b) -> Nat]
      BY LenProperties
    <3>2. z \in 1 .. Len(b)
      BY <2>2
    <3> HIDE DEF z
    <3> QED
      BY <3>1, <3>2
  <2>4. SubSeq(b, 1, z - 1) \in Seq(Nat)
    BY <2>3, SubSeqProperties
  <2> QED
    BY <2>4, <1>2 DEF CString
<1> QED
  BY <1>1, <1>2

\* Appending an interval of a body to the interval before it.
LEMMA ClearBytes ==
  ASSUME NEW i \in Frames, NEW c \in Nat, NEW n \in Nat, c + n <= MsgLen[i]
  PROVE  /\ CString(Bytes(Start[i] + Header + c, n)) \in Seq(Nat)
         /\ Clean(i) =>
              Bytes(Start[i] + Header, c) \o CString(Bytes(Start[i] + Header + c, n))
                = Bytes(Start[i] + Header, c + n)
<1> DEFINE a == Start[i] + Header
           b == Bytes(a + c, n)
<1>1. a \in Nat /\ a + c \in Nat /\ MsgLen[i] \in Nat /\ Header \in Nat /\ Start[i] \in Nat
  BY FrameFacts, SizesAssumption
<1>2. b \in Seq(Nat) /\ Len(b) = n /\ \A k \in 1 .. n : b[k] = a + c + k
  BY <1>1, BytesSeq
<1>3. ASSUME Clean(i) PROVE CString(b) = b
  <2>1. ASSUME NEW k \in 1 .. n PROVE b[k] \notin Nul
    <3>1. c + k \in 1 .. MsgLen[i]
      BY <1>1
    <3>2. Start[i] + Header + (c + k) \notin Nul
      BY <3>1, <1>3 DEF Clean
    <3>3. b[k] = Start[i] + Header + (c + k)
      <4>1. b[k] = a + c + k
        BY <1>2
      <4>2. a + c + k = Start[i] + Header + (c + k)
        BY <1>1
      <4> QED
        BY <4>1, <4>2, Zenon
    <3> QED
      BY <3>2, <3>3
  <2> QED
    BY <2>1, <1>2, CStringFacts
<1>4. Bytes(a, c) \o b = Bytes(a, c + n)
  BY <1>1, BytesConcat, ZenonT(40)
<1> QED
  BY <1>2, <1>3, <1>4, CStringFacts

----------------------------------------------------------------------------
(* The Message object *)

\* add_to_cur_msg writes cur_len and cur_message only.
LEMMA AddToCurMsg ==
  ASSUME NEW msg \in Messages, NEW b \in Seq(Nat)
  PROVE  LET r == add_to_cur_msg(msg, b)
         IN  /\ r \in Messages
             /\ r.cur_len = msg.cur_len + Len(b)
             /\ r.cur_message = msg.cur_message \o CString(b)
             /\ \A f \in {"have_count", "len_msg", "cur_part", "have_part", "add_part"} :
                  r[f] = msg[f]
<1>1. CString(b) \in Seq(Nat) /\ Len(b) \in Nat
  BY CStringFacts, LenProperties
<1>2. msg.cur_message \in Seq(Nat) /\ msg.cur_len \in Nat
  BY DEF Messages
<1>3. msg.cur_message \o CString(b) \in Seq(Nat) /\ msg.cur_len + Len(b) \in Nat
  BY <1>1, <1>2, ConcatProperties
<1> QED
  BY <1>3 DEF add_to_cur_msg, Messages

\* A buffer that continues the stream leaves a Message that knows its length
\* aligned, whether it ends inside the body, at its end or beyond.
LEMMA BodyPartAligned ==
  ASSUME NEW msg \in Messages, NEW i, NEW p \in Nat, NEW n \in 1 .. BufSize,
         AtBody(msg, i, p), ~msg.have_part, Len(msg.add_part) <= BufSize
  PROVE  LET r == BodyPart(msg, Bytes(p, n))
         IN  /\ r \in Messages
             /\ r.have_count
             /\ AtBody(r, i, p + n)
             /\ Len(r.add_part) <= BufSize
<1> DEFINE buf == Bytes(p, n)
           r == BodyPart(msg, buf)
           c == msg.cur_len
<1>1. /\ i \in Frames
      /\ msg.have_count
      /\ msg.len_msg = MsgLen[i]
      /\ c <= MsgLen[i]
      /\ Clean(i) => msg.cur_message = Bytes(Start[i] + Header, c)
      /\ p = Start[i] + Header + c
  BY DEF AtBody
<1>2. /\ c \in Nat /\ n \in Nat /\ n > 0 /\ BufSize \in Nat /\ Header \in Nat
      /\ Start[i] \in Nat /\ MsgLen[i] \in Nat
      /\ Start[i + 1] \in Nat /\ Start[i + 1] = Start[i] + Header + MsgLen[i]
  BY <1>1, FrameFacts, SizesAssumption DEF Messages
<1>3. buf \in Seq(Nat) /\ Len(buf) = n
  BY <1>2, BytesSeq
<1>6. r = IF c + n <= MsgLen[i]
          THEN [add_to_cur_msg(msg, buf) EXCEPT !.have_part = FALSE]
          ELSE [add_to_cur_msg(msg, SubSeq(buf, 1, MsgLen[i] - c))
                  EXCEPT !.have_part = TRUE,
                         !.add_part = SubSeq(buf, MsgLen[i] - c + 1, n)]
  BY <1>1, <1>3 DEF BodyPart
<1>7. /\ msg.cur_len = c
      /\ Clean(i) => msg.cur_message = Bytes(Start[i] + Header, c)
  BY <1>1
<1>8. i \in Frames /\ c \in Nat /\ n \in Nat /\ MsgLen[i] \in Nat /\ c <= MsgLen[i]
  BY <1>1, <1>2
<1> HIDE DEF c, buf, r
<1>4. CASE c + n <= MsgLen[i]
  <2> DEFINE q == add_to_cur_msg(msg, buf)
  <2>1. r = [q EXCEPT !.have_part = FALSE]
    BY <1>4, <1>6, Zenon
  <2>2. /\ q \in Messages
        /\ q.cur_len = c + n
        /\ q.cur_message = msg.cur_message \o CString(buf)
        /\ q.have_count = msg.have_count
        /\ q.len_msg = msg.len_msg
        /\ q.add_part = msg.add_part
    BY <1>3, <1>7, AddToCurMsg
  <2> HIDE DEF q
  <2>3. /\ r \in Messages
        /\ r.cur_len = c + n
        /\ r.cur_message = q.cur_message
        /\ r.have_count = msg.have_count
        /\ r.len_msg = msg.len_msg
        /\ r.add_part = msg.add_part
        /\ ~r.have_part
    BY <2>1, <2>2 DEF Messages
  <2> HIDE DEF r
  <2>4. Clean(i) => r.cur_message = Bytes(Start[i] + Header, c + n)
    <3>1. Clean(i) =>
            Bytes(Start[i] + Header, c) \o CString(Bytes(Start[i] + Header + c, n))
              = Bytes(Start[i] + Header, c + n)
      BY <1>8, <1>4, ClearBytes
    <3> QED
      BY <3>1, <2>2, <2>3, <1>1, <1>7, Zenon DEF buf
  <2>5. p + n = Start[i] + Header + (c + n)
    BY <1>1, <1>2, SMTT(30)
  <2>6. AtBody(r, i, p + n)
    BY <2>3, <2>4, <2>5, <1>1, <1>4 DEF AtBody
  <2> QED
    BY <2>3, <2>6, <1>1, Zenon DEF r, buf
<1>5. CASE ~(c + n <= MsgLen[i])
  <2> DEFINE d == MsgLen[i] - c
             head == SubSeq(buf, 1, d)
             rest == SubSeq(buf, d + 1, n)
             q == add_to_cur_msg(msg, head)
  <2>1. r = [q EXCEPT !.have_part = TRUE, !.add_part = rest]
    BY <1>5, <1>6, Zenon
  <2>2. /\ d \in 0 .. n /\ d \in Nat /\ c + d = MsgLen[i] /\ c + d <= MsgLen[i]
        /\ p + d = Start[i + 1] /\ n - d \in Nat /\ n - d > 0 /\ n - d <= BufSize
    <3>1. /\ d \in Nat /\ d < n /\ c + d = MsgLen[i]
      BY <1>5, <1>8
    <3>2. p + d = Start[i + 1]
      BY <1>1, <1>2, SMTT(30)
    <3> HIDE DEF d
    <3>3. n <= BufSize
      BY <1>2
    <3> QED
      BY <3>1, <3>2, <3>3, <1>2
  <2> HIDE DEF d
  <2>3. head = Bytes(p, d)
    BY <2>2, <1>2, BytesSplit, Zenon DEF buf
  <2>4. rest = Bytes(Start[i + 1], n - d)
    <3>1. rest = Bytes(p + d, n - d)
      BY <2>2, <1>2, BytesSplit, Zenon DEF buf
    <3> QED
      BY <3>1, <2>2
  <2> HIDE DEF head, rest
  <2>5. rest \in Seq(Nat) /\ Len(rest) = n - d
    BY <2>2, <2>4, <1>2, BytesSeq
  <2>6. head \in Seq(Nat) /\ Len(head) = d
    BY <2>2, <2>3, BytesSeq
  <2>7. /\ q \in Messages
        /\ q.cur_len = MsgLen[i]
        /\ q.cur_message = msg.cur_message \o CString(head)
        /\ q.have_count = msg.have_count
        /\ q.len_msg = msg.len_msg
    BY <1>7, <2>2, <2>6, AddToCurMsg
  <2> HIDE DEF q
  <2>8. /\ r \in Messages
        /\ r.cur_len = MsgLen[i]
        /\ r.cur_message = q.cur_message
        /\ r.have_count = msg.have_count
        /\ r.len_msg = msg.len_msg
        /\ r.have_part
        /\ r.add_part = rest
    BY <2>1, <2>5, <2>7 DEF Messages
  <2> HIDE DEF r
  <2>9. Clean(i) => r.cur_message = Bytes(Start[i] + Header, r.cur_len)
    <3>1. Clean(i) =>
            Bytes(Start[i] + Header, c) \o CString(Bytes(Start[i] + Header + c, d))
              = Bytes(Start[i] + Header, c + d)
      BY <1>8, <2>2, ClearBytes
    <3> QED
      BY <3>1, <2>2, <2>3, <2>7, <2>8, <1>1, <1>7, Zenon
  <2>10. p + n = Start[i + 1] + (n - d)
    BY <2>2, <1>2
  <2>11. AtBody(r, i, p + n)
    BY <2>2, <2>4, <2>5, <2>8, <2>9, <2>10, <1>1, <1>2 DEF AtBody
  <2> QED
    BY <2>2, <2>5, <2>8, <2>11, <1>1, Zenon DEF r, buf
<1> QED
  BY <1>4, <1>5

\* The same while the header is incomplete: the length that is read is that of
\* the frame the Message stands in.
LEMMA HeaderPartAligned ==
  ASSUME NEW msg \in Messages, NEW i \in 1 .. NMsgs + 1, NEW p \in Nat,
         NEW n \in 1 .. BufSize, p + n <= StreamLen,
         AtHeader(msg, i, p), Len(msg.add_part) <= BufSize
  PROVE  LET r == HeaderPart(msg, Bytes(p, n))
         IN  /\ r \in Messages
             /\ Aligned(r, i, p + n)
             /\ Len(r.add_part) <= BufSize
             /\ ~r.have_count => r.cur_len <= Header
<1> DEFINE buf == Bytes(p, n)
           r == HeaderPart(msg, buf)
           c == msg.cur_len
           part == SubSeq(msg.cur_part, 1, c) \o buf
           q == [msg EXCEPT !.have_count = TRUE,
                            !.len_msg = Decode(SubSeq(part, 1, Header)),
                            !.cur_len = 0, !.cur_message = <<>>]
           qbuf == SubSeq(part, Header + 1, c + n)
           k == (c + n) - Header
<1>1. /\ c \in 0 .. Header /\ c \in Nat /\ n \in Nat /\ n > 0 /\ n <= BufSize
      /\ BufSize \in Nat /\ Header \in Nat /\ Start[i] \in Nat
      /\ StreamLen \in Nat
      /\ Start[i] < StreamLen => i \in Frames
      /\ p = Start[i] + c
  BY FrameFacts, SizesAssumption DEF AtHeader, Messages
<1>2. part = Bytes(Start[i], c + n)
  <2>1. Bytes(Start[i], c) \o Bytes(Start[i] + c, n) = Bytes(Start[i], c + n)
    BY <1>1, BytesConcat, ZenonT(40)
  <2> QED
    BY <2>1, <1>1, Zenon DEF AtHeader
<1>3. part \in Seq(Nat) /\ Len(part) = c + n
  <2>1. c + n \in Nat
    BY <1>1, SMTT(30)
  <2>2. Bytes(Start[i], c + n) \in Seq(Nat) /\ Len(Bytes(Start[i], c + n)) = c + n
    BY <2>1, <1>1, BytesSeq
  <2> QED
    BY <2>2, <1>2, Zenon
<1>4. r = IF c + n > Header THEN BodyPart(q, qbuf)
          ELSE [msg EXCEPT !.cur_part = part, !.cur_len = c + n]
  BY <1>3, Zenon DEF HeaderPart
<1>7. i \in Frames \/ ~(c + n > 0)
  <2>1. Start[i] < StreamLen \/ ~(c + n > 0)
    <3> HIDE DEF c
    <3> QED
      BY <1>1
  <2> QED
    BY <2>1, <1>1
<1>5. CASE c + n > Header
  <2>1. /\ k \in 1 .. BufSize /\ k \in Nat /\ c + n \in Nat /\ Header \in 0 .. c + n
        /\ Start[i] + Header \in Nat /\ (Start[i] + Header) + k = p + n
    <3> HIDE DEF c
    <3> QED
      BY <1>1, <1>5, SMTT(30)
  <2>2. i \in Frames
    BY <1>1, <1>5, <1>7
  <2>3. /\ SubSeq(part, 1, Header) = Bytes(Start[i], Header)
        /\ qbuf = Bytes(Start[i] + Header, k)
    <3>1. /\ SubSeq(Bytes(Start[i], c + n), 1, Header) = Bytes(Start[i], Header)
          /\ SubSeq(Bytes(Start[i], c + n), Header + 1, c + n)
               = Bytes(Start[i] + Header, (c + n) - Header)
      BY <1>1, <2>1, BytesSplit, ZenonT(40)
    <3> QED
      BY <1>2, <3>1, Zenon
  <2>4. Decode(SubSeq(part, 1, Header)) = MsgLen[i]
    BY <2>2, <2>3, DecodeHeader, Zenon
  <2>5. q = [msg EXCEPT !.have_count = TRUE, !.len_msg = MsgLen[i],
                        !.cur_len = 0, !.cur_message = <<>>]
    BY <2>4, Zenon
  <2>6. MsgLen[i] \in Nat /\ <<>> \in Seq(Nat)
    BY <2>2, FrameFacts, EmptySeq
  <2> HIDE DEF q, part, k
  <2>7. /\ q \in Messages
        /\ q.have_count /\ q.len_msg = MsgLen[i] /\ q.cur_len = 0
        /\ q.cur_message = <<>>
        /\ q.have_part = msg.have_part /\ q.add_part = msg.add_part
    BY <2>5, <2>6 DEF Messages
  <2>8. Bytes(Start[i] + Header, 0) = <<>>
    <3>1. Bytes(Start[i] + Header, 0) \in Seq(Nat) /\ Len(Bytes(Start[i] + Header, 0)) = 0
      BY <2>1, BytesSeq
    <3> QED
      BY <3>1, EmptySeq
  <2>9. /\ AtBody(q, i, Start[i] + Header) /\ ~q.have_part
        /\ Len(q.add_part) <= BufSize
    <3>1. ~msg.have_part
      BY DEF AtHeader
    <3>2. q.cur_len <= MsgLen[i] /\ Start[i] + Header = Start[i] + Header + q.cur_len
      BY <2>6, <2>7, <1>1
    <3> QED
      BY <3>1, <3>2, <2>2, <2>7, <2>8, Zenon DEF AtBody
  <2>10. LET s == BodyPart(q, Bytes(Start[i] + Header, k))
         IN  /\ s \in Messages
             /\ s.have_count
             /\ AtBody(s, i, (Start[i] + Header) + k)
             /\ Len(s.add_part) <= BufSize
    BY <2>1, <2>7, <2>9, BodyPartAligned, Zenon
  <2>11. r = BodyPart(q, Bytes(Start[i] + Header, k))
    BY <1>4, <1>5, <2>3, Zenon
  <2> HIDE DEF r
  <2>12. r \in Messages /\ r.have_count /\ AtBody(r, i, p + n) /\ Len(r.add_part) <= BufSize
    BY <2>1, <2>10, <2>11, Zenon
  <2> QED
    BY <2>12, Zenon DEF r, Aligned
<1>6. CASE ~(c + n > Header)
  <2>1. r = [msg EXCEPT !.cur_part = part, !.cur_len = c + n]
    BY <1>4, <1>6, Zenon
  <2>2. /\ c + n \in 0 .. Header /\ c + n \in Nat /\ c + n <= Header
        /\ p + n = Start[i] + (c + n) /\ c + n <= c + n
    BY <1>1, <1>6, SMTT(30)
  <2>3. ~msg.have_count /\ ~msg.have_part
    BY DEF AtHeader
  <2> HIDE DEF part, c
  <2>4. /\ r \in Messages
        /\ r.cur_part = part /\ r.cur_len = c + n
        /\ r.have_count = msg.have_count /\ r.have_part = msg.have_part
        /\ r.add_part = msg.add_part
    BY <2>1, <2>2, <1>3 DEF Messages
  <2> HIDE DEF r
  <2>5. SubSeq(r.cur_part, 1, r.cur_len) = Bytes(Start[i], r.cur_len)
    <3>1. SubSeq(part, 1, Len(part)) = part
      BY <1>3, SubSeqFull, Zenon
    <3> QED
      BY <3>1, <2>4, <1>2, <1>3, Zenon
  <2>6. AtHeader(r, i, p + n)
    BY <2>2, <2>3, <2>4, <2>5, <1>3, Zenon DEF AtHeader
  <2> QED
    BY <2>2, <2>4, <2>6, Zenon DEF r, Aligned
<1> QED
  BY <1>5, <1>6

\* Both together: add_part_msg keeps the place.
LEMMA AddPartAligned ==
  ASSUME NEW msg \in Messages, NEW i, NEW p \in Nat,
         NEW n \in 1 .. BufSize, p + n <= StreamLen,
         Aligned(msg, i, p), ~msg.have_part, Len(msg.add_part) <= BufSize
  PROVE  LET r == add_part_msg(msg, Bytes(p, n))
         IN  /\ r \in Messages
             /\ Aligned(r, i, p + n)
             /\ Len(r.add_part) <= BufSize
             /\ ~r.have_count => r.cur_len <= Header
<1>1. i \in 1 .. NMsgs + 1
  BY DEF Aligned
<1>2. CASE msg.have_count
  <2>1. AtBody(msg, i, p)
    BY <1>2 DEF Aligned, AtHeader
  <2> QED
    BY <1>1, <1>2, <2>1, BodyPartAligned, Zenon DEF Aligned, add_part_msg
<1>3. CASE ~msg.have_count
  <2>1. AtHeader(msg, i, p)
    BY <1>3 DEF Aligned, AtBody
  <2> QED
    BY <1>1, <1>3, <2>1, HeaderPartAligned, Zenon DEF add_part_msg
<1> QED
  BY <1>2, <1>3

\* Handing over a full message leaves the object in the next frame, at the same
\* byte of the stream: the bytes set aside are read, none twice and none lost.
LEMMA NextMessageAligned ==
  ASSUME NEW msg \in Messages, NEW i \in Frames, NEW p \in Nat, p <= StreamLen,
         AtBody(msg, i, p), msg.cur_len = MsgLen[i], Len(msg.add_part) <= BufSize
  PROVE  LET r == NextMessage(msg)
         IN  /\ r \in Messages
             /\ Aligned(r, i + 1, p)
             /\ Len(r.add_part) <= BufSize
             /\ ~r.have_count => r.cur_len <= Header
<1> DEFINE reset == [msg EXCEPT !.have_count = FALSE, !.cur_len = 0,
                                !.cur_message = <<>>]
           blank == [reset EXCEPT !.cur_message = <<>>, !.cur_len = 0,
                                  !.have_count = FALSE, !.have_part = FALSE]
           r == NextMessage(msg)
<1>1. /\ i + 1 \in 1 .. NMsgs + 1 /\ Start[i + 1] \in Nat
      /\ MsgLen[i] \in Nat /\ Start[i] \in Nat /\ Header \in Nat /\ BufSize \in Nat
      /\ Start[i + 1] = Start[i] + Header + MsgLen[i]
      /\ <<>> \in Seq(Nat) /\ 0 \in 0 .. Header /\ 0 <= Header
      /\ 0 \in Nat /\ Start[i + 1] + 0 = Start[i + 1]
  BY FrameFacts, SizesAssumption, EmptySeq
<1>2. /\ msg.cur_part \in Seq(Nat) /\ msg.add_part \in Seq(Nat)
      /\ 0 <= Len(msg.cur_part)
  BY LenProperties DEF Messages
<1>3. SubSeq(msg.cur_part, 1, 0) = Bytes(Start[i + 1], 0)
  <2>1. Bytes(Start[i + 1], 0) \in Seq(Nat) /\ Len(Bytes(Start[i + 1], 0)) = 0
    BY <1>1, BytesSeq
  <2>2. Bytes(Start[i + 1], 0) = <<>>
    BY <2>1, EmptySeq
  <2>3. 1 \in Int /\ 0 \in Int /\ 0 < 1
    OBVIOUS
  <2>4. SubSeq(msg.cur_part, 1, 0) = <<>>
    BY <2>3, SubSeqEmpty, Zenon
  <2> QED
    BY <2>2, <2>4, Zenon
<1>4. /\ reset \in Messages
      /\ ~reset.have_count /\ reset.cur_len = 0 /\ reset.cur_part = msg.cur_part
      /\ reset.have_part = msg.have_part /\ reset.add_part = msg.add_part
  BY <1>1 DEF Messages
<1>5. r = IF msg.have_part THEN add_part_msg(blank, msg.add_part) ELSE reset
  BY <1>4, Zenon DEF NextMessage, initialise
<1>6. CASE msg.have_part
  <2> DEFINE k == Len(msg.add_part)
  <2>1. /\ blank \in Messages /\ ~blank.have_count /\ blank.cur_len = 0
        /\ blank.cur_part = msg.cur_part /\ ~blank.have_part
        /\ blank.add_part = msg.add_part
    <3> HIDE DEF reset
    <3> QED
      BY <1>1, <1>4 DEF Messages
  <2>2. k > 0 /\ msg.add_part = Bytes(Start[i + 1], k) /\ p = Start[i + 1] + k
    BY <1>6 DEF AtBody
  <2>3. k \in Nat
    BY <1>2, LenProperties
  <2>4. k \in 1 .. BufSize /\ Start[i + 1] + k <= StreamLen
    BY <2>2, <2>3, <1>1
  <2> HIDE DEF k, blank
  <2>5. Aligned(blank, i + 1, Start[i + 1])
    BY <2>1, <1>1, <1>2, <1>3, Zenon DEF Aligned, AtHeader
  <2>6. Len(blank.add_part) <= BufSize
    BY <2>1
  <2>7. LET s == add_part_msg(blank, Bytes(Start[i + 1], k))
        IN  /\ s \in Messages
            /\ Aligned(s, i + 1, Start[i + 1] + k)
            /\ Len(s.add_part) <= BufSize
            /\ ~s.have_count => s.cur_len <= Header
    BY <2>1, <2>4, <2>5, <2>6, <1>1, AddPartAligned, Zenon
  <2>8. r = add_part_msg(blank, Bytes(Start[i + 1], k))
    BY <1>5, <1>6, <2>2, Zenon
  <2> QED
    BY <2>2, <2>7, <2>8, Zenon
<1>7. CASE ~msg.have_part
  <2>1. r = reset
    BY <1>5, <1>7, Zenon
  <2>2. p = Start[i + 1]
    BY <1>1, <1>7 DEF AtBody
  <2> HIDE DEF reset
  <2>3. Aligned(reset, i + 1, p)
    BY <2>2, <1>1, <1>2, <1>3, <1>4, <1>7, Zenon DEF Aligned, AtHeader
  <2> QED
    BY <2>1, <2>3, <1>1, <1>4, Zenon
<1> QED
  BY <1>6, <1>7

----------------------------------------------------------------------------
(* The receiver *)

LEMMA InitSynced == Init => Synced
<1> SUFFICES ASSUME Init PROVE Synced
  OBVIOUS
<1>1. /\ pos = 0 /\ known = FALSE /\ m = NewMessage /\ pc = "idle" /\ delivered = <<>>
  BY DEF Init
<1>2. /\ StreamLen \in Nat /\ BufSize \in Nat /\ Header \in Nat /\ NMsgs \in Nat
      /\ Start[1] = 0
  BY FrameFacts, SizesAssumption, StartAssumption
<1>3. /\ <<>> \in Seq(Nat) /\ <<>> \in Seq(Seq(Nat)) /\ Len(<<>>) = 0
  BY EmptySeq
<1>4. NewMessage \in Messages
  BY <1>3 DEF NewMessage, Messages
<1>5. TypeOK
  <2>1. NewMessage.cur_len <= Header /\ Len(NewMessage.add_part) <= BufSize
    BY <1>2, <1>3 DEF NewMessage
  <2>2. 0 \in 0 .. StreamLen /\ FALSE \in BOOLEAN
    BY <1>2
  <2> QED
    BY <1>1, <1>3, <1>4, <2>1, <2>2, Zenon DEF TypeOK
<1>6. InOrder
  BY <1>1, <1>2, <1>3 DEF InOrder
<1>7. Aligned(NewMessage, 1, 0)
  <2>1. Bytes(0, 0) \in Seq(Nat) /\ Len(Bytes(0, 0)) = 0
    BY BytesSeq
  <2>2. Bytes(0, 0) = <<>>
    BY <2>1, EmptySeq
  <2>3. 1 \in Int /\ 0 \in Int /\ 0 < 1
    OBVIOUS
  <2>4. SubSeq(<<>>, 1, 0) = <<>>
    BY <2>3, SubSeqEmpty, Zenon
  <2>5. AtHeader(NewMessage, 1, 0)
    <3>1. /\ ~NewMessage.have_count /\ ~NewMessage.have_part
          /\ NewMessage.cur_len = 0 /\ NewMessage.cur_part = <<>>
      BY DEF NewMessage
    <3>2. 0 \in 0 .. Header /\ 0 <= Len(<<>>) /\ 0 = Start[1] + 0
      BY <1>2, <1>3
    <3> QED
      BY <3>1, <3>2, <2>2, <2>4, <1>2, Zenon DEF AtHeader
  <2>6. 1 \in 1 .. NMsgs + 1
    BY <1>2
  <2> QED
    BY <2>5, <2>6 DEF Aligned
<1>8. Len(delivered) + 1 = 1
  BY <1>1, <1>3
<1>9. ~have_full_message(NewMessage)
  BY DEF have_full_message, NewMessage
<1> QED
  BY <1>1, <1>5, <1>6, <1>7, <1>8, <1>9, Zenon DEF Synced

\* One step of a recv, of the loop of get_message or of its return.
LEMMA StepSynced == Synced /\ [Next]_vars => Synced'
<1> SUFFICES ASSUME Synced, [Next]_vars PROVE Synced'
  OBVIOUS
<1> DEFINE i == Len(delivered) + 1
<1>1. /\ StreamLen \in Nat /\ BufSize \in Nat /\ Header \in Nat /\ NMsgs \in Nat
  BY FrameFacts, SizesAssumption
<1>2. /\ TypeOK /\ InOrder /\ Aligned(m, i, pos)
      /\ known \/ (pos = 0 /\ m = NewMessage /\ delivered = <<>> /\ pc = "idle")
      /\ pc = "idle" => ~have_full_message(m)
  BY DEF Synced
<1>3. /\ m \in Messages /\ pos \in 0 .. StreamLen /\ pos \in Nat
      /\ Len(m.add_part) <= BufSize /\ known \in BOOLEAN
      /\ delivered \in Seq(Seq(Nat)) /\ Len(delivered) \in Nat
  BY <1>1, <1>2, LenProperties DEF TypeOK
<1>4. ASSUME NEW n \in 1 .. BufSize, Process(n) PROVE Synced'
  <2>1. /\ pc = "idle" /\ pos + n <= StreamLen
        /\ m' = IF known THEN add_part_msg(m, Bytes(pos, n))
                ELSE initialise(NewMessage, Bytes(pos, n))
        /\ known' = TRUE /\ pos' = pos + n /\ pc' = "get_message"
        /\ delivered' = delivered
    BY <1>4 DEF Process
  <2> DEFINE blank == [NewMessage EXCEPT !.cur_message = <<>>, !.cur_len = 0,
                                         !.have_count = FALSE, !.have_part = FALSE]
             base == IF known THEN m ELSE blank
  <2>2. m' = add_part_msg(base, Bytes(pos, n))
    BY <2>1, Zenon DEF initialise
  <2>3. /\ base \in Messages /\ Aligned(base, i, pos)
        /\ ~base.have_part /\ Len(base.add_part) <= BufSize
    <3>1. CASE known
      BY <3>1, <1>2, <1>3, <2>1 DEF Aligned, AtHeader, AtBody, have_full_message
    <3>2. CASE ~known
      <4>1. /\ pos = 0 /\ m = NewMessage /\ i = 1 /\ Aligned(m, 1, 0)
        <5>1. delivered = <<>> /\ pos = 0 /\ m = NewMessage
          BY <3>2, <1>2
        <5>2. i = 1
          BY <5>1, EmptySeq
        <5> QED
          BY <5>1, <5>2, <1>2, Zenon
      <4>2. /\ blank \in Messages
            /\ blank.have_count = NewMessage.have_count
            /\ blank.have_part = NewMessage.have_part
            /\ blank.cur_len = NewMessage.cur_len
            /\ blank.cur_part = NewMessage.cur_part
            /\ blank.add_part = NewMessage.add_part
            /\ ~NewMessage.have_count /\ ~NewMessage.have_part
        BY EmptySeq DEF NewMessage, Messages
      <4>3. base = blank
        BY <3>2
      <4> HIDE DEF blank, base, i
      <4>4. AtHeader(blank, 1, 0)
        BY <4>1, <4>2, Zenon DEF Aligned, AtHeader, AtBody
      <4> QED
        BY <4>1, <4>2, <4>3, <4>4, <1>3, Zenon DEF Aligned
    <3> QED
      BY <3>1, <3>2
  <2>4. /\ m' \in Messages
        /\ Aligned(m', i, pos + n)
        /\ Len(m'.add_part) <= BufSize
        /\ ~m'.have_count => m'.cur_len <= Header
    <3> HIDE DEF base
    <3>1. LET r == add_part_msg(base, Bytes(pos, n))
          IN  /\ r \in Messages
              /\ Aligned(r, i, pos + n)
              /\ Len(r.add_part) <= BufSize
              /\ ~r.have_count => r.cur_len <= Header
      BY <1>3, <2>1, <2>3, AddPartAligned, Zenon
    <3> QED
      BY <3>1, <2>2, Zenon
  <2>5. TypeOK'
    <3>1. pos' \in 0 .. StreamLen
      BY <1>1, <1>3, <2>1
    <3> QED
      BY <3>1, <1>3, <2>1, <2>4 DEF TypeOK, StreamLen
  <2>6. InOrder'
    BY <1>2, <2>1, Zenon DEF InOrder
  <2>7. Aligned(m, i, pos)'
    BY <2>1, <2>4, Zenon DEF Aligned, AtHeader, AtBody
  <2>8. pc' # "idle" /\ known'
    BY <2>1
  <2> QED
    BY <2>5, <2>6, <2>7, <2>8 DEF Synced
<1>5. ASSUME GetMessage PROVE Synced'
  <2>1. /\ pc = "get_message" /\ have_full_message(m)
        /\ delivered' = Append(delivered, m.cur_message)
        /\ m' = NextMessage(m)
        /\ pos' = pos /\ known' = known /\ pc' = pc
    BY <1>5 DEF GetMessage
  <2>2. /\ AtBody(m, i, pos) /\ i \in Frames /\ m.cur_len = MsgLen[i]
    BY <1>2, <2>1 DEF Aligned, AtHeader, AtBody, have_full_message
  <2>3. pos <= StreamLen
    BY <1>1, <1>3
  <2>4. /\ m' \in Messages
        /\ Aligned(m', i + 1, pos)
        /\ Len(m'.add_part) <= BufSize
        /\ ~m'.have_count => m'.cur_len <= Header
    <3>1. LET r == NextMessage(m)
          IN  /\ r \in Messages
              /\ Aligned(r, i + 1, pos)
              /\ Len(r.add_part) <= BufSize
              /\ ~r.have_count => r.cur_len <= Header
      BY <1>3, <2>2, <2>3, NextMessageAligned, Zenon
    <3> QED
      BY <3>1, <2>1, Zenon
  <2>5. m.cur_message \in Seq(Nat)
    BY <1>3 DEF Messages
  <2>6. /\ delivered' \in Seq(Seq(Nat))
        /\ Len(delivered') = i
        /\ \A k \in 1 .. Len(delivered) : delivered'[k] = delivered[k]
        /\ delivered'[i] = m.cur_message
    BY <1>3, <2>1, <2>5, AppendProperties
  <2>7. TypeOK'
    BY <1>2, <2>1, <2>4, <2>6 DEF TypeOK, StreamLen
  <2>8. InOrder'
    <3>1. i <= NMsgs
      BY <1>1, <1>3, <2>2 DEF Frames
    <3>2. ASSUME NEW k \in 1 .. i, Clean(k) PROVE delivered'[k] = Body(k)
      <4>1. CASE k = i
        BY <4>1, <3>2, <2>2, <2>6 DEF AtBody, Body
      <4>2. CASE k # i
        <5>1. k \in 1 .. Len(delivered)
          BY <4>2, <1>3
        <5> QED
          BY <5>1, <3>2, <1>2, <2>6 DEF InOrder
      <4> QED
        BY <4>1, <4>2
    <3> QED
      BY <3>1, <3>2, <2>6 DEF InOrder, Clean, Body
  <2>9. Aligned(m, i, pos)'
    BY <2>1, <2>4, <2>6, Zenon DEF Aligned, AtHeader, AtBody
  <2>10. pc' # "idle" /\ known'
    BY <1>2, <2>1
  <2> QED
    BY <2>7, <2>8, <2>9, <2>10 DEF Synced
<1>6. ASSUME Return PROVE Synced'
  BY <1>2, <1>6 DEF Return, Synced, TypeOK, InOrder, StreamLen, Aligned, AtHeader,
                    AtBody, have_full_message
<1>7. ASSUME UNCHANGED vars PROVE Synced'
  BY <1>2, <1>7 DEF vars, Synced, TypeOK, InOrder, StreamLen, Aligned, AtHeader,
                    AtBody, have_full_message
<1> QED
  BY <1>4, <1>5, <1>6, <1>7 DEF Next

LEMMA SyncedCorrect == Spec => []Synced
<1>1. Init => Synced
  BY InitSynced
<1>2. Synced /\ [Next]_vars => Synced'
  BY StepSynced
<1> QED
  BY <1>1, <1>2, PTL DEF Spec

\* The buffers of the Message are never overrun and its fields keep their
\* types, whatever the stream and however recv cuts it.
THEOREM TypeCorrect == Spec => []TypeOK
<1>1. Synced => TypeOK
  BY DEF Synced
<1> QED
  BY <1>1, SyncedCorrect, PTL

\* get_message returns the bodies of the frames, in order, and nothing else,
\* for every list of lengths, buffer size and segmentation.
THEOREM Framing == Spec => []InOrder
<1>1. Synced => InOrder
  BY DEF Synced
<1> QED
  BY <1>1, SyncedCorrect, PTL

\* No complete message stays behind when process() returns, except an empty one
\* whose header ends what has been received.
THEOREM Promptness == Spec => []Prompt
<1>1. Synced => Prompt
  <2> SUFFICES ASSUME Synced, pc = "idle", NEW k \in Frames, Start[k + 1] <= pos,
                      MsgLen[k] > 0 \/ Start[k + 1] < pos,
                      ~(k <= Len(delivered))
               PROVE  FALSE
    BY DEF Prompt
  <2> DEFINE i == Len(delivered) + 1
  <2>1. /\ Aligned(m, i, pos) /\ ~have_full_message(m)
        /\ m \in Messages /\ Len(delivered) \in Nat
    BY LenProperties DEF Synced, TypeOK
  <2>2. k \in Nat /\ i \in Nat /\ i <= k /\ i \in Frames /\ k + 1 \in 1 .. NMsgs + 1
    BY <2>1, SizesAssumption DEF Frames, Aligned
  <2>3. /\ Start[i] \in Nat /\ Start[i + 1] \in Nat /\ MsgLen[i] \in Nat
        /\ Start[k] \in Nat /\ Start[k + 1] \in Nat /\ MsgLen[k] \in Nat
        /\ Start[i + 1] = Start[i] + Header + MsgLen[i]
        /\ Start[k + 1] = Start[k] + Header + MsgLen[k]
        /\ Header \in Nat \ {0}
    BY <2>2, FrameFacts, SizesAssumption
  <2>4. i < k => Start[i + 1] <= Start[k]
    <3>1. k \in 1 .. NMsgs + 1
      BY SizesAssumption DEF Frames
    <3> HIDE DEF i
    <3> QED
      BY <3>1, <2>2, StartMonotonic
  <2>5. m.cur_len \in Nat
    BY <2>1 DEF Messages
  <2>6. CASE AtHeader(m, i, pos)
    <3>1. pos = Start[i] + m.cur_len /\ m.cur_len <= Header
      BY <2>6, SizesAssumption DEF AtHeader
    <3> HIDE DEF i
    <3>2. CASE i = k
      BY <3>1, <3>2, <2>3, <2>5
    <3>3. CASE i < k
      BY <3>1, <3>3, <2>3, <2>4, <2>5, SMTT(30)
    <3> QED
      BY <3>2, <3>3, <2>2
  <2>7. CASE AtBody(m, i, pos)
    <3>1. pos = Start[i] + Header + m.cur_len /\ m.cur_len < MsgLen[i]
      BY <2>1, <2>3, <2>5, <2>7 DEF AtBody, have_full_message
    <3> HIDE DEF i
    <3>2. CASE i = k
      BY <3>1, <3>2, <2>3, <2>5, SMTT(30)
    <3>3. CASE i < k
      BY <3>1, <3>3, <2>3, <2>4, <2>5, SMTT(30)
    <3> QED
      BY <3>2, <3>3, <2>2
  <2> QED
    BY <2>1, <2>6, <2>7 DEF Aligned
<1> QED
  BY <1>1, SyncedCorrect, PTL

----------------------------------------------------------------------------
(***************************************************************************)
(* The sending half, for every chunk size and all frame sizes.  The        *)
(* invariant is Layout: until a message is added while end_offset is       *)
(* stale, the byte that leaves j-th from now lies j cells behind           *)
(* beg_offset.                                                             *)
(***************************************************************************)

LEMMA Sizes ==
  /\ Chunk \in Nat /\ Chunk > 0
  /\ \A size \in FrameSizes : size \in Nat /\ size > 0
BY ChunkAssumption

\* New chunks hold what they are made for and less than a chunk more, and the
\* new end_offset is where the bytes end in the last of them.
LEMMA ChunksForFacts ==
  ASSUME NEW n \in Nat
  PROVE  /\ (n % Chunk) \in 0 .. Chunk - 1
         /\ ChunksFor(n) \in Nat
         /\ n <= ChunksFor(n) /\ ChunksFor(n) < n + Chunk
         /\ n % Chunk = 0 => ChunksFor(n) = n
         /\ n % Chunk # 0 => ChunksFor(n) + (n % Chunk) = n + Chunk
<1>1. (n % Chunk) \in 0 .. Chunk - 1
  BY Sizes
<1> QED
  BY <1>1, Sizes DEF ChunksFor

\* What add_message copies into the last chunk fits there, and it copies less
\* than the frame only when that fills the chunk.
LEMMA TakenFacts ==
  ASSUME SendTypeOK, NEW size \in Nat, size > 0
  PROVE  LET t == Taken(size)
         IN  /\ t \in Nat /\ t <= size
             /\ bitlist = <<>> => t = 0
             /\ bitlist # <<>> => end_offset + t <= Chunk
             /\ bitlist # <<>> /\ t < size => end_offset + t = Chunk
BY Sizes DEF Taken, SendTypeOK

\* The memory of the list after add_message.
LEMMA Written ==
  ASSUME SendTypeOK, NEW size \in Nat, size > 0
  PROVE  LET t == Taken(size)
             at == (Len(bitlist) + end_offset) - Chunk
             new == Filled(t) \o Fresh(t, size)
         IN  /\ new \in Seq(Nat)
             /\ Len(new) = Len(bitlist) + ChunksFor(size - t)
             /\ \A c \in 1 .. Len(bitlist) :
                  new[c] = IF at < c /\ c <= at + t THEN added + (c - at) ELSE bitlist[c]
             /\ \A c \in 1 .. ChunksFor(size - t) :
                  new[Len(bitlist) + c] = IF c <= size - t THEN added + t + c ELSE 0
<1> DEFINE t == Taken(size)
           at == (Len(bitlist) + end_offset) - Chunk
           f == Filled(t)
           g == Fresh(t, size)
           l == Len(bitlist)
           k == ChunksFor(size - t)
<1>1. /\ t \in Nat /\ size - t \in Nat /\ k \in Nat /\ l \in Nat /\ at \in Int
      /\ added \in Nat /\ bitlist \in [1 .. l -> Nat]
  <2>1. t \in Nat /\ size - t \in Nat
    BY TakenFacts
  <2>2. l \in Nat /\ added \in Nat /\ bitlist \in [1 .. l -> Nat] /\ end_offset \in Nat
    BY LenProperties DEF SendTypeOK
  <2>3. at \in Int
    BY <2>2, Sizes
  <2>4. k \in Nat
    BY <2>1, ChunksForFacts, Zenon
  <2> QED
    BY <2>1, <2>2, <2>3, <2>4, Zenon
<1>2. /\ f \in Seq(Nat) /\ Len(f) = l
      /\ \A c \in 1 .. l :
           f[c] = IF at < c /\ c <= at + t THEN added + (c - at) ELSE bitlist[c]
  <2>1. f = [c \in 1 .. l |->
               IF at < c /\ c <= at + t THEN added + (c - at) ELSE bitlist[c]]
    BY DEF Filled
  <2> HIDE DEF f, at, t, l
  <2>2. f \in [1 .. l -> Nat]
    BY <1>1, <2>1
  <2>3. f \in Seq(Nat) /\ Len(f) = l
    BY <1>1, <2>2, SeqOfNats
  <2> QED
    BY <2>1, <2>3
<1>3. /\ g \in Seq(Nat) /\ Len(g) = k
      /\ \A c \in 1 .. k : g[c] = IF c <= size - t THEN added + t + c ELSE 0
  <2>1. g = [c \in 1 .. k |-> IF c <= size - t THEN added + t + c ELSE 0]
    BY DEF Fresh
  <2> HIDE DEF g, k, t
  <2>2. g \in [1 .. k -> Nat]
    BY <1>1, <2>1
  <2>3. g \in Seq(Nat) /\ Len(g) = k
    BY <1>1, <2>2, SeqOfNats
  <2> QED
    BY <2>1, <2>3
<1> HIDE DEF f, g, k, l, at, t
<1>4. /\ f \o g \in Seq(Nat)
      /\ Len(f \o g) = l + k
      /\ \A c \in 1 .. l + k : (f \o g)[c] = IF c <= l THEN f[c] ELSE g[c - l]
  BY <1>2, <1>3, ConcatProperties
<1>5. ASSUME NEW c \in 1 .. l PROVE (f \o g)[c] = f[c]
  BY <1>1, <1>4
<1>6. ASSUME NEW c \in 1 .. k PROVE (f \o g)[l + c] = g[c]
  <2>1. l + c \in 1 .. l + k /\ ~(l + c <= l) /\ (l + c) - l = c
    BY <1>1
  <2>2. (f \o g)[l + c] = g[(l + c) - l]
    BY <2>1, <1>4
  <2> QED
    BY <2>1, <2>2
<1>7. /\ \A c \in 1 .. l :
           (f \o g)[c] = IF at < c /\ c <= at + t THEN added + (c - at) ELSE bitlist[c]
      /\ \A c \in 1 .. k : (f \o g)[l + c] = IF c <= size - t THEN added + t + c ELSE 0
  BY <1>2, <1>3, <1>5, <1>6, Zenon
<1> QED
  BY <1>4, <1>7, Zenon DEF f, g, k, l, at, t

LEMMA InitLayout == SendInit => Layout
<1> SUFFICES ASSUME SendInit PROVE Layout
  OBVIOUS
<1>1. <<>> \in Seq(Nat) /\ Len(<<>>) = 0
  BY EmptySeq
<1>2. Bytes(0, 0) = <<>>
  BY DEF Bytes
<1>3. SendTypeOK
  <2>1. 0 \in 0 .. Chunk - 1 /\ 0 \in 0 .. Chunk /\ 0 \in Nat /\ FALSE \in BOOLEAN
    BY Sizes
  <2> QED
    BY <1>1, <2>1, Zenon DEF SendInit, SendTypeOK
<1>4. SentInOrder
  BY <1>1, <1>2 DEF SendInit, SentInOrder
<1> QED
  BY <1>1, <1>3, <1>4, Sizes DEF SendInit, Layout

\* A message goes behind the bytes that wait, unless end_offset is stale.
LEMMA AddLayout ==
  ASSUME Layout, NEW size \in FrameSizes, add_message(size)
  PROVE  Layout'
<1> DEFINE t == Taken(size)
           l == Len(bitlist)
           k == ChunksFor(size - t)
           at == (Len(bitlist) + end_offset) - Chunk
<1>1. /\ Chunk \in Nat /\ Chunk > 0 /\ size \in Nat /\ size > 0
      /\ l \in Nat /\ count \in Nat /\ added \in Nat /\ sent \in Nat
      /\ beg_offset \in Nat /\ beg_offset < Chunk
      /\ end_offset \in Nat /\ end_offset <= Chunk
      /\ added = sent + count
  BY Sizes, LenProperties DEF Layout, SendTypeOK
<1>2. /\ t \in Nat /\ t <= size
      /\ bitlist = <<>> => t = 0
      /\ bitlist # <<>> => end_offset + t <= Chunk
      /\ bitlist # <<>> /\ t < size => end_offset + t = Chunk
  BY <1>1, TakenFacts DEF Layout
<1>3. /\ (size - t) % Chunk \in 0 .. Chunk - 1
      /\ k \in Nat /\ size - t <= k /\ k < (size - t) + Chunk
      /\ (size - t) % Chunk = 0 => k = size - t
      /\ (size - t) % Chunk # 0 => k + ((size - t) % Chunk) = (size - t) + Chunk
  <2>1. size - t \in Nat
    BY <1>1, <1>2
  <2> QED
    BY <2>1, ChunksForFacts, Zenon
<1>4. /\ bitlist' \in Seq(Nat) /\ Len(bitlist') = l + k
      /\ \A c \in 1 .. l :
           bitlist'[c] = IF at < c /\ c <= at + t THEN added + (c - at) ELSE bitlist[c]
      /\ \A c \in 1 .. k :
           bitlist'[l + c] = IF c <= size - t THEN added + t + c ELSE 0
  BY <1>1, Written, Zenon DEF Layout, add_message
<1>5. /\ end_offset' = IF (size - t) % Chunk # 0 THEN (size - t) % Chunk
                       ELSE IF t = size THEN end_offset + size ELSE end_offset
      /\ count' = count + size /\ added' = added + size
      /\ overrun' = (overrun \/ Stale)
      /\ beg_offset' = beg_offset /\ sent' = sent /\ out' = out /\ crashed' = crashed
  BY DEF add_message, NewEndOffset
<1>6. l = 0 <=> bitlist = <<>>
  BY EmptySeq DEF Layout, SendTypeOK
<1> HIDE DEF t, k, l
<1>7. end_offset' \in 0 .. Chunk
  <2>1. CASE t = size
    <3>1. end_offset + size <= Chunk
      BY <1>1, <1>2, <2>1
    <3> QED
      BY <3>1, <1>1, <1>3, <1>5, <2>1
  <2>2. CASE t # size
    BY <1>1, <1>3, <1>5, <2>2
  <2> QED
    BY <2>1, <2>2
<1>8. SendTypeOK'
  <2>1. count' \in Nat /\ added' \in Nat
    BY <1>1, <1>5
  <2>2. overrun' \in BOOLEAN
    BY <1>5 DEF Layout, SendTypeOK, Stale
  <2> QED
    BY <1>4, <1>5, <1>7, <2>1, <2>2 DEF Layout, SendTypeOK
<1>9. added' = sent' + count'
  BY <1>1, <1>5
<1>10. Len(out') <= sent'
  BY <1>5 DEF Layout
<1>11. ASSUME ~overrun'
       PROVE  /\ SentInOrder'
              /\ beg_offset' + count' <= Len(bitlist')
              /\ \A j \in 1 .. count' : bitlist'[beg_offset' + j] = sent' + j
  <2>1. ~overrun /\ ~Stale
    BY <1>5, <1>11
  <2>2. /\ SentInOrder
        /\ beg_offset + count <= l
        /\ \A j \in 1 .. count : bitlist[beg_offset + j] = sent + j
    BY <2>1 DEF Layout, l
  <2>3. SentInOrder'
    BY <2>2, <1>5 DEF SentInOrder, Bytes
  <2>4. at = beg_offset + count \/ (l = 0 /\ beg_offset + count = 0)
    <3>1. bitlist = <<>> \/ beg_offset + count + Chunk = l + end_offset
      BY <2>1 DEF Stale, l
    <3>2. CASE bitlist = <<>>
      BY <3>2, <2>2, <1>1, <1>6
    <3>3. CASE beg_offset + count + Chunk = l + end_offset
      BY <3>3, <1>1 DEF l
    <3> QED
      BY <3>1, <3>2, <3>3
  <2>5. at \in Int
    BY <1>1 DEF l
  <2> DEFINE a == at
  <2> HIDE DEF a
  <2>6. /\ l > 0 => a + Chunk = l + end_offset
        /\ a \in Int
        /\ a = beg_offset + count \/ (l = 0 /\ beg_offset + count = 0)
    BY <2>4, <2>5, <1>1 DEF a, l
  <2>7. beg_offset' + count' <= Len(bitlist')
    <3>1. CASE t = size
      <4>1. l > 0 /\ a = beg_offset + count /\ end_offset + size <= Chunk
        BY <3>1, <1>1, <1>2, <1>6, <2>6
      <4>2. beg_offset + (count + size) <= l + k
        BY <4>1, <1>1, <1>3, <2>6
      <4> QED
        BY <4>2, <1>4, <1>5
    <3>2. CASE t # size
      <4>1. CASE l = 0
        <5>1. t = 0 /\ beg_offset + count = 0
          BY <4>1, <1>1, <1>2, <1>6, <2>2
        <5>2. beg_offset + (count + size) <= l + k
          BY <5>1, <1>1, <1>3, <4>1
        <5> QED
          BY <5>2, <1>4, <1>5
      <4>2. CASE l > 0
        <5>1. a = beg_offset + count /\ end_offset + t = Chunk
          BY <3>2, <4>2, <1>1, <1>2, <1>6, <2>6
        <5>2. beg_offset + (count + size) <= l + k
          BY <5>1, <1>1, <1>2, <1>3, <2>6, <4>2
        <5> QED
          BY <5>2, <1>4, <1>5
      <4> QED
        BY <4>1, <4>2, <1>1
    <3> QED
      BY <3>1, <3>2
  <2>8. ASSUME NEW j \in 1 .. count + size
        PROVE  bitlist'[beg_offset + j] = sent + j
    <3>1. CASE j <= count
      <4>1. /\ beg_offset + j \in 1 .. l
            /\ ~(at < beg_offset + j)
        BY <3>1, <1>1, <2>2, <2>6 DEF a
      <4>2. bitlist'[beg_offset + j] = bitlist[beg_offset + j]
        BY <4>1, <1>4
      <4>3. j \in 1 .. count
        BY <3>1, <1>1
      <4> QED
        BY <4>2, <4>3, <2>2
    <3>2. CASE count < j /\ j <= count + t
      <4>1. t > 0 /\ l > 0 /\ at = beg_offset + count
        BY <3>2, <1>1, <1>2, <1>6, <2>6 DEF a
      <4>2. /\ beg_offset + j \in 1 .. l
            /\ at < beg_offset + j /\ beg_offset + j <= at + t
        <5>1. end_offset + t <= Chunk
          BY <4>1, <1>2, <1>6
        <5>2. at + Chunk = l + end_offset
          BY <4>1, <2>6 DEF a
        <5> QED
          BY <5>1, <5>2, <4>1, <3>2, <1>1, <1>2
      <4>3. bitlist'[beg_offset + j] = added + ((beg_offset + j) - at)
        BY <4>2, <1>4
      <4> QED
        BY <4>1, <4>3, <1>1
    <3>3. CASE count + t < j
      <4>1. beg_offset + count + t = l
        BY <3>3, <1>1, <1>2, <1>6, <2>2, <2>6
      <4> DEFINE c == (j - count) - t
      <4>2. c \in 1 .. k /\ c <= size - t /\ l + c = beg_offset + j
        BY <3>3, <4>1, <1>1, <1>2, <1>3
      <4>3. bitlist'[l + c] = added + t + c
        <5> HIDE DEF c
        <5> QED
          BY <4>2, <1>4
      <4>4. added + t + c = sent + j
        BY <1>1, <1>2
      <4> QED
        BY <4>2, <4>3, <4>4
    <3> QED
      BY <3>1, <3>2, <3>3, <1>1, <1>2
  <2> QED
    BY <2>3, <2>7, <2>8, <1>5
<1>12. Len(bitlist') < beg_offset' + count' + Chunk
  <2>1. l < beg_offset + count + Chunk
    BY DEF Layout, l
  <2>2. bitlist # <<>> => l + end_offset <= beg_offset + count + Chunk
    BY DEF Layout, l
  <2>3. l + k < beg_offset + (count + size) + Chunk
    <3>1. CASE t = size
      <4>1. k = 0
        <5>1. size - t = 0
          BY <3>1, <1>1
        <5> QED
          BY <5>1, <1>1, <1>3
      <4> QED
        BY <4>1, <2>1, <1>1
    <3>2. CASE t # size
      BY <3>2, <2>1, <2>2, <1>1, <1>2, <1>3, <1>6
    <3> QED
      BY <3>1, <3>2
  <2> QED
    BY <2>3, <1>4, <1>5
<1>13. bitlist' # <<>> => Len(bitlist') + end_offset' <= beg_offset' + count' + Chunk
  <2>2. bitlist # <<>> => l + end_offset <= beg_offset + count + Chunk
    BY DEF Layout, l
  <2>3. (l + k) + end_offset' <= beg_offset + (count + size) + Chunk
    <3>1. CASE t = size
      <4>1. k = 0 /\ (size - t) % Chunk = 0
        <5>1. size - t = 0
          BY <3>1, <1>1
        <5> QED
          BY <5>1, <1>1, <1>3
      <4>2. bitlist # <<>> /\ end_offset' = end_offset + size
        BY <3>1, <4>1, <1>1, <1>2, <1>5
      <4> QED
        BY <4>1, <4>2, <2>2, <1>1
    <3>2. CASE t # size /\ (size - t) % Chunk = 0
      <4>1. k = size - t /\ end_offset' = end_offset
        BY <3>2, <1>3, <1>5
      <4> QED
        BY <3>2, <4>1, <2>2, <1>1, <1>2, <1>6
    <3>3. CASE t # size /\ (size - t) % Chunk # 0
      <4>1. k + end_offset' = (size - t) + Chunk
        BY <3>3, <1>3, <1>5
      <4> QED
        BY <3>3, <4>1, <2>2, <1>1, <1>2, <1>3, <1>5, <1>6
    <3> QED
      BY <3>1, <3>2, <3>3
  <2> QED
    BY <2>3, <1>4, <1>5
<1> QED
  BY <1>8, <1>9, <1>10, <1>11, <1>12, <1>13, Zenon DEF Layout

\* What getbitarray returns, and what stays behind once n bytes are erased.
LEMMA ReadFacts ==
  ASSUME Layout, NEW n \in 1 .. Chunk, n <= ReadLen, beg_offset + ReadLen <= Len(bitlist)
  PROVE  LET o == SubSeq(getbitarray, 1, n)
         IN  /\ o \in Seq(Nat)
             /\ Len(o) = n
             /\ \A j \in 1 .. n : o[j] = bitlist[beg_offset + j]
<1> DEFINE R == ReadLen
           b == SubSeq(bitlist, beg_offset + 1, beg_offset + R)
           o == SubSeq(b, 1, n)
<1>1. /\ beg_offset \in Nat /\ R \in Nat /\ n \in Nat /\ n <= R /\ 1 <= n
      /\ Len(bitlist) \in Nat /\ bitlist \in [1 .. Len(bitlist) -> Nat]
      /\ beg_offset + R <= Len(bitlist)
  BY Sizes, LenProperties DEF Layout, SendTypeOK, ReadLen
<1> HIDE DEF R
<1>2. /\ b \in Seq(Nat) /\ Len(b) = R
      /\ \A j \in 1 .. R : b[j] = bitlist[beg_offset + j]
  <2>1. /\ bitlist \in Seq(Nat)
        /\ beg_offset \in 0 .. Len(bitlist) /\ beg_offset + R \in beg_offset .. Len(bitlist)
        /\ (beg_offset + R) - beg_offset = R
    BY <1>1 DEF Layout, SendTypeOK
  <2> HIDE DEF b
  <2>2. /\ b \in Seq(Nat)
        /\ Len(b) = (beg_offset + R) - beg_offset
        /\ \A j \in 1 .. (beg_offset + R) - beg_offset : b[j] = bitlist[beg_offset + j]
    BY <2>1, SubSeqNats, Zenon DEF b
  <2> QED
    BY <2>1, <2>2, Zenon
<1> HIDE DEF b
<1>3. /\ o \in Seq(Nat) /\ Len(o) = n
      /\ \A j \in 1 .. n : o[j] = b[j]
  <2>1. /\ 0 \in 0 .. Len(b) /\ n \in 0 .. Len(b) /\ n - 0 = n /\ 0 + 1 = 1
        /\ \A j \in 1 .. n : 0 + j = j
    BY <1>1, <1>2
  <2>2. /\ SubSeq(b, 0 + 1, n) \in Seq(Nat)
        /\ Len(SubSeq(b, 0 + 1, n)) = n - 0
        /\ \A j \in 1 .. n - 0 : SubSeq(b, 0 + 1, n)[j] = b[0 + j]
    BY <2>1, <1>2, SubSeqNats, Zenon
  <2>3. o = SubSeq(b, 0 + 1, n)
    BY <2>1, Zenon
  <2> QED
    BY <2>1, <2>2, <2>3, Zenon
<1>4. \A j \in 1 .. n : o[j] = bitlist[beg_offset + j]
  <2> HIDE DEF o
  <2> QED
    BY <1>1, <1>2, <1>3
<1> QED
  BY <1>3, <1>4, Zenon DEF getbitarray, b, R

\* A send takes the oldest bytes and leaves the others where they are.
LEMMA WriteLayout ==
  ASSUME Layout, NEW n \in 1 .. Chunk, Write(n)
  PROVE  Layout'
<1> DEFINE l == Len(bitlist)
<1>1. /\ Chunk \in Nat /\ Chunk > 0 /\ n \in Nat /\ 1 <= n /\ n <= Chunk
      /\ l \in Nat /\ count \in Nat /\ added \in Nat /\ sent \in Nat
      /\ beg_offset \in Nat /\ beg_offset < Chunk
      /\ added = sent + count
      /\ bitlist \in [1 .. l -> Nat]
  BY Sizes, LenProperties DEF Layout, SendTypeOK
<1>2. /\ n <= count /\ beg_offset + n <= l
      /\ n <= ReadLen /\ beg_offset + ReadLen <= Len(bitlist)
  BY <1>1 DEF Write, ReadLen
<1>3. /\ count' = count - n /\ sent' = sent + n /\ added' = added
      /\ end_offset' = end_offset /\ overrun' = overrun /\ crashed' = crashed
      /\ ~crashed /\ out' = SubSeq(getbitarray, 1, n)
  BY DEF Write, erase
<1>4. /\ out' \in Seq(Nat) /\ Len(out') = n
      /\ \A j \in 1 .. n : out'[j] = bitlist[beg_offset + j]
  BY <1>2, <1>3, ReadFacts, Zenon
<1>5. \/ beg_offset' = beg_offset + n /\ bitlist' = bitlist /\ beg_offset + n < Chunk
      \/ /\ beg_offset' = (beg_offset + n) - Chunk /\ Chunk <= beg_offset + n
         /\ bitlist' = SubSeq(bitlist, Chunk + 1, l)
  BY <1>1 DEF Write, erase
<1>6. \E d \in {0, Chunk} :
         /\ beg_offset' = (beg_offset + n) - d /\ d <= beg_offset + n
         /\ beg_offset' < Chunk
         /\ bitlist' \in Seq(Nat) /\ Len(bitlist') = l - d
         /\ \A c \in 1 .. l - d : bitlist'[c] = bitlist[d + c]
  <2>1. CASE beg_offset' = beg_offset + n /\ bitlist' = bitlist /\ beg_offset + n < Chunk
    <3>1. /\ beg_offset' = (beg_offset + n) - 0 /\ 0 <= beg_offset + n
          /\ beg_offset' < Chunk
      BY <2>1, <1>1
    <3>2. /\ bitlist' \in Seq(Nat) /\ Len(bitlist') = l - 0
          /\ \A c \in 1 .. l - 0 : bitlist'[c] = bitlist[0 + c]
      BY <2>1, <1>1 DEF Layout, SendTypeOK
    <3> QED
      BY <3>1, <3>2, Zenon
  <2>2. CASE /\ beg_offset' = (beg_offset + n) - Chunk /\ Chunk <= beg_offset + n
             /\ bitlist' = SubSeq(bitlist, Chunk + 1, l)
    <3>1. bitlist \in Seq(Nat) /\ Chunk \in 0 .. l /\ l \in Chunk .. l
      BY <2>2, <1>1, <1>2 DEF Layout, SendTypeOK
    <3>2. /\ bitlist' \in Seq(Nat)
          /\ Len(bitlist') = l - Chunk
          /\ \A c \in 1 .. l - Chunk : bitlist'[c] = bitlist[Chunk + c]
      BY <3>1, <2>2, SubSeqNats, Zenon
    <3>6. (beg_offset + n) - Chunk < Chunk
      BY <1>1
    <3> QED
      BY <2>2, <3>2, <3>6, Zenon
  <2> QED
    BY <2>1, <2>2, <1>5
<1>7. PICK d \in {0, Chunk} :
         /\ beg_offset' = (beg_offset + n) - d /\ d <= beg_offset + n
         /\ beg_offset' < Chunk
         /\ bitlist' \in Seq(Nat) /\ Len(bitlist') = l - d
         /\ \A c \in 1 .. l - d : bitlist'[c] = bitlist[d + c]
  BY <1>6
<1>8. d \in Nat
  BY <1>1
<1> HIDE DEF l
<1>9. SendTypeOK'
  <2>1. beg_offset' \in 0 .. Chunk - 1 /\ count' \in Nat /\ sent' \in Nat
    BY <1>1, <1>2, <1>3, <1>7, <1>8
  <2> QED
    BY <2>1, <1>3, <1>4, <1>7 DEF Layout, SendTypeOK
<1>10. added' = sent' + count' /\ Len(out') <= sent'
  BY <1>1, <1>2, <1>3, <1>4
<1>11. ASSUME ~overrun'
       PROVE  /\ SentInOrder'
              /\ beg_offset' + count' <= Len(bitlist')
              /\ \A j \in 1 .. count' : bitlist'[beg_offset' + j] = sent' + j
  <2>1. /\ beg_offset + count <= l
        /\ \A j \in 1 .. count : bitlist[beg_offset + j] = sent + j
    BY <1>3, <1>11 DEF Layout, l
  <2>2. out' = Bytes(sent, n)
    <3>1. /\ Bytes(sent, n) \in Seq(Nat) /\ Len(Bytes(sent, n)) = n
          /\ \A j \in 1 .. n : Bytes(sent, n)[j] = sent + j
      BY <1>1, BytesSeq
    <3>2. \A j \in 1 .. n : out'[j] = Bytes(sent, n)[j]
      BY <3>1, <2>1, <1>1, <1>2, <1>4, SMTT(30)
    <3> QED
      BY <3>1, <3>2, <1>4, SeqEqual
  <2>3. sent' - Len(out') = sent
    BY <1>1, <1>3, <1>4
  <2>4. SentInOrder'
    BY <2>2, <2>3, <1>3, <1>4, Zenon DEF SentInOrder, Bytes
  <2>5. beg_offset' + count' <= Len(bitlist')
    BY <2>1, <1>1, <1>2, <1>3, <1>7, <1>8
  <2>6. ASSUME NEW j \in 1 .. count' PROVE bitlist'[beg_offset' + j] = sent' + j
    <3>1. /\ n + j \in 1 .. count
          /\ beg_offset' + j \in 1 .. l - d
          /\ d + (beg_offset' + j) = beg_offset + (n + j)
      BY <2>1, <1>1, <1>2, <1>3, <1>7, <1>8
    <3>2. bitlist'[beg_offset' + j] = bitlist[d + (beg_offset' + j)]
      BY <3>1, <1>7
    <3>3. bitlist[beg_offset + (n + j)] = sent + (n + j)
      BY <3>1, <2>1
    <3> QED
      BY <3>1, <3>2, <3>3, <1>1, <1>3
  <2> QED
    BY <2>4, <2>5, <2>6
<1>12. Len(bitlist') < beg_offset' + count' + Chunk
  BY <1>1, <1>2, <1>3, <1>7, <1>8 DEF Layout, l
<1>13. bitlist' # <<>> => Len(bitlist') + end_offset' <= beg_offset' + count' + Chunk
  <2>1. end_offset \in Nat /\ end_offset <= Chunk
    BY <1>1 DEF Layout, SendTypeOK
  <2>2. bitlist # <<>> => l + end_offset <= beg_offset + count + Chunk
    BY DEF Layout, l
  <2>3. bitlist # <<>>
    BY <1>1, <1>2, EmptySeq DEF l
  <2> QED
    BY <2>1, <2>2, <2>3, <1>1, <1>2, <1>3, <1>7, <1>8
<1> QED
  BY <1>9, <1>10, <1>11, <1>12, <1>13, Zenon DEF Layout

\* getbitarray can go past the list only after the overrun.
LEMMA CrashLayout ==
  ASSUME Layout, Crash
  PROVE  Layout'
<1>1. overrun
  <2> SUFFICES ASSUME ~overrun PROVE FALSE
    BY DEF Layout, SendTypeOK
  <2>1. beg_offset + count <= Len(bitlist) /\ beg_offset + ReadLen > Len(bitlist)
    BY DEF Layout, Crash
  <2>2. /\ beg_offset \in Nat /\ count \in Nat /\ Len(bitlist) \in Nat
        /\ ReadLen \in Nat /\ ReadLen <= count
    BY Sizes, LenProperties DEF Layout, SendTypeOK, ReadLen
  <2> QED
    BY <2>1, <2>2
<1> QED
  BY <1>1 DEF Crash, Layout, SendTypeOK

LEMMA StepLayout == Layout /\ [SendNext]_sendVars => Layout'
<1> SUFFICES ASSUME Layout, [SendNext]_sendVars PROVE Layout'
  OBVIOUS
<1>1. ASSUME UNCHANGED sendVars PROVE Layout'
  BY <1>1 DEF sendVars, Layout, SendTypeOK, SentInOrder, Bytes
<1> QED
  BY <1>1, AddLayout, WriteLayout, CrashLayout DEF SendNext

LEMMA LayoutCorrect == SendSpec => []Layout
<1>1. SendInit => Layout
  BY InitLayout
<1>2. Layout /\ [SendNext]_sendVars => Layout'
  BY StepLayout
<1> QED
  BY <1>1, <1>2, PTL DEF SendSpec

\* Every variable keeps its type; the offsets stay inside a chunk.
THEOREM SendTypeCorrect == SendSpec => []SendTypeOK
<1>1. Layout => SendTypeOK
  BY DEF Layout
<1> QED
  BY <1>1, LayoutCorrect, PTL

\* Until a message is added behind a stale end_offset, the socket gets the bytes
\* of the messages in order and getbitarray stays inside the list.
THEOREM Ordering == SendSpec => []InOrderUntilOverrun
<1>1. Layout => InOrderUntilOverrun
  BY DEF Layout, InOrderUntilOverrun
<1> QED
  BY <1>1, LayoutCorrect, PTL

\* The list never holds two chunks' worth of cells more than the bytes that
\* wait, with or without an overrun.
THEOREM Memory == SendSpec => []NoLeak
<1>1. Layout => NoLeak
  <2> SUFFICES ASSUME Layout PROVE NoLeak
    OBVIOUS
  <2>1. /\ Len(bitlist) < beg_offset + count + Chunk
        /\ beg_offset \in 0 .. Chunk - 1 /\ count \in Nat /\ Len(bitlist) \in Nat
    BY LenProperties DEF Layout, SendTypeOK
  <2> QED
    BY <2>1, Sizes DEF NoLeak
<1> QED
  BY <1>1, LayoutCorrect, PTL

----------------------------------------------------------------------------
(* The queue implements ByteFifo *)

\* The bytes that wait, as the abstract queue holds them.
Waiting == SubSeq(bitlist, beg_offset + 1, beg_offset + count)

LEMMA WaitingBytes == Layout /\ ~overrun => Waiting = Bytes(sent, count)
<1> SUFFICES ASSUME Layout, ~overrun PROVE Waiting = Bytes(sent, count)
  OBVIOUS
<1>1. /\ bitlist \in Seq(Nat) /\ beg_offset \in 0 .. Len(bitlist)
      /\ beg_offset + count \in beg_offset .. Len(bitlist)
      /\ (beg_offset + count) - beg_offset = count
      /\ sent \in Nat /\ count \in Nat
  BY LenProperties, Sizes DEF Layout, SendTypeOK
<1>2. /\ Waiting \in Seq(Nat) /\ Len(Waiting) = count
      /\ \A j \in 1 .. count : Waiting[j] = bitlist[beg_offset + j]
  <2>1. /\ Waiting \in Seq(Nat)
        /\ Len(Waiting) = (beg_offset + count) - beg_offset
        /\ \A j \in 1 .. (beg_offset + count) - beg_offset :
             Waiting[j] = bitlist[beg_offset + j]
    BY <1>1, SubSeqNats, Zenon DEF Waiting
  <2> QED
    BY <1>1, <2>1, Zenon
<1>3. \A j \in 1 .. count : bitlist[beg_offset + j] = sent + j
  BY DEF Layout
<1>4. /\ Bytes(sent, count) \in Seq(Nat) /\ Len(Bytes(sent, count)) = count
      /\ \A j \in 1 .. count : Bytes(sent, count)[j] = sent + j
  BY <1>1, BytesSeq
<1>5. \A j \in 1 .. count : Waiting[j] = Bytes(sent, count)[j]
  BY <1>2, <1>3, <1>4, Zenon
<1> QED
  BY <1>2, <1>4, <1>5, SeqEqual

LEMMA WaitingBytesNext == (Layout /\ ~overrun => Waiting = Bytes(sent, count))'
BY WaitingBytes, PTL

LEMMA InitFifo == SendInit => Fifo!Init
<1> SUFFICES ASSUME SendInit PROVE Fifo!Init
  OBVIOUS
<1>1. Waiting = <<>>
  <2>1. Layout /\ ~overrun /\ count = 0
    BY InitLayout DEF SendInit
  <2>2. Waiting = Bytes(sent, 0)
    BY <2>1, WaitingBytes
  <2> QED
    BY <2>2 DEF Bytes, SendInit
<1> QED
  BY <1>1, Zenon DEF SendInit, Fifo!Init, Waiting

LEMMA StepFifo ==
  ASSUME Layout, Layout', [SendNext]_sendVars
  PROVE  [Fifo!Next]_(Fifo!vars)
<1>1. CASE overrun
  <2>1. overrun'
    BY <1>1 DEF SendNext, add_message, Write, Crash, sendVars
  <2> QED
    BY <1>1, <2>1 DEF Fifo!vars
<1>2. CASE ~overrun /\ overrun'
  BY <1>2, Zenon DEF Fifo!Next, Fifo!Spoil
<1>3. CASE ~overrun /\ ~overrun'
  <2>1. /\ Waiting = Bytes(sent, count)
        /\ Waiting' = Bytes(sent', count')
    <3>1. Waiting = Bytes(sent, count)
      BY <1>3, WaitingBytes
    <3>2. (Layout /\ ~overrun => Waiting = Bytes(sent, count))'
      BY WaitingBytesNext
    <3> QED
      BY <3>1, <3>2, <1>3 DEF Bytes
  <2>2. count \in Nat /\ sent \in Nat /\ added = sent + count
    BY DEF Layout, SendTypeOK
  <2>3. ASSUME NEW size \in FrameSizes, add_message(size)
        PROVE  Fifo!Put(size)
    <3>1. /\ sent' = sent /\ count' = count + size /\ added' = added + size
          /\ out' = out /\ size \in Nat
      BY <2>3, Sizes DEF add_message
    <3>2. Waiting' = Waiting \o Bytes(added, size)
      <4>1. Bytes(sent, count) \o Bytes(sent + count, size) = Bytes(sent, count + size)
        BY <2>2, <3>1, BytesConcat
      <4> QED
        BY <4>1, <2>1, <2>2, <3>1, Zenon
    <3> QED
      BY <3>1, <3>2, <1>3, Zenon DEF Fifo!Put, Fifo!Bytes, Bytes, Waiting
  <2>4. ASSUME NEW n \in 1 .. Chunk, Write(n)
        PROVE  n \in 1 .. count /\ Fifo!Take(n)
    <3>1. /\ n \in 0 .. count /\ n \in 1 .. count
          /\ sent' = sent + n /\ count' = count - n /\ added' = added
      BY <2>2, <2>4, Sizes DEF Write, erase, ReadLen
    <3>2. out' = Bytes(sent, n)
      <4>1. out' = Bytes(sent' - Len(out'), Len(out'))
        BY <1>3 DEF Layout, SentInOrder, Bytes
      <4>2. Len(out') = n
        BY <2>4, ReadFacts, Zenon DEF Write
      <4>3. sent' - n = sent
        BY <2>2, <3>1
      <4> QED
        BY <4>1, <4>2, <4>3, Zenon
    <3>3. /\ SubSeq(Bytes(sent, count), 1, n) = Bytes(sent, n)
          /\ SubSeq(Bytes(sent, count), n + 1, count) = Bytes(sent + n, count - n)
      BY <2>2, <3>1, BytesSplit, Zenon
    <3>4. Len(Waiting) = count
      BY <2>1, <2>2, BytesSeq
    <3>5. /\ out' = SubSeq(Waiting, 1, n)
          /\ Waiting' = SubSeq(Waiting, n + 1, Len(Waiting))
      BY <2>1, <3>1, <3>2, <3>3, <3>4, Zenon
    <3> QED
      BY <3>1, <3>5, <1>3, Zenon DEF Fifo!Take, Waiting
  <2>5. ASSUME Crash PROVE FALSE
    <3>1. beg_offset + count <= Len(bitlist) /\ beg_offset + ReadLen > Len(bitlist)
      BY <2>5, <1>3 DEF Layout, Crash
    <3>2. /\ beg_offset \in Nat /\ Len(bitlist) \in Nat
          /\ ReadLen \in Nat /\ ReadLen <= count
      BY <2>2, Sizes, LenProperties DEF Layout, SendTypeOK, ReadLen
    <3> QED
      BY <3>1, <3>2, <2>2
  <2>6. ASSUME UNCHANGED sendVars PROVE UNCHANGED Fifo!vars
    BY <2>6 DEF sendVars, Fifo!vars
  <2>7. Len(Waiting) = count
    BY <2>1, <2>2, BytesSeq
  <2>8. CASE \E size \in FrameSizes : add_message(size)
    BY <2>8, <2>3, Zenon DEF Fifo!Next
  <2>9. CASE \E n \in 1 .. Chunk : Write(n)
    BY <2>9, <2>4, <2>7, <1>3, Zenon DEF Fifo!Next, Waiting
  <2> QED
    BY <2>5, <2>6, <2>8, <2>9 DEF SendNext
<1> QED
  BY <1>1, <1>2, <1>3 DEF Layout, SendTypeOK

\* The chunked list implements the abstract queue: every step appends a frame at
\* the end or takes a prefix, until the overrun.
THEOREM Refinement == SendSpec => ImplementsFifo
<1>1. SendInit => Fifo!Init
  BY InitFifo
<1>2. Layout /\ Layout' /\ [SendNext]_sendVars => [Fifo!Next]_(Fifo!vars)
  BY StepFifo
<1> QED
  BY <1>1, <1>2, LayoutCorrect, PTL DEF SendSpec, ImplementsFifo, Fifo!Spec
=============================================================================
