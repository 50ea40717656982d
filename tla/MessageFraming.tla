--------------------------- MODULE MessageFraming ---------------------------
(***************************************************************************)
(* The receiving half of the chat's framing (p2/message.cpp and            *)
(* p2/messagereceiver.cpp): the bytes one socket delivers, cut by TCP      *)
(* wherever it likes, are put back into messages.                          *)
(*                                                                         *)
(* A message travels as a header of Header bytes that holds its length,    *)
(* then its body.  A byte is represented by its position in the stream, so *)
(* a buffer that holds the right bytes is an interval of positions.  Frame *)
(* i is the i-th message of the stream: it starts after byte Start[i] and  *)
(* its body has MsgLen[i] bytes.                                           *)
(***************************************************************************)
EXTENDS Naturals, Sequences, ByteRuns

CONSTANTS
  Header,     \* bytes of a length header (4 in the code)
  BufSize,    \* the most bytes one recv returns (1024 in the code)
  NMsgs,      \* frames in the stream
  MsgLen,     \* MsgLen[i]: bytes in the body of frame i
  Start,      \* Start[i]: bytes of the stream before frame i
  Nul         \* the positions whose byte is 0

Frames == 1 .. NMsgs

ASSUME SizesAssumption ==
  /\ Header \in Nat \ {0}
  /\ BufSize \in Nat \ {0}
  /\ NMsgs \in Nat
  /\ MsgLen \in [Frames -> Nat]
  /\ Nul \subseteq Nat

\* The frames lie one after the other.
ASSUME StartAssumption ==
  /\ Start \in [1 .. NMsgs + 1 -> Nat]
  /\ Start[1] = 0
  /\ \A i \in Frames : Start[i + 1] = Start[i] + Header + MsgLen[i]

VARIABLES
  pos,        \* bytes of the stream that recv has returned so far
  known,      \* MessageReceiver::messanger has an entry for the socket
  m,          \* that entry: the Message object
  pc,         \* "idle", or "get_message" inside MessageReceiver::process
  delivered   \* the messages get_message has returned, in order

vars == <<pos, known, m, pc, delivered>>

StreamLen == Start[NMsgs + 1]

Body(i) == Bytes(Start[i] + Header, MsgLen[i])

\* No byte of the body of frame i is 0.
Clean(i) == \A k \in 1 .. MsgLen[i] : Start[i] + Header + k \notin Nul

----------------------------------------------------------------------------
(* Message *)

Messages ==
  [have_count : BOOLEAN, len_msg : Nat, cur_len : Nat, cur_part : Seq(Nat),
   cur_message : Seq(Nat), have_part : BOOLEAN, add_part : Seq(Nat)]

\* A Message before its first byte.  The code leaves len_msg and the buffers
\* unset and reads none of them before it writes them.
NewMessage ==
  [have_count |-> FALSE, len_msg |-> 0, cur_len |-> 0, cur_part |-> <<>>,
   cur_message |-> <<>>, have_part |-> FALSE, add_part |-> <<>>]

\* What Header bytes read as.  Bytes that are not the header of a frame read
\* as some number: BufSize stands for it.
Decode(hdr) ==
  LET I == {i \in Frames : hdr = Bytes(Start[i], Header)}
  IN  IF I = {} THEN BufSize ELSE MsgLen[CHOOSE i \in I : TRUE]

\* What "+= cur_part" appends: the bytes before the first 0.
CString(bytes) ==
  LET zeros == {k \in 1 .. Len(bytes) : bytes[k] \in Nul}
  IN  IF zeros = {} THEN bytes
      ELSE SubSeq(bytes, 1, (CHOOSE k \in zeros : \A j \in zeros : k <= j) - 1)

add_to_cur_msg(msg, bytes) ==
  [msg EXCEPT !.cur_len = @ + Len(bytes),
              !.cur_message = @ \o CString(bytes)]

\* Mutant of BodyPart: the bytes past the body are not kept.
BodyPartDropsRest(msg, buf) ==
  IF msg.cur_len + Len(buf) <= msg.len_msg
  THEN [add_to_cur_msg(msg, buf) EXCEPT !.have_part = FALSE]
  ELSE add_to_cur_msg(msg, SubSeq(buf, 1, msg.len_msg - msg.cur_len))

\* add_part_msg once the length is known: fill the body, keep what is beyond.
BodyPart(msg, buf) ==
  IF msg.cur_len + Len(buf) <= msg.len_msg
  THEN [add_to_cur_msg(msg, buf) EXCEPT !.have_part = FALSE]
  ELSE LET d == msg.len_msg - msg.cur_len
       IN  [add_to_cur_msg(msg, SubSeq(buf, 1, d))
              EXCEPT !.have_part = TRUE,
                     !.add_part = SubSeq(buf, d + 1, Len(buf))]

\* Mutant of HeaderPart: the header is read one byte too late.
HeaderPartLate(msg, buf) ==
  LET part == SubSeq(msg.cur_part, 1, msg.cur_len) \o buf
  IN  IF Len(part) > Header + 1
      THEN BodyPart([msg EXCEPT !.have_count = TRUE,
                                !.len_msg = Decode(SubSeq(part, 1, Header)),
                                !.cur_len = 0, !.cur_message = <<>>],
                    SubSeq(part, Header + 1, Len(part)))
      ELSE [msg EXCEPT !.cur_part = part, !.cur_len = Len(part)]

\* add_part_msg while the header is incomplete.  The length is read only when
\* a byte of the body is there too: "cur_len > 4", not ">= 4".
HeaderPart(msg, buf) ==
  LET part == SubSeq(msg.cur_part, 1, msg.cur_len) \o buf
  IN  IF Len(part) > Header
      THEN BodyPart([msg EXCEPT !.have_count = TRUE,
                                !.len_msg = Decode(SubSeq(part, 1, Header)),
                                !.cur_len = 0, !.cur_message = <<>>],
                    SubSeq(part, Header + 1, Len(part)))
      ELSE [msg EXCEPT !.cur_part = part, !.cur_len = Len(part)]

add_part_msg(msg, buf) ==
  IF msg.have_count THEN BodyPart(msg, buf) ELSE HeaderPart(msg, buf)

initialise(msg, buf) ==
  add_part_msg([msg EXCEPT !.cur_message = <<>>, !.cur_len = 0,
                           !.have_count = FALSE, !.have_part = FALSE], buf)

have_full_message(msg) == msg.have_count /\ msg.len_msg = msg.cur_len

\* What an iteration of get_message's loop leaves behind: the message handed
\* over is forgotten and the bytes kept past it start the next one.
NextMessage(msg) ==
  LET reset == [msg EXCEPT !.have_count = FALSE, !.cur_len = 0,
                           !.cur_message = <<>>]
  IN  IF msg.have_part THEN initialise(reset, msg.add_part) ELSE reset

----------------------------------------------------------------------------
(* MessageReceiver *)

Init ==
  /\ pos = 0
  /\ known = FALSE
  /\ m = NewMessage
  /\ pc = "idle"
  /\ delivered = <<>>

\* recv has returned the next n bytes; process() stores them.
Process(n) ==
  LET buf == Bytes(pos, n)
  IN  /\ pc = "idle"
      /\ pos + n <= StreamLen
      /\ m' = IF known THEN add_part_msg(m, buf) ELSE initialise(NewMessage, buf)
      /\ known' = TRUE
      /\ pos' = pos + n
      /\ pc' = "get_message"
      /\ UNCHANGED delivered

\* Mutant of GetMessage: "if" where the code has "while".
GetMessageOnce ==
  /\ pc = "get_message"
  /\ have_full_message(m)
  /\ delivered' = Append(delivered, m.cur_message)
  /\ m' = NextMessage(m)
  /\ pc' = "idle"
  /\ UNCHANGED <<pos, known>>

\* One iteration of the loop of get_message.
GetMessage ==
  /\ pc = "get_message"
  /\ have_full_message(m)
  /\ delivered' = Append(delivered, m.cur_message)
  /\ m' = NextMessage(m)
  /\ UNCHANGED <<pos, known, pc>>

\* The loop ends and process() returns.
Return ==
  /\ pc = "get_message"
  /\ ~have_full_message(m)
  /\ pc' = "idle"
  /\ UNCHANGED <<pos, known, m, delivered>>

Next == (\E n \in 1 .. BufSize : Process(n)) \/ GetMessage \/ Return

Spec == Init /\ [][Next]_vars

----------------------------------------------------------------------------
(* Properties *)

\* Every field holds what its type allows, and no copy overruns its buffer:
\* cur_part[2048] has room for Header bytes and a whole recv, add_part and the
\* tmp_buf[1024] of get_message for what one recv can leave.
TypeOK ==
  /\ pos \in 0 .. StreamLen
  /\ known \in BOOLEAN
  /\ pc \in {"idle", "get_message"}
  /\ delivered \in Seq(Seq(Nat))
  /\ m \in Messages
  /\ ~m.have_count => m.cur_len <= Header
  /\ Len(m.add_part) <= BufSize

\* However the stream is cut, the k-th message get_message returns is the body
\* of the k-th frame, byte for byte when the body holds no 0 byte (see
\* CString), and no message is made up.
InOrder ==
  /\ Len(delivered) <= NMsgs
  /\ \A k \in 1 .. Len(delivered) : Clean(k) => delivered[k] = Body(k)

\* A message is out as soon as its last byte is in: when process() has returned,
\* every complete frame has been delivered.  The one exception is an empty
\* message whose header is the last thing received: it waits for another byte.
Prompt ==
  pc = "idle" =>
    \A k \in Frames :
      /\ Start[k + 1] <= pos
      /\ MsgLen[k] > 0 \/ Start[k + 1] < pos
      => k <= Len(delivered)

----------------------------------------------------------------------------
(* The invariant behind them *)

\* The message object stands at byte p of the stream, inside frame i: either it
\* is collecting the header, or it knows the length and is collecting the body,
\* perhaps with the bytes of later frames set aside.
AtHeader(msg, i, p) ==
  /\ ~msg.have_count
  /\ ~msg.have_part
  /\ msg.cur_len \in 0 .. Header
  /\ msg.cur_len <= Len(msg.cur_part)
  /\ SubSeq(msg.cur_part, 1, msg.cur_len) = Bytes(Start[i], msg.cur_len)
  /\ p = Start[i] + msg.cur_len

AtBody(msg, i, p) ==
  /\ msg.have_count
  /\ i \in Frames
  /\ msg.len_msg = MsgLen[i]
  /\ msg.cur_len <= MsgLen[i]
  /\ Clean(i) => msg.cur_message = Bytes(Start[i] + Header, msg.cur_len)
  /\ IF msg.have_part
     THEN /\ msg.cur_len = MsgLen[i]
          /\ Len(msg.add_part) > 0
          /\ msg.add_part = Bytes(Start[i + 1], Len(msg.add_part))
          /\ p = Start[i + 1] + Len(msg.add_part)
     ELSE p = Start[i] + Header + msg.cur_len

Aligned(msg, i, p) ==
  /\ i \in 1 .. NMsgs + 1
  /\ AtHeader(msg, i, p) \/ AtBody(msg, i, p)

\* The receiver never loses its place: it stands in the frame after the last
\* one delivered, at the last byte received.
Synced ==
  /\ TypeOK
  /\ InOrder
  /\ Aligned(m, Len(delivered) + 1, pos)
  /\ known \/ (pos = 0 /\ m = NewMessage /\ delivered = <<>> /\ pc = "idle")
  /\ pc = "idle" => ~have_full_message(m)
=============================================================================
