----------------------------- MODULE SendQueue -----------------------------
(***************************************************************************)
(* The sending half of the chat's framing (p2/messageforsend.cpp): the     *)
(* bytes that wait for one socket, in a list of fixed-size chunks.         *)
(*                                                                         *)
(* bitlist is the memory of the chunks, one chunk after the other, so its  *)
(* length is a multiple of Chunk.  A byte is a number: the n-th byte ever  *)
(* given to add_message is n; 0 is memory that was never written.          *)
(***************************************************************************)
EXTENDS Integers, Sequences, ByteRuns

CONSTANTS
  Chunk,        \* bytes of a chunk, and of the buffer of one send (1024)
  FrameSizes,   \* bytes of a message with its header: size_message + 4
  MaxBytes      \* bound on the bytes given to add_message in a behaviour

ASSUME ChunkAssumption ==
  /\ Chunk \in Nat \ {0}
  /\ FrameSizes \subseteq Nat \ {0}
  /\ MaxBytes \in Nat

VARIABLES
  bitlist, count, beg_offset, end_offset,   \* the object's fields
  added,      \* bytes given to add_message so far
  sent,       \* bytes the socket has taken so far
  out,        \* the bytes of the last successful send
  overrun,    \* a message was added while end_offset was stale (see Stale)
  crashed     \* getbitarray has read past the end of the list

sendVars == <<bitlist, count, beg_offset, end_offset, added, sent, out, overrun, crashed>>

\* The memory of the chunks that hold n bytes.
ChunksFor(n) == IF n % Chunk = 0 THEN n ELSE n + (Chunk - (n % Chunk))

\* end_offset is not where the last chunk's bytes end.  add_message leaves it
\* so when its while loop fills the last chunk exactly: only the branch of a
\* partial chunk, and the one of a message that fits, assign end_offset.
Stale ==
  /\ bitlist # <<>>
  /\ beg_offset + count + Chunk # Len(bitlist) + end_offset

----------------------------------------------------------------------------

SendInit ==
  /\ bitlist = <<>>
  /\ count = 0 /\ beg_offset = 0 /\ end_offset = 0
  /\ added = 0 /\ sent = 0 /\ out = <<>>
  /\ overrun = FALSE /\ crashed = FALSE

\* The part of a frame that add_message copies into the last chunk.
Taken(size) ==
  IF bitlist = <<>> THEN 0
  ELSE IF end_offset + size <= Chunk THEN size ELSE Chunk - end_offset

\* The last chunk with those bytes copied behind end_offset.
Filled(taken) ==
  LET at == (Len(bitlist) + end_offset) - Chunk
  IN  [c \in 1 .. Len(bitlist) |->
         IF at < c /\ c <= at + taken THEN added + (c - at) ELSE bitlist[c]]

\* Mutant of Fresh: the copy starts at the frame's first byte again.
FreshFromStart(taken, size) ==
  [c \in 1 .. ChunksFor(size - taken) |->
     IF c <= size - taken THEN added + c ELSE 0]

\* New chunks with the rest of the frame.
Fresh(taken, size) ==
  [c \in 1 .. ChunksFor(size - taken) |->
     IF c <= size - taken THEN added + taken + c ELSE 0]

\* Mutant of NewEndOffset: a frame that does not fit moves the end as well.
EndOffsetPastChunk(taken, size) ==
  IF (size - taken) % Chunk # 0 THEN (size - taken) % Chunk ELSE end_offset + size

\* Where add_message leaves end_offset: behind the partial chunk it pushed, or
\* behind a frame that fitted; otherwise it keeps the old value.
NewEndOffset(taken, size) ==
  IF (size - taken) % Chunk # 0 THEN (size - taken) % Chunk
  ELSE IF taken = size THEN end_offset + size
  ELSE end_offset

add_message(size) ==
  LET taken == Taken(size)
  IN  /\ ~crashed
      /\ added + size <= MaxBytes
      /\ bitlist' = Filled(taken) \o Fresh(taken, size)
      /\ end_offset' = NewEndOffset(taken, size)
      /\ count' = count + size
      /\ added' = added + size
      /\ overrun' = (overrun \/ Stale)
      /\ UNCHANGED <<beg_offset, sent, out, crashed>>

\* What getbitarray(buf, Chunk) copies: at most Chunk bytes, from the first
\* chunk and the one behind it.
ReadLen == IF count < Chunk THEN count ELSE Chunk

getbitarray == SubSeq(bitlist, beg_offset + 1, beg_offset + ReadLen)

\* Mutant of erase: the chunk that was read to its end is not popped.
erase_keeps_chunk(n) ==
  /\ beg_offset' = IF beg_offset + n < Chunk THEN beg_offset + n
                   ELSE (beg_offset + n) - Chunk
  /\ bitlist' = bitlist
  /\ count' = count - n

\* Mutant of erase: the bytes read beyond the popped chunk are forgotten.
erase_to_chunk_start(n) ==
  /\ IF beg_offset + n < Chunk
     THEN /\ beg_offset' = beg_offset + n
          /\ bitlist' = bitlist
     ELSE /\ beg_offset' = 0
          /\ bitlist' = SubSeq(bitlist, Chunk + 1, Len(bitlist))
  /\ count' = count - n

\* erase(n): a chunk that was read to its end is popped.
erase(n) ==
  /\ IF beg_offset + n < Chunk
     THEN /\ beg_offset' = beg_offset + n
          /\ bitlist' = bitlist
     ELSE /\ beg_offset' = (beg_offset + n) - Chunk
          /\ bitlist' = SubSeq(bitlist, Chunk + 1, Len(bitlist))
  /\ count' = count - n

\* One round of the loop of writeFds and writeMessages: the socket takes n of
\* the bytes getbitarray offers.  The loop ends when nothing is left or the
\* socket takes nothing; messages may be added before it is entered again.
Write(n) ==
  /\ ~crashed
  /\ n <= ReadLen
  /\ beg_offset + ReadLen <= Len(bitlist)
  /\ out' = SubSeq(getbitarray, 1, n)
  /\ sent' = sent + n
  /\ erase(n)
  /\ UNCHANGED <<end_offset, added, overrun, crashed>>

\* getbitarray goes past the last chunk and dereferences the end of the list.
Crash ==
  /\ ~crashed
  /\ ReadLen > 0
  /\ beg_offset + ReadLen > Len(bitlist)
  /\ crashed' = TRUE
  /\ UNCHANGED <<bitlist, count, beg_offset, end_offset, added, sent, out, overrun>>

SendNext ==
  \/ \E size \in FrameSizes : add_message(size)
  \/ \E n \in 1 .. Chunk : Write(n)
  \/ Crash

SendSpec == SendInit /\ [][SendNext]_sendVars

----------------------------------------------------------------------------
(* Properties *)

SendTypeOK ==
  /\ bitlist \in Seq(Nat)
  /\ count \in Nat
  /\ beg_offset \in 0 .. Chunk - 1
  /\ end_offset \in 0 .. Chunk
  /\ added \in Nat /\ sent \in Nat
  /\ out \in Seq(Nat)
  /\ overrun \in BOOLEAN /\ crashed \in BOOLEAN

\* The socket gets the bytes of the messages, each once and in order, wherever
\* messages and sends cut the chunks (p2/README:3).  The code does not keep
\* this: a message added behind a chunk that the while loop filled exactly
\* overwrites bytes that wait there.
SentInOrder ==
  /\ ~crashed
  /\ out = Bytes(sent - Len(out), Len(out))

\* The overwriting is the only way to lose it: as long as no message was added
\* while end_offset was stale, the bytes leave in order and getbitarray never
\* reads past the list.
InOrderUntilOverrun == ~overrun => SentInOrder

\* Chunks are freed as they are read: besides the bytes that wait, the list
\* holds less than a chunk in front of them and less than one behind.
NoLeak == Len(bitlist) < count + 2 * Chunk

\* Why InOrderUntilOverrun and NoLeak hold: the waiting bytes lie one after the
\* other in the chunks, and end_offset is never too far back in the last one.
Layout ==
  /\ SendTypeOK
  /\ added = sent + count
  /\ Len(out) <= sent
  /\ ~overrun =>
       /\ SentInOrder
       /\ beg_offset + count <= Len(bitlist)
       /\ \A j \in 1 .. count : bitlist[beg_offset + j] = sent + j
  /\ Len(bitlist) < beg_offset + count + Chunk
  /\ bitlist # <<>> => Len(bitlist) + end_offset <= beg_offset + count + Chunk

\* The same promise as an abstract queue.
Fifo == INSTANCE ByteFifo
  WITH fifo <- IF overrun THEN <<>>
               ELSE SubSeq(bitlist, beg_offset + 1, beg_offset + count),
       out <- IF overrun THEN <<>> ELSE out,
       added <- IF overrun THEN 0 ELSE added,
       intact <- ~overrun

\* Every step of the queue is a step of ByteFifo: it puts a frame at the end or
\* takes a prefix, until the step that spoils it.
ImplementsFifo == Fifo!Spec
=============================================================================
