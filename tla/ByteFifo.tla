------------------------------ MODULE ByteFifo ------------------------------
(***************************************************************************)
(* What the sending half of the chat promises (p2/README): the bytes of    *)
(* the messages added to a connection leave it once each and in the order  *)
(* they were added.  A byte is a number: the n-th byte ever added is n.    *)
(*                                                                         *)
(* The promise ends when "intact" does: Spoil says nothing of what the     *)
(* queue does from then on.                                                *)
(***************************************************************************)
EXTENDS Naturals, Sequences, ByteRuns

CONSTANT FrameSizes     \* bytes of a message with its header

VARIABLES
  fifo,     \* the bytes that wait
  out,      \* the bytes the last Take removed
  added,    \* bytes added so far
  intact    \* the promise still holds

vars == <<fifo, out, added, intact>>

Init == fifo = <<>> /\ out = <<>> /\ added = 0 /\ intact = TRUE

Put(size) ==
  /\ intact
  /\ fifo' = fifo \o Bytes(added, size)
  /\ added' = added + size
  /\ UNCHANGED <<out, intact>>

Take(n) ==
  /\ intact
  /\ out' = SubSeq(fifo, 1, n)
  /\ fifo' = SubSeq(fifo, n + 1, Len(fifo))
  /\ UNCHANGED <<added, intact>>

Spoil == intact' = FALSE

Next ==
  \/ \E size \in FrameSizes : Put(size)
  \/ \E n \in 1 .. Len(fifo) : Take(n)
  \/ Spoil

Spec == Init /\ [][Next]_vars
=============================================================================
