-------------------------- MODULE MCMessageFraming --------------------------
(***************************************************************************)
(* MessageFraming with the real header size and a small recv buffer, over  *)
(* a stream whose lengths put every pair of an empty, a one-byte, a        *)
(* header-sized and a longer-than-a-buffer message next to each other.     *)
(***************************************************************************)
EXTENDS MessageFraming

MCLengths == <<0, 0, 1, 1, 4, 4, 11, 11, 0, 4, 0, 11, 1, 0, 1, 11, 4, 1, 4, 11, 0>>

MCNMsgs == Len(MCLengths)

MCMsgLen == [i \in 1 .. MCNMsgs |-> MCLengths[i]]

MCStart ==
  LET before[i \in 1 .. MCNMsgs + 1] ==
        IF i = 1 THEN 0 ELSE before[i - 1] + 4 + MCLengths[i - 1]
  IN  before

\* A 0 byte inside the last long message.
MCNul == {MCStart[20] + 4 + 6}
=============================================================================
