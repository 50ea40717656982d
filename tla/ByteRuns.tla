------------------------------ MODULE ByteRuns ------------------------------
(***************************************************************************)
(* Bytes of a stream are told apart by their position, so a buffer with    *)
(* consecutive bytes of the stream is a run of numbers.                    *)
(***************************************************************************)
EXTENDS Naturals, Sequences

\* The n bytes after byte a.
Bytes(a, n) == [k \in 1 .. n |-> a + k]
=============================================================================
