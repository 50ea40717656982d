----------------------------- MODULE RelayPair -----------------------------
(***************************************************************************)
(* What the proxy promises to each pair of a user and a server: two        *)
(* independent queues of bytes, which end together.                        *)
(***************************************************************************)
EXTENDS Naturals, Sequences

CONSTANTS Pairs, Dirs

VARIABLES
  fifo,   \* fifo[p][d]: bytes written and not delivered
  out,    \* out[p][d]: bytes delivered
  open    \* the pairs whose queues still deliver

vars == <<fifo, out, open>>

Init ==
  /\ fifo = [p \in Pairs |-> [d \in Dirs |-> <<>>]]
  /\ out = fifo
  /\ open = Pairs

Write(p, d) ==
  /\ fifo' = [fifo EXCEPT ![p][d] = Append(@, Len(out[p][d]) + Len(@) + 1)]
  /\ UNCHANGED <<out, open>>

Deliver(p, d) ==
  /\ p \in open
  /\ \E n \in 1 .. Len(fifo[p][d]) :
       /\ out' = [out EXCEPT ![p][d] = @ \o SubSeq(fifo[p][d], 1, n)]
       /\ fifo' = [fifo EXCEPT ![p][d] = SubSeq(@, n + 1, Len(@))]
  /\ UNCHANGED open

\* What is in the queues is lost, and neither delivers any more.
Close(p) == open' = open \ {p} /\ UNCHANGED <<fifo, out>>

Next == \E p \in Pairs : Close(p) \/ \E d \in Dirs : Write(p, d) \/ Deliver(p, d)

Spec == Init /\ [][Next]_vars
=============================================================================
