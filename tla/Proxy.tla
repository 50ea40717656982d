------------------------------- MODULE Proxy -------------------------------
(***************************************************************************)
(* The proxy of p3 (proxy.cpp): one port (ClientServer) with its clients.  *)
(* A Client joins a user's connection with one to a server, by two relays  *)
(* of asynchronous operations: "up" from the user to the server, "down"    *)
(* the other way.  Completed operations wait for their handler, and one    *)
(* thread runs the handlers one by one.                                    *)
(*                                                                         *)
(* A byte is its position in the stream of its direction.  Clients have    *)
(* the number the code gives them.  Both sockets of a client are closed    *)
(* together wherever the code closes one, so open says both.               *)
(***************************************************************************)
EXTENDS Integers, Sequences, FiniteSets, Functions, ByteRuns

CONSTANTS
  BufSize,     \* BUF_SIZE
  MaxNumber,   \* bound on the numbers given out in a behaviour
  MaxWrites    \* MaxWrites[c][d]: bound on the bytes the source of d writes

Numbers == 0 .. MaxNumber
Dirs == {"up", "down"}
Other(d) == IF d = "up" THEN "down" ELSE "up"

ASSUME ProxyAssumption ==
  /\ BufSize \in Nat \ {0} /\ MaxNumber \in Nat
  /\ MaxWrites \in [Numbers -> [Dirs -> Nat]]

VARIABLES
  \* ClientServer
  ind_number, cur_client, clients,
  \* each Client
  connecting,    \* its async_connect: "no", "pending", "done" or
                 \* "failed" until the handler runs, then "made" or "refused"
  open,          \* its sockets are open
  op,            \* op[c][d]: the operation of a relay, with its outcome
  buf,           \* buf[c][d]: the bytes of user_buffer and server_buffer
  size_message, cur_size,
  \* users, servers and the kernel
  wrote,         \* wrote[c][d]: bytes the source of d has written
  taken,         \* taken[c][d]: bytes of them the proxy has received
  out,           \* out[c][d]: bytes the socket to the destination of d took
  left           \* left[c][d]: the source of d has closed its connection

father == <<ind_number, cur_client, clients>>
relay  == <<connecting, open, op, buf, size_message, cur_size>>
peers  == <<wrote, taken, out, left>>
vars == <<father, relay, peers>>

EachRelay(v) == [c \in Numbers |-> [d \in Dirs |-> v]]

\* A Client has at most one operation in each direction.
Idle == [kind |-> "none", state |-> "none", size |-> 0]
Pending(kind) == [kind |-> kind, state |-> "pending", size |-> 0]

\* Mutant of set_new_client: the number is incremented before it is used.
set_new_client_late ==
  /\ cur_client' = ind_number + 1
  /\ ind_number' = ind_number + 1

\* set_new_client: the client takes the number, and the next one is prepared.
set_new_client ==
  /\ cur_client' = ind_number
  /\ ind_number' = ind_number + 1

Init ==
  /\ cur_client = 0 /\ ind_number = 1 /\ clients = <<>>
  /\ connecting = [c \in Numbers |-> "no"] /\ open = [c \in Numbers |-> FALSE]
  /\ op = EachRelay(Idle) /\ buf = EachRelay(<<>>)
  /\ size_message = EachRelay(0) /\ cur_size = EachRelay(0)
  /\ wrote = EachRelay(0) /\ taken = EachRelay(0) /\ out = EachRelay(<<>>)
  /\ left = EachRelay(FALSE)

----------------------------------------------------------------------------
(* Users, servers and the kernel *)

Write(c, d) ==
  /\ open[c] /\ ~left[c][d] /\ wrote[c][d] < MaxWrites[c][d]
  /\ d = "up" \/ connecting[c] \in {"done", "made"}
  /\ wrote' = [wrote EXCEPT ![c][d] = @ + 1]
  /\ UNCHANGED <<father, relay, taken, out, left>>

Leave(c, d) ==
  /\ open[c] /\ ~left[c][d]
  /\ d = "up" \/ connecting[c] \in {"done", "made"}
  /\ left' = [left EXCEPT ![c][d] = TRUE]
  /\ UNCHANGED <<father, relay, wrote, taken, out>>

Connected(c) ==
  /\ connecting[c] = "pending"
  /\ \E outcome \in {"done", "failed"} : connecting' = [connecting EXCEPT ![c] = outcome]
  /\ UNCHANGED <<father, open, op, buf, size_message, cur_size, peers>>

Complete(c, d, state, n) == op' = [op EXCEPT ![c][d].state = state, ![c][d].size = n]

\* async_receive completes: with bytes that have arrived, or, once the source
\* has left, with an error: behind its bytes, or before them if it left bytes
\* of its own unread and so reset the connection.
Received(c, d) ==
  /\ op[c][d].kind = "receive" /\ op[c][d].state = "pending"
  /\ \/ \E n \in 1 .. BufSize :
          /\ n <= wrote[c][d] - taken[c][d]
          /\ Complete(c, d, "done", n)
          /\ buf' = [buf EXCEPT ![c][d] = Bytes(taken[c][d], n)]
          /\ taken' = [taken EXCEPT ![c][d] = @ + n]
     \/ /\ left[c][d] /\ (taken[c][d] = wrote[c][d] \/ wrote[c][Other(d)] > 0)
        /\ Complete(c, d, "failed", 0)
        /\ UNCHANGED <<buf, taken>>
  /\ UNCHANGED <<father, connecting, open, size_message, cur_size, wrote, out, left>>

\* async_send completes with the number of bytes the socket took, which may be
\* fewer than it was given.  For a destination that has left it may fail.
Sent(c, d) ==
  /\ op[c][d].kind = "send" /\ op[c][d].state = "pending"
  /\ \/ \E n \in 1 .. size_message[c][d] - cur_size[c][d] :
          /\ Complete(c, d, "done", n)
          /\ out' = [out EXCEPT ![c][d] =
                       @ \o SubSeq(buf[c][d], cur_size[c][d] + 1, cur_size[c][d] + n)]
     \/ left[c][Other(d)] /\ Complete(c, d, "failed", 0) /\ UNCHANGED out
  /\ UNCHANGED <<father, connecting, open, buf, size_message, cur_size, wrote, taken, left>>

----------------------------------------------------------------------------
(* The handlers *)

add_client == clients' = [k \in DOMAIN clients \cup {ind_number} |->
                            IF k = ind_number THEN cur_client ELSE clients[k]]

\* An accepted user: its client connects to the server and goes into the map,
\* under the number of the next client.
handle_accept ==
  /\ ind_number <= MaxNumber
  /\ add_client
  /\ set_new_client
  /\ open' = [open EXCEPT ![cur_client] = TRUE]
  /\ connecting' = [connecting EXCEPT ![cur_client] = "pending"]
  /\ UNCHANGED <<op, buf, size_message, cur_size, peers>>

\* A failed accept: the prepared client is dropped.
handle_accept_error ==
  /\ ind_number <= MaxNumber
  /\ set_new_client
  /\ UNCHANGED <<clients, relay, peers>>

\* Mutant of Cancelled: the sockets stay open, so nothing is cancelled.
CancelledNone(ops) == ops

\* Closing the sockets makes the operations that are under way fail.
Cancelled(ops) ==
  [d \in Dirs |-> IF ops[d].state = "pending" THEN [ops[d] EXCEPT !.state = "failed"] ELSE ops[d]]

\* ClientServer::stop.
erase(number) == clients' = Restrict(clients, DOMAIN clients \ {number})

\* Mutant of stop: the sockets are not closed.
stop_keeps_sockets(c, d) ==
  /\ op' = [op EXCEPT ![c][d] = Idle]
  /\ erase(c)
  /\ UNCHANGED <<ind_number, cur_client, connecting, open, buf, size_message, cur_size, peers>>

\* Client::stop, called by the handler of the failed operation of d.
stop(c, d) ==
  /\ open' = [open EXCEPT ![c] = FALSE]
  /\ op' = [op EXCEPT ![c] = Cancelled([@ EXCEPT ![d] = Idle])]
  /\ erase(c)
  /\ UNCHANGED <<ind_number, cur_client, connecting, buf, size_message, cur_size, peers>>

\* Asking for an operation on a closed socket is an operation that fails.
Start(c, d, kind) ==
  op' = [op EXCEPT ![c][d] = IF open[c] THEN Pending(kind)
                             ELSE [Pending(kind) EXCEPT !.state = "failed"]]

connect(c) ==
  /\ connecting[c] \in {"done", "failed"}
  /\ connecting' = [connecting EXCEPT ![c] = IF @ = "done" THEN "made" ELSE "refused"]
  /\ IF connecting[c] = "failed"
     THEN open' = [open EXCEPT ![c] = FALSE] /\ UNCHANGED <<op, cur_size>>
     ELSE /\ op' = [op EXCEPT ![c] = [d \in Dirs |-> Pending("receive")]]
          /\ cur_size' = [cur_size EXCEPT ![c] = [d \in Dirs |-> 0]]
          /\ UNCHANGED open
  /\ UNCHANGED <<father, buf, size_message, peers>>

Failed(c, d, kind) == op[c][d].kind = kind /\ op[c][d].state = "failed" /\ stop(c, d)

\* userRead and serverRead, which mirror each other.
Read(c, d) ==
  \/ Failed(c, d, "receive")
  \/ /\ op[c][d].kind = "receive" /\ op[c][d].state = "done"
     /\ cur_size' = [cur_size EXCEPT ![c][d] = 0]
     /\ size_message' = [size_message EXCEPT ![c][d] = op[c][d].size]
     /\ Start(c, d, "send")
     /\ UNCHANGED <<father, connecting, open, buf, peers>>

\* Mutant of AllSent: a partial send is taken for a complete one.
AllSentAtOnce(c, d) == TRUE

AllSent(c, d) == size_message[c][d] = cur_size[c][d] + op[c][d].size

\* userWrite and serverWrite: the rest is sent, or the next bytes are received.
Written(c, d) ==
  \/ Failed(c, d, "send")
  \/ /\ op[c][d].kind = "send" /\ op[c][d].state = "done"
     /\ IF AllSent(c, d)
        THEN /\ cur_size' = [cur_size EXCEPT ![c][d] = 0]
             /\ size_message' = [size_message EXCEPT ![c][d] = 0]
             /\ Start(c, d, "receive")
        ELSE /\ cur_size' = [cur_size EXCEPT ![c][d] = @ + op[c][d].size]
             /\ Start(c, d, "send")
             /\ UNCHANGED size_message
     /\ UNCHANGED <<father, connecting, open, buf, peers>>

userRead(c)    == Read(c, "up")
userWrite(c)   == Written(c, "up")
serverRead(c)  == Read(c, "down")
serverWrite(c) == Written(c, "down")

Handler(c) == connect(c) \/ userRead(c) \/ userWrite(c) \/ serverRead(c) \/ serverWrite(c)

Kernel(c) == Connected(c) \/ \E d \in Dirs : Received(c, d) \/ Sent(c, d)

Next ==
  \/ handle_accept \/ handle_accept_error
  \/ \E c \in Numbers : Handler(c) \/ Kernel(c) \/ \E d \in Dirs : Write(c, d) \/ Leave(c, d)

Spec == Init /\ [][Next]_vars

\* io_service runs the handlers that are ready, and the kernel completes an
\* operation that can complete: peers that stay read what reaches them.
FairSpec == Spec /\ WF_vars(\E c \in Numbers : Handler(c) \/ Kernel(c))

----------------------------------------------------------------------------
(* Properties *)

TypeOK ==
  /\ ind_number \in Numbers \cup {MaxNumber + 1} /\ cur_client = ind_number - 1
  /\ DOMAIN clients \subseteq Numbers /\ \A k \in DOMAIN clients : clients[k] \in Numbers
  /\ connecting \in [Numbers -> {"no", "pending", "done", "failed", "made", "refused"}]
  /\ open \in [Numbers -> BOOLEAN]
  /\ \A c \in Numbers, d \in Dirs :
       /\ op[c][d].kind \in {"none", "receive", "send"}
       /\ op[c][d].state \in {"none", "pending", "done", "failed"}
       /\ op[c][d].size \in 0 .. BufSize
       /\ buf[c][d] \in Seq(1 .. taken[c][d]) /\ Len(buf[c][d]) <= BufSize
       /\ size_message[c][d] \in 0 .. Len(buf[c][d])
       /\ cur_size[c][d] \in 0 .. size_message[c][d]
       /\ taken[c][d] \in 0 .. wrote[c][d] /\ wrote[c][d] \in 0 .. MaxWrites[c][d]
       /\ left[c][d] \in BOOLEAN

\* A handler of c will still run, which keeps the Client alive.
Connecting(c) == connecting[c] \in {"pending", "done", "failed"}
Busy(c) == Connecting(c) \/ \E d \in Dirs : op[c][d] # Idle

\* What keeps a Client alive is its handlers, not the map: the stop of number n
\* erases entry n, which holds the client accepted before it, relaying or not, and
\* after a failed accept none.  While its sockets are open a client has its connect
\* to come or an operation in each direction, so no erasure ends it or leaves a
\* direction dead; when they are closed none is pending that might keep it for ever.
KeptByHandlers ==
  \A c \in Numbers :
    IF open[c] THEN Connecting(c) \/ \A d \in Dirs : op[c][d] # Idle
    ELSE ~Connecting(c) /\ \A d \in Dirs : op[c][d].state # "pending"

\* Both relays are byte queues that end together: partial sends, reused buffers
\* and handlers that run after a stop neither lose, repeat nor reorder a byte,
\* and nothing is sent after a stop.
Pair == INSTANCE RelayPair WITH
  Pairs <- Numbers,
  fifo <- [c \in Numbers |-> [d \in Dirs |-> Bytes(Len(out[c][d]), wrote[c][d] - Len(out[c][d]))]],
  open <- {c \in Numbers : connecting[c] = "no" \/ open[c]}
ImplementsRelay == Pair!Spec

\* When either side leaves, both connections are closed, and no handler is left
\* (left is for ever, so this is a leads-to).
BothEnd ==
  <>[](\A c \in Numbers, d \in Dirs : left[c][d] => ~open[c] /\ ~Busy(c))

\* A side that writes and then leaves is heard to its last byte, unless the
\* other side wrote something or left: then stop may come first.
HeardToTheEnd ==
  <>[](\A c \in Numbers, d \in Dirs :
         left[c][d] => \/ Len(out[c][d]) = wrote[c][d]
                       \/ wrote[c][Other(d)] > 0 \/ left[c][Other(d)]
                       \/ connecting[c] \in {"failed", "refused"})
=============================================================================
