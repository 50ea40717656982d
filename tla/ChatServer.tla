----------------------------- MODULE ChatServer -----------------------------
(***************************************************************************)
(* The chat server of p2 (server.cpp, messagesender.cpp,                   *)
(* messagereceiver.cpp): one thread around an edge-triggered epoll set,    *)
(* with the clients' sockets and the kernel's buffers as its environment.  *)
(*                                                                         *)
(* A message is one unit: MessageFraming and SendQueue treat its bytes.  A *)
(* client connects at most once; a second connection of the same person    *)
(* is another member of Clients.  Fds are numbers because the kernel hands *)
(* out the lowest one that is free, and so gives a new connection the      *)
(* number of an old one.                                                   *)
(***************************************************************************)
EXTENDS Integers, Sequences, FiniteSets

CONSTANTS
  Clients,
  Fds,        \* the file descriptors the server may get for connections
  Limit,      \* messages the kernel buffers for a client that does not read
  MaxTalk,    \* bound on the messages said in a behaviour
  MaxLeaves   \* bound on the clients that leave in a behaviour

ASSUME ServerAssumption ==
  /\ Fds \subseteq Nat \ {0} /\ IsFiniteSet(Fds)
  /\ IsFiniteSet(Clients) /\ Cardinality(Clients) <= Cardinality(Fds)
  /\ Limit \in Nat \ {0} /\ MaxTalk \in Nat /\ MaxLeaves \in Nat

VARIABLES
  \* the clients and the kernel
  conn,         \* conn[c]: "off", "up", "left" (c closed it), "gone" (both did)
  fdOf,         \* the fd that was accepted for c, 0 before
  backlog,      \* connections that wait for accept
  inbox,        \* inbox[c]: what c sent and the server did not receive
  net,          \* net[c]: what the server sent and c did not read
  ready,        \* ready[fd]: events epoll will report
  masterReady,  \* the listening socket has an event
  \* the server
  entries,      \* keys of MessageSender::messanger
  queue,        \* queue[fd]: what waits in its MessageForSend
  need_write,   \* need_write[fd]; when set, EPOLLOUT is registered as well
  receiver,     \* MessageReceiver's Message for fd: "none" yet, "aligned" at
                \* a message's start, or "torn": in the middle of one
  reading,      \* the fd readClient works on, 0 in epoll_wait
  exited,       \* the process has ended
  \* history
  said,         \* said[c]: messages c has sent
  log,          \* the messages in the order add_message got them
  joined,       \* joined[c]: length of the log when c was accepted
  heard         \* heard[c]: messages c has read

kernel  == <<conn, fdOf, backlog, inbox, net, ready, masterReady>>
server  == <<entries, queue, need_write, receiver, reading, exited>>
history == <<said, log, joined, heard>>
vars == <<kernel, server, history>>

\* A message, and what a client leaves behind that goes in the middle of one.
Said(c, n) == <<c, n>>
Part == <<"part", 0>>
\* The greeting, and the bytes of two clients taken for one message.
Welcome == <<"Welcome", 0>>
Garbled == <<"garbled", 0>>

\* The connection that has this fd now, as a set of at most one.
Holder(fds, fd) == {c \in Clients : fds[c] = fd /\ conn[c] \in {"up", "left"}}

Init ==
  /\ conn = [c \in Clients |-> "off"] /\ fdOf = [c \in Clients |-> 0]
  /\ backlog = <<>>
  /\ inbox = [c \in Clients |-> <<>>] /\ net = [c \in Clients |-> <<>>]
  /\ ready = [fd \in Fds |-> {}] /\ masterReady = FALSE
  /\ entries = {}
  /\ queue = [fd \in Fds |-> <<>>] /\ need_write = [fd \in Fds |-> FALSE]
  /\ receiver = [fd \in Fds |-> "none"]
  /\ reading = 0 /\ exited = FALSE
  /\ said = [c \in Clients |-> 0] /\ log = <<>>
  /\ joined = [c \in Clients |-> 0] /\ heard = [c \in Clients |-> 0]

----------------------------------------------------------------------------
(* The clients and the kernel *)

\* The kernel reports something new of c, once c has an fd.
Notify(c, event) ==
  ready' = [fd \in Fds |-> IF fdOf[c] = fd THEN ready[fd] \cup {event} ELSE ready[fd]]

Connect(c) ==
  /\ conn[c] = "off"
  /\ conn' = [conn EXCEPT ![c] = "up"]
  /\ backlog' = Append(backlog, c)
  /\ masterReady' = TRUE
  /\ UNCHANGED <<fdOf, inbox, net, ready, server, history>>

AllSaid == UNION {{Said(c, n) : n \in 1 .. said[c]} : c \in Clients}

Say(c) ==
  /\ conn[c] = "up"
  /\ Cardinality(AllSaid) < MaxTalk
  /\ said' = [said EXCEPT ![c] = @ + 1]
  /\ inbox' = [inbox EXCEPT ![c] = Append(@, Said(c, said[c] + 1))]
  /\ Notify(c, "in")
  /\ UNCHANGED <<conn, fdOf, backlog, net, masterReady, server, log, joined, heard>>

\* c reads a message.  The room that makes is an event if EPOLLOUT is registered.
Read(c) ==
  /\ conn[c] = "up" /\ net[c] # <<>>
  /\ net' = [net EXCEPT ![c] = Tail(@)]
  /\ heard' = [heard EXCEPT ![c] = @ + 1]
  /\ IF \E fd \in Fds : fdOf[c] = fd /\ need_write[fd]
     THEN Notify(c, "out") ELSE UNCHANGED ready
  /\ UNCHANGED <<conn, fdOf, backlog, inbox, masterReady, server, said, log, joined>>

\* c closes its connection, perhaps in the middle of sending a message.
Leave(c) ==
  /\ conn[c] = "up"
  /\ Cardinality({d \in Clients : conn[d] \in {"left", "gone"}}) < MaxLeaves
  /\ conn' = [conn EXCEPT ![c] = "left"]
  /\ \E rest \in {<<>>, <<Part>>} : inbox' = [inbox EXCEPT ![c] = @ \o rest]
  /\ Notify(c, "in")
  /\ UNCHANGED <<fdOf, backlog, net, masterReady, server, history>>

----------------------------------------------------------------------------
(* What the handlers call *)

\* perror and exit: the handler goes no further, and what it did before does not
\* matter any more.
Exit ==
  /\ exited' = TRUE
  /\ UNCHANGED <<kernel, entries, queue, need_write, receiver, reading, history>>

\* What send does on a connection its client has closed, depending on how far
\* the reset has come: the bytes vanish, or it fails with an errno that has a
\* bit of EWOULDBLOCK (ECONNRESET), or it ends the process (EPIPE).
Fate == {"vanish", "would block", "fail"}
Abandoned(fds) == {fd \in Fds : \E c \in Holder(fds, fd) : conn[c] = "left"}

\* Mutant of Sendable: the kernel's buffer has no end.
SendableAll(fds, fd, q, fate) == Len(q[fd])

\* The messages of q that the loop of writeMessages gets rid of for fd.
Sendable(fds, fd, q, fate) ==
  IF fd \in Abandoned(fds)
  THEN IF fate[fd] = "vanish" THEN Len(q[fd]) ELSE 0
  ELSE LET room == Limit - Len(net[CHOOSE c \in Holder(fds, fd) : TRUE])
       IN  IF Len(q[fd]) < room THEN Len(q[fd]) ELSE room

\* Mutant of WriteFails: a socket that would block ends the process as well.
WouldBlockFails(fds, q, fate) ==
  \E fd \in Fds : q[fd] # <<>> /\ (Holder(fds, fd) = {} \/ Sendable(fds, fd, q, fate) < Len(q[fd]))

\* writeMessages ends the process: something waits for an fd that is closed
\* (EBADF has a bit of EWOULDBLOCK, but then epoll_ctl fails), or send fails.
WriteFails(fds, q, fate) ==
  \E fd \in Fds :
    /\ q[fd] # <<>>
    /\ \/ Holder(fds, fd) = {}
       \/ fd \in Abandoned(fds) /\ fate[fd] = "fail"

\* writeMessages, for the queues q: each socket is sent as much as it takes, and
\* need_write is set while something waits for room and cleared after.  An
\* epoll_ctl that changes a registration reports again what can be read.
writeMessages(fds, q, unread, fate, events) ==
  LET n == [fd \in Fds |-> IF q[fd] = <<>> THEN 0 ELSE Sendable(fds, fd, q, fate)]
      Modified(fd) == n[fd] < Len(q[fd]) \/ need_write[fd]
      Readable(fd) == \E c \in Holder(fds, fd) : unread[c] # <<>> \/ conn[c] = "left"
  IN  /\ queue' = [fd \in Fds |-> SubSeq(q[fd], n[fd] + 1, Len(q[fd]))]
      /\ net' = [c \in Clients |->
                   IF conn[c] = "up" /\ fds[c] # 0
                   THEN net[c] \o SubSeq(q[fds[c]], 1, n[fds[c]]) ELSE net[c]]
      /\ need_write' = [fd \in Fds |-> n[fd] < Len(q[fd])]
      /\ ready' = [fd \in Fds |->
                     IF Modified(fd) /\ Readable(fd) THEN events[fd] \cup {"in"} ELSE events[fd]]

\* MessageSender::deleteSockFd and MessageReceiver::deleteSockFd erase the
\* entry only if there is none.
deleteSockFd(fd) ==
  /\ entries' = IF fd \notin entries THEN entries \ {fd} ELSE entries
  /\ receiver' = IF receiver[fd] = "none" THEN [receiver EXCEPT ![fd] = "none"] ELSE receiver

deleteClient(fd) ==
  /\ conn' = [c \in Clients |-> IF c \in Holder(fdOf, fd) THEN "gone" ELSE conn[c]]
  /\ ready' = [ready EXCEPT ![fd] = {}]
  /\ deleteSockFd(fd)
  /\ reading' = 0
  /\ UNCHANGED <<fdOf, backlog, inbox, net, masterReady, queue, need_write, exited, history>>

----------------------------------------------------------------------------
(* The server's steps *)

InWait == ~exited /\ reading = 0

\* The lowest fd that is not open.
NewFd ==
  LET unused == {fd \in Fds : Holder(fdOf, fd) = {}}
  IN  CHOOSE fd \in unused : \A other \in unused : fd <= other

\* The greeting goes into the entry of fd, which emplace leaves as it is when
\* an earlier connection with this fd left one.
add_client(fd) ==
  /\ entries' = entries \cup {fd}
  /\ UNCHANGED receiver

\* One event of the listening socket, however many connections it stands for:
\* one is accepted.
processMasterEvent ==
  /\ InWait /\ masterReady /\ backlog # <<>>
  /\ LET c   == Head(backlog)
         fd  == NewFd
         fds == [fdOf EXCEPT ![c] = fd]
         q   == [queue EXCEPT ![fd] = Append(@, Welcome)]
         events == [ready EXCEPT ![fd] =
                      IF inbox[c] # <<>> \/ conn[c] = "left" THEN {"in"} ELSE {}]
     IN  \E fate \in [Abandoned(fds) -> Fate] :
           IF WriteFails(fds, q, fate) THEN Exit
           ELSE /\ fdOf' = fds
                /\ backlog' = Tail(backlog)
                /\ masterReady' = FALSE
                /\ joined' = [joined EXCEPT ![c] = Len(log)]
                /\ add_client(fd)
                /\ writeMessages(fds, q, inbox, fate, events)
                /\ UNCHANGED <<conn, inbox, reading, exited, said, log, heard>>

\* An event of a client: an error ends the process, a hang-up deletes the
\* client, data or the end of the stream are read, and room to write alone is
\* nothing to do.  Which of the first three a closed connection shows depends on
\* how far the reset has come.
processClientEvent(fd) ==
  /\ InWait /\ ready[fd] # {}
  /\ \E c \in Holder(fdOf, fd) :
       \/ conn[c] = "left" /\ Exit
       \/ conn[c] = "left" /\ deleteClient(fd)
       \/ /\ ready' = [ready EXCEPT ![fd] = {}]
          /\ reading' = IF "in" \in ready[fd] \/ inbox[c] # <<>> THEN fd ELSE 0
          /\ UNCHANGED <<conn, fdOf, backlog, inbox, net, masterReady, entries, queue,
                         need_write, receiver, exited, history>>

\* The messages in a received part.  Only its end can be a piece of one: the
\* client has left behind that.
Whole(part) == IF part[Len(part)] = Part THEN SubSeq(part, 1, Len(part) - 1) ELSE part
After(part) == IF part[Len(part)] = Part THEN "torn" ELSE "aligned"

\* Mutant of process: only the first of several messages is returned.
process_first_only(fd, part) ==
  {[msgs |-> SubSeq(Whole(part), 1, IF Whole(part) = <<>> THEN 0 ELSE 1), receiver |-> After(part)]}

\* What MessageReceiver::process may return for the received part, and how it
\* leaves the Message of fd.  A Message that an earlier connection left in the
\* middle of a message completes it with the bytes of this one.
process(fd, part) ==
  IF receiver[fd] = "torn"
  THEN [msgs : {<<>>, <<Garbled>>}, receiver : {"torn", "aligned"}]
  ELSE {[msgs |-> Whole(part), receiver |-> After(part)]}

\* Mutant of broadcast: a queue that waits for room gets nothing new.
broadcast_skips_slow(msgs) ==
  [fd \in Fds |-> IF fd \in entries /\ ~need_write[fd] THEN queue[fd] \o msgs ELSE queue[fd]]

\* MessageSender::add_message for each message: every entry gets them.
broadcast(msgs) ==
  [fd \in Fds |-> IF fd \in entries THEN queue[fd] \o msgs ELSE queue[fd]]

\* readClient receives something, and broadcasts the messages in it.
Receive(c, fd) ==
  \E n \in 1 .. Len(inbox[c]), fate \in [Abandoned(fdOf) -> Fate] :
  \E got \in process(fd, SubSeq(inbox[c], 1, n)) :
    LET q == broadcast(got.msgs)
    IN  IF WriteFails(fdOf, q, fate) THEN Exit
        ELSE /\ inbox' = [inbox EXCEPT ![c] = SubSeq(@, n + 1, Len(@))]
             /\ receiver' = [receiver EXCEPT ![fd] = got.receiver]
             /\ log' = log \o got.msgs
             /\ writeMessages(fdOf, q, inbox', fate, ready)
             /\ UNCHANGED <<conn, fdOf, backlog, masterReady, entries, reading, exited,
                            said, joined, heard>>

\* Mutant of Drained: readClient returns after it has received once.
DrainedAtOnce(c) == TRUE

\* recv has nothing to give: EAGAIN.
Drained(c) == inbox[c] = <<>> /\ conn[c] = "up"

\* One round of readClient's loop.
readClient(fd) ==
  /\ ~exited /\ reading = fd
  /\ \E c \in Holder(fdOf, fd) :
       \/ Receive(c, fd)
       \/ /\ Drained(c)
          /\ reading' = 0
          /\ UNCHANGED <<kernel, entries, queue, need_write, receiver, exited, history>>
       \/ /\ inbox[c] = <<>> /\ conn[c] = "left"
          /\ deleteClient(fd) \/ Exit

Server == processMasterEvent \/ \E fd \in Fds : processClientEvent(fd) \/ readClient(fd)

Next ==
  \/ Server
  \/ ~exited /\ \E c \in Clients : Connect(c) \/ Say(c) \/ Read(c) \/ Leave(c)

Spec == Init /\ [][Next]_vars

\* The server's thread runs whenever it has something to do, and a client that
\* stays reads what reaches it.
FairSpec == Spec /\ WF_vars(Server) /\ \A c \in Clients : WF_vars(Read(c))

----------------------------------------------------------------------------
(* Properties *)

Units == (Clients \X Nat) \cup {Part, Welcome, Garbled}

TypeOK ==
  /\ conn \in [Clients -> {"off", "up", "left", "gone"}]
  /\ fdOf \in [Clients -> Fds \cup {0}]
  /\ backlog \in Seq(Clients)
  /\ inbox \in [Clients -> Seq(Units)] /\ net \in [Clients -> Seq(Units)]
  /\ \A c \in Clients : Len(net[c]) <= Limit
  /\ ready \in [Fds -> SUBSET {"in", "out"}] /\ masterReady \in BOOLEAN
  /\ entries \subseteq Fds
  /\ queue \in [Fds -> Seq(Units)] /\ need_write \in [Fds -> BOOLEAN]
  /\ receiver \in [Fds -> {"none", "aligned", "torn"}]
  /\ reading \in Fds \cup {0} /\ exited \in BOOLEAN
  /\ said \in [Clients -> Nat] /\ log \in Seq(Units)
  /\ joined \in [Clients -> Nat] /\ heard \in [Clients -> Nat]

\* c is connected, and nobody had its fd before.
FirstOwner(c) ==
  /\ conn[c] = "up" /\ fdOf[c] # 0
  /\ \A d \in Clients \ {c} : fdOf[d] # fdOf[c]

\* The server ends only after some client has closed its connection: slow
\* clients and full buffers never end it.
ExitOnlyAfterALeave == exited => \E c \in Clients : conn[c] \in {"left", "gone"}

\* Every client gets the greeting and then the messages broadcast since it was
\* accepted, each once and all in one order, whoever is slow or leaves: what it
\* read, what the kernel holds and what waits in its queue make up that stream.
SameOrder ==
  \A c \in Clients : FirstOwner(c) =>
    LET stream == <<Welcome>> \o SubSeq(log, joined[c] + 1, Len(log))
    IN  net[c] \o queue[fdOf[c]] = SubSeq(stream, heard[c] + 1, Len(stream))

\* Every message of a connected client is broadcast once, in the order the
\* client said them, or still waits to be received.
NoneLost ==
  \A c \in Clients : FirstOwner(c) =>
    LET received == said[c] - Len(inbox[c])
        Places(n) == {i \in 1 .. Len(log) : log[i] = Said(c, n)}
    IN  /\ inbox[c] = [k \in 1 .. Len(inbox[c]) |-> Said(c, received + k)]
        /\ \A n \in 1 .. MaxTalk : n <= received <=> Places(n) # {}
        /\ \A n, m \in 1 .. MaxTalk : \A i \in Places(n), j \in Places(m) : i < j => n < m

\* What a client sends is received: an edge-triggered event is never used up
\* while data stays in the socket.
EverythingIsRead ==
  \A c \in Clients :
    (fdOf[c] # 0 /\ inbox[c] # <<>>) ~> (inbox[c] = <<>> \/ conn[c] = "gone" \/ exited)

\* What waits for a client that stays and reads is sent to it (p2/README:3).
\* The code does not keep this: the event that reports room to write is ignored.
EverythingIsSent ==
  \A c \in Clients :
    LET Waits == FirstOwner(c) /\ \E fd \in Fds : fdOf[c] = fd /\ queue[fd] # <<>>
    IN  Waits ~> (~Waits \/ exited)
=============================================================================
