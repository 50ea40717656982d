----------------------------- MODULE ChatClient -----------------------------
(***************************************************************************)
(* The chat client of p2 (client.cpp): one thread around select, between a *)
(* terminal and a server.  A word typed is one message and one unit, as in *)
(* ChatServer; the words are numbered in the order they are typed.         *)
(*                                                                         *)
(* The terminal gives one line to each read of standard input, and cin     *)
(* keeps the words of that line it was not asked for yet.  select looks at *)
(* the terminal, not at what cin keeps.                                    *)
(***************************************************************************)
EXTENDS Integers, Sequences, FiniteSets

CONSTANTS
  Limit,      \* messages the kernel buffers for the server
  LineSizes,  \* the words a line may have; 0 is an empty line
  MaxLines,   \* bound on the lines typed in a behaviour
  MaxReceive, \* bound on the messages of the server in a behaviour
  MaxEmpty    \* bound on the reads after the end of input

ASSUME ClientAssumption ==
  /\ Limit \in Nat \ {0} /\ LineSizes \subseteq Nat
  /\ MaxLines \in Nat /\ MaxReceive \in Nat /\ MaxEmpty \in Nat

VARIABLES
  \* the user
  tty,       \* lines typed that nobody has read, as sequences of words
  eof,       \* standard input has ended
  lines,     \* how many words each line had
  typed,     \* how many words were typed
  \* the server and the kernel
  peer,      \* "connecting", "up" or "closed"
  net,       \* what was sent to the server and not received
  got,       \* what the server has received
  inbound,   \* how many messages of the server wait to be received
  received,  \* how many the server has sent
  \* the client
  cin,       \* words cin has read from the terminal and not returned
  queue,     \* what waits in messageForSend
  needwrite,
  todo,      \* what select reported that is not handled yet
  empties,   \* messages made of the end of input
  exited

user   == <<tty, eof, lines, typed>>
server == <<peer, net, got, inbound, received>>
client == <<cin, queue, needwrite, todo, empties, exited>>
vars == <<user, server, client>>

Empty == 0    \* the message without bytes

Init ==
  /\ tty = <<>> /\ eof = FALSE /\ lines = <<>> /\ typed = 0
  /\ peer = "connecting" /\ net = <<>> /\ got = <<>> /\ inbound = 0 /\ received = 0
  /\ cin = <<>> /\ queue = <<>> /\ needwrite = FALSE /\ todo = {}
  /\ empties = 0 /\ exited = FALSE

----------------------------------------------------------------------------
(* The user, the server and the kernel *)

Type ==
  /\ ~eof /\ Len(lines) < MaxLines
  /\ \E n \in LineSizes :
       /\ tty' = Append(tty, [i \in 1 .. n |-> typed + i])
       /\ typed' = typed + n
       /\ lines' = Append(lines, n)
  /\ UNCHANGED <<eof, server, client>>

EndInput ==
  /\ ~eof /\ eof' = TRUE
  /\ UNCHANGED <<tty, lines, typed, server, client>>

\* The connection is made, or refused.
Answer ==
  /\ peer = "connecting"
  /\ peer' \in {"up", "closed"}
  /\ UNCHANGED <<user, net, got, inbound, received, client>>

ServerReceives ==
  /\ peer = "up" /\ net # <<>>
  /\ net' = Tail(net) /\ got' = Append(got, Head(net))
  /\ UNCHANGED <<user, peer, inbound, received, client>>

ServerSends ==
  /\ peer = "up" /\ received < MaxReceive
  /\ inbound' = inbound + 1 /\ received' = received + 1
  /\ UNCHANGED <<user, peer, net, got, client>>

ServerCloses ==
  /\ peer = "up" /\ peer' = "closed"
  /\ UNCHANGED <<user, net, got, inbound, received, client>>

----------------------------------------------------------------------------
(* The client *)

Exit == exited' = TRUE /\ UNCHANGED <<user, server, cin, queue, needwrite, todo, empties>>

\* Mutant of Reported: fdmax is socketFd, so that select sees standard input only.
ReportedBelowFdmax == IF tty # <<>> \/ eof THEN {"stdin"} ELSE {}

\* The descriptors that are ready.
Reported ==
  (IF tty # <<>> \/ eof THEN {"stdin"} ELSE {})
    \cup (IF peer = "closed" \/ inbound > 0 THEN {"read"} ELSE {})
    \cup (IF peer = "closed" \/ (peer = "up" /\ Len(net) < Limit) THEN {"write"} ELSE {})

\* start: select sleeps until it has something to report.  It is asked about
\* room to write only if needwrite is set.
Select ==
  /\ ~exited /\ todo = {}
  /\ todo' = Reported \ (IF needwrite THEN {} ELSE {"write"})
  /\ todo' # {}
  /\ UNCHANGED <<user, server, cin, queue, needwrite, empties, exited>>

\* Mutant of add_message: needwrite is left as it is.
add_message_only(word) ==
  /\ queue' = Append(queue, word)
  /\ UNCHANGED needwrite

add_message(word) ==
  /\ queue' = Append(queue, word)
  /\ needwrite' = TRUE

\* readFds, standard input: cin >> msg returns the next word, and reads another
\* line, or sleeps, when it has none.  After the end of input msg stays empty.
ReadWord ==
  /\ ~exited /\ "stdin" \in todo
  /\ \/ /\ cin # <<>>
        /\ cin' = Tail(cin) /\ add_message(Head(cin))
        /\ todo' = todo \ {"stdin"}
        /\ UNCHANGED <<tty, empties>>
     \/ /\ cin = <<>> /\ tty # <<>>
        /\ cin' = Head(tty) /\ tty' = Tail(tty)
        /\ UNCHANGED <<queue, needwrite, todo, empties>>
     \/ /\ cin = <<>> /\ tty = <<>> /\ eof /\ empties < MaxEmpty
        /\ add_message(Empty)
        /\ todo' = todo \ {"stdin"} /\ empties' = empties + 1
        /\ UNCHANGED <<tty, cin>>
  /\ UNCHANGED <<eof, lines, typed, server, exited>>

\* Mutant of readServer: recv's -1 is used as a number of bytes.
readServer_unchecked ==
  /\ ~exited /\ "stdin" \notin todo /\ "read" \in todo
  /\ \E n \in (1 .. inbound) \cup (IF peer = "closed" THEN {-1} ELSE {}) : inbound' = inbound - n
  /\ todo' = todo \ {"read"}
  /\ UNCHANGED <<user, peer, net, got, received, cin, queue, needwrite, empties, exited>>

\* readServer: some of what the server sent is received and printed.  The end
\* of the stream and an error end the client; a closed connection may show
\* either before its data are read.
readServer ==
  /\ ~exited /\ "stdin" \notin todo /\ "read" \in todo
  /\ \/ \E n \in 1 .. inbound :
          /\ inbound' = inbound - n
          /\ todo' = todo \ {"read"}
          /\ UNCHANGED <<user, peer, net, got, received, cin, queue, needwrite, empties, exited>>
     \/ peer = "closed" /\ Exit

\* Mutant of WouldBlock: any error of send ends the client.
WouldBlockExits ==
  /\ peer = "closed" \/ Len(net) = Limit
  /\ Exit

\* send fails with an errno that has a bit of EWOULDBLOCK: the socket is full,
\* or the server has closed it (ECONNRESET).
WouldBlock ==
  /\ peer = "closed" \/ Len(net) = Limit
  /\ needwrite' = TRUE /\ todo' = {}
  /\ UNCHANGED <<user, server, cin, queue, empties, exited>>

\* Mutant of Sent: the loop erases all it passed to send, not what send took.
SentAll ==
  /\ queue' = <<>>
  /\ \E n \in 1 .. Len(queue) :
       /\ peer = "up" => n <= Limit - Len(net)
       /\ net' = IF peer = "up" THEN net \o SubSeq(queue, 1, n) ELSE net
  /\ UNCHANGED <<user, peer, got, inbound, received, cin, needwrite, todo, empties, exited>>

\* Mutant of Sent: the loop ends after the first send and clears needwrite.
SentOnce ==
  /\ needwrite' = FALSE /\ todo' = {}
  /\ \E n \in 1 .. Len(queue) :
       /\ queue' = SubSeq(queue, n + 1, Len(queue))
       /\ peer = "up" => n <= Limit - Len(net)
       /\ net' = IF peer = "up" THEN net \o SubSeq(queue, 1, n) ELSE net
  /\ UNCHANGED <<user, peer, got, inbound, received, cin, empties, exited>>

\* The socket takes a part of the queue; on a closed one the bytes vanish.
Sent ==
  /\ \E n \in 1 .. Len(queue) :
       /\ queue' = SubSeq(queue, n + 1, Len(queue))
       /\ peer = "up" => n <= Limit - Len(net)
       /\ net' = IF peer = "up" THEN net \o SubSeq(queue, 1, n) ELSE net
  /\ UNCHANGED <<user, peer, got, inbound, received, cin, needwrite, todo, empties, exited>>

\* One turn of the loop of writeFds.
writeFds ==
  /\ ~exited /\ todo = {"write"}
  /\ \/ queue # <<>> /\ (Sent \/ WouldBlock)
     \/ queue # <<>> /\ peer = "closed" /\ Exit
     \/ /\ queue = <<>> /\ needwrite' = FALSE /\ todo' = {}
        /\ UNCHANGED <<user, server, cin, queue, empties, exited>>

Client == Select \/ ReadWord \/ readServer \/ writeFds

Next ==
  \/ Client
  \/ ~exited /\ (Type \/ EndInput \/ Answer \/ ServerReceives \/ ServerSends \/ ServerCloses)

Spec == Init /\ [][Next]_vars

\* The client runs whenever it has something to do, the server receives what
\* was sent to it, and TCP does not try to connect for ever.
FairSpec == Spec /\ WF_vars(Client) /\ WF_vars(ServerReceives) /\ WF_vars(Answer)

----------------------------------------------------------------------------
(* Properties *)

Flatten(ss) ==
  LET f[i \in 0 .. Len(ss)] == IF i = 0 THEN <<>> ELSE f[i - 1] \o ss[i] IN f[Len(ss)]

TypeOK ==
  /\ tty \in Seq(Seq(1 .. typed)) /\ eof \in BOOLEAN /\ lines \in Seq(LineSizes) /\ typed \in Nat
  /\ peer \in {"connecting", "up", "closed"}
  /\ net \in Seq(0 .. typed) /\ Len(net) <= Limit /\ got \in Seq(0 .. typed)
  /\ inbound \in 0 .. received /\ received \in Nat
  /\ cin \in Seq(1 .. typed) /\ queue \in Seq(0 .. typed)
  /\ needwrite \in BOOLEAN /\ todo \subseteq {"stdin", "read", "write"}
  /\ empties \in 0 .. MaxEmpty /\ exited \in BOOLEAN

\* The server gets the words that were typed, each once and in their order,
\* and behind them the empty messages of the end of input: what it has, what is
\* on the way and what waits in cin and in the terminal make up that stream.
InOrder ==
  peer # "closed" =>
    got \o net \o queue \o cin \o Flatten(tty)
      = IF empties = 0 THEN [i \in 1 .. typed |-> i]
        ELSE [i \in 1 .. typed + empties |-> IF i <= typed THEN i ELSE Empty]

\* The client ends only when the server has closed or refused the connection:
\* a full socket, an empty line or the end of input do not end it.
ExitOnlyIfClosed == exited => peer = "closed"

\* The client sleeps in cin: it waits for a line that has a word (or for the end
\* of MaxEmpty, where the model stops).
Asleep == "stdin" \in todo /\ cin = <<>> /\ tty = <<>> /\ (eof => empties = MaxEmpty)

\* At select needwrite says exactly whether something waits to be sent: if it
\* were cleared too early a message would stay, if too late select would spin.
NeedwriteIsRight == todo = {} => (needwrite <=> queue # <<>>)

\* Every line with a word makes a message that the server gets, even if cin
\* returns a word of an earlier line for it.  The words of a line after its
\* first may wait for the lines after it: select does not see them in cin.
EveryLineIsSent ==
  \A k \in 1 .. MaxLines :
    (Cardinality({i \in 1 .. Len(lines) : lines[i] > 0}) >= k)
      ~> (Len(got) >= k \/ peer = "closed" \/ []Asleep)

\* What the server sent is printed, however much there is to send, unless the
\* client sleeps in cin for ever.
EverythingIsShown == (inbound > 0) ~> (inbound = 0 \/ exited \/ []Asleep)
=============================================================================
