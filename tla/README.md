# Verification of the multithread course programs

The repository holds six independent C++ programs. This directory keeps TLA+
models of them, the TLC instances that check the models, and TLAPS proofs. All
source paths below are relative to `src/`.

## 1. Inventory

| Component | State | Operations | Hard behaviour | What makes it correct |
|---|---|---|---|---|
| Allocator (`p1/allocator.*`) | list of blocks, two halves, `ping_pong`, `size_free_memory` | `alloc`, `realloc`, `free`, `defrag` | long sequences of splits, joins and moves; copies between the halves; blocks of size 0 | blocks tile the half, the counter is right, no client sees another's data or loses its own |
| Framing, receiving (`p2/message.*`, `messagereceiver.*`) | a `Message` per socket: length, partial body, bytes kept for later | `process`, `add_part_msg`, `get_message` | TCP cuts the stream anywhere | the messages sent are returned, in order, at once |
| Framing, sending (`p2/messageforsend.*`) | list of 1024-byte chunks, two offsets, a count | `add_message`, `getbitarray`, `erase` | partial sends, messages that straddle or exactly fill chunks | a byte queue that frees its memory |
| Chat server (`p2/server.*`, `messagesender.*`) | epoll set, a queue and a `Message` per descriptor | accept, read and broadcast, write, delete | clients that are slow, leave or arrive; edge-triggered events; descriptor reuse; partial writes | total-order broadcast, nothing lost, nobody's behaviour ends the server |
| Chat client (`p2/client.*`) | one `MessageForSend`, `needwrite`, the words `cin` keeps | select loop: read a word, read the server, write | `needwrite` against typing, `cin` against select, a full or reset socket | every line is sent, in order; what the server sends is shown |
| Proxy (`p3/proxy.*`) | a map of clients; two sockets, two buffers and their counters each | accept, connect, read, write, stop as callbacks | partial sends, errors while the other direction works, handlers that run after stop, the key of the map | bytes relayed in order, both sides end together, no relay depends on the map |
| Inverted index (`p4/main.cpp`) | the batch, its files, the merged file and its table | create batches, merge, write offsets, read the index | words in some of the files, table filled by position, word numbers at the limit, empty batches | the index, as its reader reads it, equals the relation read |
| Shell, commands (`p5/main.cpp`) | set of children, flag of SIGINT, pipe descriptors, last status | read a line, run, wait, SIGINT handler | signals at any point, children of earlier lines returned by `wait`, order in which a pipeline ends, lazy operators | what runs, and what it reads, is what the line says; the prompt comes back |
| Shell, parser (`p5/parser.*`, `comand.*`) | list of entities, background flag | parse, replace, add a command or an operator | two-character operators, redirections next to pipes, pieces of blanks | the entities are those of the line |
| Merge sort (`p8/merge_sort.cpp`) | one array | two parallel sections, merge | the sections run in parallel | a sorted permutation |

The programs share no code. Inside p2 the parts interact by calls: `Server`
owns a `MessageReceiver` (a map from descriptor to `Message`) and a
`MessageSender` (a map from descriptor to `MessageForSend`); the client owns one
of each object. Client and server interact by two byte streams. In p3 the
clients of a port share its map and call it back (`father.stop`); a client's two
relays share its sockets. In p5 `main` hands the parser's list to `run`, and both
share the set of children with the signal handler.

## 2. Modules

    ByteRuns ---- MessageFraming ---- MCMessageFraming
        |               \------------ FramingProofs
        |---- ByteFifo <= SendQueue -- MCSendQueue
        |                   \-------- FramingProofs
        |---- RelayPair <= Proxy ----- MCProxy
        |                   \-------- ProxyProofs
        \---- SequenceLemmas           (used by the ...Proofs)
    HandleStore <= Allocator --------- MCAllocator
                        \------------ AllocatorProofs
    ChatServer ----------------------- MCChatServer
          \-------------------------- ChatServerProofs
    ChatClient                         (MCChatClient.cfg)
          \-------------------------- ChatClientProofs
    InvertedIndex                      (MCInvertedIndex.cfg)
          \-------------------------- InvertedIndexProofs
    Parser ---- Shell ---------------- MCShell
                  \------------------ ShellProofs

(`A <= B`: B is shown to implement the abstract specification A.)

**MessageFraming** models `Message` and `MessageReceiver::process` for one
socket. A byte is its position in the stream, so that a buffer holds the right
bytes exactly when it is an interval. `Process(n)` is a `recv` of n bytes and the
call of `process` up to `get_message`; `GetMessage` is one turn of the loop of
`get_message`, `Return` its end. `m` has the fields of the class; `cur_part` is
kept only while it collects a header, which is all the code reads of it.
The 0-truncation of `cur_message += cur_part` is `CString`. The `cur_len > 4` of
the code is kept, with its consequence: an empty message waits for the byte
after it.

**SendQueue** models `MessageForSend` and the send loop. `bitlist` is the memory
of the chunks in one sequence. `Write(n)` is one turn of the loop of
`writeMessages` (or of the client's `writeFds`): `getbitarray(buf, 1024)`, a
send that takes n bytes, `erase(n)`. `add_message` may come between any two
turns, which covers every re-entry of the loop. `overrun` is a history variable:
a message was added while `end_offset` was stale. `Crash` is the dereference of
the end of the list which can follow an overrun.

**Allocator** models the whole class. The list is a sequence of records; the
owner of a block stands for its `free` flag and for the `Pointer` of the client.
`Compact` is the copy both defragmentations share, in the given order of blocks.
`WriteTo` is the client that fills its block. Cells that are in no block in use
are `Junk`, because no client may read them. `result` tells how the last call
ended; `"Undefined"` is the dereference of the end of the list that would follow
if no block were found after a defragmentation, and `ImplementsStore` shows it
never happens.

**ChatServer** models the event loop with its environment. The server's thread
is at `epoll_wait` (`reading = 0`) or in the loop of `readClient`; a step is one
accepted connection, one taken event, or one `recv` with the broadcast and the
`writeMessages` that follow it. A message is one unit here: bytes are the subject
of the two modules above, and a connection that ends in the middle of a message
leaves `Part`. The environment: clients connect, say, read and leave at any time
between the server's steps; the kernel buffers `Limit` messages for a client and
reports edge-triggered events. `processClientEvent` has the ignored branch of
EPOLLOUT, `deleteSockFd` the inverted condition because of which it erases
nothing, `NewFd` the reuse of descriptors. What `send`, `recv` and epoll show of
a connection whose client closed it depends on how far TCP's reset has come and
is a free choice (`Fate`, and the first disjuncts of `processClientEvent`).

Not in the model of the server: failures of system calls that depend on nothing
but the machine (`socket`, `bind`, `fcntl`, no descriptor left: there are as many
`Fds` as clients), and the bytes of the framing, so also the overrun of
SendQueue.

**ChatClient** models `client.cpp`. `Select` is one return of select; `todo` is
what it reported, handled in the order of the code: standard input, the server,
and room to write. The terminal gives one line to a read, and `cin` keeps the
words that `cin >> msg` did not return: select does not see them (`ReadWord`).
An empty line leaves the thread inside `cin`, between two reads of the terminal:
nothing else is enabled then. After the end of input select reports standard
input for ever, and every turn makes an empty message. `writeFds` is one turn of
its loop, so that the server may receive between two sends. `send` never returns
0 for a positive length, so lines 74-77 are not in the model; `errno & EWOULDBLOCK`
is true of a full socket and of ECONNRESET, and false of EPIPE (`WouldBlock`, and the
second disjunct of `writeFds`).

**Proxy** models one port (`ClientServer`) with its clients. A client is known by
the number the code gives it. An asynchronous operation is pending, then done or
failed, then its handler runs: `Received`, `Sent` and `Connected` complete it, the
handlers `connect`, `userRead`, `userWrite`, `serverRead` and `serverWrite` are
one step each, in any order, as `io_service::run` is called by one thread. The two
relays mirror each other, so `Read` and `Written` are written once for a
direction. `stop` closes both sockets, which makes what is pending fail; an
operation that is done keeps its outcome, and its handler then asks for one on a
closed socket, which fails. Both sockets are open or closed together wherever no
handler runs. asio reports the end of a stream as an error, so the branches for
size 0 (132-136, 170-174) are dead. `add_client` uses `ind_number`, which is
already the number of the next client, and `stop` the client's own: the model
keeps both. So the stop of client n erases entry n, which holds the client accepted
before it, or no client if that accept or this one failed; an erased client goes on
as long as a handler is under way (`KeptByHandlers`).

**InvertedIndex** models `createIndexsFiles` and `mergeIndex`, one document or one
merged word a step. A file is the sequence of its entries. The word numbers have
`Width` bits, so that `max_wordid` wraps as in the code; an input without words
makes it whatever is in memory, and a batch of empty documents a file without
entries, of which `FirstEntries` has what the variables held before. The order of
the words in a file is that of `std::set` (`Sorted`: the k-th is the one with k - 1
below it); the documents of a merged word are brought into order by `std::sort`
(`InOrder`: the k-th is the first number that is at least as great as k of them). `given` is
the history of what was read, against which the index is compared, read as the
repository's own `readIndex` does it: rows of the table up to the first with word
number 0, then the list at each offset.

**Parser** has the parser as operators on sequences of tokens. Words next to each
other have a blank between them that is not written; every other blank is a token, as
the code tells `| |` from `||`, and a piece of blanks from an empty one. `parse` says
where the code reads past the end of a vector (`defined`): a piece without a command
(`;`, `a ; ` with a blank behind the `;`, `a & ` likewise, `a | | b`, a line of
blanks), `<` without a file, `|` at the end. Only an empty piece behind the last
symbol is left out. A file called `pipe` is taken for a pipe by the code and is not
among the lines. `Unparse` is the inverse, which writes the files of a command behind
its parameters, input before output. `Faithful` compares it with the line up to
blanks, each of which must be in a piece with something to run. `WellWritten` says
which lines it gives back: those that write files that way and give none to a side of
a command that a pipe takes, whose files have names that mean nothing else, and in
which there is no `@` or `$`, which the parser takes for `||` and `&&`.

**Shell** models `main` and `run`, with the processes as records that remember
which command of which line they are, what they read from, and whether SIGINT
came before they were started. `Decide`, `Start` and `Started` split the body of the
loop at the places where SIGINT makes a difference: after the test of
`active_process`, and between fork and `pids.insert`. `Wait` is one call of
wait and returns any child. SIGINT is sent to the children in `pids` by the handler
and, from a terminal, to all of them by the kernel. A command execvp does not find
returns from `run` into `main` in the child: that is a second shell, which reads what is
left of the input and ends with 0. `cur_status` and `fdpipe` are not initialised: any
status, and a descriptor that is no pipe.

Not in the model of the shell: failing fork, pipe and open; programs that ignore
SIGINT; a last line without a newline; what happens inside a line in the
background (it is one process); a signal handler that walks `pids` while `insert`
or `erase` changes it, which is undefined (`p5/main.cpp:94`).

**ByteFifo**, **HandleStore** and **RelayPair** are the abstract specifications.
`SendQueue!ImplementsFifo` maps the waiting bytes in the chunks to the abstract
queue; the promise ends with the first overrun (`Spoil`).
`Allocator!ImplementsStore` maps every handle to the contents of its block:
a call changes no other handle's array, keeps the common prefix of its own, and
the arrays together never exceed a half. `Proxy!ImplementsRelay` maps each
direction of each client to a queue of the bytes written and not yet handed to the
other socket, whichever buffer they are in; a stop closes both queues.

## 3. Runs

| Run | Instance | Shows |
|---|---|---|
| `framing` | header 4, `recv` of up to 9 bytes, 21 messages of 0, 1, 4 and 11 bytes, in an order that makes every pair of lengths neighbours | `InOrder`, `Prompt`, and that no copy overruns its buffer (`TypeOK`), for every way to cut the stream |
| `sendqueue` | chunks of 5 bytes, frames of 2, 3, 5, 8 and 10 bytes, at most 32 bytes in all | `InOrderUntilOverrun`, `NoLeak`, `ImplementsFifo` |
| `sendqueue_order` | the same | `SentInOrder` is violated: the stale `end_offset` |
| `allocator` | halves of 4 cells, 3 handles, requests of 0 to 5 cells | `Tiled`, `Coalesced`, `FreeCount`, `ImplementsStore`, `MovesOnlyIfAsked` |
| `server` | 3 clients and descriptors, kernel buffer of 1 message, 2 messages said, 1 client leaves, clients symmetric | `ExitOnlyAfterALeave`, `SameOrder`, `NoneLost` |
| `server_reads` | 2 clients, both may leave, 2 messages, with fairness | `EverythingIsRead` |
| `server_sends` | the same | `EverythingIsSent` is violated: the ignored EPOLLOUT |
| `client` | up to 3 lines of 0, 1 or 2 words, 2 messages of the server, kernel buffer of 1 message, 2 reads after the end of input, with fairness | `InOrder`, `ExitOnlyIfClosed`, `NeedwriteIsRight`, `EveryLineIsSent`, `EverythingIsShown` |
| `proxy` | buffer of 2 bytes, 2 accepted clients and the one prepared next, 3 bytes up and 2 down for the first, with fairness | `KeptByHandlers`, `ImplementsRelay`, `BothEnd`, `HeardToTheEnd` |
| `index` | words of 3 bits, batches of 2 documents, up to 5 documents with 2 numbers and 6 sets of words | `NothingLost`, `IndexIsRight`: for inputs without an empty batch, the largest number and (`IndexIsRight`) word 0 |
| `shell` | 2 lines out of 15, 1 SIGINT, with fairness; all lines of up to 6 tokens without files, blanks among them, for the parser alone | `ParsedRight`, `PipelineIsOver`, `PipesConnect`, `StopsAfterInterrupt`, `LazyUnlessPiped`, `LineFinishes` |
| `shell_lazy` | the same | `LazyEvaluation` is violated: the rest of a skipped pipeline runs |

Why the bounds are enough. *framing*: a buffer longer than two headers and shorter
than a long message gives parts with no, one and several message ends, and parts that
end inside a header; three long messages in a row would add nothing, because the
object forgets a message when it returns it. *sendqueue*: the frames are shorter than,
equal to, longer than, and twice the chunk; their sums end at every place in a chunk,
and 32 bytes fill six chunks. *allocator*: three handles are the fewest that leave a
hole between two blocks in use, and blocks of size 0 separate holes as well. *server*:
three clients are the fewest for one that stays while another leaves and a third gets
its descriptor, and a buffer of one message makes every client that does not read at
once a slow one. *client*: a line of two words and two lines after it are the fewest
with which `cin` lags behind by a word and an empty line comes after it. *proxy*:
three bytes do not fit the buffer, so it is used twice and sent in parts; clients
share only the map, on which no handler depends, so two are enough, and the second
needs no bytes. *index*: five documents fill two batches and start a third; the sets
of words make files with one, several and no words, words in one and in several files,
of which two overlap in any one word, word 0, and the largest number. *shell*: the 15
lines have each operator between commands, pipelines of two and three, one with files
on its outer ends, an unknown command, one in the background, an empty line, blanks,
and lines the parser does not define, some for a blank only; the second line shows
what the first leaves behind.

CHECK_DEADLOCK is FALSE where the system rests: the stream is at its end, the
bytes of `MaxBytes` are used up, nobody has anything more to say, or the program has
ended. The allocator never rests.

Bounds that are not in the code: `MaxBytes` (SendQueue), `MaxTalk`, `MaxLeaves`
and `Limit` (ChatServer, ChatClient; the kernel's buffer has a limit, of another size),
`MaxLines`, `MaxReceive` and `MaxEmpty` (ChatClient), `MaxNumber` and `MaxWrites`
(Proxy), `MaxDocs` (InvertedIndex), `MaxLines` and `MaxInterrupts` (Shell). Requests to
the allocator end at `Half + 1`, which is refused like everything above it.

Fairness (`ChatServer!FairSpec`): weak fairness of the server as a whole, which
is one thread in an endless loop that sleeps only when epoll has nothing to
report; and of a staying client's `Read`, the client of `p2/client.cpp` reads
whenever its socket is readable. Nothing is assumed of clients that connect,
talk or leave. All behaviours of the bounded instance are finite, so no event
can be passed over for ever; no fairness between events is needed.

`ChatClient!FairSpec`: the client's thread runs; the server receives what was sent
to it; TCP gives up a connect at some time. The user and the server need not do
anything. `Proxy!FairSpec`: handlers and operations that can complete go on, all
of them together, as all behaviours are finite; nobody has to write or leave.
`Shell!FairSpec`: the shell runs, and some running process ends, except one that
became a shell and waits for the end of input, which need not come.

Each property has a mutant beside the definition it changes: that definition as a
plausible mistake would have it, with which TLC finds the property violated.

## 4. Findings

1. `p2/messageforsend.cpp:34`: when the while loop fills the last chunk exactly,
   `end_offset` keeps its older value; the next message then overwrites bytes that
   wait (`sendqueue_order`), and `getbitarray` may run past the list.
2. `p2/server.cpp:175`: EPOLLOUT is registered when a socket is full, but an event
   that carries it alone does nothing; the queue is not sent on until some other
   client's message or a new connection calls `writeMessages` (`server_sends`).
3. `p5/main.cpp:168`: a skipped command takes the operator behind it along even if
   that is `|`; the rest of the skipped pipeline is then run, against the comment
   of line 163: in `a && b | c`, c runs although a failed, and reads from a
   descriptor that is no pipe (`shell_lazy`). `LazyUnlessPiped` shows that without
   pipelines the evaluation is lazy in every mixture of `||`, `&&` and `;`,
   unless `wait` returned a child of an earlier line.

The model shows further behaviour that no document of the repository speaks about, so
that there is nothing it contradicts: after a client has left, a broadcast ends the
server, unless a new connection took the descriptor first (`deleteSockFd` never
erases); such a connection inherits the queue and the partial message of the old one;
and of two connections that arrive between two `epoll_wait`, the second is accepted
only when a third arrives. The chat client sends the second word of a line only with
the next line, stops reading the server while an empty line keeps it in `cin`, and
floods the server when its input ends. The proxy erases an entry of its map when the
client of the next number stops. The entry stays for good of the client accepted last,
of one after which an accept failed (the next client then has the number after the
next, and its stop erases no entry), and of one whose successor never connected to its
server. The index is not right for three inputs: with a word of the largest number,
`max_wordid` wraps to 0 and nothing is merged; for a batch of empty documents, the
first entry of its file is what was in memory before; and the row of word 0 ends the
table for `readIndex`, which then finds no word. It lists a document twice that is in
two batches. The parser runs into an empty vector at a piece of blanks (`a ; ` and
`a & ` with a blank at the end, a line of blanks, `a | | b`). In the shell, `wait` may
return a child of an earlier line, so that a line goes on before its own processes are
over, with the status of another (the comment of `p5/main.cpp:202` says that the
status of the expression is kept, but does not speak of other lines); a SIGINT at the
prompt drops the line typed next; an unknown command leaves a second shell on the same
input, which ends with 0.

## 5. Proofs

Proved by TLAPS for every value of the constants that satisfies the assumptions
named in the modules. Each ...Proofs module has an inductive invariant, one lemma
per action that the action keeps it, and the theorems at its end. A lemma named
`...Is` says what an operation of the model computes, so that the rest of the
proof need not look into it.

| Module | Theorems | About |
|---|---|---|
| FramingProofs | `TypeCorrect`, `Framing`, `Promptness` | `TypeOK`, `InOrder`, `Prompt` of MessageFraming |
| FramingProofs | `SendTypeCorrect`, `Ordering`, `Memory`, `Refinement` | `SendTypeOK`, `InOrderUntilOverrun`, `NoLeak`, `ImplementsFifo` of SendQueue |
| ChatClientProofs | `TypeCorrect`, `Order`, `Ending`, `Needwrite` | `TypeOK`, `InOrder`, `ExitOnlyIfClosed`, `NeedwriteIsRight` |
| ChatServerProofs | `TypeCorrect`, `Ending`, `Order`, `Lossless` | `TypeOK`, `ExitOnlyAfterALeave`, `SameOrder`, `NoneLost` |
| ProxyProofs | `TypeCorrect`, `Kept`, `Refinement` | `TypeOK`, `KeptByHandlers`, `ImplementsRelay` |
| AllocatorProofs | `TypeCorrect`, `Tiling`, `Joining`, `Counting`, `NeverUndefined`, `Moving`, `Refinement` | `TypeOK`, `Tiled`, `Coalesced`, `FreeCount`, no call goes on with the end of the list, `MovesOnlyIfAsked`, `ImplementsStore` |
| ShellProofs | `TypeCorrect`, `Over`, `Connected`, `Stops`, `LazyEnough`, `UnparseParse`, `Reconstructed` | `TypeOK`, `PipelineIsOver`, `PipesConnect`, `StopsAfterInterrupt`, `LazyUnlessPiped`, the inverse of the parser, `ParsedRight` |
| InvertedIndexProofs | `InOrderSorts`, `TypeCorrect`, `Lossless`, `Correct` | the sort keeps how often a number occurs, `TypeOK`, `NothingLost`, `IndexIsRight` |

**FramingProofs**, receiving (`SizesAssumption`, `StartAssumption`: lengths are
naturals, frames lie one after the other). The invariant `Synced`: the object
stands in the frame after the last one delivered, at the last byte received,
either collecting its header or in its body, perhaps with later bytes set aside
(`Aligned`). `InOrder` alone is not inductive: it says nothing of a message
under way. The lemmas `HeaderPartAligned`, `BodyPartAligned`, `AddPartAligned`
and `NextMessageAligned` say that each method moves an aligned object to the
byte it was given; `StepSynced` has one step per action.

**FramingProofs**, sending (`ChunkAssumption`: the chunk is not empty, nor is a frame).
The invariant `Layout`: until an overrun the waiting bytes lie one after the other
behind `beg_offset`, and `end_offset` is never too far back. `Refinement` uses
`Layout` to map each `add_message` to `Put`, each `Write` to `Take`, and the step
that overruns to `Spoil`.

**ChatClientProofs**. `InOrder` is inductive only with the whole way of a word:
until the connection is closed, what the server has got, what is in the socket, in
the queue, in the buffer of `cin` and in the terminal are together the words typed,
in order, and then the empty messages of the end of input (`Stream = Given`).
`Coupled` relates `needwrite` to the queue: words wait only while it is set, and it
outlives them only until `writeFds` returns. The words in the terminal are joined by
`Flatten`, a recursive function, of which `FlattenJoins` and its corollaries prove
what one more line, or one less, changes.

**ChatServerProofs**. The conjuncts of the invariant: the descriptors of connected
clients are distinct and in the epoll set (`Descriptors`; `NewFdIs` shows by the
pigeonhole principle that a descriptor is free when a client connects), a torn
message is the last one of its connection (`Torn`), what a client has been sent and
what waits for it is a piece of the broadcasts without a gap (`Streams`), and each
message said was broadcast once or is still in its socket (`Inboxes`, `Logged`).
`SameOrder` and `NoneLost` say less: neither speaks of what waits in a queue.

**ProxyProofs**. `Book` ties the map to the numbers of the clients, `Sockets` says
that both sockets of a client are open or closed together, and `Relays` that the
buffer of a direction holds the last bytes taken, of which those behind the place of
the send are not sent yet. `Served` says that a client with open sockets has its
connect to come or an operation in each direction: no handler ends one of them without
asking for the next or closing the sockets, and `erase` touches neither; with
`Sockets`, which says that nothing is pending on a closed socket, it is
`KeptByHandlers`. From `Relays` each step of the proxy is one of the abstract relay or
changes nothing there.

**AllocatorProofs** (`AllocatorAssumption`: a half is not empty; only `Refinement` needs
`StoreAssumption` too). `Sound(heap, n)`
is the invariant: the blocks are a `Run` from the start of the active half to its
end with n free cells among them, no two neighbours are free, and a handle owns at
most one block. A run is stated with marks: a function that gives the end of each
block and the number of free cells up to it, since a sum over the list cannot be
proved about directly. Lemmas say what cutting a block, appending one, changing
an owner and joining a list do to a run; `JoinedBut` describes the list between two
steps of the loop of `joinfree`. `Copied`, the loop of the copy, is followed from
block to block (`UpTo`), with what is behind it copied and what is before it not.
`NeverUndefined`: when `size_free_memory` admits a request, a free block for it is
found, at the latest after the defragmentation.

`Refinement` needs no stronger invariant: what each call returns, moves and
discards follows from `Sound`. `See(hp, h)` is what a handle sees of a heap.
`CopiesSeen`: a defragmentation changes what no handle sees, because the copies lie
apart (`RunApart`) and so each cell comes from one block. `Resized`: a call on h
leaves what the others see and the common prefix of what h sees, whether h gets its
block (`ResizedInPlace`), loses its end (`ResizedShort`) or moves (`ResizedMoved`);
`ResizedAfter` puts this behind a defragmentation of the same call. `Serves` is the
list of what a step may do to what is seen, one disjunct per action of HandleStore.
That the arrays fit (`StoreFits`) is a sum over the handles: it is the number of the
cells of disjoint parts of a half (`SumOfParts`, by induction on the number of
handles). `StoreAssumption` says that the handles are finitely many, so that there is
such a sum, and that the value for a null pointer is not taken for an array.

**ShellProofs**. The invariant `Inv`: the processes of the line are one for each
command started, in order, the last of which is `cur_pid` (`Place`); run has counted
those it has not waited for, unless a wait returned a child of another line
(`Counted`); at most one is started after SIGINT, and then run does not go on
(`Interrupted`); `fdpipe` is the pipe of the command before a `|`, and nothing
otherwise (`Piping`); what was started behind `||` or `&&` was started because of the
status of the one before (`Lazily`). `Connected` has a hypothesis, that no word of a
line is `pipe` (`NoPipeWord`): the code takes such a file for a pipe.

About the parser it is proved, for lines of any length, that commands and operators
alternate and which files they get (`ParseIs`), and that `Unparse` gives a well
written line back, if the parser defines it, up to blanks that are in no piece of
blanks (`UnparseParse`; `Reconstructed` carries it to what `run` executes, by the
invariant `LineRead`). Each fold of the parser is unfolded into the sequence of what
it has made of the first k tokens (`ReplaceSteps`, `ComandSteps`, `SplitSteps`), and
what was read is then compared with what was made, token by token: what a line stands
for (`Joins` with `BackOf`, which writes `@` and `$` as `||` and `&&`) is not changed
by `replace` (`ReplaceKeeps`), is what `add_comand` has written of a piece
(`ComandUndone`) and what `Split` has made of all pieces (`SplitUndone`), and
`Redirected` changes only what is not written (`RedirectedUndone`). Blanks are dealt
with before that: a line whose pieces all have something to run is split as the line
without its blanks (`HalfOfParts`, `SplitOfParts`), every other is not defined
(`BlankPiece`, `SplitRuns`); and what it stands for is the same with and without them
(`BackParts`). `Reconstructed` has the hypothesis that the lines typed are well
written, because `ParsedRight` is false of others: two input files become one, and a
file at a pipe is lost. The lines of the run satisfy it (`TypedAssumption`, which TLC
evaluates).

**InvertedIndexProofs** (`IndexAssumption`; it says that 2^Width is positive, as the
prover knows nothing of powers). Neither `NothingLost` nor `IndexIsRight` is
inductive: `NothingLost` compares a list with files that it says nothing about, and
`IndexIsRight` begins at the end. `IndexInv` says how the whole state comes from the
input: file b has the words of batch b in order, each with its documents (`FilesInv`),
`dict_wordid` has the batch being read (`BatchInv`), the merged lists do not overlap,
so that an offset finds one list (`MergeTypes`), and of each file the words before its
cursor are merged, every merged word is below its current one, and the list of a
merged word is `DocumentsOf` it (`MergeInv`); so the smallest current word is one that
no file has before its cursor, and the turn that takes it takes all its documents.
`MergeInv` is about `Regular` inputs only, as are the properties: the other inputs
lose words (section 4), and only types hold of them. `readIndex` takes the rows up
to the first with word 0: if 0 is not a word of the input, these are the rows of
`set_wordid`, each with the offset of the list of its word; if it is, none (see
Findings). About the operators it is proved that `Sorted` of a finite set exists,
increases and has its members (`SortedIs`), that `InOrder` has a k-th number for every
k (`KthExists`), never decreases and has each number as often as before
(`InOrderSorts`), that sorting twice changes nothing more (`InOrderTwice`), and what
`FlattenSeq` makes of a sequence of which one member changes (`FlattenOne`).

**SequenceLemmas**: induction up to a bound (`UpTo`), equality of sequences,
sequences cut, joined and extended, functions given by recursion (`RecursionExists`)
and what `FlattenSeq` joins (`FlattenIs`), runs of consecutive bytes.

Only model-checked: the liveness properties (`EverythingIsRead`, `EveryLineIsSent`,
`EverythingIsShown`, `BothEnd`, `HeardToTheEnd`, `LineFinishes`), as liveness under
fairness is out of the prover's reach.

## 6. Plan

All programs but the merge sort are modelled; of each model the type invariant, the
safety properties and the refinements are proved. What is left: the liveness
properties and the findings are only model-checked, and the two sides of the chat are
not composed.

## 7. Not modelled

- Merge sort (`p8`): its Makefile builds without `-fopenmp`, so the pragmas of the
  two parallel sections are ignored. What is left is a sequential recursion from
  an array to a sorted one, without state between calls.
- The constructor of `Proxy` (parsing of the configuration, read once), the random
  choice of a server, names of files, `main` functions that only check arguments,
  printing and logs.
- What `readIndex` of p4 prints, and that it stops after ten words. Its call in `main`
  is commented out; the model has it as an operator, the reader of `IndexIsRight`.
- The unit tests of the allocator are read as statements of intent.
- ChatClient and ChatServer are not composed: each has the other as its
  environment, with more behaviours than the other part shows.
