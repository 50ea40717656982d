----------------------------- MODULE Allocator -----------------------------
(***************************************************************************)
(* The defragmenting allocator of p1 (allocator.cpp, allocator.h): blocks  *)
(* live in one half of the memory, and defragmentation copies them to the  *)
(* front of the other half.                                                *)
(*                                                                         *)
(* A Pointer of the client is a member of Handles; a client neither copies *)
(* one nor uses it after free.  So a block in use belongs to one handle,   *)
(* and the block's owner stands for both MemoryBlock::free and the         *)
(* Pointer's ptr_block.                                                    *)
(***************************************************************************)
EXTENDS Integers, Sequences, FiniteSets

CONSTANTS
  Half,       \* size_memory_part: cells of one half
  Handles,    \* the client's Pointers
  NoOne       \* the owner of a free block

ASSUME AllocatorAssumption ==
  /\ Half \in Nat \ {0}
  /\ NoOne \notin Handles

VARIABLES
  heap,       \* [blocks: list_blocks, mem: the cells, ping_pong]
  size_free,  \* size_free_memory
  result      \* how the last call ended

vars == <<heap, size_free, result>>

Cells == 0 .. 2 * Half - 1

Block(ptr, size, owner) == [ptr |-> ptr, size |-> size, owner |-> owner]

\* What the client writes into cell i of its block.  A cell that is in no block
\* in use, or was not written since it came into one, is Junk: nobody may read
\* it, so what the program has left there does not matter.
Value(h, i) == <<h, i>>
Junk == <<NoOne, 0>>

free(b) == b.owner = NoOne

\* ptr_block # nullptr, and the place of that block in the list.
Live(blocks, h) == \E i \in 1 .. Len(blocks) : blocks[i].owner = h
Find(blocks, h) == CHOOSE i \in 1 .. Len(blocks) : blocks[i].owner = h

\* The blocks with the n from the i-th on replaced.
Splice(blocks, i, n, new) ==
  SubSeq(blocks, 1, i - 1) \o new \o SubSeq(blocks, i + n, Len(blocks))

\* The n cells from c on leave their block.
Discard(mem, c, n) == [d \in Cells |-> IF c <= d /\ d < c + n THEN Junk ELSE mem[d]]

Init ==
  /\ heap = [blocks |-> <<Block(0, Half, NoOne)>>,
             mem |-> [c \in Cells |-> Junk], ping_pong |-> FALSE]
  /\ size_free = Half
  /\ result = "ok"

----------------------------------------------------------------------------
(* The list of blocks *)

\* Mutant of findblock: the size of the block is not looked at.
findblock_any_size(blocks, N) ==
  LET fits == {i \in 1 .. Len(blocks) : free(blocks[i])}
  IN  IF fits = {} THEN 0 ELSE CHOOSE i \in fits : \A j \in fits : i <= j

\* The first free block of at least N cells, or 0: the end of the list.
findblock(blocks, N) ==
  LET fits == {i \in 1 .. Len(blocks) : free(blocks[i]) /\ blocks[i].size >= N}
  IN  IF fits = {} THEN 0 ELSE CHOOSE i \in fits : \A j \in fits : i <= j

\* Block i swallows the block that follows it.
appendfollow(blocks, i) ==
  Splice(blocks, i, 2,
         <<[blocks[i] EXCEPT !.size = @ + blocks[i + 1].size]>>)

\* Mutant of joinfree: the block in front is not looked at.
joinfree_next_only(blocks, i) ==
  IF i < Len(blocks) /\ free(blocks[i + 1]) THEN appendfollow(blocks, i) ELSE blocks

\* The free block i is merged with free neighbours.
joinfree(blocks, i) ==
  LET before == i > 1 /\ free(blocks[i - 1])
      j      == IF before THEN i - 1 ELSE i
      joined == IF before THEN appendfollow(blocks, j) ELSE blocks
  IN  IF j < Len(joined) /\ free(joined[j + 1]) THEN appendfollow(joined, j) ELSE joined

\* Mutant of shortSizeBlock: the pointer of the rest is not moved.
shortSizeBlock_keeps_ptr(blocks, i, N) ==
  Splice(blocks, i, 1, <<[blocks[i] EXCEPT !.size = N],
                         Block(blocks[i].ptr, blocks[i].size - N, NoOne)>>)

\* Block i is cut after N cells; the rest is free.
shortSizeBlock(blocks, i, N) ==
  Splice(blocks, i, 1, <<[blocks[i] EXCEPT !.size = N],
                         Block(blocks[i].ptr + N, blocks[i].size - N, NoOne)>>)

InUse(blocks) == {i \in 1 .. Len(blocks) : ~free(blocks[i])}

\* A defragmentation in progress: the new list, and where the next copy goes.
Behind(copy, b) ==
  [blocks |-> Append(copy.blocks, [b EXCEPT !.ptr = copy.at]), at |-> copy.at + b.size]

\* The loop of both defrags: the blocks at these places are copied to the start
\* of the other half, one after the other.
Copied(hp, places) ==
  LET copy[k \in 0 .. Len(hp.blocks)] ==
        IF k = 0 THEN [blocks |-> <<>>, at |-> IF hp.ping_pong THEN 0 ELSE Half]
        ELSE IF k \in places THEN Behind(copy[k - 1], hp.blocks[k]) ELSE copy[k - 1]
  IN  copy[Len(hp.blocks)]

\* The cells after a copy: what is in a copied block was in that block before.
CopiedMem(hp, blocks) ==
  LET In(c, i) == blocks[i].ptr <= c /\ c < blocks[i].ptr + blocks[i].size
  IN  [c \in Cells |->
         IF \E i \in 1 .. Len(blocks) : In(c, i)
         THEN LET b == blocks[CHOOSE i \in 1 .. Len(blocks) : In(c, i)]
              IN  hp.mem[hp.blocks[Find(hp.blocks, b.owner)].ptr + (c - b.ptr)]
         ELSE Junk]

\* Mutant of Compact: the halves do not change their roles.
CompactSameHalf(hp, copy, free_size) ==
  [blocks |-> Append(copy.blocks, Block(copy.at, free_size, NoOne)),
   mem |-> CopiedMem(hp, copy.blocks),
   ping_pong |-> hp.ping_pong]

\* The end of both defrags: a free block takes the rest of the half.
Compact(hp, copy, free_size) ==
  [blocks |-> Append(copy.blocks, Block(copy.at, free_size, NoOne)),
   mem |-> CopiedMem(hp, copy.blocks),
   ping_pong |-> ~hp.ping_pong]

defrag(hp) == Compact(hp, Copied(hp, InUse(hp.blocks)), size_free)

\* Mutant of defragWithLast: the block to grow stays where it was in the order.
defragInOrder(hp, h) == defrag(hp)

\* The block of h is copied last, so that the free block is behind it.
defragWithLast(hp, h) ==
  LET i == Find(hp.blocks, h)
  IN  Compact(hp, Behind(Copied(hp, InUse(hp.blocks) \ {i}), hp.blocks[i]), size_free)

----------------------------------------------------------------------------
(* The calls *)

\* A call that throws changes nothing.
Throw(error) ==
  /\ result' = error
  /\ UNCHANGED <<heap, size_free>>

\* alloc: h takes the first block that fits, or its front.
Alloc(h, N) ==
  LET hp == IF findblock(heap.blocks, N) = 0 THEN defrag(heap) ELSE heap
      i  == findblock(hp.blocks, N)
  IN  IF N > size_free THEN Throw("NoMemory")
      ELSE IF i = 0 THEN Throw("Undefined")
      ELSE /\ heap' = [hp EXCEPT !.blocks =
                IF @[i].size = N
                THEN [@ EXCEPT ![i].owner = h]
                ELSE Splice(@, i, 1, <<Block(@[i].ptr, N, h),
                                       Block(@[i].ptr + N, @[i].size - N, NoOne)>>)]
           /\ size_free' = size_free - N
           /\ result' = "ok"

Free(h) ==
  IF ~Live(heap.blocks, h) THEN Throw("InvalidFree")
  ELSE LET i == Find(heap.blocks, h)
           b == heap.blocks[i]
       IN  /\ heap' = [heap EXCEPT
                !.blocks = joinfree([@ EXCEPT ![i].owner = NoOne], i),
                !.mem = Discard(@, b.ptr, b.size)]
           /\ size_free' = size_free + b.size
           /\ result' = "ok"

\* The client calls defrag itself.
Defrag ==
  /\ heap' = defrag(heap)
  /\ result' = "ok"
  /\ UNCHANGED size_free

\* The client fills its block.
WriteTo(h) ==
  /\ Live(heap.blocks, h)
  /\ LET b == heap.blocks[Find(heap.blocks, h)]
     IN  heap' = [heap EXCEPT !.mem =
           [c \in Cells |-> IF b.ptr <= c /\ c < b.ptr + b.size
                            THEN Value(h, c - b.ptr) ELSE @[c]]]
  /\ UNCHANGED <<size_free, result>>

\* Mutant of Shrink: the cells that are given back are not counted.
ShrinkForgets(h, N) ==
  LET i    == Find(heap.blocks, h)
      b    == heap.blocks[i]
      rest == b.size - N
  IN  /\ rest > 0
      /\ heap' = [heap EXCEPT !.blocks = joinfree(shortSizeBlock(@, i, N), i + 1),
                              !.mem = Discard(@, b.ptr + N, rest)]
      /\ UNCHANGED size_free
      /\ result' = "ok"

\* realloc to fewer cells: the end of the block becomes a free block.
Shrink(h, N) ==
  LET i    == Find(heap.blocks, h)
      b    == heap.blocks[i]
      rest == b.size - N
  IN  /\ rest > 0
      /\ heap' = [heap EXCEPT !.blocks = joinfree(shortSizeBlock(@, i, N), i + 1),
                              !.mem = Discard(@, b.ptr + N, rest)]
      /\ size_free' = size_free + rest
      /\ result' = "ok"

\* The block behind i is free and has d cells to spare.
RoomBehind(blocks, i, d) ==
  i < Len(blocks) /\ free(blocks[i + 1]) /\ blocks[i + 1].size >= d

\* Block i grows by d cells of the free block behind it.
GrowInPlace(blocks, i, d) ==
  appendfollow(IF blocks[i + 1].size = d THEN blocks ELSE shortSizeBlock(blocks, i + 1, d), i)

\* The block of h moves into N cells of the free block f.
Move(hp, h, f, N) ==
  LET cut  == IF hp.blocks[f].size = N THEN hp.blocks ELSE shortSizeBlock(hp.blocks, f, N)
      i    == Find(cut, h)
      from == cut[i].ptr
      size == cut[i].size
      to   == cut[f].ptr
  IN  [hp EXCEPT
         !.blocks = joinfree([cut EXCEPT ![f].owner = h, ![i].owner = NoOne], i),
         !.mem = [c \in Cells |-> IF to <= c /\ c < to + size
                                  THEN @[from + (c - to)] ELSE Discard(@, from, size)[c]]]

\* realloc to more cells: behind the block if there is room, else elsewhere.
Grow(h, N) ==
  LET delta == N - heap.blocks[Find(heap.blocks, h)].size
      hp    == IF size_free < N THEN defragWithLast(heap, h) ELSE heap
      i     == Find(hp.blocks, h)
      moved == IF findblock(hp.blocks, N) = 0 THEN defrag(hp) ELSE hp
      f     == findblock(moved.blocks, N)
  IN  /\ delta > 0
      /\ IF delta > size_free THEN Throw("NoMemory")
         ELSE IF ~RoomBehind(hp.blocks, i, delta) /\ f = 0 THEN Throw("Undefined")
         ELSE /\ heap' = IF RoomBehind(hp.blocks, i, delta)
                         THEN [hp EXCEPT !.blocks = GrowInPlace(@, i, delta)]
                         ELSE Move(moved, h, f, N)
              /\ size_free' = size_free - delta
              /\ result' = "ok"

\* realloc on a null Pointer allocates; to the same size it does nothing.
Realloc(h, N) ==
  IF ~Live(heap.blocks, h) THEN Alloc(h, N)
  ELSE \/ Shrink(h, N)
       \/ Grow(h, N)
       \/ /\ heap.blocks[Find(heap.blocks, h)].size = N
          /\ result' = "ok"
          /\ UNCHANGED <<heap, size_free>>

Next ==
  \/ \E h \in Handles, N \in 0 .. Half + 1 :
       \/ ~Live(heap.blocks, h) /\ Alloc(h, N)
       \/ Realloc(h, N)
  \/ \E h \in Handles : Free(h) \/ WriteTo(h)
  \/ Defrag

Spec == Init /\ [][Next]_vars

----------------------------------------------------------------------------
(* Properties *)

Base == IF heap.ping_pong THEN Half ELSE 0

TypeOK ==
  /\ DOMAIN heap = {"blocks", "mem", "ping_pong"}
  /\ heap.blocks \in Seq([ptr : Cells \cup {2 * Half}, size : 0 .. Half,
                          owner : Handles \cup {NoOne}])
  /\ heap.mem \in [Cells -> {Junk} \cup {Value(h, i) : h \in Handles, i \in 0 .. Half}]
  /\ heap.ping_pong \in BOOLEAN
  /\ size_free \in 0 .. Half
  /\ result \in {"ok", "NoMemory", "InvalidFree", "Undefined"}

\* The blocks of the list lie one after the other from the start of the active
\* half to its end: no cell is lost and no cell is in two blocks, whatever
\* splits, joins and defragmentations came before.
Tiled ==
  LET bs == heap.blocks
  IN  /\ bs # <<>>
      /\ bs[1].ptr = Base
      /\ \A i \in 1 .. Len(bs) - 1 : bs[i + 1].ptr = bs[i].ptr + bs[i].size
      /\ bs[Len(bs)].ptr + bs[Len(bs)].size = Base + Half

\* Free neighbours are always joined, so the first block that fits is found
\* whenever one exists without a defragmentation.
Coalesced ==
  \A i \in 1 .. Len(heap.blocks) - 1 : ~(free(heap.blocks[i]) /\ free(heap.blocks[i + 1]))

\* The counter by which calls are refused is the memory that is free, so a
\* request is refused exactly when the blocks in use and the new one would
\* exceed a half, however the free cells are scattered.
FreeCount ==
  LET FreeCells(b) == IF free(b) THEN b.size ELSE 0
      sum[i \in 0 .. Len(heap.blocks)] ==
        IF i = 0 THEN 0 ELSE sum[i - 1] + FreeCells(heap.blocks[i])
  IN  size_free = sum[Len(heap.blocks)]

\* What a client sees of its block: the cells, in order.
Contents(h) ==
  IF ~Live(heap.blocks, h) THEN NoOne
  ELSE LET b == heap.blocks[Find(heap.blocks, h)]
       IN  [i \in 1 .. b.size |-> heap.mem[b.ptr + i - 1]]

\* There are finitely many handles, and a null pointer is not mistaken for the
\* contents of a block.
ASSUME StoreAssumption ==
  /\ IsFiniteSet(Handles)
  /\ \A n \in 0 .. Half :
       NoOne \notin [1 .. n -> {Junk} \cup {Value(h, i) : h \in Handles, i \in 0 .. Half}]

Store == INSTANCE HandleStore
  WITH Capacity <- Half, Null <- NoOne,
       store <- [h \in Handles |-> Contents(h)]

\* The client sees a store of independent resizable arrays: a call changes the
\* contents of no other handle and keeps the common prefix of its own, whether
\* the block stays, grows in place, moves or is defragmented; a call that throws
\* changes nothing; and alloc and realloc never go on with the end of the list.
ImplementsStore == Store!Spec

\* A block in use moves only when the memory is defragmented or the block itself
\* grows: a pointer the client got from get() stays good until then.
MovesOnlyIfAsked ==
  [][\A h \in Handles :
       (Live(heap.blocks, h) /\ Live(heap'.blocks, h)) =>
         LET old == heap.blocks[Find(heap.blocks, h)]
             new == heap'.blocks[Find(heap'.blocks, h)]
         IN  new.ptr # old.ptr => heap'.ping_pong # heap.ping_pong \/ new.size > old.size]_vars
=============================================================================
