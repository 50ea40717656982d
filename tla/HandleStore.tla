---------------------------- MODULE HandleStore ----------------------------
(***************************************************************************)
(* What an allocator with reallocation promises its client: every handle   *)
(* has an array of its own, and all arrays together fit in Capacity cells. *)
(***************************************************************************)
EXTENDS Integers, Sequences, FiniteSetsExt

CONSTANTS
  Capacity,   \* cells of all arrays together
  Handles,
  Null        \* what store says of a handle without an array

VARIABLES
  store,      \* the array of each handle, a sequence of cells
  result      \* how the last call ended

vars == <<store, result>>

Size(h) == IF store[h] = Null THEN 0 ELSE Len(store[h])

Used == MapThenSumSet(Size, Handles)

Init ==
  /\ store = [h \in Handles |-> Null]
  /\ result = "ok"

Others(h) == \A g \in Handles \ {h} : store'[g] = store[g]

\* The array of h gets a new length and keeps the cells it had before and has
\* still; the contents of new cells are arbitrary.
Resize(h) ==
  /\ result' = "ok"
  /\ Others(h)
  /\ store'[h] # Null
  /\ \A i \in 1 .. Size(h) : i <= Len(store'[h]) => store'[h][i] = store[h][i]
  /\ Used' <= Capacity

\* A call that is refused changes nothing.
Refuse ==
  /\ result' = "NoMemory"
  /\ UNCHANGED store

Release(h) ==
  IF store[h] = Null
  THEN /\ result' = "InvalidFree"
       /\ UNCHANGED store
  ELSE /\ store' = [store EXCEPT ![h] = Null]
       /\ result' = "ok"

\* The client writes into its own array.
Fill(h) ==
  /\ UNCHANGED result
  /\ Others(h)
  /\ store[h] # Null
  /\ store'[h] # Null
  /\ Len(store'[h]) = Size(h)

\* The arrays are moved in memory, or keep the size they have.
Nothing ==
  /\ result' = "ok"
  /\ UNCHANGED store

Next ==
  \/ Nothing \/ Refuse
  \/ \E h \in Handles : Release(h) \/ Fill(h) \/ Resize(h)

Spec == Init /\ [][Next]_vars
=============================================================================
