---------------------------- MODULE MCAllocator ----------------------------
(***************************************************************************)
(* Instance of Allocator: three clients' pointers on halves of four        *)
(* cells.  Requests of 0 to Half + 1 cells cover the empty block, the full *)
(* half and the request that never fits; three pointers are the fewest     *)
(* that leave a hole between two blocks in use.                            *)
(***************************************************************************)
EXTENDS Allocator
=============================================================================
