---------------------------- MODULE MCChatServer ----------------------------
(***************************************************************************)
(* Instances of ChatServer.  Three clients are the fewest for a client     *)
(* that stays while a second leaves and a third gets the second's fd.  A   *)
(* kernel buffer of one message makes every client that does not read at   *)
(* once a slow one.                                                        *)
(***************************************************************************)
EXTENDS ChatServer, TLC

Anyone == Permutations(Clients)
=============================================================================
