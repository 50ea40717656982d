------------------------------ MODULE MCProxy ------------------------------
(***************************************************************************)
(* An instance of Proxy.  The bytes of client 0 do not fit the buffer, so  *)
(* it is used again, and are sent in parts; client 1 shows the successor   *)
(* that connects, fails and stops before or after it.                      *)
(***************************************************************************)
EXTENDS Proxy

Writes ==
  [c \in Numbers |-> [d \in Dirs |-> IF c > 0 THEN 0 ELSE IF d = "up" THEN 3 ELSE 2]]
=============================================================================
