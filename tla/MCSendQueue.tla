---------------------------- MODULE MCSendQueue ----------------------------
(***************************************************************************)
(* SendQueue with chunks of five bytes and frames that are shorter than a  *)
(* chunk, as long as one, longer than one and as long as two.              *)
(***************************************************************************)
EXTENDS SendQueue
=============================================================================
