------------------------------ MODULE MCShell ------------------------------
(***************************************************************************)
(* Instances of Shell.  The lines have each operator, pipelines of two and *)
(* three commands, one in the background, redirections, an unknown         *)
(* command, blanks, and lines the parser does not define, some for a blank *)
(* only.  Two lines are enough for a child of the first to be waited for   *)
(* by the second.                                                          *)
(***************************************************************************)
EXTENDS Shell, TLC

Typed ==
  { <<>>, <<"a", ";">>, <<"a", "&">>, <<"x", "|", "|", "a">>,
    <<"a", "<", "f", "|", "b", ">", "g">>,
    <<"a", "|", "|", "b", "&", "&", "c", ";", "d">>,
    <<"a", "&", "&", "b", "|", "c">>,
    <<"a", "|", "b", "|", "|", "c">>,
    <<"a", "&", "b", ";", "c">>,
    <<" ", "a", " ", "&", "&", " ", "b", " ", "&", " ", "c", " ">>,
    <<"a", "|">>, <<";">>, <<" ">>, <<"a", "&", " ">>, <<"a", "|", " ", "|", "b">> }

\* Parsing loses nothing but blanks: every line of up to six tokens whose parse is
\* defined is given back by its entities, and none of its pieces is blank.
ASSUME ParserAssumption ==
  \A s \in BoundedSeq({"a", "|", "&", ";", " "}, 6) : LET p == parse(s) IN p.defined => Faithful(p, s)

\* The lines typed meet the hypothesis of Reconstructed (ShellProofs).
ASSUME TypedAssumption == \A s \in Typed : WellWritten(s)
=============================================================================
