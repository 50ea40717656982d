------------------------------- MODULE Parser -------------------------------
(***************************************************************************)
(* The parser of the shell of p5 (parser.cpp, comand.cpp).                 *)
(*                                                                         *)
(* A line is a sequence of tokens: words, the symbols with a meaning, each *)
(* on its own ("||" is two tokens), and blanks.  Words next to each other  *)
(* have a blank between them that is not written; every other blank is a   *)
(* token, for "| |" is not "||", and a piece of blanks is not an empty one.*)
(***************************************************************************)
EXTENDS Integers, Sequences, SequencesExt

Symbols == {"|", "@", "$", "&", ";"}
Blank == " "

Delimeter(s) == [kind |-> "del", delim |-> s]

\* replace: every pair of the symbol becomes one, from left to right.
replace(s, symbol, by) ==
  FoldLeft(LAMBDA acc, t : IF t = symbol /\ acc # <<>> /\ Last(acc) = symbol
                           THEN Append(Front(acc), by) ELSE Append(acc, t),
           <<>>, s)

\* The first loop of add_comand: blanks end a part, and are none.
parts(piece) == FoldLeft(LAMBDA acc, t : IF t = Blank THEN acc ELSE Append(acc, t), <<>>, piece)

\* The second loop: a symbol of redirection takes the next part, whatever that is,
\* and the rest is the command with its parameters.
Comand(ps) ==
  FoldLeft(LAMBDA c, t :
             CASE c.wants = "<" -> [c EXCEPT !.infile = t, !.wants = ""]
               [] c.wants = ">" -> [c EXCEPT !.outfile = t, !.wants = ""]
               [] c.wants = "" /\ t \in {"<", ">"} -> [c EXCEPT !.wants = t]
               [] OTHER -> [c EXCEPT !.params = Append(@, t)],
           [kind |-> "cmd", params |-> <<>>, infile |-> "", outfile |-> "", wants |-> ""], ps)

\* Mutant of add_comand: the word after ">" stays a parameter.
add_comand_keeps_file(piece) ==
  [Comand(<<>>) EXCEPT !.params = SelectSeq(parts(piece), LAMBDA t : t \notin {"<", ">"})]

add_comand(piece) == Comand(parts(piece))

\* add_delim: @ and $ are || and && again.
add_delim(symbol) ==
  Delimeter(CASE symbol = "@" -> "||" [] symbol = "$" -> "&&" [] OTHER -> symbol)

\* The pieces between the symbols, with the symbols.  The piece after the last
\* symbol is left out if it is empty, but not if it is a blank.
Split(s) ==
  LET done == FoldLeft(LAMBDA acc, t :
                         IF t \in Symbols
                         THEN [cmds |-> acc.cmds \o <<add_comand(acc.piece), add_delim(t)>>, piece |-> <<>>]
                         ELSE [acc EXCEPT !.piece = Append(@, t)],
                       [cmds |-> <<>>, piece |-> <<>>], s)
  IN  IF done.piece = <<>> THEN done.cmds ELSE Append(done.cmds, add_comand(done.piece))

IsDelim(cmds, i, symbol) ==
  i \in DOMAIN cmds /\ cmds[i].kind = "del" /\ cmds[i].delim = symbol

\* Mutant of Redirected: only the writer is told of the pipe.
RedirectedOutput(cmds) ==
  [i \in DOMAIN cmds |-> IF IsDelim(cmds, i + 1, "|") THEN [cmds[i] EXCEPT !.outfile = "pipe"] ELSE cmds[i]]

\* The commands around a | write to a pipe and read from it, whatever files they
\* were given.
Redirected(cmds) ==
  LET out(c, i) == IF IsDelim(cmds, i + 1, "|") THEN [c EXCEPT !.outfile = "pipe"] ELSE c
      in(c, i)  == IF IsDelim(cmds, i - 1, "|") THEN [c EXCEPT !.infile = "pipe"] ELSE c
  IN  [i \in DOMAIN cmds |-> out(in(cmds[i], i), i)]

\* While the line is split, || and && are one token each; | | and & & stay two.
Joined(line) == replace(replace(line, "|", "@"), "&", "$")

\* parse: the entities and bkgr_mode.  Where the code reads past the end of a
\* vector it is not defined: a piece without a command (comand.cpp:11), a
\* redirection without a file, a | at the end.
parse(line) ==
  LET cmds == Split(Joined(line))
      bkgr == IsDelim(cmds, Len(cmds), "&")
  IN  [defined |-> /\ \A i \in DOMAIN cmds :
                        cmds[i].kind = "cmd" => cmds[i].params # <<>> /\ cmds[i].wants = ""
                   /\ ~IsDelim(cmds, Len(cmds), "|"),
       cmds |-> IF bkgr THEN Front(Redirected(cmds)) ELSE Redirected(cmds),
       bkgr_mode |-> bkgr]

\* Tokens that stand for an entity: the inverse of parse, for lines in which the
\* files come behind the parameters, input before output.
Written(e) ==
  IF e.kind = "del"
  THEN CASE e.delim = "||" -> <<"|", "|">> [] e.delim = "&&" -> <<"&", "&">> [] OTHER -> <<e.delim>>
  ELSE e.params \o (IF e.infile \in {"", "pipe"} THEN <<>> ELSE <<"<", e.infile>>)
                \o (IF e.outfile \in {"", "pipe"} THEN <<>> ELSE <<">", e.outfile>>)

Unparse(p) ==
  FlattenSeq([i \in DOMAIN p.cmds |-> Written(p.cmds[i])]) \o (IF p.bkgr_mode THEN <<"&">> ELSE <<>>)

Redirects(t) == t \in {"<", ">"}
IsFile(t) == t \notin Symbols \cup {"<", ">", "", "pipe"}

\* Each < and > has a file, behind which its command is over, but for a > behind
\* the file of <.
FilesInPlace(t) ==
  \A i \in DOMAIN t :
    Redirects(t[i]) =>
      /\ i + 1 \in DOMAIN t /\ IsFile(t[i + 1])
      /\ i + 2 \in DOMAIN t => t[i + 2] \in Symbols \/ (t[i] = "<" /\ t[i + 2] = ">")

\* No file is given to the side of a command that a pipe takes.
NoFileAtPipe(t) ==
  /\ \A i \in DOMAIN t : t[i] = ">" /\ i + 2 \in DOMAIN t => t[i + 2] # "|"
  /\ \A i, j \in DOMAIN t :
       i < j /\ t[i] = "|" /\ t[j] = "<" => \E k \in i + 1 .. j : t[k] \in Symbols

\* The lines that Unparse gives back, up to their blanks.
WellWritten(s) ==
  /\ \A i \in DOMAIN s : s[i] \notin {"@", "$"}
  /\ FilesInPlace(parts(Joined(s))) /\ NoFileAtPipe(parts(Joined(s)))

\* There is no symbol between the places i and j of s, nor at them.
Together(s, i, j) ==
  \A k \in DOMAIN s : (i <= k /\ k <= j) \/ (j <= k /\ k <= i) => s[k] \notin Symbols

\* Each blank of s is in a piece with something to run.
BlanksInCommands(s) ==
  \A i \in DOMAIN s : s[i] = Blank => \E j \in DOMAIN s : s[j] # Blank /\ Together(s, i, j)

\* Splitting the line, taking redirections out and putting || and && back loses and
\* adds nothing but blanks, and nothing is made of a piece of blanks.
Faithful(p, s) == Unparse(p) = parts(s) /\ BlanksInCommands(s)
=============================================================================
