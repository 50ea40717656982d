--------------------------- MODULE InvertedIndex ---------------------------
(***************************************************************************)
(* The inverted index of p4 (main.cpp): documents are read in batches, the *)
(* words of each batch are written to a file of its own, and the files are *)
(* merged into one with a table of offsets.                                *)
(*                                                                         *)
(* A file is the sequence of its entries; its bytes count only where the   *)
(* code uses them, in the offsets.  Numbers of words have Width bits.      *)
(***************************************************************************)
EXTENDS Integers, FiniteSets, Sequences, SequencesExt, FiniteSetsExt

CONSTANTS
  Width,        \* bits of a number of a word
  COUNT_DOCID,  \* documents in a batch
  Docs,         \* numbers of documents
  WordSets,     \* the words a document may have
  MaxDocs       \* bound on the documents in the input

Words == 0 .. 2 ^ Width - 1

ASSUME IndexAssumption ==
  /\ Width \in Nat /\ COUNT_DOCID \in Nat \ {0} /\ MaxDocs \in Nat
  /\ 2 ^ Width \in Nat \ {0}
  /\ Docs \subseteq Nat /\ WordSets \subseteq SUBSET Words

VARIABLES
  phase,        \* "reading", "read", "merging", "done"
  \* createIndexsFiles
  dict_wordid,  \* the documents of each word in this batch
  cur_count,    \* documents in this batch
  set_wordid,   \* words in the files
  files,        \* the batches' files
  \* mergeIndex
  max_wordid,
  cur,          \* cur[i]: the entry read from file i, and which is next
  lists,        \* the merged lists, with the offset each is at
  offsets,      \* the offset of each merged word
  table,        \* the table at the start of the merged file
  \* history
  given         \* <<b, w, d>>: document d of batch b has word w

reading == <<dict_wordid, cur_count, set_wordid, files, given>>
merging == <<max_wordid, cur, lists, offsets, table>>
vars == <<phase, reading, merging>>

\* A std::set of numbers, from begin to end.
Sorted(S) ==
  CHOOSE s \in [1 .. Cardinality(S) -> S] : \A i, j \in DOMAIN s : i < j => s[i] < s[j]

\* std::sort: the k-th number has fewer than k below it and k or more up to it.
InOrder(s) ==
  [k \in DOMAIN s |->
     CHOOSE d \in ToSet(s) : /\ Cardinality({i \in DOMAIN s : s[i] < d}) < k
                            /\ k <= Cardinality({i \in DOMAIN s : s[i] <= d})]

NoWords == [w \in Words |-> {}]

Init ==
  /\ phase = "reading"
  /\ dict_wordid = NoWords /\ cur_count = 0 /\ set_wordid = {} /\ files = <<>>
  /\ max_wordid = 0 /\ cur = <<>> /\ lists = <<>> /\ offsets = <<>> /\ table = <<>>
  /\ given = {}

----------------------------------------------------------------------------
(* createIndexsFiles *)

WordsOf(dict) == {w \in Words : dict[w] # {}}

\* saveIndexFile: the words in order, each with its documents in order.
saveIndexFile(dict) ==
  LET words == Sorted(WordsOf(dict))
  IN  /\ files' = Append(files, [i \in 1 .. Len(words) |->
                                   [word |-> words[i], docids |-> Sorted(dict[words[i]])]])
      /\ set_wordid' = set_wordid \cup WordsOf(dict)

\* Mutant of BatchIsFull: the file is written one document late.
BatchIsFullLate == cur_count = COUNT_DOCID

\* The document being read fills the batch.
BatchIsFull == cur_count + 1 = COUNT_DOCID

ReadDoc ==
  /\ phase = "reading" /\ Len(files) * COUNT_DOCID + cur_count < MaxDocs
  /\ \E d \in Docs, words \in WordSets :
       LET dict == [w \in Words |-> dict_wordid[w] \cup IF w \in words THEN {d} ELSE {}]
       IN  /\ given' = given \cup {<<Len(files) + 1, w, d>> : w \in words}
           /\ IF BatchIsFull
              THEN saveIndexFile(dict) /\ dict_wordid' = NoWords /\ cur_count' = 0
              ELSE dict_wordid' = dict /\ cur_count' = cur_count + 1 /\ UNCHANGED <<files, set_wordid>>
  /\ UNCHANGED <<phase, merging>>

\* A batch that is not full is written if it has a word.
EndOfInput ==
  /\ phase = "reading" /\ phase' = "read"
  /\ IF dict_wordid # NoWords
     THEN saveIndexFile(dict_wordid) /\ cur_count' = 0
     ELSE UNCHANGED <<files, set_wordid, cur_count>>
  /\ UNCHANGED <<dict_wordid, given, merging>>

----------------------------------------------------------------------------
(* mergeIndex *)

Junk == 0    \* memory that was not written

\* What is read of file i when its k-th entry is next.
Entry(i, k) == [word |-> files[i][k].word, docids |-> files[i][k].docids, next |-> k + 1]

\* The first entry of each file.  From a file without words nothing is read:
\* the variables keep what the file before left in them, and stray before the
\* first, and the memory for the documents is not written.
FirstEntries(stray) ==
  LET read[i \in 0 .. Len(files)] ==
        IF i = 0 THEN stray
        ELSE IF files[i] # <<>> THEN Entry(i, 1)
        ELSE [read[i - 1] EXCEPT !.docids = [j \in DOMAIN @ |-> Junk], !.next = 1]
  IN  [i \in 1 .. Len(files) |-> read[i]]

\* *rbegin of an empty set is whatever is in memory.
OpenFiles ==
  /\ phase = "read" /\ phase' = "merging"
  /\ max_wordid' \in IF set_wordid = {} THEN Words
                     ELSE {(Max(set_wordid) + 1) % 2 ^ Width}
  /\ IF files # <<>> /\ files[1] = <<>>
     THEN \E w \in Words, n \in 0 .. 1 :
            cur' = FirstEntries([word |-> w, docids |-> [j \in 1 .. n |-> Junk], next |-> 1])
     ELSE cur' = FirstEntries([word |-> 0, docids |-> <<>>, next |-> 1])
  /\ UNCHANGED <<reading, lists, offsets, table>>

\* Bytes of the table, with the two zeros at its end, and of a list.
TableSize == 16 * (Cardinality(set_wordid) + 1)
ListSize(list) == 4 + 8 * Len(list)

\* ftell.
Position ==
  IF lists = <<>> THEN TableSize ELSE Last(lists).offset + ListSize(Last(lists).docids)

\* Mutant of NextEntry: a file at its end keeps its last entry.
NextEntryStays(i) ==
  IF cur[i].next <= Len(files[i]) THEN Entry(i, cur[i].next) ELSE cur[i]

\* The next entry of file i, or none: max_wordid.
NextEntry(i) ==
  IF cur[i].next <= Len(files[i]) THEN Entry(i, cur[i].next)
  ELSE [cur[i] EXCEPT !.word = max_wordid]

\* Mutant of Chosen: only the first file with the word is merged.
ChosenFirst(w) == LET S == {i \in DOMAIN cur : cur[i].word = w}
                  IN  {i \in S : \A j \in S : i <= j}

\* The files whose entry is of word w.
Chosen(w) == {i \in DOMAIN cur : cur[i].word = w}

\* One turn of the loop: the smallest word is written with the documents of all
\* files that have it.
MergeWord ==
  /\ phase = "merging"
  /\ \E i \in DOMAIN cur :
       LET w == cur[i].word
           all == FlattenSeq([j \in DOMAIN cur |-> IF j \in Chosen(w) THEN cur[j].docids ELSE <<>>])
       IN  /\ w < max_wordid /\ \A j \in DOMAIN cur : w <= cur[j].word
           /\ lists' = Append(lists, [offset |-> Position, docids |-> InOrder(all)])
           /\ offsets' = [v \in DOMAIN offsets \cup {w} |-> IF v = w THEN Position ELSE offsets[v]]
           /\ cur' = [j \in DOMAIN cur |-> IF j \in Chosen(w) THEN NextEntry(j) ELSE cur[j]]
  /\ UNCHANGED <<phase, reading, max_wordid, table>>

\* saveWordids wrote the words in order, then zeros; saveOffsets puts the offsets
\* of the merged words behind them, in their order.
saveOffsets ==
  LET words == Append(Sorted(set_wordid), 0)
      merged == Sorted(DOMAIN offsets)
  IN  table' = [i \in 1 .. Len(words) |->
                  [word |-> words[i],
                   offset |-> IF i <= Len(merged) THEN offsets[merged[i]] ELSE 0]]

\* No word is left: the loop ends.
Finish ==
  /\ phase = "merging" /\ \A i \in DOMAIN cur : cur[i].word >= max_wordid
  /\ phase' = "done" /\ saveOffsets
  /\ UNCHANGED <<reading, max_wordid, cur, lists, offsets>>

----------------------------------------------------------------------------
(* readIndex *)

\* The rows of the table up to the first with word number 0.
RowsRead == {table[i] : i \in {i \in DOMAIN table : \A j \in 1 .. i : table[j].word # 0}}

\* What is found for each word: the list at its offset, or nothing if none is there.
readIndex ==
  [w \in {row.word : row \in RowsRead} |->
     {l.docids : l \in {l \in ToSet(lists) : \E row \in RowsRead : row.word = w /\ row.offset = l.offset}}]

----------------------------------------------------------------------------
Next == ReadDoc \/ EndOfInput \/ OpenFiles \/ MergeWord \/ Finish

Spec == Init /\ [][Next]_vars

----------------------------------------------------------------------------
(* Properties *)

Entries == [word : Words, docids : Seq(Docs \cup {Junk})]

TypeOK ==
  /\ phase \in {"reading", "read", "merging", "done"}
  /\ dict_wordid \in [Words -> SUBSET Docs]
  /\ cur_count \in 0 .. COUNT_DOCID - 1
  /\ set_wordid \subseteq Words /\ max_wordid \in Words
  /\ \A i \in DOMAIN files : files[i] \in Seq(Entries)
  /\ \A i \in DOMAIN cur :
       /\ [word |-> cur[i].word, docids |-> cur[i].docids] \in Entries
       /\ cur[i].next \in 1 .. Len(files[i]) + 1
  /\ DOMAIN offsets \subseteq Words

\* Every batch has a word, and the largest number is not one.  (A batch of empty
\* documents is a file from which nothing is read, and max_wordid wraps.)
Regular == (\A i \in DOMAIN files : files[i] # <<>>) /\ 2 ^ Width - 1 \notin set_wordid

ListAt(offset) == (CHOOSE l \in ToSet(lists) : l.offset = offset).docids

\* The documents of w, each once for every batch it is in.
DocumentsOf(w) ==
  InOrder(FlattenSeq([b \in 1 .. MaxDocs |-> Sorted({d \in Docs : <<b, w, d>> \in given})]))

\* The documents of w in file i that are still to be merged: those that were
\* read, and those behind the cursor.
Unread(i, w) ==
  FlattenSeq([k \in DOMAIN files[i] |->
                IF k >= cur[i].next /\ files[i][k].word = w THEN files[i][k].docids ELSE <<>>])
Unmerged(i, w) == (IF cur[i].word = w /\ w < max_wordid THEN cur[i].docids ELSE <<>>) \o Unread(i, w)

\* While files are merged, and if every batch has a word and none has the largest
\* number (Regular), the documents of each word are those in its list and those
\* still to be merged; none is dropped, or merged again.
NothingLost ==
  (phase = "merging" /\ Regular) =>
    \A w \in Words :
      LET merged == IF w \in DOMAIN offsets THEN ListAt(offsets[w]) ELSE <<>>
      IN  InOrder(merged \o FlattenSeq([i \in DOMAIN cur |-> Unmerged(i, w)])) = DocumentsOf(w)

\* The words of the input, and the documents found for them, are what readIndex
\* finds in the finished file.
IndexRight ==
  /\ DOMAIN readIndex = {g[2] : g \in given}
  /\ \A w \in DOMAIN readIndex : readIndex[w] = {DocumentsOf(w)}

\* For an input without an empty batch, the largest number of a word (both: Regular)
\* and the number 0, the repository's own reader finds exactly the words of the
\* input in the finished file, and for each the list of exactly its documents: the
\* offsets, put into the table by position, meet the right words.
IndexIsRight == (phase = "done" /\ Regular /\ 0 \notin set_wordid) => IndexRight
=============================================================================
