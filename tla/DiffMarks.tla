------------------------------ MODULE DiffMarks ------------------------------
(***************************************************************************)
(* From two texts to the marks on their pages: diff_texts and              *)
(* _collect_highlights (services/diff_service.py), then the search for the *)
(* marked text on the drawn page (_apply_highlights in _page_render.py).   *)
(*                                                                         *)
(* A line is a sequence of words.  difflib is external: its opcodes may be *)
(* any that cut both texts into blocks as it documents, each block read in *)
(* one step.  A page shows the words of a text in the columns of rows; a   *)
(* search finds words that stand next to each other in one row.            *)
(***************************************************************************)
EXTENDS Integers, Sequences, FiniteSets

CONSTANTS
  Lines,      (* the lines that texts are made of: sequences of words      *)
  MaxLines,   (* lines of a text at most                                   *)
  Short,      (* a word of one letter                                      *)
  Hash,       (* the sign of a heading, and Bar that of a table's row, one *)
  Bar,        (*   letter each; words without a name here have at least    *)
              (*   the 10 letters of _SEARCH_MIN_PREFIX                    *)
  Marker,     (* what an extractor writes for an image or a table          *)
  SearchWords,(* words in the first _SEARCH_PREFIX_MAX letters of a line   *)
  RowWidth,   (* words in a row of the pages of either text                *)
  RowsTouch   (* whether the boxes of words in adjacent rows touch         *)

ASSUME MarksAssumption ==
  /\ MaxLines \in Nat \ {0} /\ SearchWords \in Nat \ {0} /\ RowsTouch \in BOOLEAN
  /\ \A side \in {1, 2} : RowWidth[side] \in Nat \ {0}
  /\ \A l \in Lines : l \in Seq({l[k] : k \in DOMAIN l})

VARIABLES
  texts,      (* the lines of the two texts                                *)
  at,         (* how many lines of each the blocks read so far cover       *)
  lastTag,    (* the tag of the last block                                 *)
  ops,        (* DiffResult.ops; a line is given by its number, 0 is None  *)
  counts      (* DiffResult.added, deleted, changed                        *)

marksVars == <<texts, at, lastTag, ops, counts>>

Texts == UNION {[1..n -> Lines] : n \in 0..MaxLines}

MarksInit ==
  /\ texts = <<<<>>, <<>>>> /\ at = <<0, 0>> /\ lastTag = "none" /\ ops = <<>>
  /\ counts = [added |-> 0, deleted |-> 0, changed |-> 0]

GiveTexts ==
  /\ lastTag = "none"
  /\ texts' \in Texts \X Texts
  /\ lastTag' = "begin"
  /\ UNCHANGED <<at, ops, counts>>

Left(i) == texts[1][i]
Right(j) == texts[2][j]
Done == lastTag # "none" /\ at[1] = Len(texts[1]) /\ at[2] = Len(texts[2])

(* The next block takes m lines of the left and n of the right text.       *)
Block(tag, m, n) ==
  /\ at[1] + m <= Len(texts[1]) /\ at[2] + n <= Len(texts[2])
  /\ at' = <<at[1] + m, at[2] + n>>
  /\ lastTag' = tag
  /\ UNCHANGED texts

Unlike(m, n) ==
  /\ lastTag \in {"begin", "equal"}
  /\ \A i \in 1..m, j \in 1..n : Left(at[1] + i) # Right(at[2] + j)

Op(tag, i, j) == [op |-> tag, left |-> i, right |-> j]

EqualBlock(n) ==
  /\ Block("equal", n, n) /\ lastTag \notin {"none", "equal"}
  /\ \A k \in 1..n : Left(at[1] + k) = Right(at[2] + k)
  /\ ops' = ops \o [k \in 1..n |-> Op("equal", at[1] + k, at[2] + k)]
  /\ UNCHANGED counts

DeleteBlock(m) ==
  /\ Block("delete", m, 0) /\ Unlike(m, 0)
  /\ ops' = ops \o [k \in 1..m |-> Op("delete", at[1] + k, 0)]
  /\ counts' = [counts EXCEPT !.deleted = @ + m]

InsertBlock(n) ==
  /\ Block("insert", 0, n) /\ Unlike(0, n)
  /\ ops' = ops \o [k \in 1..n |-> Op("add", 0, at[2] + k)]
  /\ counts' = [counts EXCEPT !.added = @ + n]

(* Fault: what is left of the longer side is dropped.                      *)
PairsOnlyFault(pairs, restLeft, restRight) == pairs

Replaced(pairs, restLeft, restRight) == pairs \o restLeft \o restRight

(* The lines of a replaced block are paired; the rest of the longer side   *)
(* is deleted or added.                                                    *)
ReplaceBlock(m, n) ==
  LET p == IF m < n THEN m ELSE n IN
  /\ Block("replace", m, n) /\ Unlike(m, n)
  /\ ops' = ops \o Replaced([k \in 1..p |-> Op("change", at[1] + k, at[2] + k)],
                            [k \in 1..(m - p) |-> Op("delete", at[1] + p + k, 0)],
                            [k \in 1..(n - p) |-> Op("add", 0, at[2] + p + k)])
  /\ counts' = [added |-> counts.added + n - p, deleted |-> counts.deleted + m - p,
                changed |-> counts.changed + p]

MarksNext ==
  \/ GiveTexts
  \/ \E m, n \in 1..MaxLines :
       EqualBlock(m) \/ DeleteBlock(m) \/ InsertBlock(n) \/ ReplaceBlock(m, n)

MarksSpec == MarksInit /\ [][MarksNext]_marksVars

-----------------------------------------------------------------------------
RangeOf(s) == {s[k] : k \in DOMAIN s}

(* _word_spans: which words of two lines are kept.  difflib keeps words    *)
(* that stand in both in the same order, and no word more could be kept;   *)
(* which of several such choices it makes is left open.                    *)
Kept(line, other) ==
  LET of(l, K) == SelectSeq([k \in DOMAIN l |-> <<k, l[k]>>], LAMBDA x : x[1] \in K)
      words(l, K) == [k \in DOMAIN of(l, K) |-> of(l, K)[k][2]]
      common == {x \in (SUBSET DOMAIN line) \X (SUBSET DOMAIN other) :
                   words(line, x[1]) = words(other, x[2])}
  IN CHOOSE x \in common : \A y \in common :
       x[1] \subseteq y[1] /\ x[2] \subseteq y[2] => x = y

(* _changed_words: two letters at least.                                   *)
Letters == {Short, Hash, Bar}
ChangedWords(line, other) ==
  {line[k] : k \in DOMAIN line \ Kept(line, other)[1]} \ Letters

LineOf(o, side) == IF side = 1 THEN o.left ELSE o.right
WordsOf(o, side) ==
  IF o.op = "change"
  THEN ChangedWords(texts[side][LineOf(o, side)], texts[3 - side][LineOf(o, 3 - side)])
  ELSE {}

(* _collect_highlights of one side (empty lines are left out, and what is  *)
(* the same is marked once).                                               *)
ChangesOn(side) ==
  {[line |-> texts[side][LineOf(o, side)], words |-> WordsOf(o, side)] :
     o \in {p \in RangeOf(ops) : p.op # "equal" /\ LineOf(p, side) # 0
                                  /\ texts[side][LineOf(p, side)] # <<>>}}

(* _normalize_for_search: the sign of a heading is taken off, and what     *)
(* begins with a marker, rows of tables and single letters are not sought. *)
Body(line) == IF Len(line) > 1 /\ line[1] = Hash THEN Tail(line) ELSE line
Unsought(line) ==
  \/ line = <<>>
  \/ line[1] = Marker
  \/ line[1] = Bar /\ line[Len(line)] = Bar
  \/ Len(Body(line)) = 1 /\ Body(line)[1] \in Letters
Cut(text) == SubSeq(text, 1, IF Len(text) < SearchWords THEN Len(text) ELSE SearchWords)

(* The page: a word stands in a row of its line, at a column.  It has      *)
(* neither the signs of headings nor what stands for an image or a table.  *)
Shown(line) == IF line = <<>> \/ line[1] = Marker THEN <<>> ELSE Body(line)
Cells(side, i) ==
  LET l == Shown(texts[side][i])
  IN {[line |-> i, row |-> (k - 1) \div RowWidth[side], col |-> k, word |-> l[k]] :
        k \in DOMAIN l}
Page(side) == UNION {Cells(side, i) : i \in DOMAIN texts[side]}

(* The row of the page in which a line begins (what shows nothing has a    *)
(* row of its own), and so that of a word.                                 *)
Height(side, i) ==
  LET l == Shown(texts[side][i])
  IN IF l = <<>> THEN 1 ELSE (Len(l) - 1) \div RowWidth[side] + 1
RowsAbove(side) ==
  LET above[i \in 1..Len(texts[side])] ==
        IF i = 1 THEN 0 ELSE above[i - 1] + Height(side, i - 1)
  IN above
Depth(side, p) == RowsAbove(side)[p.line] + p.row

(* search_for: the places where the words stand next to each other.        *)
Found(page, text) ==
  LET from(p) == {q \in page : /\ q.line = p.line /\ q.row = p.row
                               /\ q.col - p.col \in 0..(Len(text) - 1)
                               /\ q.word = text[q.col - p.col + 1]}
  IN {from(p) : p \in {x \in page : \A k \in 1..Len(text) :
                                  \E q \in from(x) : q.col = x.col + k - 1}}

(* _safe_search: the whole text, else its longest beginning that is found  *)
(* and is not too short.                                                   *)
Search(page, text) ==
  LET beginning(n) == SubSeq(text, 1, n)
      tried == {n \in 1..Len(text) : n = Len(text) \/ ~(RangeOf(beginning(n)) \subseteq Letters)}
      hits == {n \in tried : Found(page, beginning(n)) # {}}
  IN IF hits = {} THEN {}
     ELSE Found(page, beginning(CHOOSE n \in hits : \A m \in hits : m <= n))

Searched(page, text) == IF Unsought(text) THEN {} ELSE Search(page, Cut(Body(text)))

(* _rect_intersects: two boxes that only touch intersect as well.          *)
Touches(side, p, q) ==
  /\ (p.col - q.col) % RowWidth[side] = 0
  /\ Depth(side, p) - Depth(side, q) \in IF RowsTouch THEN -1..1 ELSE {0}
OnLine(side, rect, lines) ==
  \E l \in lines : \E p \in rect, q \in l : Touches(side, p, q)

(* _apply_highlights: the changed words that touch the places of the line, *)
(* or all that was found of the line if there are none.                    *)
Marked(side) ==
  LET page == Page(side)
      of(e) == LET lines == Searched(page, e.line) IN
        IF e.words = {} THEN UNION lines
        ELSE UNION {rect \in UNION {Searched(page, <<w>>) : w \in e.words} :
                      OnLine(side, rect, lines)}
  IN UNION {of(e) : e \in ChangesOn(side)}

-----------------------------------------------------------------------------
MarksTypeOK ==
  /\ texts \in Texts \X Texts
  /\ at \in (0..MaxLines) \X (0..MaxLines)
  /\ \A o \in RangeOf(ops) : {o.left, o.right} \subseteq 0..MaxLines
  /\ lastTag \in {"none", "begin", "equal", "delete", "insert", "replace"}

Number(tag) == Cardinality({k \in DOMAIN ops : ops[k].op = tag})

(* The operations tell both texts completely: every line of either text    *)
(* comes once and in its order, what is reported equal is, and the counts  *)
(* are those of the operations.                                            *)
OpsTellBothTexts ==
  Done =>
    /\ \A side \in {1, 2} :
         /\ {LineOf(o, side) : o \in RangeOf(ops)} \ {0} = DOMAIN texts[side]
         /\ \A j, k \in DOMAIN ops : j < k /\ LineOf(ops[k], side) # 0 =>
              LineOf(ops[j], side) < LineOf(ops[k], side)
    /\ \A o \in RangeOf(ops) : (o.op = "equal") <=>
         (o.left # 0 /\ o.right # 0 /\ Left(o.left) = Right(o.right))
    /\ counts = [added |-> Number("add"), deleted |-> Number("delete"),
                 changed |-> Number("change")]

(* No line that is sought can be mistaken for the place of another one.    *)
Clear(side) ==
  \A i \in DOMAIN texts[side] :
    LET first == Body(texts[side][i])[1] IN
    \/ Unsought(texts[side][i])
    \/ /\ first \notin Letters
       /\ \A p \in Page(side) : p.word = first => p.line = i /\ p.col = 1

(* What a search may find of a line: its first row, up to SearchWords.     *)
Reach(side, i) == {q \in Cells(side, i) : q.row = 0 /\ q.col <= SearchWords}

(* A word is due for a mark if it is within reach in a line that was added *)
(* or deleted, or changed without a changed word of two letters; or if it  *)
(* is a changed word, and touches what is within reach of its line.        *)
IsDue(side, o, p) ==
  LET reach == Reach(side, LineOf(o, side))
      words == WordsOf(o, side) IN
  /\ o.op # "equal" /\ LineOf(o, side) # 0
  /\ ~Unsought(texts[side][LineOf(o, side)])
  /\ \/ words = {} /\ p \in reach
     \/ p.word \in words \ {Marker} /\ \E q \in reach : Touches(side, p, q)

(* On a page where no line is mistaken for another exactly those words are *)
(* marked that are due for a change of a line that is sought.  A mark is   *)
(* missing for a marker, a row of a table and what is out of reach; and a  *)
(* word of another line is marked only if it is one of the changed words   *)
(* and its box touches the changed line (_apply_highlights).               *)
MarksAreChanges ==
  Done => \A side \in {1, 2} : Clear(side) =>
    Marked(side) = {p \in Page(side) : \E o \in RangeOf(ops) : IsDue(side, o, p)}

(* The answer of a comparison tells all changes and nothing else, and the  *)
(* marks on its pages are those that these changes are due.                *)
DiffIsTrue == OpsTellBothTexts /\ MarksAreChanges
=============================================================================
