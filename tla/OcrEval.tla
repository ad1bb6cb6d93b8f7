------------------------------- MODULE OcrEval -------------------------------
(***************************************************************************)
(* The evaluation of the OCR (kms/eval/ocr_eval.py, scripts/eval_ocr.py):  *)
(* labelled pages are read and their fields extracted by the vision model, *)
(* one page after the other; the reading is measured by edit distance, the *)
(* fields by whether their values and boxes are on the page.               *)
(*                                                                         *)
(* A text is a sequence of words, a word a sequence of characters.  A rate *)
(* is kept as its two counts, a box in whole pixels.                       *)
(***************************************************************************)
EXTENDS Integers, Sequences, SequencesExt, FiniteSets, FiniteSetsExt, Flatten

CONSTANTS
  Characters,   (* characters of words                                     *)
  Datasets,     (* sequences of labels, each with or without its image     *)
  Readings,     (* transcriptions that the model may return                *)
  FieldLists,   (* fields that the model may return                        *)
  EvalLimit     (* --limit; 0 for all                                      *)

PageTexts == Seq(Seq(Characters))
BoxSet == [x0 : Int, y0 : Int, x1 : Int, y1 : Int]
Polygons == [text : Seq(Characters), points : SUBSET (Int \X Int)]
Labels ==
  [polygons : Seq(Polygons), image : BOOLEAN, width : Int, height : Int,
   pageWidth : Int, pageHeight : Int]

ASSUME OcrEvalAssumption ==
  /\ EvalLimit \in Nat
  /\ Datasets \subseteq Seq(Labels)
  /\ \A ds \in Datasets : \A k \in DOMAIN ds : \A i \in DOMAIN ds[k].polygons :
       IsFiniteSet(ds[k].polygons[i].points)
  /\ Readings \subseteq PageTexts
  /\ FieldLists \subseteq Seq([value : PageTexts, boxed : BOOLEAN, box : BoxSet])

VARIABLES
  dataset,     (* the labels, in the order of their file names             *)
  evaluation   (* where main() is and what it has measured                 *)

evalVars == <<dataset, evaluation>>

NoEvaluation == [pc |-> "start", page |-> 1, read |-> <<>>, cers |-> <<>>, wers |-> <<>>,
  faithful |-> 0, values |-> 0, grounded |-> 0, boxes |-> 0, given |-> <<>>]

EvalInit == dataset \in Datasets /\ evaluation = NoEvaluation

-----------------------------------------------------------------------------
(* The members of a sequence at some of its positions, in their order.     *)
Picked(s, positions) == Flat([i \in DOMAIN s |-> IF i \in positions THEN <<s[i]>> ELSE <<>>])

(* sorted(..., key = ...): the positions by their keys, equal keys in the  *)
(* order they have.                                                        *)
Precedes(keys, i, j) == keys[i] < keys[j] \/ (keys[i] = keys[j] /\ i < j)
SortedBy(keys) ==
  [k \in DOMAIN keys |->
     CHOOSE i \in DOMAIN keys : Cardinality({j \in DOMAIN keys : Precedes(keys, j, i)}) = k - 1]

(* _pairs                                                                  *)
Paired ==
  LET found == Picked(dataset, {k \in DOMAIN dataset : dataset[k].image})
  IN IF EvalLimit = 0 \/ Len(found) <= EvalLimit THEN found ELSE SubSeq(found, 1, EvalLimit)

(* parse_label: polygons without a text or without points are left out.    *)
BoxOf(points) ==
  LET xs == {q[1] : q \in points}
      ys == {q[2] : q \in points}
  IN [x0 |-> Min(xs), y0 |-> Min(ys), x1 |-> Max(xs), y1 |-> Max(ys)]
LabelWords(l) ==
  LET whole == Picked(l.polygons, {k \in DOMAIN l.polygons : /\ l.polygons[k].text # <<>>
                                                             /\ l.polygons[k].points # {}})
  IN [i \in DOMAIN whole |-> [text |-> whole[i].text, box |-> BoxOf(whole[i].points)]]

(* reading_order_text: twice the height of the middle of a word, words in  *)
(* the order of their middles, the median of their heights.                *)
Middle(w) == w.box.y0 + w.box.y1
DownThePage(ws) == SortedBy([i \in DOMAIN ws |-> Middle(ws[i])])
MedianHeight(ws) ==
  LET heights == [i \in DOMAIN ws |-> ws[i].box.y1 - ws[i].box.y0]
      height == heights[SortedBy(heights)[Len(ws) \div 2 + 1]]
  IN IF height = 0 THEN 1 ELSE height

Distance(m, n) == IF m < n THEN n - m ELSE m - n

(* A row and the sum of its middles; a word is in the row whose mean it is *)
(* near enough to.                                                         *)
InRow(row, w, height) ==
  5 * Distance(Middle(w) * Len(row.words), row.sum) <= 6 * height * Len(row.words)

AddToRows(rows, w, height) ==
  IF rows # <<>> /\ InRow(rows[Len(rows)], w, height)
  THEN [rows EXCEPT ![Len(rows)] = [words |-> Append(@.words, w), sum |-> @.sum + Middle(w)]]
  ELSE Append(rows, [words |-> <<w>>, sum |-> Middle(w)])

RowsUpTo(ws) ==
  LET order == DownThePage(ws)
      height == MedianHeight(ws)
      rows[n \in 0..Len(ws)] ==
        IF n = 0 THEN <<>> ELSE AddToRows(rows[n - 1], ws[order[n]], height)
  IN rows
RowsOfWords(ws) == RowsUpTo(ws)[Len(ws)]

LeftToRight(row) ==
  LET order == SortedBy([i \in DOMAIN row |-> row[i].box.x0])
  IN [i \in DOMAIN row |-> row[order[i]]]

InReadingOrder(ws) ==
  IF ws = <<>> THEN <<>>
  ELSE LET rows == RowsOfWords(ws)
       IN Flat([r \in DOMAIN rows |-> LeftToRight(rows[r].words)])
FullText(l) == LET ws == InReadingOrder(LabelWords(l)) IN [i \in DOMAIN ws |-> ws[i].text]

-----------------------------------------------------------------------------
(* _levenshtein, row by row: row[j + 1] is the distance to the first j.    *)
NextRowUpTo(prev, x, t) ==
  LET row[j \in 0..Len(t)] ==
        IF j = 0 THEN <<prev[1] + 1>>
        ELSE LET done == row[j - 1]
             IN Append(done, Min({prev[j + 1] + 1, done[j] + 1,
                                  prev[j] + (IF x = t[j] THEN 0 ELSE 1)}))
  IN row
NextRow(prev, x, t) == NextRowUpTo(prev, x, t)[Len(t)]

DistanceRows(s, t) ==
  LET rows[i \in 0..Len(s)] ==
        IF i = 0 THEN [j \in 1..Len(t) + 1 |-> j - 1] ELSE NextRow(rows[i - 1], s[i], t)
  IN rows

(* Fault: a character that is replaced is free.                            *)
FreeReplaceFault(s, t) == Max({Len(s), Len(t)}) - Min({Len(s), Len(t)})

EditDistance(s, t) ==
  IF s = t THEN 0
  ELSE IF s = <<>> THEN Len(t)
  ELSE IF t = <<>> THEN Len(s)
  ELSE DistanceRows(s, t)[Len(s)][Len(t) + 1]

(* wer; cer takes the characters.  An empty truth counts as one error.     *)
ErrorRate(truth, text) ==
  IF truth = <<>> THEN [edits |-> IF text = <<>> THEN 0 ELSE 1, of |-> 1]
  ELSE [edits |-> EditDistance(truth, text), of |-> Len(truth)]

(* value_in_text                                                           *)
InText(value, text) ==
  LET needle == Flat(value)
      page == Flat(text)
  IN needle # <<>> /\ \E k \in 0..Len(page) - Len(needle) :
                        SubSeq(page, k + 1, k + Len(needle)) = needle

(* iou at the threshold of 0.3, of boxes in the same unit.                 *)
Area(q) == Max({0, q.x1 - q.x0}) * Max({0, q.y1 - q.y0})
Meeting(q, r) == [x0 |-> Max({q.x0, r.x0}), y0 |-> Max({q.y0, r.y0}),
                  x1 |-> Min({q.x1, r.x1}), y1 |-> Min({q.y1, r.y1})]
Overlaps(q, r) ==
  LET common == Area(Meeting(q, r))
  IN common > 0 /\ 10 * common >= 3 * (Area(q) + Area(r) - common)

(* normalized_boxes and _extracted_norm_boxes: each box is divided by the  *)
(* size of its own picture (here: times the size of the other one).        *)
Scaled(q, w, h) == [x0 |-> q.x0 * w, y0 |-> q.y0 * h, x1 |-> q.x1 * w, y1 |-> q.y1 * h]
IsGrounded(q, l) ==
  LET sized == l.width > 0 /\ l.height > 0
      w == IF sized THEN l.width ELSE 1
      h == IF sized THEN l.height ELSE 1
  IN \E v \in ToSet(LabelWords(l)) :
       Overlaps(Scaled(q, w, h), Scaled(v.box, l.pageWidth, l.pageHeight))

-----------------------------------------------------------------------------
(* main(): without the address of the model or a page there is no run.     *)
EvalStarts ==
  /\ evaluation.pc = "start"
  /\ evaluation' \in {[evaluation EXCEPT !.pc = "refused"],
       [evaluation EXCEPT !.pc = IF Paired = <<>> THEN "refused" ELSE "read"]}
  /\ UNCHANGED dataset

(* _transcribe: an error of the server ends the run, and what was measured *)
(* before it is lost.                                                      *)
ReadsPage ==
  /\ evaluation.pc = "read"
  /\ \/ \E text \in Readings : evaluation' = [evaluation EXCEPT !.pc = "extract", !.read = text]
     \/ evaluation' = [evaluation EXCEPT !.pc = "raised"]
  /\ UNCHANGED dataset

ExtractsPage ==
  LET l == Paired[evaluation.page]
      truth == FullText(l)
  IN
  /\ evaluation.pc = "extract"
  /\ \/ \E answer \in FieldLists :
          LET values == {i \in DOMAIN answer : answer[i].value # <<>>}
              boxes == {i \in DOMAIN answer : answer[i].boxed}
          IN evaluation' = [evaluation EXCEPT
               !.pc = IF evaluation.page = Len(Paired) THEN "measured" ELSE "read",
               !.page = @ + 1,
               !.given = Append(@, answer),
               !.cers = Append(@, ErrorRate(Flat(truth), Flat(evaluation.read))),
               !.wers = Append(@, ErrorRate(truth, evaluation.read)),
               !.faithful = @ + Cardinality({i \in values : InText(answer[i].value, truth)}),
               !.values = @ + Cardinality(values),
               !.grounded = @ + Cardinality({i \in boxes : IsGrounded(answer[i].box, l)}),
               !.boxes = @ + Cardinality(boxes)]
     \/ evaluation' = [evaluation EXCEPT !.pc = "raised"]
  /\ UNCHANGED dataset

(* The metrics go to MLflow in one run (LlmCalls), or nowhere.             *)
LogsEvaluation ==
  /\ evaluation.pc = "measured"
  /\ evaluation' \in {[evaluation EXCEPT !.pc = "logged"], [evaluation EXCEPT !.pc = "printed"]}
  /\ UNCHANGED dataset

EvalNext == EvalStarts \/ ReadsPage \/ ExtractsPage \/ LogsEvaluation

EvalSpec == EvalInit /\ [][EvalNext]_evalVars

-----------------------------------------------------------------------------
EvalTypeOK ==
  /\ evaluation.page \in 1..Len(dataset) + 1
  /\ evaluation.faithful \in 0..evaluation.values
  /\ evaluation.grounded \in 0..evaluation.boxes
  /\ \A i \in DOMAIN evaluation.cers : evaluation.cers[i].edits \in Nat

(* The distance of two texts by its meaning: pair some characters of one,  *)
(* in order, with characters of the other; what stays alone is deleted or  *)
(* inserted, and a pair of different characters is a replacement.          *)
Pairings(s, t) ==
  {q \in SUBSET ((1..Len(s)) \X (1..Len(t))) :
     \A x, y \in q : x # y => (x[1] < y[1] /\ x[2] < y[2]) \/ (y[1] < x[1] /\ y[2] < x[2])}
Edits(s, t, q) ==
  Len(s) + Len(t) - 2 * Cardinality(q) + Cardinality({x \in q : s[x[1]] # t[x[2]]})

(* The row-by-row computation finds the least number of edits that turn    *)
(* what the label says into what the model read (_levenshtein).            *)
DistanceIsLeast ==
  evaluation.pc = "extract" =>
    LET truth == FullText(Paired[evaluation.page])
        text == evaluation.read
    IN EditDistance(truth, text) = Min({Edits(truth, text, q) : q \in Pairings(truth, text)})

(* Every word of a label is read once; no word stands in a row below one   *)
(* that is further down; words at the same height share a row, which is    *)
(* read from left to right (reading_order_text).                           *)
ReadInOrder ==
  evaluation.pc = "read" => \A k \in DOMAIN dataset :
    LET ws == LabelWords(dataset[k])
        out == InReadingOrder(ws)
        rows == IF ws = <<>> THEN <<>> ELSE RowsOfWords(ws)
    IN /\ \A v \in ToSet(ws) :
            Cardinality({i \in DOMAIN ws : ws[i] = v}) =
              Cardinality({i \in DOMAIN out : out[i] = v})
       /\ \A i, j \in DOMAIN rows : i < j =>
            \A v \in ToSet(rows[i].words), w \in ToSet(rows[j].words) : Middle(v) < Middle(w)

(* The rates of a finished evaluation count every value of every page, on  *)
(* the page it was extracted from (eval_ocr.py, main()).                   *)
CountsEveryValue ==
  evaluation.pc \in {"measured", "logged", "printed"} =>
    LET valued == [k \in DOMAIN evaluation.given |->
                    {i \in DOMAIN evaluation.given[k] : evaluation.given[k][i].value # <<>>}]
        all == UNION {{k} \X valued[k] : k \in DOMAIN valued}
    IN /\ Len(evaluation.given) = Len(Paired)
       /\ evaluation.values = Cardinality(all)
       /\ evaluation.faithful = Cardinality({x \in all :
            InText(evaluation.given[x[1]][x[2]].value, FullText(Paired[x[1]]))})

(* The distance is the least, the page is read in order, and the rates     *)
(* count every value (ocr_eval.py, eval_ocr.py).                           *)
EvaluationIsRight == DistanceIsLeast /\ ReadInOrder /\ CountsEveryValue
=============================================================================
