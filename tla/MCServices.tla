----------------------------- MODULE MCServices -----------------------------
(***************************************************************************)
(* The work behind the requests and the scripts, for one run of TLC.  The  *)
(* components share no state, so a step of one never enables, disables or  *)
(* changes what another does, and every property below speaks of one       *)
(* component.  So only one of them moves in a behaviour, which leaves the  *)
(* sum of their state spaces instead of the product and loses nothing; the *)
(* setup of the others is one of those they may have.                      *)
(***************************************************************************)
EXTENDS StepExecutor, TempFiles, DiffCache, DiffMarks, Sections, FieldExtraction,
        Parsers, LlmCalls, Rerankers, OcrEval, MCComposition

CONSTANTS wordA, wordB, wordC   \* words of a text

VARIABLE part          \* the component that moves

components == <<executorVars, tempVars, diffVars, marksVars, sectionVars,
                extractionVars, parserVars, llmVars, rerankVars,
                compositionVars, evalVars>>
vars == <<part, components>>

Parts == {"executor", "tempFiles", "diffCache", "diffMarks", "sections",
          "extraction", "parsers", "llm", "reranker", "composition",
          "evaluation"}

ServicesTypeOK ==
  /\ ExecutorTypeOK /\ TempTypeOK /\ DiffTypeOK /\ MarksTypeOK
  /\ SectionsTypeOK /\ ExtractionTypeOK /\ ParsersTypeOK /\ LlmTypeOK
  /\ RerankTypeOK /\ CompositionTypeOK /\ EvalTypeOK

(* The components at rest have one setup.                                  *)
Idling ==
  /\ part # "parsers" => libraries = {}
  /\ part # "llm" => tracer = "none"
  /\ part # "composition" =>
       settings = CHOOSE e \in Configurations : TRUE
  /\ part # "evaluation" => dataset = CHOOSE ds \in Datasets : TRUE

Init ==
  /\ part \in Parts
  /\ ExecutorInit /\ TempInit /\ DiffInit /\ MarksInit
  /\ SectionsInit /\ ExtractionInit /\ ParsersInit /\ LlmInit
  /\ RerankInit /\ CompositionInit /\ EvalInit
  /\ Idling

ExecutorStep ==
  /\ part = "executor" /\ ExecutorNext
  /\ UNCHANGED <<part, tempVars, diffVars, marksVars, sectionVars,
                  extractionVars, parserVars, llmVars, rerankVars,
                  compositionVars, evalVars>>

TempStep ==
  /\ part = "tempFiles" /\ TempNext
  /\ UNCHANGED <<part, executorVars, diffVars, marksVars, sectionVars,
                  extractionVars, parserVars, llmVars, rerankVars,
                  compositionVars, evalVars>>

DiffStep ==
  /\ part = "diffCache" /\ DiffNext
  /\ UNCHANGED <<part, executorVars, tempVars, marksVars, sectionVars,
                  extractionVars, parserVars, llmVars, rerankVars,
                  compositionVars, evalVars>>

MarksStep ==
  /\ part = "diffMarks" /\ MarksNext
  /\ UNCHANGED <<part, executorVars, tempVars, diffVars, sectionVars,
                  extractionVars, parserVars, llmVars, rerankVars,
                  compositionVars, evalVars>>

SectionsStep ==
  /\ part = "sections" /\ SectionsNext
  /\ UNCHANGED <<part, executorVars, tempVars, diffVars, marksVars,
                  extractionVars, parserVars, llmVars, rerankVars,
                  compositionVars, evalVars>>

ExtractionStep ==
  /\ part = "extraction" /\ ExtractionNext
  /\ UNCHANGED <<part, executorVars, tempVars, diffVars, marksVars,
                  sectionVars, parserVars, llmVars, rerankVars,
                  compositionVars, evalVars>>

ParsersStep ==
  /\ part = "parsers" /\ ParsersNext
  /\ UNCHANGED <<part, executorVars, tempVars, diffVars, marksVars,
                  sectionVars, extractionVars, llmVars, rerankVars,
                  compositionVars, evalVars>>

LlmStep ==
  /\ part = "llm" /\ LlmNext
  /\ UNCHANGED <<part, executorVars, tempVars, diffVars, marksVars,
                  sectionVars, extractionVars, parserVars, rerankVars,
                  compositionVars, evalVars>>

RerankStep ==
  /\ part = "reranker" /\ RerankNext
  /\ UNCHANGED <<part, executorVars, tempVars, diffVars, marksVars,
                  sectionVars, extractionVars, parserVars, llmVars,
                  compositionVars, evalVars>>

CompositionStep ==
  /\ part = "composition" /\ CompositionNext
  /\ UNCHANGED <<part, executorVars, tempVars, diffVars, marksVars,
                  sectionVars, extractionVars, parserVars, llmVars,
                  rerankVars, evalVars>>

EvalStep ==
  /\ part = "evaluation" /\ EvalNext
  /\ UNCHANGED <<part, executorVars, tempVars, diffVars, marksVars,
                  sectionVars, extractionVars, parserVars, llmVars,
                  rerankVars, compositionVars>>

Next ==
  \/ ExecutorStep \/ TempStep \/ DiffStep \/ MarksStep \/ SectionsStep
  \/ ExtractionStep \/ ParsersStep \/ LlmStep \/ RerankStep \/ CompositionStep
  \/ EvalStep

(* ExecutorFairness of the component that moves.                           *)
RunnerMoves == part = "executor" /\ RunnerStep

Spec == Init /\ [][Next]_vars /\ WF_executorVars(RunnerMoves)

-----------------------------------------------------------------------------
(* Lines of DiffMarks with the rows of its pages, and papers and payloads  *)
(* of FieldExtraction.                                                     *)
MCLines ==
  LET a == wordA
      b == wordB
      c == wordC
  IN {<<>>, <<a>>, <<Hash, b>>, <<a, Short>>, <<a, c>>, <<b, c>>, <<c, a>>,
      <<a, Short, b, c>>, <<Marker, b>>, <<Bar, c, Bar>>}
MCRows == <<2, 4>>

Ln(p, values) == [page |-> p, holds |-> values]
MCPapers ==
  {<<Ln(1, {"long"}), Ln(1, {"long", "short"})>>,
   <<Ln(1, {}), Ln(2, {"long", "short"})>>, <<Ln(2, {"long"})>>}

Pay(value, page, boxed, sure, ids) ==
  [value |-> value, page |-> page, boxed |-> boxed, sure |-> sure, lines |-> ids]
MCPayloads ==
  {Pay("long", 1, TRUE, TRUE, <<2, 1, 9>>), Pay("short", 3, TRUE, FALSE, <<9>>)}

(* Files of Parsers: a digital pdf with an empty page and a box measured   *)
(* from either corner, a scan, slides, an image.                           *)
Sheet(layer, seen, image) ==
  [layer |-> layer, seen |-> seen, image |-> image,
   box |-> IF layer > 1 THEN [left |-> 0, top |-> 1, right |-> 3, bottom |-> 2]
           ELSE [left |-> 2, top |-> -1, right |-> 5, bottom |-> 3]]
MCFiles ==
  {[kind |-> "pdf", pages |-> <<Sheet(2, 0, FALSE), Sheet(0, 0, FALSE), Sheet(1, 0, TRUE)>>],
   [kind |-> "pdf", pages |-> <<Sheet(0, 1, TRUE), Sheet(1, 2, TRUE)>>],
   [kind |-> "deck", pages |-> <<Sheet(1, 0, FALSE), Sheet(1, 0, FALSE), Sheet(2, 0, FALSE)>>],
   [kind |-> "image", pages |-> <<Sheet(0, 2, TRUE)>>]}

(* Labels of OcrEval: skewed rows, a tall word, polygons without a text, a *)
(* label without its image, one without a width and one without words.     *)
Polygon(t, x, y, w, h) ==
  [text |-> t, points |-> {<<x, y>>, <<x + w, y>>, <<x + w, y + h>>, <<x, y + h>>}]
Label(polygons, image, w) ==
  [polygons |-> polygons, image |-> image, width |-> w, height |-> 20,
   pageWidth |-> 10, pageHeight |-> 10]
MCDatasets ==
  {<<Label(<<Polygon(<<1>>, 8, 1, 4, 4), Polygon(<<2>>, 1, 2, 4, 4), Polygon(<<>>, 1, 1, 4, 4),
             Polygon(<<2>>, 14, 0, 2, 12), Polygon(<<1, 2>>, 1, 8, 6, 4),
             Polygon(<<2>>, 8, 6, 4, 4)>>, TRUE, 20),
     Label(<<>>, FALSE, 20), Label(<<Polygon(<<2, 2>>, 0, 0, 6, 6)>>, TRUE, 0),
     Label(<<>>, TRUE, 20)>>,
   <<Label(<<>>, FALSE, 20)>>}
MCReadings ==
  {<<<<1>>, <<2>>, <<2>>, <<1, 2>>>>} \cup
  UNION {[1..n -> {<<1>>, <<2>>, <<1, 2>>}] : n \in 0..2}
Reading(value, boxed, x, y) ==
  [value |-> value, boxed |-> boxed, box |-> [x0 |-> x, y0 |-> y, x1 |-> x + 3, y1 |-> y + 3]]
MCFieldLists ==
  {<<>>, <<Reading(<<<<2>>, <<1>>>>, TRUE, 0, 1), Reading(<<>>, FALSE, 0, 0),
           Reading(<<<<2, 2>>>>, TRUE, 6, 6)>>}
=============================================================================
