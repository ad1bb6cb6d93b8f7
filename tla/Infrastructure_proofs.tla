------------------------ MODULE Infrastructure_proofs ------------------------
(***************************************************************************)
(* Proofs about what stands around the services: the reranker that the     *)
(* requests share (Rerankers), the calls of the language model with the    *)
(* records of them (LlmCalls), and the assembly of the services with       *)
(* health reports and the resolver of documents (Composition); and about   *)
(* the step executor, for every number of steps and retries.               *)
(***************************************************************************)
EXTENDS Rerankers, LlmCalls, Composition, StepExecutor, SequenceTheorems, FiniteSetTheorems,
        WellFoundedInduction, TLAPS

-----------------------------------------------------------------------------
(* The reranker.                                                           *)

RowParts == {"tokenizer", "prefix", "suffix"}
Scorer ==
  [pc : {"idle", "load", "encode", "infer"}, next : 1..7, beside : BOOLEAN,
   half : BOOLEAN, rows : SUBSET RowParts, used : SUBSET AllSet]

RerankTyped ==
  /\ loaded \subseteq AllSet
  /\ outcome \in {"none", "half", "whole"}
  /\ scorers \in [Scorers -> Scorer]
  /\ scores \in 0..MaxScores

(* A thread that is loading has the attributes before its next one set.    *)
LoadsInOrder ==
  \A t \in Scorers : ScorerIs(t, "load") =>
    /\ scorers[t].next <= 6
    /\ \A i \in 1..6 : i < scorers[t].next => Attributes[i] \in loaded

(* After a load that came to its end nothing is missing.  A reranker with  *)
(* a model has its tokenizer too, and the load that set the model has      *)
(* ended or failed, or is past that assignment.                            *)
ModelIsLate ==
  /\ outcome = "whole" => loaded = AllSet
  /\ "model" \in loaded =>
       /\ "tokenizer" \in loaded
       /\ outcome # "none" \/ \E t \in Scorers : ScorerIs(t, "load") /\ scorers[t].next >= 3

(* A call scores with a tokenizer and a model.                             *)
HasModel ==
  \A t \in Scorers :
    /\ scorers[t].pc \in {"encode", "infer"} => "model" \in loaded
    /\ ScorerIs(t, "infer") => "tokenizer" \in scorers[t].rows
    /\ {"tokenizer", "model"} \subseteq scorers[t].used

(* A call that no loading ran beside, and that did not find what a failed  *)
(* one had left, scores with the whole model.                              *)
AloneIsWhole ==
  \A t \in Scorers : ~scorers[t].beside /\ ~scorers[t].half =>
    /\ scorers[t].pc \in {"encode", "infer"} => loaded = AllSet
    /\ ScorerIs(t, "infer") => scorers[t].rows = RowParts
    /\ scorers[t].used = AllSet

RerankInv == RerankTyped /\ LoadsInOrder /\ ModelIsLate /\ HasModel /\ AloneIsWhole

(* What the sequence of the attributes says.                               *)
LEMMA AttributeFacts ==
  /\ AllSet = {"tokenizer", "model", "yes", "no", "prefix", "suffix"}
  /\ Len(Attributes) = 6
  /\ Attributes[1] = "tokenizer" /\ Attributes[2] = "model" /\ Attributes[3] = "yes"
  /\ Attributes[4] = "no" /\ Attributes[5] = "prefix" /\ Attributes[6] = "suffix"
<1>1. DOMAIN Attributes = 1..6
  BY DEF Attributes
<1>2. /\ Len(Attributes) = 6
      /\ Attributes[1] = "tokenizer" /\ Attributes[2] = "model" /\ Attributes[3] = "yes"
      /\ Attributes[4] = "no" /\ Attributes[5] = "prefix" /\ Attributes[6] = "suffix"
  BY DEF Attributes
<1>3. 1..6 = {1, 2, 3, 4, 5, 6}
  OBVIOUS
<1>4. AllSet = {Attributes[i] : i \in {1, 2, 3, 4, 5, 6}}
  BY <1>1, <1>3 DEF AllSet, ToSet
<1> QED
  BY <1>2, <1>4

(* The reranker starts without a model.                                    *)
LEMMA RerankInitInv == RerankInit => RerankInv
<1> SUFFICES ASSUME RerankInit PROVE RerankInv
  OBVIOUS
<1> USE RerankersAssumption, AttributeFacts DEF RerankInit, RestingScorer
<1>1. RerankTyped
  BY DEF RerankTyped, Scorer
<1>2. LoadsInOrder /\ ModelIsLate /\ HasModel
  BY DEF LoadsInOrder, ModelIsLate, HasModel, ScorerIs
<1>3. AloneIsWhole
  BY DEF AloneIsWhole, ScorerIs
<1> QED
  BY <1>1, <1>2, <1>3 DEF RerankInv

(* What a step does to the scorers: one of them changes.                   *)
LEMMA ScorerSteps ==
  ASSUME RerankInv, NEW t \in Scorers, NEW s \in Scorer,
         scorers' = [scorers EXCEPT ![t] = s]
  PROVE  /\ scorers' \in [Scorers -> Scorer]
         /\ scorers'[t] = s
         /\ \A u \in Scorers : u # t => scorers'[u] = scorers[u]
BY DEF RerankInv, RerankTyped

(* A request comes, and finds a model or begins to load one.               *)
LEMMA CallScoreInv ==
  ASSUME RerankInv, NEW t \in Scorers, CallScore(t)
  PROVE  RerankInv'
<1> DEFINE s == [RestingScorer EXCEPT !.pc = IF "model" \in loaded THEN "encode" ELSE "load",
                                      !.beside = LoadingNow # {}, !.half = (outcome = "half")]
<1> USE RerankersAssumption, AttributeFacts
<1>1. s \in Scorer
  <2>1. RestingScorer \in Scorer
    BY DEF RestingScorer, Scorer
  <2>2. (LoadingNow # {}) \in BOOLEAN /\ (outcome = "half") \in BOOLEAN
    OBVIOUS
  <2> QED
    BY <2>1, <2>2 DEF Scorer
<1>2. /\ s.next = 1 /\ s.used = AllSet /\ s.beside = (LoadingNow # {})
      /\ s.half = (outcome = "half") /\ s.pc = IF "model" \in loaded THEN "encode" ELSE "load"
  BY DEF RestingScorer
<1>3. /\ scorers' = [scorers EXCEPT ![t] = s] /\ loaded' = loaded /\ outcome' = outcome
      /\ scores < MaxScores /\ scores' = scores + 1 /\ ScorerIs(t, "idle")
  BY DEF CallScore
<1> HIDE DEF s
<1>4. /\ scorers' \in [Scorers -> Scorer] /\ scorers'[t] = s
      /\ \A u \in Scorers : u # t => scorers'[u] = scorers[u]
  BY <1>1, <1>3, ScorerSteps
<1>5. RerankTyped'
  BY <1>3, <1>4 DEF RerankInv, RerankTyped
<1>6. LoadsInOrder'
  BY <1>2, <1>3, <1>4, <1>5 DEF RerankInv, LoadsInOrder, ScorerIs, RerankTyped, Scorer
<1>7. ModelIsLate'
  BY <1>2, <1>3, <1>4 DEF RerankInv, ModelIsLate, ScorerIs
<1>8. ~s.beside /\ ~s.half /\ s.pc = "encode" => loaded = AllSet
  BY <1>2, <1>3 DEF RerankInv, RerankTyped, ModelIsLate, LoadingNow
<1>9. HasModel'
  BY <1>2, <1>3, <1>4 DEF RerankInv, HasModel, ScorerIs
<1>10. AloneIsWhole'
  BY <1>2, <1>3, <1>4, <1>8 DEF RerankInv, AloneIsWhole, ScorerIs
<1> QED
  BY <1>5, <1>6, <1>7, <1>9, <1>10 DEF RerankInv

(* Loading fails: if the thread has set the model, it stays without what   *)
(* was to follow.                                                          *)
LEMMA LoadFailsInv ==
  ASSUME RerankInv, NEW t \in Scorers, LoadFails(t)
  PROVE  RerankInv'
<1> USE RerankersAssumption, AttributeFacts
<1>1. /\ RestingScorer \in Scorer
      /\ RestingScorer.pc = "idle" /\ RestingScorer.used = AllSet
  BY DEF RestingScorer, Scorer
<1>2. /\ scorers' = [scorers EXCEPT ![t] = RestingScorer] /\ loaded' = loaded
      /\ scores' = scores
      /\ outcome' = IF outcome = "none" /\ scorers[t].next > 2 THEN "half" ELSE outcome
  BY DEF LoadFails
<1>3. /\ scorers' \in [Scorers -> Scorer] /\ scorers'[t] = RestingScorer
      /\ \A u \in Scorers : u # t => scorers'[u] = scorers[u]
  BY <1>1, <1>2, ScorerSteps
<1>4. RerankTyped'
  BY <1>2, <1>3 DEF RerankInv, RerankTyped
<1>5. LoadsInOrder'
  BY <1>1, <1>2, <1>3 DEF RerankInv, LoadsInOrder, ScorerIs
<1>6. scorers[t].next \in 1..7
  BY DEF RerankInv, RerankTyped, Scorer
<1>7. ModelIsLate'
  <2>1. outcome' = "whole" => loaded' = AllSet
    BY <1>2 DEF RerankInv, ModelIsLate
  <2>2. "model" \in loaded' => "tokenizer" \in loaded'
    BY <1>2 DEF RerankInv, ModelIsLate
  <2>3. ASSUME "model" \in loaded', outcome' = "none"
        PROVE  \E u \in Scorers : ScorerIs(u, "load")' /\ scorers'[u].next >= 3
    <3>1. outcome = "none" /\ ~(scorers[t].next > 2)
      BY <1>2, <2>3
    <3>2. PICK u \in Scorers : ScorerIs(u, "load") /\ scorers[u].next >= 3
      BY <1>2, <2>3, <3>1 DEF RerankInv, ModelIsLate
    <3>3. u # t
      BY <1>6, <3>1, <3>2
    <3> QED
      BY <1>3, <3>2, <3>3 DEF ScorerIs
  <2> QED
    BY <2>1, <2>2, <2>3 DEF ModelIsLate, ScorerIs
<1>8. HasModel'
  BY <1>1, <1>2, <1>3 DEF RerankInv, HasModel, ScorerIs
<1>9. AloneIsWhole'
  BY <1>1, <1>2, <1>3 DEF RerankInv, AloneIsWhole, ScorerIs
<1> QED
  BY <1>4, <1>5, <1>7, <1>8, <1>9 DEF RerankInv

(* An attribute is set.                                                    *)
LEMMA SetAttributeInv ==
  ASSUME RerankInv, NEW t \in Scorers, SetAttribute(t)
  PROVE  RerankInv'
<1> DEFINE n == scorers[t].next
           s == [scorers[t] EXCEPT !.pc = IF n = Len(Attributes) THEN "encode" ELSE "load",
                                   !.next = @ + 1]
<1> USE RerankersAssumption, AttributeFacts
<1>1. /\ scorers[t] \in Scorer /\ scorers[t].pc = "load" /\ n \in 1..6
      /\ \A i \in 1..6 : i < n => Attributes[i] \in loaded
  BY DEF RerankInv, RerankTyped, Scorer, LoadsInOrder, SetAttribute, ScorerIs
<1>2. /\ s \in Scorer /\ s.next = n + 1 /\ s.beside = scorers[t].beside
      /\ s.half = scorers[t].half
      /\ s.used = scorers[t].used /\ s.pc = IF n = 6 THEN "encode" ELSE "load"
  <2>1. n + 1 \in 1..7
    BY <1>1
  <2> QED
    BY <1>1, <2>1 DEF Scorer
<1>3. scorers' = [scorers EXCEPT ![t] = s] /\ scores' = scores
  BY <1>1 DEF SetAttribute, RerankInv, RerankTyped, Scorer
<1>4. loaded' = loaded \cup {Attributes[n]} /\ outcome' = IF n = 6 THEN "whole" ELSE outcome
  BY DEF SetAttribute
<1> HIDE DEF s
<1>5. /\ scorers' \in [Scorers -> Scorer] /\ scorers'[t] = s
      /\ \A u \in Scorers : u # t => scorers'[u] = scorers[u]
  BY <1>2, <1>3, ScorerSteps
<1>6. Attributes[n] \in AllSet
  BY <1>1
<1>7. RerankTyped'
  BY <1>3, <1>4, <1>5, <1>6 DEF RerankInv, RerankTyped
<1>8. \A i \in 1..6 : i < n + 1 => Attributes[i] \in loaded'
  BY <1>1, <1>4
<1> HIDE DEF n
<1>9. LoadsInOrder'
  BY <1>1, <1>2, <1>4, <1>5, <1>8 DEF RerankInv, LoadsInOrder, ScorerIs
<1>10. n = 6 => loaded' = AllSet
  <2>1. n = 6 => \A i \in {1, 2, 3, 4, 5, 6} : Attributes[i] \in loaded'
    BY <1>8
  <2>2. loaded' \subseteq AllSet
    BY <1>7 DEF RerankTyped
  <2> QED
    BY <2>1, <2>2
<1>11. loaded = AllSet => loaded' = AllSet
  BY <1>4, <1>6
<1>12. "model" \in loaded' => "model" \in loaded \/ n = 2
  BY <1>1, <1>4
<1>13. n >= 2 => "tokenizer" \in loaded'
  BY <1>1, <1>8
<1>14. ModelIsLate'
  <2>1. outcome' = "whole" => loaded' = AllSet
    BY <1>4, <1>10, <1>11 DEF RerankInv, ModelIsLate
  <2>2. "model" \in loaded' => "tokenizer" \in loaded'
    BY <1>4, <1>12, <1>13 DEF RerankInv, ModelIsLate
  <2>3. ASSUME "model" \in loaded', outcome' = "none"
        PROVE  \E u \in Scorers : ScorerIs(u, "load")' /\ scorers'[u].next >= 3
    <3>1. n # 6 /\ outcome = "none"
      BY <1>4, <2>3
    <3>2. CASE n >= 2
      BY <3>1, <3>2, <1>1, <1>2, <1>5 DEF ScorerIs
    <3>3. CASE n = 1
      <4>1. PICK u \in Scorers : ScorerIs(u, "load") /\ scorers[u].next >= 3
        BY <1>12, <2>3, <3>1, <3>3 DEF RerankInv, ModelIsLate
      <4>2. u # t
        BY <3>3, <4>1 DEF n
      <4> QED
        BY <1>5, <4>1, <4>2 DEF ScorerIs
    <3> QED
      BY <1>1, <3>2, <3>3
  <2> QED
    BY <2>1, <2>2, <2>3 DEF ModelIsLate, ScorerIs
<1>15. HasModel'
  BY <1>1, <1>2, <1>4, <1>5, <1>10 DEF RerankInv, HasModel, ScorerIs
<1>16. AloneIsWhole'
  BY <1>1, <1>2, <1>5, <1>10, <1>11 DEF RerankInv, AloneIsWhole, ScorerIs
<1> QED
  BY <1>7, <1>9, <1>14, <1>15, <1>16 DEF RerankInv

(* The rows are made and the model is run.                                 *)
LEMMA EncodeInferInv ==
  ASSUME RerankInv, NEW t \in Scorers, Encode(t) \/ Infer(t)
  PROVE  RerankInv'
<1> DEFINE e == [scorers[t] EXCEPT !.pc = "infer", !.rows = loaded \cap RowParts]
           i == [scorers[t] EXCEPT !.pc = "idle",
                   !.used = scorers[t].rows \cup (loaded \cap {"model", "yes", "no"})]
<1> USE RerankersAssumption, AttributeFacts
<1>1. scorers[t] \in Scorer /\ loaded \subseteq AllSet
  BY DEF RerankInv, RerankTyped
<1>2. /\ e \in Scorer /\ e.beside = scorers[t].beside /\ e.half = scorers[t].half
      /\ e.used = scorers[t].used /\ e.pc = "infer" /\ e.rows = loaded \cap RowParts
  BY <1>1 DEF Scorer
<1>3. /\ i \in Scorer /\ i.beside = scorers[t].beside /\ i.half = scorers[t].half
      /\ i.pc = "idle" /\ i.used = scorers[t].rows \cup (loaded \cap {"model", "yes", "no"})
  BY <1>1 DEF Scorer, RowParts
<1>4. Encode(t) => scorers' = [scorers EXCEPT ![t] = e]
  BY <1>1 DEF Encode, RowParts, RerankInv, RerankTyped, Scorer
<1>5. Infer(t) => scorers' = [scorers EXCEPT ![t] = i]
  BY <1>1 DEF Infer, RerankInv, RerankTyped, Scorer
<1>6. loaded' = loaded /\ outcome' = outcome /\ scores' = scores
  BY DEF Encode, Infer
<1>7. "model" \in loaded => "tokenizer" \in loaded
  BY DEF RerankInv, ModelIsLate
<1> HIDE DEF e, i
<1>8. CASE Encode(t)
  <2>1. /\ scorers' \in [Scorers -> Scorer] /\ scorers'[t] = e
        /\ \A u \in Scorers : u # t => scorers'[u] = scorers[u]
    BY <1>8, <1>2, <1>4, ScorerSteps
  <2>2. RerankTyped'
    BY <2>1, <1>6 DEF RerankInv, RerankTyped
  <2>3. LoadsInOrder' /\ ModelIsLate'
    BY <2>1, <1>2, <1>6, <1>8
    DEF RerankInv, LoadsInOrder, ModelIsLate, ScorerIs, Encode
  <2>4. HasModel'
    BY <2>1, <1>2, <1>6, <1>7, <1>8 DEF RerankInv, HasModel, ScorerIs, Encode, RowParts
  <2>5. AloneIsWhole'
    BY <2>1, <1>2, <1>6, <1>8 DEF RerankInv, AloneIsWhole, ScorerIs, Encode, RowParts
  <2> QED
    BY <2>2, <2>3, <2>4, <2>5 DEF RerankInv
<1>9. CASE Infer(t)
  <2>1. /\ scorers' \in [Scorers -> Scorer] /\ scorers'[t] = i
        /\ \A u \in Scorers : u # t => scorers'[u] = scorers[u]
    BY <1>9, <1>3, <1>5, ScorerSteps
  <2>2. RerankTyped'
    BY <2>1, <1>6 DEF RerankInv, RerankTyped
  <2>3. LoadsInOrder' /\ ModelIsLate'
    BY <2>1, <1>3, <1>6, <1>9
    DEF RerankInv, LoadsInOrder, ModelIsLate, ScorerIs, Infer
  <2>4. HasModel'
    BY <2>1, <1>3, <1>6, <1>9 DEF RerankInv, HasModel, ScorerIs, Infer
  <2>5. AloneIsWhole'
    BY <2>1, <1>3, <1>6, <1>9 DEF RerankInv, AloneIsWhole, ScorerIs, Infer, RowParts
  <2> QED
    BY <2>2, <2>3, <2>4, <2>5 DEF RerankInv
<1> QED
  BY <1>8, <1>9

(* Every step of the reranker keeps the invariant.                         *)
LEMMA RerankNextInv == RerankInv /\ [RerankNext]_rerankVars => RerankInv'
<1> SUFFICES ASSUME RerankInv, [RerankNext]_rerankVars PROVE RerankInv'
  OBVIOUS
<1>1. CASE UNCHANGED rerankVars
  BY <1>1 DEF rerankVars, RerankInv, RerankTyped, LoadsInOrder, ModelIsLate, HasModel,
       AloneIsWhole, ScorerIs
<1>2. CASE RerankNext
  BY <1>2, CallScoreInv, LoadFailsInv, SetAttributeInv, EncodeInferInv DEF RerankNext
<1> QED
  BY <1>1, <1>2

(* The reranker keeps its types and its invariant.                         *)
THEOREM RerankInvariant == RerankSpec => [](RerankInv /\ RerankTypeOK)
<1>1. RerankInv => RerankTypeOK
  BY AttributeFacts DEF RerankInv, RerankTyped, RerankTypeOK, Scorer
<1> QED
  BY <1>1, RerankInitInv, RerankNextInv, PTL DEF RerankSpec

(* However the threads load the model, fail to at any point and score      *)
(* beside each other: a score has its tokenizer and a model, and it lacks  *)
(* something only if a loading ran beside the beginning of its call or had *)
(* failed before it with the model set and none had come to its end        *)
(* (qwen3_reranker.py, _ensure_loaded and score).                          *)
THEOREM WholeScores == RerankSpec => []ScoresAreWhole
<1>1. RerankInv => ScoresAreWhole
  BY DEF RerankInv, RerankTyped, Scorer, HasModel, AloneIsWhole, ScoresAreWhole
<1> QED
  BY <1>1, RerankInitInv, RerankNextInv, PTL DEF RerankSpec

-----------------------------------------------------------------------------
(* The calls of the language model.                                        *)

CallSteps ==
  {"new", "waiting", "record done", "record raised", "done", "raised", "closed"}
PieceText == Seq(1..MaxPieces)
SomeUsage == Usage \cup {None}
Call == [pc : CallSteps, kind : {"none", "generate", "stream"}, pieces : PieceText,
         usage : SomeUsage]
OcrRun == [pc : {"none", "logging", "returned"}, logged : 0..ParamCount,
           status : {"none", "RUNNING", "FINISHED"}]
Record == [call : Callers, error : BOOLEAN, usage : SomeUsage, output : PieceText]

LlmTyped ==
  /\ tracer \in {"none", "noop", "langfuse"}
  /\ llmCalls \in [Callers -> Call]
  /\ heard \in [Callers -> PieceText]
  /\ generations \in Seq(Record)
  /\ dropped \subseteq Callers
  /\ ocrRun \in OcrRun

(* What the caller has is what the call has, unless a whole answer is held *)
(* back until its record is made.                                          *)
HeardAll(c) ==
  /\ llmCalls[c].pc = "new" => heard[c] = <<>> /\ llmCalls[c].pieces = <<>>
  /\ llmCalls[c].pc = "record done" => llmCalls[c].kind \in {"generate", "stream"}
  /\ \/ llmCalls[c].pc = "record done" /\ llmCalls[c].kind = "generate"
     \/ heard[c] = llmCalls[c].pieces

(* A call is recorded when it is over, not before, and once.               *)
RecordedOnce(c) ==
  IF llmCalls[c].pc \in {"done", "raised"}
  THEN /\ \A i \in TracesOf(c) :
            /\ generations[i].output = heard[c]
            /\ generations[i].error = (llmCalls[c].pc = "raised")
       /\ tracer = "langfuse" =>
            IF c \in dropped THEN TracesOf(c) = {} ELSE \E i : TracesOf(c) = {i}
  ELSE TracesOf(c) = {} /\ c \notin dropped

(* A run that is shown as finished has its values, and nobody changes it.  *)
FinishedIsWhole ==
  ocrRun.status = "FINISHED" => ocrRun.pc = "returned" /\ ocrRun.logged = ParamCount

LlmInv ==
  /\ LlmTyped /\ FinishedIsWhole
  /\ \A c \in Callers : HeardAll(c) /\ RecordedOnce(c)

(* The numbers of an answer, whichever the server leaves out.              *)
LEMMA UsageTyped ==
  /\ None \in SomeUsage
  /\ \A raw \in RawUsages : UsageFrom(raw) \in SomeUsage
BY LlmAssumption DEF SomeUsage, RawUsages, UsageFrom, Usage, Known

(* No call is made at the start.                                           *)
LEMMA LlmInitInv == LlmInit => LlmInv
<1> SUFFICES ASSUME LlmInit PROVE LlmInv
  OBVIOUS
<1>1. <<>> \in PieceText /\ <<>> \in Seq(Record)
  BY DEF PieceText
<1>2. Started \in Call
  BY <1>1, UsageTyped DEF Started, Call, CallSteps
<1>3. ocrRun \in OcrRun /\ FinishedIsWhole
  BY LlmAssumption DEF LlmInit, OcrRun, FinishedIsWhole
<1>4. LlmTyped
  BY <1>1, <1>2, <1>3 DEF LlmInit, LlmTyped
<1>5. ASSUME NEW c \in Callers PROVE HeardAll(c) /\ RecordedOnce(c)
  <2>1. /\ llmCalls[c].pc = "new" /\ llmCalls[c].pieces = <<>> /\ heard[c] = <<>>
        /\ generations = <<>> /\ dropped = {}
    BY DEF LlmInit, Started
  <2>2. TracesOf(c) = {}
    BY <2>1 DEF TracesOf
  <2> QED
    BY <2>1, <2>2 DEF HeardAll, RecordedOnce
<1> QED
  BY <1>3, <1>4, <1>5 DEF LlmInv

(* Calls do not touch each other's records.                                *)
LEMMA OtherCalls ==
  ASSUME LlmInv, NEW c \in Callers, NEW d \in Callers, c # d,
         llmCalls'[d] = llmCalls[d], heard'[d] = heard[d], tracer' = tracer,
         \/ generations' = generations
         \/ \E g \in Record : g.call = c /\ generations' = Append(generations, g),
         dropped' = dropped \/ dropped' = dropped \cup {c}
  PROVE  HeardAll(d)' /\ RecordedOnce(d)'
<1>1. generations \in Seq(Record)
  BY DEF LlmInv, LlmTyped
<1>2. /\ TracesOf(d)' = TracesOf(d)
      /\ \A i \in TracesOf(d) : generations'[i] = generations[i]
  <2>1. CASE generations' = generations
    BY <2>1 DEF TracesOf
  <2>2. CASE \E g \in Record : g.call = c /\ generations' = Append(generations, g)
    <3>1. PICK g \in Record : g.call = c /\ generations' = Append(generations, g)
      BY <2>2
    <3>2. /\ DOMAIN generations = 1..Len(generations) /\ Len(generations) \in Nat
          /\ DOMAIN generations' = 1..(Len(generations) + 1)
          /\ \A i \in 1..Len(generations) : generations'[i] = generations[i]
          /\ generations'[Len(generations) + 1] = g
      BY <1>1, <3>1
    <3>3. \A i \in 1..(Len(generations) + 1) :
            i \in 1..Len(generations) \/ i = Len(generations) + 1
      BY <3>2
    <3>4. DOMAIN generations \subseteq DOMAIN generations'
      BY <3>2
    <3> QED
      BY <3>1, <3>2, <3>3, <3>4 DEF TracesOf
  <2> QED
    BY <2>1, <2>2
<1>3. (d \in dropped') = (d \in dropped)
  OBVIOUS
<1>4. HeardAll(d) /\ RecordedOnce(d)
  BY DEF LlmInv
<1>5. HeardAll(d)'
  BY <1>4 DEF HeardAll
<1>6. RecordedOnce(d)'
  BY <1>2, <1>3, <1>4 DEF RecordedOnce
<1> QED
  BY <1>5, <1>6

(* A step of one call that makes no record.                                *)
LEMMA UnrecordedStep ==
  ASSUME LlmInv, NEW c \in Callers, NEW x \in Call, NEW h \in PieceText,
         llmCalls' = [llmCalls EXCEPT ![c] = x], heard' = [heard EXCEPT ![c] = h],
         UNCHANGED <<tracer, generations, dropped, ocrRun>>,
         llmCalls[c].pc \notin {"done", "raised"},
         x.pc \in {"done", "raised"} => tracer # "langfuse",
         x.pc # "new",
         x.pc = "record done" => x.kind \in {"generate", "stream"},
         (x.pc = "record done" /\ x.kind = "generate") \/ h = x.pieces
  PROVE  LlmInv'
<1>1. LlmTyped'
  BY DEF LlmInv, LlmTyped
<1>2. FinishedIsWhole'
  BY DEF LlmInv, FinishedIsWhole
<1>3. /\ llmCalls'[c] = x /\ heard'[c] = h
      /\ \A d \in Callers : d # c => llmCalls'[d] = llmCalls[d] /\ heard'[d] = heard[d]
  BY DEF LlmInv, LlmTyped
<1>4. \A d \in Callers : d # c => HeardAll(d)' /\ RecordedOnce(d)'
  BY <1>3, OtherCalls
<1>5. TracesOf(c) = {} /\ c \notin dropped /\ TracesOf(c)' = TracesOf(c)
  BY DEF LlmInv, RecordedOnce, TracesOf
<1>6. RecordedOnce(c)'
  BY <1>3, <1>5 DEF RecordedOnce
<1>7. HeardAll(c)'
  BY <1>3 DEF HeardAll
<1> QED
  BY <1>1, <1>2, <1>4, <1>6, <1>7 DEF LlmInv

(* The wrapper has a record to make before the call is over.               *)
LEMMA EndedFacts ==
  ASSUME LlmInv
  PROVE  /\ Ended("done") \in {"done", "record done"}
         /\ Ended("raised") \in {"raised", "record raised"}
         /\ Ended("done") = "done" => tracer = "none"
         /\ Ended("raised") = "raised" => tracer = "none"
BY DEF Ended, Recording

(* A call is made.                                                         *)
LEMMA CallLlmInv ==
  ASSUME LlmInv, NEW c \in Callers, NEW kind \in {"generate", "stream"}, CallLlm(c, kind)
  PROVE  LlmInv'
<1> DEFINE x == [llmCalls[c] EXCEPT !.pc = "waiting", !.kind = kind]
<1>1. llmCalls[c] \in Call /\ heard[c] \in PieceText /\ HeardAll(c)
  BY DEF LlmInv, LlmTyped
<1>2. /\ x \in Call /\ x.pc = "waiting" /\ x.pieces = llmCalls[c].pieces
  BY <1>1 DEF Call, CallSteps
<1>3. llmCalls' = [llmCalls EXCEPT ![c] = x]
  BY <1>1 DEF CallLlm, LlmInv, LlmTyped, Call
<1>4. heard' = [heard EXCEPT ![c] = heard[c]] /\ llmCalls[c].pc = "new"
  BY DEF CallLlm, LlmInv, LlmTyped
<1>5. heard[c] = x.pieces
  BY <1>1, <1>2, <1>4 DEF HeardAll
<1> HIDE DEF x
<1> QED
  BY <1>1, <1>2, <1>3, <1>4, <1>5, UnrecordedStep DEF CallLlm

(* A whole answer comes.                                                   *)
LEMMA WholeAnswerInv ==
  ASSUME LlmInv, NEW c \in Callers, WholeAnswer(c)
  PROVE  LlmInv'
<1>1. /\ llmCalls[c] \in Call /\ heard[c] \in PieceText /\ HeardAll(c)
      /\ llmCalls[c].kind = "generate" /\ llmCalls[c].pc = "waiting"
  BY DEF LlmInv, LlmTyped, WholeAnswer, CallIs
<1>2. PICK raw \in RawUsages, pieces \in {<<>>, <<1>>} :
        llmCalls' = [llmCalls EXCEPT ![c].pc = Ended("done"), ![c].pieces = pieces,
                                     ![c].usage = UsageFrom(raw)]
  BY DEF WholeAnswer
<1>3. pieces \in PieceText
  <2>1. 1 \in 1..MaxPieces
    BY LlmAssumption
  <2>2. <<>> \in PieceText /\ <<1>> \in PieceText
    BY <2>1 DEF PieceText
  <2> QED
    BY <2>2
<1> DEFINE x == [llmCalls[c] EXCEPT !.pc = Ended("done"), !.pieces = pieces,
                                    !.usage = UsageFrom(raw)]
<1>4. Ended("done") \in CallSteps
  BY EndedFacts DEF CallSteps
<1>5. /\ x \in Call /\ x.pc = Ended("done") /\ x.kind = "generate" /\ x.pieces = pieces
  BY <1>1, <1>3, <1>4, UsageTyped DEF Call
<1>6. llmCalls' = [llmCalls EXCEPT ![c] = x]
  BY <1>1, <1>2 DEF LlmInv, LlmTyped, Call
<1>7. llmCalls'[c] = x
  BY <1>6 DEF LlmInv, LlmTyped
<1>8. UNCHANGED <<tracer, generations, dropped, ocrRun>>
  BY DEF WholeAnswer
<1> HIDE DEF x
<1>9. CASE tracer = "none"
  <2>1. heard' = [heard EXCEPT ![c] = pieces]
    BY <1>9, <1>5, <1>7 DEF WholeAnswer
  <2> QED
    BY <1>1, <1>3, <1>5, <1>6, <1>8, <1>9, <2>1, EndedFacts, UnrecordedStep
<1>10. CASE tracer # "none"
  <2>1. heard' = [heard EXCEPT ![c] = heard[c]]
    BY <1>10 DEF WholeAnswer, LlmInv, LlmTyped
  <2>2. x.pc = "record done"
    BY <1>5, <1>10, EndedFacts
  <2> QED
    BY <1>1, <1>5, <1>6, <1>8, <2>1, <2>2, UnrecordedStep
<1> QED
  BY <1>9, <1>10

(* A line of a stream comes: text that the caller has at once, numbers.    *)
LEMMA StreamLineInv ==
  ASSUME LlmInv, NEW c \in Callers, StreamLine(c)
  PROVE  LlmInv'
<1>1. /\ llmCalls[c] \in Call /\ heard[c] \in PieceText /\ HeardAll(c)
      /\ llmCalls[c].kind = "stream" /\ llmCalls[c].pc = "waiting"
      /\ llmCalls \in [Callers -> Call] /\ heard \in [Callers -> PieceText]
  BY DEF LlmInv, LlmTyped, StreamLine, CallIs
<1> DEFINE n == Len(llmCalls[c].pieces)
<1>2. PICK text \in {<<>>, <<n + 1>>}, raw \in RawUsages :
        /\ Len(llmCalls[c].pieces \o text) <= MaxPieces
        /\ llmCalls' = [llmCalls EXCEPT
             ![c].pieces = @ \o text,
             ![c].usage = IF raw = None THEN @ ELSE UsageFrom(raw)]
        /\ heard' = [heard EXCEPT ![c] = @ \o text]
  BY DEF StreamLine
<1> DEFINE p == llmCalls[c].pieces \o text
           u == IF raw = None THEN llmCalls[c].usage ELSE UsageFrom(raw)
           x == [llmCalls[c] EXCEPT !.pieces = p, !.usage = u]
<1>3. llmCalls[c].pieces \in PieceText /\ n \in Nat /\ llmCalls[c].usage \in SomeUsage
  BY <1>1 DEF Call, PieceText
<1>4. p \in PieceText
  <2>1. CASE text = <<>>
    BY <2>1, <1>3 DEF PieceText
  <2>2. CASE text = <<n + 1>>
    <3>1. Len(p) = n + 1
      BY <2>2, <1>3 DEF PieceText
    <3>2. n + 1 \in 1..MaxPieces
      BY <3>1, <1>2, <1>3, LlmAssumption
    <3>3. <<n + 1>> \in Seq(1..MaxPieces)
      BY <3>2
    <3> QED
      BY <2>2, <1>3, <3>3 DEF PieceText
  <2> QED
    BY <2>1, <2>2
<1>5. u \in SomeUsage
  BY <1>3, UsageTyped
<1>6. heard[c] = llmCalls[c].pieces
  BY <1>1 DEF HeardAll
<1>7. heard' = [heard EXCEPT ![c] = p]
  BY <1>1, <1>2, <1>6
<1>8. llmCalls' = [llmCalls EXCEPT ![c] = x]
  BY <1>1, <1>2 DEF Call
<1>9. UNCHANGED <<tracer, generations, dropped, ocrRun>>
  BY DEF StreamLine
<1> HIDE DEF p, u
<1>10. /\ x \in Call /\ x.pc = "waiting" /\ x.pieces = p
  BY <1>1, <1>4, <1>5 DEF Call
<1> HIDE DEF x
<1> QED
  BY <1>1, <1>4, <1>7, <1>8, <1>9, <1>10, UnrecordedStep

(* A stream ends, breaks or is given up; an answer breaks.                 *)
LEMMA StreamEndsInv ==
  ASSUME LlmInv, NEW c \in Callers, StreamEnds(c) \/ CallBreaks(c) \/ Abandon(c)
  PROVE  LlmInv'
<1>1. /\ llmCalls[c] \in Call /\ heard[c] \in PieceText /\ HeardAll(c)
      /\ llmCalls[c].pc = "waiting" /\ heard[c] = llmCalls[c].pieces
      /\ heard' = [heard EXCEPT ![c] = heard[c]]
      /\ UNCHANGED <<tracer, generations, dropped, ocrRun>>
  BY DEF LlmInv, LlmTyped, StreamEnds, CallBreaks, Abandon, CallIs, HeardAll
<1>2. CASE StreamEnds(c)
  <2> DEFINE x == [llmCalls[c] EXCEPT !.pc = Ended("done")]
  <2>1. /\ x \in Call /\ x.pc = Ended("done") /\ x.pieces = llmCalls[c].pieces
        /\ x.kind = "stream"
    BY <1>1, <1>2, EndedFacts DEF Call, CallSteps, StreamEnds, CallIs
  <2>2. llmCalls' = [llmCalls EXCEPT ![c] = x]
    BY <1>1, <1>2 DEF StreamEnds, LlmInv, LlmTyped, Call
  <2> HIDE DEF x
  <2> QED
    BY <1>1, <2>1, <2>2, EndedFacts, UnrecordedStep
<1>3. CASE CallBreaks(c)
  <2> DEFINE x == [llmCalls[c] EXCEPT !.pc = Ended("raised"), !.usage = None]
  <2>1. /\ x \in Call /\ x.pc = Ended("raised") /\ x.pieces = llmCalls[c].pieces
    BY <1>1, <1>3, EndedFacts, UsageTyped DEF Call, CallSteps
  <2>2. llmCalls' = [llmCalls EXCEPT ![c] = x]
    BY <1>1, <1>3 DEF CallBreaks, LlmInv, LlmTyped, Call
  <2> HIDE DEF x
  <2> QED
    BY <1>1, <2>1, <2>2, EndedFacts, UnrecordedStep
<1>4. CASE Abandon(c)
  <2> DEFINE x == [llmCalls[c] EXCEPT !.pc = "closed"]
  <2>1. /\ x \in Call /\ x.pc = "closed" /\ x.pieces = llmCalls[c].pieces
    BY <1>1, <1>4 DEF Call, CallSteps
  <2>2. llmCalls' = [llmCalls EXCEPT ![c] = x]
    BY <1>1, <1>4 DEF Abandon, LlmInv, LlmTyped, Call
  <2> HIDE DEF x
  <2> QED
    BY <1>1, <2>1, <2>2, UnrecordedStep
<1> QED
  BY <1>2, <1>3, <1>4

(* A call is recorded, or Langfuse refuses the record; then it is over.    *)
LEMMA RecordCallInv ==
  ASSUME LlmInv, NEW c \in Callers, NEW pc \in {"done", "raised"}, RecordCall(c, pc)
  PROVE  LlmInv'
<1> DEFINE x == [llmCalls[c] EXCEPT !.pc = pc]
           h == IF llmCalls[c].kind = "generate" /\ pc = "done" THEN llmCalls[c].pieces
                ELSE heard[c]
           g == Generation(c, pc = "raised")
           n == Len(generations)
<1>1. /\ llmCalls[c] \in Call /\ heard[c] \in PieceText /\ HeardAll(c) /\ RecordedOnce(c)
      /\ llmCalls[c].pieces \in PieceText /\ llmCalls[c].usage \in SomeUsage
      /\ llmCalls \in [Callers -> Call] /\ heard \in [Callers -> PieceText]
      /\ generations \in Seq(Record) /\ n \in Nat /\ DOMAIN generations = 1..n
  BY DEF LlmInv, LlmTyped, Call
<1>2. /\ llmCalls[c].pc = IF pc = "done" THEN "record done" ELSE "record raised"
      /\ tracer' = tracer /\ ocrRun' = ocrRun
  BY DEF RecordCall, Recording
<1>3. /\ x \in Call /\ x.pc = pc /\ x.pieces = llmCalls[c].pieces /\ x.kind = llmCalls[c].kind
  BY <1>1 DEF Call, CallSteps
<1>4. llmCalls' = [llmCalls EXCEPT ![c] = x]
  BY <1>1 DEF RecordCall, Call
<1>5. h \in PieceText /\ h = llmCalls[c].pieces
  BY <1>1, <1>2 DEF HeardAll
<1>6. heard' = [heard EXCEPT ![c] = h]
  BY <1>1 DEF RecordCall
<1>7. g \in Record /\ g.call = c /\ g.output = llmCalls[c].pieces /\ g.error = (pc = "raised")
  BY <1>1, Zenon DEF Generation, Record
<1>8. \/ tracer = "langfuse" /\ generations' = Append(generations, g) /\ dropped' = dropped
      \/ tracer = "langfuse" /\ generations' = generations /\ dropped' = dropped \cup {c}
      \/ tracer = "noop" /\ generations' = generations /\ dropped' = dropped
  BY DEF RecordCall
<1>9. TracesOf(c) = {} /\ c \notin dropped
  BY <1>1, <1>2 DEF RecordedOnce
<1> HIDE DEF x, h, g
<1>10. /\ llmCalls'[c] = x /\ heard'[c] = h
       /\ \A d \in Callers : d # c => llmCalls'[d] = llmCalls[d] /\ heard'[d] = heard[d]
  BY <1>1, <1>4, <1>6
<1>11. LlmTyped'
  <2>1. generations' \in Seq(Record) /\ dropped' \subseteq Callers
    BY <1>1, <1>7, <1>8 DEF LlmInv, LlmTyped
  <2> QED
    BY <2>1, <1>2, <1>3, <1>4, <1>5, <1>6 DEF LlmInv, LlmTyped
<1>12. FinishedIsWhole'
  BY <1>2 DEF LlmInv, FinishedIsWhole
<1>13. \A d \in Callers : d # c => HeardAll(d)' /\ RecordedOnce(d)'
  BY <1>2, <1>7, <1>8, <1>10, OtherCalls
<1>14. HeardAll(c)'
  BY <1>3, <1>5, <1>10 DEF HeardAll
<1>15. RecordedOnce(c)'
  <2>1. CASE \/ tracer = "langfuse" /\ generations' = generations /\ dropped' = dropped \cup {c}
             \/ tracer = "noop" /\ generations' = generations /\ dropped' = dropped
    <3>1. TracesOf(c)' = {}
      BY <2>1, <1>9 DEF TracesOf
    <3>2. tracer' = "langfuse" => c \in dropped'
      BY <2>1, <1>2
    <3> QED
      BY <3>1, <3>2, <1>3, <1>10 DEF RecordedOnce
  <2>2. CASE tracer = "langfuse" /\ generations' = Append(generations, g) /\ dropped' = dropped
    <3>1. /\ DOMAIN generations' = 1..(n + 1) /\ generations'[n + 1] = g
          /\ \A i \in 1..n : generations'[i] = generations[i]
      BY <2>2, <1>1, <1>7
    <3>2. \A i \in 1..(n + 1) : i \in 1..n \/ i = n + 1
      BY <1>1
    <3>3. TracesOf(c)' = {n + 1}
      BY <3>1, <3>2, <1>1, <1>7, <1>9 DEF TracesOf
    <3>4. c \notin dropped'
      BY <2>2, <1>9
    <3> QED
      BY <3>1, <3>3, <3>4, <1>3, <1>5, <1>7, <1>10 DEF RecordedOnce
  <2> QED
    BY <2>1, <2>2, <1>8
<1> QED
  BY <1>11, <1>12, <1>13, <1>14, <1>15 DEF LlmInv

(* A step that touches no call.                                            *)
LEMMA UnchangedCalls ==
  ASSUME LlmInv, UNCHANGED <<tracer, llmCalls, heard, generations, dropped>>
  PROVE  \A c \in Callers : HeardAll(c)' /\ RecordedOnce(c)'
<1>1. SUFFICES ASSUME NEW c \in Callers PROVE HeardAll(c)' /\ RecordedOnce(c)'
  OBVIOUS
<1>2. HeardAll(c) /\ RecordedOnce(c) /\ TracesOf(c)' = TracesOf(c)
  BY DEF LlmInv, TracesOf
<1>3. HeardAll(c)'
  BY <1>2 DEF HeardAll
<1>4. RecordedOnce(c)'
  BY <1>2 DEF RecordedOnce
<1> QED
  BY <1>3, <1>4

(* A step of the OCR run.                                                  *)
LEMMA LogOcrRunInv == LlmInv /\ LogOcrRun => LlmInv'
<1> SUFFICES ASSUME LlmInv, LogOcrRun PROVE LlmInv'
  OBVIOUS
<1>1. ocrRun \in OcrRun /\ FinishedIsWhole
  BY DEF LlmInv, LlmTyped
<1>2. ocrRun' \in OcrRun /\ FinishedIsWhole'
  <2> USE <1>1, LlmAssumption DEF LeftAs, OcrRun, FinishedIsWhole
  <2>1. CASE CreateRun
    BY <2>1 DEF CreateRun
  <2>2. CASE LogValue
    <3>1. ocrRun.logged + 1 \in 0..ParamCount
      BY <2>2 DEF LogValue
    <3> QED
      BY <2>2, <3>1 DEF LogValue
  <2>3. CASE EndRun
    BY <2>3 DEF EndRun
  <2> QED
    BY <2>1, <2>2, <2>3 DEF LogOcrRun
<1>3. LlmTyped'
  BY <1>2 DEF LlmInv, LlmTyped, LogOcrRun
<1>4. \A c \in Callers : HeardAll(c)' /\ RecordedOnce(c)'
  BY UnchangedCalls DEF LogOcrRun
<1> QED
  BY <1>2, <1>3, <1>4 DEF LlmInv

(* Every step of the calls keeps the invariant.                            *)
LEMMA LlmNextInv == LlmInv /\ [LlmNext]_llmVars => LlmInv'
<1> SUFFICES ASSUME LlmInv, [LlmNext]_llmVars PROVE LlmInv'
  OBVIOUS
<1>1. CASE UNCHANGED llmVars
  BY <1>1, UnchangedCalls DEF llmVars, LlmInv, LlmTyped, FinishedIsWhole
<1>2. CASE LlmNext
  BY <1>2, CallLlmInv, WholeAnswerInv, StreamLineInv, StreamEndsInv, RecordCallInv,
     LogOcrRunInv
  DEF LlmNext
<1> QED
  BY <1>1, <1>2

(* The calls keep their types and their invariant.                         *)
THEOREM LlmInvariant == LlmSpec => [](LlmInv /\ LlmTypeOK)
<1>1. ASSUME LlmInv PROVE LlmTypeOK
  <2>1. \A c \in Callers : llmCalls[c].usage \in SomeUsage /\ heard[c] \in PieceText
    BY <1>1 DEF LlmInv, LlmTyped, Call
  <2>2. \A i \in DOMAIN generations : generations[i] \in Record
    BY <1>1 DEF LlmInv, LlmTyped
  <2>3. \A i \in DOMAIN generations : generations[i].call \in Callers
    BY <2>2 DEF Record
  <2> QED
    BY <1>1, <2>1, <2>3 DEF LlmInv, LlmTyped, OcrRun, LlmTypeOK, SomeUsage, PieceText
<1> QED
  BY <1>1, LlmInitInv, LlmNextInv, PTL DEF LlmSpec

(* With Langfuse on, a call that is over has exactly one record or one     *)
(* that was refused, and the record tells what the caller got, of whole    *)
(* answers and of streams, ended or broken; a run that MLflow shows as     *)
(* finished has all its values (llm/traced.py, mlflow_tracker.py).         *)
THEOREM TracesTell == LlmSpec => []TracesTellCalls
<1>1. ASSUME LlmInv PROVE TracesTellCalls
  <2>1. ASSUME NEW c \in Callers, llmCalls[c].pc \in {"done", "raised"}
        PROVE  \A i \in TracesOf(c) :
                 /\ generations[i].output = heard[c]
                 /\ generations[i].error = (llmCalls[c].pc = "raised")
    BY <1>1, <2>1 DEF LlmInv, RecordedOnce
  <2>2. ASSUME NEW c \in Callers, llmCalls[c].pc = "closed" PROVE TracesOf(c) = {}
    BY <1>1, <2>2 DEF LlmInv, RecordedOnce
  <2>3. ASSUME NEW c \in Callers, llmCalls[c].pc \in {"done", "raised"}, tracer = "langfuse"
        PROVE  Cardinality(TracesOf(c)) = IF c \in dropped THEN 0 ELSE 1
    <3>1. IF c \in dropped THEN TracesOf(c) = {} ELSE \E i : TracesOf(c) = {i}
      BY <1>1, <2>3 DEF LlmInv, RecordedOnce
    <3> QED
      BY <3>1, FS_EmptySet, FS_Singleton
  <2> QED
    BY <1>1, <2>1, <2>2, <2>3 DEF LlmInv, FinishedIsWhole, TracesTellCalls
<1> QED
  BY <1>1, LlmInitInv, LlmNextInv, PTL DEF LlmSpec

-----------------------------------------------------------------------------
(* The resolver of the files that can be compared.                         *)

(* A set of numbers that is not empty has a least one.                     *)
LEMMA LeastFile ==
  ASSUME NEW S \in SUBSET Nat, S # {}
  PROVE  \E n \in S : \A m \in S : n <= m
<1>1. PICK x \in S : \A y \in S : ~(<<y, x>> \in OpToRel(<, Nat))
  BY NatLessThanWellFounded, WFMin
<1>2. \A y \in S : ~(y < x)
  BY <1>1 DEF OpToRel
<1> QED
  BY <1>2

(* The tables of the resolver, one after each file.                        *)
Tables(files, table, n) ==
  /\ table \in [0..n -> {table[i] : i \in 0..n}]
  /\ table[0] = <<>>
  /\ \A i \in 1..n : table[i] = Register(table[i - 1], files[i])

(* There are such tables, for any number of files.                         *)
LEMMA TablesExist ==
  ASSUME NEW files, NEW n \in Nat
  PROVE  \E table : Tables(files, table, n)
<1> DEFINE Bad == {k \in Nat : ~\E table : Tables(files, table, k)}
<1>1. SUFFICES ASSUME Bad # {} PROVE FALSE
  OBVIOUS
<1>2. PICK k \in Bad : \A m \in Bad : k <= m
  BY <1>1, LeastFile
<1>3. CASE k = 0
  <2> DEFINE none == [i \in {0} |-> <<>>]
  <2>1. Tables(files, none, 0)
    BY DEF Tables
  <2> QED
    BY <1>2, <1>3, <2>1
<1>4. CASE k # 0
  <2>1. k - 1 \in Nat /\ k - 1 \notin Bad
    BY <1>2, <1>4
  <2>2. PICK table : Tables(files, table, k - 1)
    BY <2>1
  <2> DEFINE more == [i \in 0..k |-> IF i = k THEN Register(table[k - 1], files[k]) ELSE table[i]]
  <2>3. more[0] = <<>> /\ \A i \in 1..k : more[i] = Register(more[i - 1], files[i])
    BY <1>2, <1>4, <2>2 DEF Tables
  <2>4. Tables(files, more, k)
    BY <2>3 DEF Tables
  <2> QED
    BY <1>2, <2>4
<1> QED
  BY <1>3, <1>4

(* The resolver's table is the last of such tables.                        *)
LEMMA ResolverIsLast ==
  ASSUME NEW t, Len(Scan(t)) \in Nat
  PROVE  \E table : /\ Tables(Scan(t), table, Len(Scan(t)))
                    /\ DocumentResolver(t) = table[Len(Scan(t))]
<1> DEFINE files == Scan(t)
           Body(g) == [n \in 0..Len(files) |->
                         IF n = 0 THEN <<>> ELSE Register(g[n - 1], files[n])]
           chosen == CHOOSE g : g = Body(g)
<1>1. PICK table : Tables(files, table, Len(files))
  BY TablesExist
<1>2. table = Body(table)
  <2>1. table = [n \in 0..Len(files) |-> table[n]]
    BY <1>1 DEF Tables
  <2>2. \A n \in 0..Len(files) :
          table[n] = IF n = 0 THEN <<>> ELSE Register(table[n - 1], files[n])
    <3>1. /\ table[0] = <<>>
          /\ \A n \in 1..Len(files) : table[n] = Register(table[n - 1], files[n])
      BY <1>1 DEF Tables
    <3>2. \A n \in 0..Len(files) : n = 0 \/ n \in 1..Len(files)
      OBVIOUS
    <3> QED
      BY <3>1, <3>2
  <2> QED
    BY <2>1, <2>2
<1>3. chosen = Body(chosen)
  BY <1>2
<1>4. DocumentResolver(t) = chosen[Len(files)]
  BY DEF DocumentResolver
<1> HIDE DEF chosen
<1>5. Tables(files, chosen, Len(files))
  <2>1. /\ DOMAIN chosen = 0..Len(files) /\ chosen[0] = <<>>
        /\ \A i \in 1..Len(files) : chosen[i] = Register(chosen[i - 1], files[i])
    BY <1>3
  <2>2. chosen = [i \in 0..Len(files) |-> chosen[i]]
    BY <1>3
  <2> QED
    BY <2>1, <2>2 DEF Tables
<1> QED
  BY <1>4, <1>5

(* What registering a file does to the entries of the table.               *)
RegisterEffect(table, e, new) ==
  /\ new[<<"id", e.content>>] = e
  /\ DOMAIN new = DOMAIN table \cup {<<"id", e.content>>, <<"name", e.name>>}
  /\ \A c : c # e.content /\ <<"id", c>> \in DOMAIN table =>
       new[<<"id", c>>] = table[<<"id", c>>]
  /\ \A n : <<"name", n>> \in DOMAIN table => new[<<"name", n>>] = table[<<"name", n>>]
  /\ <<"name", e.name>> \notin DOMAIN table => new[<<"name", e.name>>] = e

(* Registering has that effect.                                            *)
LEMMA RegisterFacts ==
  ASSUME NEW table, NEW e
  PROVE  RegisterEffect(table, e, Register(table, e))
<1> DEFINE id == <<"id", e.content>>
           name == <<"name", e.name>>
           named == Put(table, id, e)
<1>1. \A c, n : <<"id", c>> # <<"name", n>>
  OBVIOUS
<1>2. /\ DOMAIN named = DOMAIN table \cup {id} /\ named[id] = e
      /\ \A k \in DOMAIN table : k # id => named[k] = table[k]
  BY DEF Put
<1>3. Register(table, e) = IF name \in DOMAIN named THEN named ELSE Put(named, name, e)
  BY DEF Register
<1> HIDE DEF named
<1>4. /\ DOMAIN Put(named, name, e) = DOMAIN named \cup {name}
      /\ Put(named, name, e)[name] = e
      /\ \A k \in DOMAIN named : k # name => Put(named, name, e)[k] = named[k]
  BY DEF Put
<1>5. \A c : <<"id", c>> = id => c = e.content
  OBVIOUS
<1>6. name # id
  BY <1>1
<1>7. CASE name \in DOMAIN named
  BY <1>1, <1>2, <1>3, <1>5, <1>6, <1>7 DEF RegisterEffect
<1>8. CASE name \notin DOMAIN named
  BY <1>1, <1>2, <1>3, <1>4, <1>5, <1>6, <1>8 DEF RegisterEffect
<1> QED
  BY <1>7, <1>8

(* The elements of two sequences that are joined.                          *)
LEMMA JoinedFacts ==
  ASSUME NEW S, NEW T, NEW a \in Seq(S), NEW b \in Seq(T)
  PROVE  /\ a \o b \in Seq(S \cup T)
         /\ Len(a \o b) = Len(a) + Len(b) /\ Len(a) \in Nat /\ Len(b) \in Nat
         /\ \A i \in 1..Len(a \o b) :
              IF i <= Len(a) THEN (a \o b)[i] \in S ELSE (a \o b)[i] \in T
<1>1. a \in Seq(S \cup T) /\ b \in Seq(S \cup T) /\ Len(a) \in Nat /\ Len(b) \in Nat
  OBVIOUS
<1>2. /\ a \o b \in Seq(S \cup T) /\ Len(a \o b) = Len(a) + Len(b)
      /\ \A i \in 1..(Len(a) + Len(b)) :
           (a \o b)[i] = IF i <= Len(a) THEN a[i] ELSE b[i - Len(a)]
  BY <1>1, ConcatProperties
<1>3. \A i \in 1..(Len(a) + Len(b)) :
        IF i <= Len(a) THEN i \in 1..Len(a) ELSE i - Len(a) \in 1..Len(b)
  BY <1>1
<1>4. (\A i \in 1..Len(a) : a[i] \in S) /\ (\A i \in 1..Len(b) : b[i] \in T)
  OBVIOUS
<1> QED
  BY <1>1, <1>2, <1>3, <1>4

(* The files of a tree, in the order in which they are registered, have    *)
(* levels of access that do not fall.                                      *)
LEMMA ScanFacts ==
  ASSUME NEW t \in DataTrees
  PROVE  /\ Len(Scan(t)) \in Nat /\ DOMAIN Scan(t) = 1..Len(Scan(t))
         /\ \A i \in 1..Len(Scan(t)) : AccessOf(Scan(t)[i]) \in Nat
         /\ \A i, j \in 1..Len(Scan(t)) :
              i <= j => AccessOf(Scan(t)[i]) <= AccessOf(Scan(t)[j])
<1> DEFINE Open == FilesIn("slack") \cup FilesIn("googledrive")
           Closed == FilesIn("onedrive")
           o == t.slack \o t.googledrive
<1>1. /\ t.slack \in Seq(FilesIn("slack")) /\ t.googledrive \in Seq(FilesIn("googledrive"))
      /\ t.onedrive \in Seq(Closed)
  BY CompositionAssumption
<1>2. (\A e \in Open : AccessOf(e) = 1) /\ (\A e \in Closed : AccessOf(e) = 2)
  BY DEF FilesIn, AccessOf
<1>3. o \in Seq(Open)
  BY <1>1, JoinedFacts
<1>4. Scan(t) = o \o t.onedrive
  BY DEF Scan
<1> HIDE DEF Open, Closed, o
<1>5. /\ Scan(t) \in Seq(Open \cup Closed) /\ Len(o) \in Nat
      /\ \A i \in 1..Len(Scan(t)) :
           IF i <= Len(o) THEN Scan(t)[i] \in Open ELSE Scan(t)[i] \in Closed
  BY <1>1, <1>3, <1>4, JoinedFacts
<1>6. Len(Scan(t)) \in Nat /\ DOMAIN Scan(t) = 1..Len(Scan(t))
  BY <1>5
<1>7. \A i \in 1..Len(Scan(t)) : AccessOf(Scan(t)[i]) = IF i <= Len(o) THEN 1 ELSE 2
  BY <1>2, <1>5
<1> QED
  BY <1>5, <1>6, <1>7

(* Each of the files is compared under its name and its content, and under *)
(* no level of access below its own.                                       *)
Resolves(table, e) ==
  /\ <<"id", e.content>> \in DOMAIN table /\ <<"name", e.name>> \in DOMAIN table
  /\ AccessOf(table[<<"id", e.content>>]) >= AccessOf(e)
  /\ table[<<"id", e.content>>].content = e.content
  /\ table[<<"name", e.name>>].name = e.name

(* A name means a file of that name.                                       *)
NamesMean(table) ==
  \A x : <<"name", x>> \in DOMAIN table => table[<<"name", x>>].name = x

(* So it is after each file.                                               *)
LEMMA TablesResolve ==
  ASSUME NEW t \in DataTrees, NEW table, NEW L \in Nat, L = Len(Scan(t)),
         Tables(Scan(t), table, L)
  PROVE  \A n \in 0..L : \A i \in 1..n : Resolves(table[n], Scan(t)[i])
<1> DEFINE files == Scan(t)
           Fine(n) == NamesMean(table[n]) /\ \A i \in 1..n : Resolves(table[n], files[i])
           Bad == {n \in Nat : n <= L /\ ~Fine(n)}
<1>1. SUFFICES ASSUME Bad # {} PROVE FALSE
  OBVIOUS
<1>2. PICK k \in Bad : \A m \in Bad : k <= m
  BY <1>1, LeastFile
<1>3. k # 0
  <2>1. DOMAIN table[0] = {}
    BY DEF Tables
  <2>2. Fine(0)
    BY <2>1 DEF NamesMean
  <2> QED
    BY <1>2, <2>2
<1>4. k \in 1..L /\ k - 1 \in Nat /\ Fine(k - 1)
  BY <1>2, <1>3
<1> DEFINE e == files[k]
           before == table[k - 1]
           after == table[k]
<1>5. after = Register(before, e)
  BY <1>4 DEF Tables
<1>6. \A i \in 1..L : AccessOf(files[i]) \in Nat /\ (i <= k => AccessOf(files[i]) <= AccessOf(e))
  BY <1>4, ScanFacts
<1>9. /\ \A i \in 1..(k - 1) : Resolves(before, files[i])
      /\ NamesMean(before)
  BY <1>4
<1>10. e = files[k]
  OBVIOUS
<1> HIDE DEF e, before, after
<1>11. RegisterEffect(before, e, after)
  BY <1>5, RegisterFacts
<1> HIDE DEF Fine
<1>7. ASSUME NEW i \in 1..k PROVE Resolves(after, files[i])
  <2> DEFINE f == files[i]
             id == <<"id", f.content>>
             name == <<"name", f.name>>
  <2>0. i \in 1..L /\ AccessOf(f) <= AccessOf(e) /\ AccessOf(f) \in Nat /\ AccessOf(e) \in Nat
    <3>1. i \in 1..L /\ i <= k
      BY <1>4
    <3> QED
      BY <3>1, <1>4, <1>6, <1>10
  <2>1. CASE i = k
    <3>0. f = e
      BY <2>1, <1>10
    <3>1. after[id] = e /\ {id, name} \subseteq DOMAIN after
      BY <3>0, <1>11 DEF RegisterEffect
    <3>2. after[name].name = f.name
      <4>1. CASE name \notin DOMAIN before
        BY <4>1, <3>0, <1>11 DEF RegisterEffect
      <4>2. CASE name \in DOMAIN before
        <5>1. after[name] = before[name]
          BY <4>2, <1>11 DEF RegisterEffect
        <5> QED
          BY <5>1, <4>2, <1>9 DEF NamesMean
      <4> QED
        BY <4>1, <4>2
    <3> QED
      BY <3>0, <3>1, <3>2, <2>0 DEF Resolves
  <2>2. CASE i # k
    <3>1. Resolves(before, f)
      <4>1. i \in 1..(k - 1)
        BY <2>2, <1>4
      <4> QED
        BY <4>1, <1>9
    <3>2. /\ {id, name} \subseteq DOMAIN after /\ after[name] = before[name]
          /\ f.content # e.content => after[id] = before[id]
          /\ f.content = e.content => after[id] = e
      BY <3>1, <1>11 DEF Resolves, RegisterEffect
    <3> QED
      BY <3>1, <3>2, <2>0 DEF Resolves
  <2> QED
    BY <2>1, <2>2
<1>8. NamesMean(after)
  <2>1. ASSUME NEW x, <<"name", x>> \in DOMAIN after
        PROVE  after[<<"name", x>>].name = x
    <3>1. CASE <<"name", x>> \in DOMAIN before
      <4>1. after[<<"name", x>>] = before[<<"name", x>>]
        BY <3>1, <1>11 DEF RegisterEffect
      <4> QED
        BY <3>1, <4>1, <1>9 DEF NamesMean
    <3>2. CASE <<"name", x>> \notin DOMAIN before
      <4>1. <<"name", x>> = <<"name", e.name>>
        BY <2>1, <3>2, <1>11 DEF RegisterEffect
      <4> QED
        BY <3>2, <4>1, <1>11 DEF RegisterEffect
    <3> QED
      BY <3>1, <3>2
  <2> QED
    BY <2>1 DEF NamesMean
<1> QED
  BY <1>2, <1>4, <1>7, <1>8 DEF after, Fine

-----------------------------------------------------------------------------
(* The services of the process.                                            *)

Documents == 1..MaxUses
UseSteps == {"idle", "assembles", "ready", "ok", "error"}
Use ==
  [pc : UseSteps, call : {"none", "ingest", "search", "health"}, doc : 0..MaxUses,
   with : Nat, expects : SUBSET (StoreParts \X Documents),
   found : SUBSET (StoreParts \X Documents), report : Seq(BOOLEAN),
   wasUp : SUBSET Servers, wasDown : SUBSET Servers]

CompositionTyped ==
  /\ settings \in Configurations /\ dataTree \in DataTrees
  /\ process \in {"down", "serving"} /\ up \subseteq Servers
  /\ flips \in 0..MaxFlips /\ useCount \in 0..MaxUses
  /\ assembled \in Nat /\ cached \in Seq(1..assembled)
  /\ answered \subseteq StoreParts \X Documents
  /\ uses \in [Clients -> Use]

(* While it serves, the process has the table of the files.                *)
Registered == process = "serving" => registry = DocumentResolver(dataTree)

(* The store that a part has now.                                          *)
StoreNow(part) == StoreOf(cached[1], part)

(* What was answered is in the stores of now; those in memory are there.   *)
AnswersKept ==
  \A x \in answered : /\ <<StoreNow(x[1]), x[2]>> \in contents
                      /\ settings[x[1]] = "memory" => cached # <<>>

(* A request works with the first assembly of the process; it expects what *)
(* was answered before it, and a search that was made has found that.      *)
UseSound(c) ==
  LET u == uses[c] IN
  /\ u.pc = "ready" => cached # <<>> /\ u.with = cached[1]
  /\ u.pc \in {"assembles", "ready"} => u.expects \subseteq answered /\ u.doc \in Documents
  /\ u.call = "search" /\ u.pc = "ok" => u.expects \subseteq u.found

(* An entry of a report was true while its request was there.              *)
Truthful(u, i) ==
  LET server == BackendOf(HealthParts[i]) IN
  IF u.report[i] THEN server \in Servers => server \in u.wasUp
                 ELSE server \in u.wasDown
ReportSound(c) ==
  LET u == uses[c] IN
  /\ u.call = "health" => up \subseteq u.wasUp /\ Servers \ up \subseteq u.wasDown
  /\ u.call # "health" => u.report = <<>>
  /\ Len(u.report) <= 5 /\ (u.pc \in {"assembles", "ready"} => Len(u.report) < 5)
  /\ \A i \in 1..Len(u.report) : Truthful(u, i)

CompositionInv ==
  /\ CompositionTyped /\ Registered /\ AnswersKept
  /\ \A c \in Clients : UseSound(c) /\ ReportSound(c)

(* The settings of a part, and the parts of a report.                      *)
LEMMA PartFacts ==
  ASSUME CompositionTyped
  PROVE  /\ \A part \in StoreParts : settings[part] \in {"memory", "postgres", "neo4j"}
         /\ Len(HealthParts) = 5
         /\ \A i \in 1..5 : BackendOf(HealthParts[i]) \in Servers \cup {"memory", "none"}
<1>1. \A part \in StoreParts : settings[part] \in {"memory", "postgres", "neo4j"}
  BY CompositionAssumption DEF CompositionTyped, StoreParts
<1>2. /\ HealthParts[1] = "embedder" /\ HealthParts[2] = "vector" /\ HealthParts[3] = "graph"
      /\ HealthParts[4] = "llm" /\ HealthParts[5] = "search" /\ Len(HealthParts) = 5
  BY DEF HealthParts
<1>3. \A part \in StoreParts \cup {"embedder", "llm"} :
        BackendOf(part) \in Servers \cup {"memory", "none"}
  BY <1>1 DEF BackendOf, Servers, StoreParts
<1>4. \A i \in 1..5 : HealthParts[i] \in StoreParts \cup {"embedder", "llm"}
  <2>1. \A i \in 1..5 : i = 1 \/ i = 2 \/ i = 3 \/ i = 4 \/ i = 5
    OBVIOUS
  <2> QED
    BY <1>2, <2>1 DEF StoreParts
<1> QED
  BY <1>1, <1>2, <1>3, <1>4

(* A thread without a request.                                             *)
LEMMA NoUseFacts ==
  /\ NoUse \in Use /\ NoUse.pc = "idle" /\ NoUse.call = "none" /\ NoUse.report = <<>>
<1>1. <<>> \in Seq(BOOLEAN) /\ 0 \in 0..MaxUses
  BY CompositionAssumption
<1> QED
  BY <1>1 DEF NoUse, Use, UseSteps

(* The start, with the process down.                                       *)
LEMMA CompositionInitInv == CompositionInit => CompositionInv
<1> SUFFICES ASSUME CompositionInit PROVE CompositionInv
  OBVIOUS
<1>1. \A c \in Clients : uses[c] = NoUse
  BY DEF CompositionInit
<1>2. CompositionTyped
  BY NoUseFacts, CompositionAssumption DEF CompositionInit, CompositionTyped
<1>3. Registered /\ AnswersKept
  BY DEF CompositionInit, Registered, AnswersKept
<1>4. ASSUME NEW c \in Clients PROVE UseSound(c) /\ ReportSound(c)
  <2>1. uses[c] = NoUse /\ Len(NoUse.report) = 0
    BY <1>1, NoUseFacts
  <2> QED
    BY <2>1, NoUseFacts DEF UseSound, ReportSound
<1> QED
  BY <1>2, <1>3, <1>4 DEF CompositionInv

(* What the other threads do leaves a request sound, as long as the first  *)
(* assembly stays the first and nothing that was answered is lost.         *)
LEMMA UseKept ==
  ASSUME CompositionInv, NEW c \in Clients, uses'[c] = uses[c], settings' = settings,
         cached # <<>> => cached' # <<>> /\ cached'[1] = cached[1],
         answered \subseteq answered'
  PROVE  /\ UseSound(c)'
         /\ up' = up => ReportSound(c)'
<1>1. UseSound(c) /\ ReportSound(c)
  BY DEF CompositionInv
<1>2. UseSound(c)'
  BY <1>1 DEF UseSound
<1>3. up' = up => ReportSound(c)'
  BY <1>1 DEF ReportSound, Truthful, BackendOf
<1> QED
  BY <1>2, <1>3

(* A step of one thread that changes nothing but its own request.          *)
LEMMA OwnStep ==
  ASSUME CompositionInv, NEW c \in Clients, NEW u \in Use,
         uses' = [uses EXCEPT ![c] = u],
         UNCHANGED <<settings, dataTree, process, up, flips, registry, cached, assembled,
                     contents, answered>>,
         useCount' \in 0..MaxUses,
         UseSound(c)', ReportSound(c)'
  PROVE  CompositionInv'
<1>1. CompositionTyped'
  BY DEF CompositionInv, CompositionTyped
<1>2. Registered' /\ AnswersKept'
  BY DEF CompositionInv, Registered, AnswersKept, StoreNow, StoreOf
<1>3. \A d \in Clients : d # c => uses'[d] = uses[d]
  BY DEF CompositionInv, CompositionTyped
<1>4. \A d \in Clients : d # c => UseSound(d)' /\ ReportSound(d)'
  BY <1>3, UseKept
<1> QED
  BY <1>1, <1>2, <1>4 DEF CompositionInv

(* The process starts; the table of the files is made.                     *)
LEMMA ServeInv == CompositionInv /\ Serve => CompositionInv'
<1> SUFFICES ASSUME CompositionInv, Serve PROVE CompositionInv'
  OBVIOUS
<1>1. CompositionTyped'
  BY DEF Serve, CompositionInv, CompositionTyped
<1>2. Registered' /\ AnswersKept'
  BY DEF Serve, CompositionInv, Registered, AnswersKept, StoreNow, StoreOf
<1>3. \A d \in Clients : UseSound(d)' /\ ReportSound(d)'
  BY UseKept DEF Serve
<1> QED
  BY <1>1, <1>2, <1>3 DEF CompositionInv

(* The process dies: what was answered by stores in memory is forgotten    *)
(* with them, what is on the servers stays.                                *)
LEMMA ProcessDiesInv == CompositionInv /\ ProcessDies => CompositionInv'
<1> SUFFICES ASSUME CompositionInv, ProcessDies PROVE CompositionInv'
  OBVIOUS
<1>1. /\ cached' = <<>> /\ process' = "down" /\ uses' = [d \in Clients |-> NoUse]
      /\ contents' = {x \in contents : x[1][1] = 0}
      /\ answered' = {x \in answered : settings[x[1]] # "memory"}
      /\ UNCHANGED <<settings, dataTree, up, flips, assembled, useCount>>
  BY DEF ProcessDies
<1>2. CompositionTyped'
  BY <1>1, NoUseFacts DEF CompositionInv, CompositionTyped
<1>3. Registered'
  BY <1>1 DEF Registered
<1>4. AnswersKept'
  <2>1. ASSUME NEW x \in answered'
        PROVE  <<StoreNow(x[1])', x[2]>> \in contents' /\ settings'[x[1]] # "memory"
    <3>1. x \in answered /\ settings[x[1]] # "memory"
      BY <1>1
    <3>2. <<StoreNow(x[1]), x[2]>> \in contents /\ StoreNow(x[1]) = <<0, x[1]>>
      BY <3>1 DEF CompositionInv, AnswersKept, StoreNow, StoreOf
    <3>3. <<<<0, x[1]>>, x[2]>> \in contents'
      BY <1>1, <3>2
    <3> QED
      BY <1>1, <3>1, <3>3 DEF StoreNow, StoreOf
  <2> QED
    BY <2>1 DEF AnswersKept
<1>5. ASSUME NEW d \in Clients PROVE UseSound(d)' /\ ReportSound(d)'
  <2>1. uses'[d] = NoUse /\ Len(NoUse.report) = 0
    BY <1>1, NoUseFacts
  <2> QED
    BY <2>1, NoUseFacts DEF UseSound, ReportSound
<1> QED
  BY <1>2, <1>3, <1>4, <1>5 DEF CompositionInv

(* A server goes down or comes back, and the reports under way know it.    *)
LEMMA ServerFlipsInv ==
  ASSUME CompositionInv, NEW s \in Servers, ServerFlips(s)
  PROVE  CompositionInv'
<1>1. up' \subseteq Servers /\ flips' \in 0..MaxFlips
  <2>1. flips \in 0..MaxFlips /\ flips < MaxFlips /\ flips' = flips + 1
    BY DEF ServerFlips, CompositionInv, CompositionTyped
  <2>2. up \subseteq Servers /\ up' = IF s \in up THEN up \ {s} ELSE up \cup {s}
    BY DEF ServerFlips, CompositionInv, CompositionTyped
  <2> QED
    BY <2>1, <2>2, CompositionAssumption
<1>2. /\ uses' = [d \in Clients |-> IF uses[d].call # "health" THEN uses[d] ELSE
           [uses[d] EXCEPT !.wasUp = @ \cup up', !.wasDown = @ \cup (Servers \ up')]]
      /\ UNCHANGED <<settings, dataTree, process, registry, cached, assembled, contents,
                     answered, useCount>>
  BY DEF ServerFlips
<1>3. ASSUME NEW d \in Clients
      PROVE  /\ uses'[d] \in Use
             /\ uses[d].call # "health" => uses'[d] = uses[d]
             /\ uses[d].call = "health" =>
                  /\ uses'[d].pc = uses[d].pc /\ uses'[d].call = uses[d].call
                  /\ uses'[d].with = uses[d].with /\ uses'[d].doc = uses[d].doc
                  /\ uses'[d].expects = uses[d].expects /\ uses'[d].found = uses[d].found
                  /\ uses'[d].report = uses[d].report
                  /\ uses'[d].wasUp = uses[d].wasUp \cup up'
                  /\ uses'[d].wasDown = uses[d].wasDown \cup (Servers \ up')
  <2>1. uses[d] \in Use
    BY DEF CompositionInv, CompositionTyped
  <2> QED
    BY <2>1, <1>1, <1>2 DEF Use
<1>4. CompositionTyped'
  <2>1. uses' \in [Clients -> Use]
    BY <1>2, <1>3
  <2> QED
    BY <2>1, <1>1, <1>2 DEF CompositionInv, CompositionTyped
<1>5. Registered' /\ AnswersKept'
  BY <1>2 DEF CompositionInv, Registered, AnswersKept, StoreNow, StoreOf
<1>6. ASSUME NEW d \in Clients PROVE UseSound(d)' /\ ReportSound(d)'
  <2>1. UseSound(d) /\ ReportSound(d)
    BY DEF CompositionInv
  <2>2. UseSound(d)'
    BY <2>1, <1>2, <1>3 DEF UseSound
  <2>3. ReportSound(d)'
    <3>1. CASE uses[d].call = "health"
      <4>1. \A i \in 1..Len(uses[d].report) : Truthful(uses[d], i)
        BY <2>1 DEF ReportSound
      <4>2. \A i \in 1..Len(uses[d].report) : Truthful(uses[d], i)'
        <5>1. SUFFICES ASSUME NEW i \in 1..Len(uses[d].report) PROVE Truthful(uses[d], i)'
          OBVIOUS
        <5>2. BackendOf(HealthParts[i])' = BackendOf(HealthParts[i])
          BY <1>2 DEF BackendOf
        <5>3. /\ uses'[d].report = uses[d].report
              /\ uses[d].wasUp \subseteq uses'[d].wasUp
              /\ uses[d].wasDown \subseteq uses'[d].wasDown
          BY <3>1, <1>3
        <5>4. Truthful(uses[d], i)
          BY <4>1
        <5> QED
          BY <5>2, <5>3, <5>4 DEF Truthful
      <4> QED
        BY <3>1, <4>2, <2>1, <1>3 DEF ReportSound
    <3>2. CASE uses[d].call # "health"
      BY <3>2, <2>1, <1>3 DEF ReportSound
    <3> QED
      BY <3>1, <3>2
  <2> QED
    BY <2>2, <2>3
<1> QED
  BY <1>4, <1>5, <1>6 DEF CompositionInv

(* A request comes; there are services, or it has to assemble some.        *)
LEMMA AsksInv ==
  ASSUME CompositionInv, NEW c \in Clients, NEW call \in {"ingest", "search", "health"},
         AsksForServices(c, call)
  PROVE  CompositionInv'
<1> DEFINE asked == [NoUse EXCEPT !.call = call, !.doc = useCount', !.expects = answered]
           timed == IF call # "health" THEN asked
                    ELSE [asked EXCEPT !.wasUp = up, !.wasDown = Servers \ up]
           u == IF cached = <<>> THEN [timed EXCEPT !.pc = "assembles"]
                ELSE [timed EXCEPT !.pc = "ready", !.with = cached[1]]
<1>1. /\ uses' = [uses EXCEPT ![c] = u]
      /\ UNCHANGED <<settings, dataTree, process, up, flips, registry, cached, assembled,
                     contents, answered>>
  BY DEF AsksForServices
<1>2. useCount' \in Documents /\ useCount' \in 0..MaxUses
  BY CompositionAssumption DEF AsksForServices, CompositionInv, CompositionTyped, Documents
<1>3. /\ answered \subseteq StoreParts \X Documents /\ up \subseteq Servers
      /\ cached \in Seq(1..assembled) /\ assembled \in Nat /\ uses \in [Clients -> Use]
  BY DEF CompositionInv, CompositionTyped
<1>4. cached # <<>> => cached[1] \in Nat
  BY <1>3
<1>5. /\ asked \in Use /\ asked.call = call /\ asked.doc = useCount'
      /\ asked.expects = answered /\ asked.report = <<>>
  BY <1>2, <1>3, NoUseFacts DEF Use
<1> HIDE DEF asked
<1>6. /\ timed \in Use /\ timed.call = call /\ timed.doc = useCount'
      /\ timed.expects = answered /\ timed.report = <<>>
      /\ call = "health" => timed.wasUp = up /\ timed.wasDown = Servers \ up
  BY <1>3, <1>5 DEF Use
<1> HIDE DEF timed
<1>7. /\ u \in Use /\ u.call = call /\ u.doc = useCount' /\ u.expects = answered
      /\ u.report = <<>> /\ u.wasUp = timed.wasUp /\ u.wasDown = timed.wasDown
      /\ u.pc \in {"assembles", "ready"}
      /\ u.pc = "ready" => cached # <<>> /\ u.with = cached[1]
  BY <1>4, <1>6 DEF Use, UseSteps
<1> HIDE DEF u
<1>8. uses'[c] = u /\ Len(u.report) = 0
  BY <1>1, <1>3, <1>7
<1>9. UseSound(c)'
  BY <1>1, <1>2, <1>7, <1>8 DEF UseSound
<1>10. ReportSound(c)'
  BY <1>1, <1>6, <1>7, <1>8 DEF ReportSound
<1> QED
  BY <1>1, <1>2, <1>7, <1>9, <1>10, OwnStep

(* A request is answered with an error.                                    *)
LEMMA FailsInv ==
  ASSUME CompositionInv, NEW c \in Clients, Fails(c)
  PROVE  CompositionInv'
<1> DEFINE u == [uses[c] EXCEPT !.pc = "error"]
<1>1. uses[c] \in Use /\ UseSound(c) /\ ReportSound(c) /\ useCount \in 0..MaxUses
  BY DEF CompositionInv, CompositionTyped
<1>2. /\ u \in Use /\ u.pc = "error" /\ u.call = uses[c].call /\ u.report = uses[c].report
      /\ u.wasUp = uses[c].wasUp /\ u.wasDown = uses[c].wasDown
  BY <1>1 DEF Use, UseSteps
<1>3. /\ uses' = [uses EXCEPT ![c] = u]
      /\ UNCHANGED <<settings, dataTree, process, up, flips, registry, cached, assembled,
                     contents, answered, useCount>>
  BY DEF Fails
<1> HIDE DEF u
<1>4. uses'[c] = u
  BY <1>3 DEF CompositionInv, CompositionTyped
<1>5. UseSound(c)'
  BY <1>2, <1>4 DEF UseSound
<1>6. ReportSound(c)'
  BY <1>1, <1>2, <1>3, <1>4 DEF ReportSound, Truthful, BackendOf
<1> QED
  BY <1>1, <1>2, <1>3, <1>5, <1>6, OwnStep

(* A thread has put services together; the first in the list are returned. *)
LEMMA AssemblesInv ==
  ASSUME CompositionInv, NEW c \in Clients, Assembles(c)
  PROVE  CompositionInv'
<1> DEFINE first == Returned(cached')
           u == [uses[c] EXCEPT !.pc = "ready", !.with = first]
<1>1. /\ uses[c] \in Use /\ UseSound(c) /\ ReportSound(c) /\ uses[c].pc = "assembles"
      /\ cached \in Seq(1..assembled) /\ assembled \in Nat /\ uses \in [Clients -> Use]
  BY DEF CompositionInv, CompositionTyped, Assembles, AtUse
<1>2. /\ assembled' = assembled + 1 /\ cached' = Append(cached, assembled + 1)
      /\ UNCHANGED <<settings, dataTree, process, up, flips, registry, contents, answered,
                     useCount>>
  BY DEF Assembles
<1>3. /\ cached' \in Seq(1..(assembled + 1)) /\ cached' # <<>> /\ first = cached'[1]
      /\ cached'[1] \in 1..(assembled + 1)
      /\ cached # <<>> => cached'[1] = cached[1]
  <2>1. cached \in Seq(1..(assembled + 1)) /\ assembled + 1 \in 1..(assembled + 1)
    <3>1. 1..assembled \subseteq 1..(assembled + 1)
      BY <1>1
    <3> QED
      BY <1>1, <3>1
  <2>2. cached' \in Seq(1..(assembled + 1)) /\ Len(cached') = Len(cached) + 1
    BY <1>2, <2>1
  <2>3. cached # <<>> => cached'[1] = cached[1]
    BY <1>2, <2>1
  <2>4. 1 \in 1..Len(cached') /\ Len(cached') # 0
    BY <2>1, <2>2
  <2>5. cached'[1] \in 1..(assembled + 1) /\ cached' # <<>>
    <3> DEFINE Numbers == 1..(assembled + 1)
    <3>1. cached' \in Seq(Numbers)
      BY <2>2
    <3> HIDE DEF Numbers
    <3>2. cached'[1] \in Numbers
      BY <3>1, <2>4
    <3>3. cached' # <<>>
      BY <3>1, <2>4
    <3> QED
      BY <3>2, <3>3 DEF Numbers
  <2>6. first = cached'[1]
    BY DEF Returned
  <2> QED
    BY <2>2, <2>3, <2>5, <2>6
<1> HIDE DEF first
<1>4. /\ u \in Use /\ u.pc = "ready" /\ u.with = first /\ u.call = uses[c].call
      /\ u.doc = uses[c].doc /\ u.expects = uses[c].expects /\ u.report = uses[c].report
      /\ u.wasUp = uses[c].wasUp /\ u.wasDown = uses[c].wasDown
  <2>1. first \in Nat
    BY <1>1, <1>3
  <2> QED
    BY <1>1, <2>1 DEF Use, UseSteps
<1>5. uses' = [uses EXCEPT ![c] = u]
  BY <1>1 DEF Assembles, first, Use
<1> HIDE DEF u
<1>6. /\ uses'[c] = u
      /\ \A d \in Clients : d # c => uses'[d] = uses[d]
  BY <1>1, <1>5
<1>7. CompositionTyped'
  BY <1>2, <1>3, <1>4, <1>5 DEF CompositionInv, CompositionTyped
<1>8. Registered'
  BY <1>2 DEF CompositionInv, Registered
<1>9. AnswersKept'
  <2>1. ASSUME NEW x \in answered
        PROVE  <<StoreNow(x[1])', x[2]>> \in contents
    <3>1. /\ <<StoreNow(x[1]), x[2]>> \in contents
          /\ settings[x[1]] = "memory" => cached # <<>>
      BY DEF CompositionInv, AnswersKept
    <3>2. StoreNow(x[1])' = StoreNow(x[1])
      BY <1>2, <1>3, <3>1 DEF StoreNow, StoreOf
    <3> QED
      BY <3>1, <3>2
  <2> QED
    BY <2>1, <1>2, <1>3 DEF AnswersKept
<1>10. \A d \in Clients : d # c => UseSound(d)' /\ ReportSound(d)'
  BY <1>2, <1>3, <1>6, UseKept
<1>11. UseSound(c)'
  BY <1>1, <1>2, <1>3, <1>4, <1>6 DEF UseSound
<1>12. ReportSound(c)'
  BY <1>1, <1>2, <1>4, <1>6 DEF ReportSound, Truthful, BackendOf
<1> QED
  BY <1>7, <1>8, <1>9, <1>10, <1>11, <1>12 DEF CompositionInv

(* An ingest reaches all three stores, and is answered.                    *)
LEMMA IngestsInv ==
  ASSUME CompositionInv, NEW c \in Clients, Ingests(c)
  PROVE  CompositionInv'
<1> DEFINE u == [uses[c] EXCEPT !.pc = "ok"]
           doc == uses[c].doc
<1>1. /\ uses[c] \in Use /\ UseSound(c) /\ ReportSound(c) /\ uses[c].pc = "ready"
      /\ uses[c].call = "ingest" /\ uses \in [Clients -> Use]
  BY DEF CompositionInv, CompositionTyped, Ingests, ReadyTo, AtUse
<1>2. cached # <<>> /\ uses[c].with = cached[1] /\ doc \in Documents
  BY <1>1 DEF UseSound
<1>3. /\ contents' = contents \cup {<<StoreNow(part), doc>> : part \in StoreParts}
      /\ answered' = answered \cup {<<part, doc>> : part \in StoreParts}
      /\ UNCHANGED <<settings, dataTree, process, up, flips, registry, cached, assembled,
                     useCount>>
  BY <1>2 DEF Ingests, StoreNow
<1>4. /\ u \in Use /\ u.pc = "ok" /\ u.call = "ingest" /\ u.report = uses[c].report
      /\ u.wasUp = uses[c].wasUp /\ u.wasDown = uses[c].wasDown
  BY <1>1 DEF Use, UseSteps
<1>5. uses' = [uses EXCEPT ![c] = u]
  BY DEF Ingests
<1> HIDE DEF u, doc
<1>6. /\ uses'[c] = u
      /\ \A d \in Clients : d # c => uses'[d] = uses[d]
  BY <1>1, <1>5
<1>7. CompositionTyped'
  <2>1. answered' \subseteq StoreParts \X Documents
    BY <1>2, <1>3 DEF CompositionInv, CompositionTyped
  <2> QED
    BY <2>1, <1>3, <1>4, <1>5 DEF CompositionInv, CompositionTyped
<1>8. Registered'
  BY <1>3 DEF CompositionInv, Registered
<1>9. AnswersKept'
  <2>1. ASSUME NEW x \in answered' PROVE <<StoreNow(x[1]), x[2]>> \in contents'
    <3>1. CASE x \in answered
      BY <3>1, <1>3 DEF CompositionInv, AnswersKept
    <3>2. CASE x \notin answered
      <4>1. PICK part \in StoreParts : x = <<part, doc>>
        BY <3>2, <1>3
      <4> QED
        BY <4>1, <1>3
    <3> QED
      BY <3>1, <3>2
  <2>2. \A x \in answered' : StoreNow(x[1])' = StoreNow(x[1])
    BY <1>3 DEF StoreNow, StoreOf
  <2> QED
    BY <2>1, <2>2, <1>2, <1>3 DEF AnswersKept
<1>10. \A d \in Clients : d # c => UseSound(d)' /\ ReportSound(d)'
  BY <1>3, <1>6, UseKept
<1>11. UseSound(c)'
  BY <1>4, <1>6 DEF UseSound
<1>12. ReportSound(c)'
  BY <1>1, <1>3, <1>4, <1>6 DEF ReportSound, Truthful, BackendOf
<1> QED
  BY <1>7, <1>8, <1>9, <1>10, <1>11, <1>12 DEF CompositionInv

(* A search finds what the stores of now hold, and all it expects.         *)
LEMMA SearchesInv ==
  ASSUME CompositionInv, NEW c \in Clients, Searches(c)
  PROVE  CompositionInv'
<1> DEFINE found == {x \in StoreParts \X Documents : <<StoreNow(x[1]), x[2]>> \in contents}
           u == [uses[c] EXCEPT !.pc = "ok", !.found = found]
<1>1. /\ uses[c] \in Use /\ UseSound(c) /\ ReportSound(c) /\ uses[c].pc = "ready"
      /\ uses \in [Clients -> Use] /\ useCount \in 0..MaxUses
      /\ answered \subseteq StoreParts \X Documents
  BY DEF CompositionInv, CompositionTyped, Searches, ReadyTo, AtUse
<1>2. uses[c].with = cached[1] /\ uses[c].expects \subseteq answered
  BY <1>1 DEF UseSound
<1>3. answered \subseteq found
  BY <1>1 DEF CompositionInv, AnswersKept
<1>4. /\ u \in Use /\ u.pc = "ok" /\ u.found = found /\ u.expects = uses[c].expects
      /\ u.call = uses[c].call /\ u.report = uses[c].report
      /\ u.wasUp = uses[c].wasUp /\ u.wasDown = uses[c].wasDown
  <2>1. found \in SUBSET (StoreParts \X Documents)
    OBVIOUS
  <2> HIDE DEF found
  <2> QED
    BY <1>1, <2>1 DEF Use, UseSteps
<1>5. /\ uses' = [uses EXCEPT ![c] = u]
      /\ UNCHANGED <<settings, dataTree, process, up, flips, registry, cached, assembled,
                     contents, answered, useCount>>
  BY <1>1, <1>2 DEF Searches, StoreNow, Documents, Use
<1> HIDE DEF found, u
<1>6. uses'[c] = u
  BY <1>1, <1>5
<1>7. UseSound(c)'
  BY <1>2, <1>3, <1>4, <1>6 DEF UseSound
<1>8. ReportSound(c)'
  BY <1>1, <1>4, <1>5, <1>6 DEF ReportSound, Truthful, BackendOf
<1> QED
  BY <1>1, <1>4, <1>5, <1>7, <1>8, OwnStep

(* A report asks the next part.                                            *)
LEMMA ChecksInv ==
  ASSUME CompositionInv, NEW c \in Clients, Checks(c)
  PROVE  CompositionInv'
<1> DEFINE old == uses[c].report
           n == Len(old) + 1
           pinged == Pinged(HealthParts[n])
           report == Append(old, pinged)
           u == [uses[c] EXCEPT !.report = report,
                   !.pc = IF Len(report) = 5 THEN "ok" ELSE "ready"]
<1>1. /\ uses[c] \in Use /\ UseSound(c) /\ ReportSound(c) /\ uses[c].pc = "ready"
      /\ uses[c].call = "health" /\ uses \in [Clients -> Use] /\ useCount \in 0..MaxUses
      /\ CompositionTyped
  BY DEF CompositionInv, CompositionTyped, Checks, ReadyTo, AtUse
<1>2. /\ old \in Seq(BOOLEAN) /\ Len(old) \in Nat /\ Len(old) < 5
      /\ up \subseteq uses[c].wasUp /\ Servers \ up \subseteq uses[c].wasDown
      /\ \A i \in 1..Len(old) : Truthful(uses[c], i)
  <2>1. old \in Seq(BOOLEAN)
    BY <1>1 DEF Use
  <2> QED
    BY <1>1, <2>1 DEF ReportSound
<1>3. pinged \in BOOLEAN
  BY DEF Pinged
<1> HIDE DEF pinged
<1>4. /\ report \in Seq(BOOLEAN) /\ Len(report) = n /\ n \in 1..5
      /\ \A i \in 1..Len(old) : report[i] = old[i]
      /\ report[n] = pinged
  BY <1>2, <1>3
<1> HIDE DEF report
<1>5. /\ u \in Use /\ u.report = report /\ u.call = "health" /\ u.expects = uses[c].expects
      /\ u.pc = (IF n = 5 THEN "ok" ELSE "ready") /\ u.with = uses[c].with
      /\ u.doc = uses[c].doc /\ u.wasUp = uses[c].wasUp /\ u.wasDown = uses[c].wasDown
  BY <1>1, <1>4 DEF Use, UseSteps
<1>6. /\ uses' = [uses EXCEPT ![c] = u]
      /\ UNCHANGED <<settings, dataTree, process, up, flips, registry, cached, assembled,
                     contents, answered, useCount>>
  BY <1>1, PartFacts DEF Checks, report, pinged, Use
<1> HIDE DEF u
<1>7. uses'[c] = u
  BY <1>1, <1>6
<1>8. UseSound(c)'
  BY <1>1, <1>5, <1>6, <1>7 DEF UseSound
<1>9. ASSUME NEW i \in 1..n PROVE Truthful(uses[c], i)'
  <2>1. BackendOf(HealthParts[i])' = BackendOf(HealthParts[i])
    BY <1>6 DEF BackendOf
  <2>2. CASE i # n
    <3>1. i \in 1..Len(old) /\ u.report[i] = old[i]
      BY <2>2, <1>2, <1>4, <1>5
    <3> QED
      BY <3>1, <2>1, <1>2, <1>5, <1>7 DEF Truthful
  <2>3. CASE i = n
    <3>1. u.report[i] = (BackendOf(HealthParts[i]) \in up \cup {"memory", "none"})
      BY <2>3, <1>4, <1>5 DEF pinged, Pinged
    <3>2. BackendOf(HealthParts[i]) \in Servers \cup {"memory", "none"}
      BY <2>3, <1>1, <1>4, PartFacts
    <3>3. "memory" \notin Servers /\ "none" \notin Servers
      BY DEF Servers
    <3> QED
      BY <2>1, <3>1, <3>2, <3>3, <1>2, <1>5, <1>7 DEF Truthful
  <2> QED
    BY <2>2, <2>3
<1>10. ReportSound(c)'
  <2>1. n <= 5 /\ (n # 5 => n < 5)
    BY <1>4
  <2> QED
    BY <2>1, <1>2, <1>4, <1>5, <1>6, <1>7, <1>9 DEF ReportSound
<1> QED
  BY <1>1, <1>5, <1>6, <1>8, <1>10, OwnStep

(* Every step of the composition keeps the invariant.                      *)
LEMMA CompositionNextInv ==
  CompositionInv /\ [CompositionNext]_compositionVars => CompositionInv'
<1> SUFFICES ASSUME CompositionInv, [CompositionNext]_compositionVars PROVE CompositionInv'
  OBVIOUS
<1>1. CASE UNCHANGED compositionVars
  <2> USE <1>1 DEF compositionVars
  <2>1. CompositionTyped' /\ Registered' /\ AnswersKept'
    BY DEF CompositionInv, CompositionTyped, Registered, AnswersKept, StoreNow, StoreOf
  <2>2. \A d \in Clients : UseSound(d)' /\ ReportSound(d)'
    BY UseKept
  <2> QED
    BY <2>1, <2>2 DEF CompositionInv
<1>2. CASE CompositionNext
  BY <1>2, ServeInv, ProcessDiesInv, ServerFlipsInv, AsksInv, FailsInv, AssemblesInv,
     IngestsInv, SearchesInv, ChecksInv
  DEF CompositionNext, AssemblyFails, StoreFails
<1> QED
  BY <1>1, <1>2

(* Whichever requests assemble services beside each other, however the     *)
(* servers and the process go down: a search finds what was answered       *)
(* before it and not lost since; a report is true of some time of its      *)
(* request; and a file in several directories keeps its strictest level    *)
(* (api/app.py, services/health.py, adapters/document_registry.py).        *)
THEOREM SoundComposition == CompositionSpec => []CompositionIsSound
<1>1. ASSUME CompositionInv PROVE CompositionIsSound
  <2>1. OneKnowledgeBase
    BY <1>1 DEF CompositionInv, UseSound, OneKnowledgeBase, AtUse
  <2>2. ReportsAreTrue
    <3>1. ASSUME NEW c \in Clients PROVE DOMAIN uses[c].report = 1..Len(uses[c].report)
      <4>1. uses[c].report \in Seq(BOOLEAN)
        BY <1>1 DEF CompositionInv, CompositionTyped, Use
      <4> QED
        BY <4>1
    <3> QED
      BY <1>1, <3>1 DEF CompositionInv, ReportSound, Truthful, ReportsAreTrue
  <2>3. StrictestCopy
    <3>1. SUFFICES ASSUME process = "serving", NEW e \in ToSet(Scan(dataTree))
          PROVE  /\ AccessOf(registry[<<"id", e.content>>]) >= AccessOf(e)
                 /\ registry[<<"id", e.content>>].content = e.content
                 /\ registry[<<"name", e.name>>].name = e.name
      BY DEF StrictestCopy
    <3>2. dataTree \in DataTrees /\ registry = DocumentResolver(dataTree)
      BY <1>1, <3>1 DEF CompositionInv, CompositionTyped, Registered
    <3>3. PICK i \in 1..Len(Scan(dataTree)) : e = Scan(dataTree)[i]
      BY <3>2, ScanFacts DEF ToSet
    <3>4. Len(Scan(dataTree)) \in Nat
      BY <3>2, ScanFacts
    <3>5. PICK table : /\ Tables(Scan(dataTree), table, Len(Scan(dataTree)))
                       /\ DocumentResolver(dataTree) = table[Len(Scan(dataTree))]
      BY <3>4, ResolverIsLast
    <3>6. Resolves(registry, e)
      BY <3>2, <3>3, <3>4, <3>5, TablesResolve
    <3> QED
      BY <3>6 DEF Resolves
  <2> QED
    BY <2>1, <2>2, <2>3 DEF CompositionIsSound
<1> QED
  BY <1>1, CompositionInitInv, CompositionNextInv, PTL DEF CompositionSpec

(* Every assembly is of a request: those made and those under way are no   *)
(* more than the requests so far.                                          *)
Assembling == {c \in Clients : uses[c].pc = "assembles"}
AssemblyCount ==
  /\ IsFiniteSet(Assembling)
  /\ assembled + Cardinality(Assembling) <= useCount

(* A step that begins no assembly and ends one at most without a result.   *)
LEMMA CountKept ==
  ASSUME CompositionTyped, AssemblyCount, Assembling' \subseteq Assembling,
         assembled' = assembled, useCount' = useCount
  PROVE  AssemblyCount'
<1>1. IsFiniteSet(Assembling) /\ assembled + Cardinality(Assembling) <= useCount
  BY DEF AssemblyCount
<1>2. /\ IsFiniteSet(Assembling') /\ Cardinality(Assembling') <= Cardinality(Assembling)
      /\ Cardinality(Assembling') \in Nat /\ Cardinality(Assembling) \in Nat
  BY <1>1, FS_Subset, FS_CardinalityType
<1>3. assembled \in Nat /\ useCount \in Nat
  BY CompositionAssumption DEF CompositionTyped
<1> QED
  BY <1>1, <1>2, <1>3 DEF AssemblyCount

(* The assemblies stay within the requests.                                *)
LEMMA AssemblyCountNext ==
  CompositionInv /\ AssemblyCount /\ [CompositionNext]_compositionVars => AssemblyCount'
<1> SUFFICES ASSUME CompositionInv, AssemblyCount, [CompositionNext]_compositionVars
             PROVE  AssemblyCount'
  OBVIOUS
<1>1. /\ uses \in [Clients -> Use] /\ assembled \in Nat /\ useCount \in Nat /\ CompositionTyped
      /\ IsFiniteSet(Assembling) /\ assembled + Cardinality(Assembling) <= useCount
      /\ Cardinality(Assembling) \in Nat
  BY CompositionAssumption, FS_CardinalityType
  DEF CompositionInv, CompositionTyped, AssemblyCount
<1>2. CASE UNCHANGED compositionVars \/ Serve
  BY <1>1, <1>2, CountKept DEF compositionVars, Serve, Assembling
<1>3. CASE ProcessDies
  <2>1. Assembling' = {}
    BY <1>3 DEF ProcessDies, Assembling, NoUse
  <2> QED
    BY <2>1, <1>1, <1>3, CountKept DEF ProcessDies
<1>4. ASSUME NEW s \in Servers, ServerFlips(s) PROVE AssemblyCount'
  <2>1. \A c \in Clients : uses'[c].pc = uses[c].pc
    BY <1>1, <1>4 DEF ServerFlips, Use
  <2> QED
    BY <2>1, <1>1, <1>4, CountKept DEF ServerFlips, Assembling
<1>5. ASSUME NEW c \in Clients, NEW call \in {"ingest", "search", "health"},
             AsksForServices(c, call)
      PROVE  AssemblyCount'
  <2>1. /\ \A d \in Clients : d # c => uses'[d] = uses[d]
        /\ uses[c].pc # "assembles" /\ assembled' = assembled /\ useCount' = useCount + 1
    BY <1>1, <1>5 DEF AsksForServices
  <2>2. Assembling' \subseteq Assembling \cup {c} /\ c \notin Assembling
    BY <2>1 DEF Assembling
  <2>3. /\ IsFiniteSet(Assembling \cup {c})
        /\ Cardinality(Assembling \cup {c}) = Cardinality(Assembling) + 1
    BY <2>2, <1>1, FS_AddElement
  <2>4. /\ IsFiniteSet(Assembling') /\ Cardinality(Assembling') \in Nat
        /\ Cardinality(Assembling') <= Cardinality(Assembling) + 1
    BY <2>2, <2>3, FS_Subset, FS_CardinalityType
  <2> QED
    BY <2>1, <2>4, <1>1 DEF AssemblyCount
<1>6. ASSUME NEW c \in Clients, Assembles(c) PROVE AssemblyCount'
  <2>1. /\ \A d \in Clients : d # c => uses'[d] = uses[d]
        /\ uses[c].pc = "assembles" /\ uses'[c].pc = "ready"
        /\ assembled' = assembled + 1 /\ useCount' = useCount
    BY <1>1, <1>6 DEF Assembles, AtUse, Use
  <2>2. Assembling' = Assembling \ {c} /\ c \in Assembling
    BY <2>1 DEF Assembling
  <2>3. /\ IsFiniteSet(Assembling')
        /\ Cardinality(Assembling') = Cardinality(Assembling) - 1
    BY <2>2, <1>1, FS_RemoveElement
  <2> QED
    BY <2>1, <2>3, <1>1 DEF AssemblyCount
<1>7. ASSUME NEW c \in Clients,
             Fails(c) \/ Ingests(c) \/ Searches(c) \/ Checks(c)
      PROVE  AssemblyCount'
  <2>1. /\ \A d \in Clients : d # c => uses'[d] = uses[d]
        /\ uses'[c].pc # "assembles" /\ assembled' = assembled /\ useCount' = useCount
    BY <1>1, <1>7 DEF Fails, Ingests, Searches, Checks, Use
  <2> QED
    BY <2>1, <1>1, CountKept DEF Assembling
<1> QED
  BY <1>2, <1>3, <1>4, <1>5, <1>6, <1>7 DEF CompositionNext, AssemblyFails, StoreFails

(* The composition keeps its types and its invariant; assemblies are       *)
(* bounded by the requests.                                                *)
THEOREM CompositionInvariant == CompositionSpec => [](CompositionInv /\ CompositionTypeOK)
<1>1. CompositionInit => AssemblyCount
  <2> SUFFICES ASSUME CompositionInit PROVE AssemblyCount
    OBVIOUS
  <2>1. Assembling = {} /\ assembled = 0 /\ useCount = 0
    BY DEF CompositionInit, Assembling, NoUse
  <2> QED
    BY <2>1, FS_EmptySet DEF AssemblyCount
<1>2. ASSUME CompositionInv, AssemblyCount PROVE CompositionTypeOK
  <2>1. /\ assembled \in Nat /\ useCount \in 0..MaxUses /\ MaxUses \in Nat
        /\ Cardinality(Assembling) \in Nat /\ assembled + Cardinality(Assembling) <= useCount
    BY <1>2, CompositionAssumption, FS_CardinalityType
    DEF CompositionInv, CompositionTyped, AssemblyCount
  <2>2. assembled \in 0..MaxUses
    BY <2>1
  <2>3. \A c \in Clients : uses[c].pc \in UseSteps
    BY <1>2 DEF CompositionInv, CompositionTyped, Use
  <2> QED
    BY <1>2, <2>2, <2>3
    DEF CompositionInv, CompositionTyped, CompositionTypeOK, Documents, UseSteps
<1> QED
  BY <1>1, <1>2, CompositionInitInv, CompositionNextInv, AssemblyCountNext, PTL
  DEF CompositionSpec

-----------------------------------------------------------------------------
(* The step executor.                                                      *)

(* Type correctness, with the step that a run works on.                    *)
RunnerPc == {"idle", "checkout", "loop", "attempt", "agent", "read", "feat",
             "chore", "top", "finish", "final"}
Run == [pc : RunnerPc, step : 0..StepCount, attempt : 0..MaxRetries]
HasStep == {"attempt", "agent", "read", "feat", "chore", "top"}

ExecutorTyped ==
  /\ ExecutorTypeOK
  /\ runner.pc \in HasStep => runner.step \in Steps

(* The types hold before the first run.                                    *)
LEMMA ExecutorInitTyped == ExecutorInit => ExecutorTyped
<1> SUFFICES ASSUME ExecutorInit PROVE ExecutorTyped
  OBVIOUS
<1>1. AllPending \in Statuses /\ "pending" \in PhaseStatuses
  BY DEF AllPending, Statuses, PhaseStatuses, StepStatus
<1>2. NoRun \in Run
  BY ExecutorAssumption DEF NoRun, Run, RunnerPc
<1> QED
  BY <1>1, <1>2 DEF ExecutorInit, ExecutorTyped, ExecutorTypeOK, Run, RunnerPc, HasStep, NoRun

(* What the moves of a run leave is a run.                                 *)
LEMMA RunsMove ==
  ASSUME ExecutorTyped
  PROVE  /\ runner \in Run /\ NoRun \in Run
         /\ \A pc \in RunnerPc : [runner EXCEPT !.pc = pc] \in Run
         /\ \A pc \in RunnerPc : [NoRun EXCEPT !.pc = pc] \in Run
         /\ InTree \in [index : Statuses, phase : PhaseStatuses]
         /\ AllPending \in Statuses
         /\ \A n \in Steps, s \in StepStatus : [indexStatus EXCEPT ![n] = s] \in Statuses
         /\ \A n \in Steps, s \in Reported \cup {"none"} :
              /\ [resultFile EXCEPT ![n] = s] \in [Steps -> Reported \cup {"none"}]
              /\ [reports EXCEPT ![n] = s] \in [Steps -> Reported \cup {"none"}]
<1>1. runner \in Run
  BY DEF ExecutorTyped, ExecutorTypeOK, Run, RunnerPc
<1>2. NoRun \in Run
  BY ExecutorAssumption DEF NoRun, Run, RunnerPc
<1>3. InTree \in [index : Statuses, phase : PhaseStatuses]
  BY DEF InTree, ExecutorTyped, ExecutorTypeOK
<1>4. AllPending \in Statuses
  BY DEF AllPending, Statuses, StepStatus
<1>5. \A n \in Steps, s \in StepStatus : [indexStatus EXCEPT ![n] = s] \in Statuses
  BY DEF ExecutorTyped, ExecutorTypeOK, Statuses
<1>6. \A n \in Steps, s \in Reported \cup {"none"} :
              /\ [resultFile EXCEPT ![n] = s] \in [Steps -> Reported \cup {"none"}]
              /\ [reports EXCEPT ![n] = s] \in [Steps -> Reported \cup {"none"}]
  BY DEF ExecutorTyped, ExecutorTypeOK
<1> QED
  BY <1>1, <1>2, <1>3, <1>4, <1>5, <1>6 DEF Run

(* Every step keeps the types.                                             *)
LEMMA ExecutorNextTyped ==
  ExecutorTyped /\ [ExecutorNext]_executorVars => ExecutorTyped'
<1> SUFFICES ASSUME ExecutorTyped, [ExecutorNext]_executorVars PROVE ExecutorTyped'
  OBVIOUS
<1> DEFINE Values ==
      /\ indexStatus' \in Statuses /\ phaseStatus' \in PhaseStatuses
      /\ resultFile' \in [Steps -> Reported \cup {"none"}]
      /\ dirtyWork' \subseteq Steps
      /\ phaseHead' \in [index : Statuses, phase : PhaseStatuses]
      /\ onBranch' \in BOOLEAN /\ detoured' \in BOOLEAN
      /\ reports' \in [Steps -> Reported \cup {"none"}]
    Runner == runner' \in Run /\ (runner'.pc \in HasStep => runner'.step \in Steps)
<1>a. ASSUME Values, Runner PROVE ExecutorTyped'
  BY <1>a DEF ExecutorTyped, ExecutorTypeOK, Run, RunnerPc
<1>b. /\ indexStatus \in Statuses /\ phaseStatus \in PhaseStatuses
      /\ resultFile \in [Steps -> Reported \cup {"none"}]
      /\ dirtyWork \subseteq Steps
      /\ phaseHead \in [index : Statuses, phase : PhaseStatuses]
      /\ onBranch \in BOOLEAN /\ detoured \in BOOLEAN
      /\ reports \in [Steps -> Reported \cup {"none"}]
      /\ runner \in Run /\ (runner.pc \in HasStep => runner.step \in Steps)
  BY DEF ExecutorTyped, ExecutorTypeOK, Run, RunnerPc
<1>c. \A pc \in RunnerPc \ HasStep : Goto(pc) => Runner
  BY <1>b, RunsMove DEF Goto, Run
<1>d. runner.pc \in HasStep => \A pc \in RunnerPc : Goto(pc) => Runner
  BY <1>b, RunsMove DEF Goto, Run
<1>e. Exit => Runner
  BY RunsMove DEF Exit, NoRun, HasStep
<1>f. {"idle", "checkout", "loop", "finish", "final"} \subseteq RunnerPc \ HasStep /\ HasStep \subseteq RunnerPc
  BY DEF RunnerPc, HasStep
<1>g. {"pending", "completed", "blocked", "error"} = StepStatus /\ PhaseStatuses = StepStatus
  BY DEF StepStatus, PhaseStatuses
<1>h. At("attempt") \/ At("agent") \/ At("read") \/ At("feat") \/ At("chore") \/ At("top")
        => runner.pc \in HasStep
  BY DEF At, HasStep
<1>1. CASE UNCHANGED executorVars
  BY <1>1, <1>a, <1>b DEF executorVars
<1>2. CASE StartRun
  <2>1. Values
    BY <1>2, <1>b DEF StartRun, tree
  <2> QED
    BY <1>2, <2>1, <1>a, <1>c, <1>f DEF StartRun
<1>3. CASE CheckoutBranch
  <2>1. Values
    BY <1>3, <1>b DEF CheckoutBranch
  <2> QED
    BY <1>3, <2>1, <1>a, <1>c, <1>e, <1>f DEF CheckoutBranch
<1>4. CASE NextStep
  <2>1. Values
    BY <1>4, <1>b DEF NextStep, tree
  <2>2. \A n \in Steps : runner' = [pc |-> "attempt", step |-> n, attempt |-> 1] => Runner
    BY ExecutorAssumption DEF Run, RunnerPc, Steps
  <2> QED
    BY <1>4, <2>1, <2>2, <1>a, <1>c, <1>f DEF NextStep
<1>5. CASE BeginAttempt
  <2>1. Values
    BY <1>5, <1>b, <1>h, RunsMove DEF BeginAttempt, tree, Cleared
  <2> QED
    BY <1>5, <2>1, <1>a, <1>d, <1>e, <1>f, <1>h DEF BeginAttempt, HasStep
<1>6. CASE AgentWorks \/ AgentCommits \/ AgentReports
  <2>1. Values
    BY <1>6, <1>b, <1>h, RunsMove DEF AgentWorks, AgentCommits, AgentReports, tree
  <2>2. runner' = runner
    BY <1>6 DEF AgentWorks, AgentCommits, AgentReports
  <2> QED
    BY <2>1, <2>2, <1>a, <1>b
<1>7. CASE AgentEnds
  <2>1. Values
    BY <1>7, <1>b DEF AgentEnds, tree
  <2> QED
    BY <1>7, <2>1, <1>a, <1>d, <1>e, <1>f, <1>h DEF AgentEnds, HasStep
<1>8. CASE ReadResult
  <2>1. Values
    BY <1>8, <1>b, <1>g, <1>h, RunsMove DEF ReadResult, SetStatus
  <2>2. ASSUME MayRetry, runner' = Retry(runner) PROVE Runner
    <3>1. runner \in Run /\ runner.step \in Steps
      BY <1>8, <1>b, <1>h DEF ReadResult
    <3>2. runner.attempt + 1 \in 0..MaxRetries
      BY <2>2, <3>1, ExecutorAssumption DEF MayRetry, Run
    <3>3. Retry(runner) \in Run /\ Retry(runner).step = runner.step
      BY <3>1, <3>2 DEF Retry, Run, RunnerPc
    <3> QED
      BY <2>2, <3>1, <3>3
  <2> QED
    BY <1>8, <2>1, <2>2, <1>a, <1>d, <1>f, <1>h DEF ReadResult, HasStep
<1>9. CASE FeatCommit
  <2>1. Values
    BY <1>9, <1>b DEF FeatCommit
  <2> QED
    BY <1>9, <2>1, <1>a, <1>d, <1>f, <1>h DEF FeatCommit, HasStep
<1>10. CASE ChoreCommit
  <2>1. Values
    BY <1>10, <1>b, RunsMove DEF ChoreCommit, Unstaged
  <2>2. runner' = [NoRun EXCEPT !.pc = "loop"] => Runner
    BY RunsMove, <1>f DEF NoRun, HasStep
  <2> QED
    BY <1>10, <2>1, <2>2, <1>a, <1>d, <1>f, <1>h DEF ChoreCommit, HasStep
<1>11. CASE RecordTop
  <2>1. indexStatus[runner.step] \in PhaseStatuses
    BY <1>11, <1>b, <1>h DEF RecordTop, Statuses, PhaseStatuses
  <2>2. Values
    BY <1>11, <2>1, <1>b DEF RecordTop
  <2> QED
    BY <1>11, <2>2, <1>a, <1>e DEF RecordTop
<1>12. CASE Finish
  <2>1. Values
    BY <1>12, <1>b, <1>g DEF Finish
  <2> QED
    BY <1>12, <2>1, <1>a, <1>c, <1>f DEF Finish
<1>13. CASE FinalCommit \/ RunCrashes
  <2>1. Values
    BY <1>13, <1>b, RunsMove DEF FinalCommit, RunCrashes, Unstaged, tree
  <2> QED
    BY <1>13, <2>1, <1>a, <1>e DEF FinalCommit, RunCrashes
<1>14. CASE (\E n \in Steps : ResetStep(n)) \/ CommitByHand \/ LeaveBranch
  <2>1. ASSUME NEW n \in Steps, ResetStep(n) PROVE Values
    BY <2>1, <1>b, <1>g, RunsMove DEF ResetStep, SetStatus
  <2>2. runner' = runner
    BY <1>14 DEF ResetStep, CommitByHand, LeaveBranch
  <2>3. CASE CommitByHand
    <3>1. /\ dirtyWork' = {} /\ phaseHead' = InTree
          /\ UNCHANGED <<indexStatus, phaseStatus, resultFile, onBranch, reports, detoured>>
      BY <2>3 DEF CommitByHand
    <3> QED
      BY <3>1, <2>2, <1>a, <1>b, RunsMove
  <2>4. CASE LeaveBranch
    <3>1. /\ onBranch' = FALSE /\ indexStatus' = AllPending /\ phaseStatus' = "pending"
          /\ UNCHANGED <<dirtyWork, resultFile, phaseHead, reports, detoured>>
      BY <2>4 DEF LeaveBranch
    <3> QED
      BY <3>1, <2>2, <1>a, <1>b, <1>g, RunsMove
  <2> QED
    BY <1>14, <2>1, <2>2, <2>3, <2>4, <1>a, <1>b
<1> QED
  BY <1>1, <1>2, <1>3, <1>4, <1>5, <1>6, <1>7, <1>8, <1>9, <1>10, <1>11, <1>12, <1>13,
     <1>14 DEF ExecutorNext, RunnerStep

-----------------------------------------------------------------------------
(* What is recorded.                                                       *)

(* A step at work is pending, and its result file is its agent's; only on  *)
(* the phase's branch does anything work, and nothing that was committed   *)
(* as completed is taken back in the tree.                                 *)
RecordInv ==
  /\ CompletedOnReport
  /\ \A n \in Steps : phaseHead.index[n] = "completed" => reports[n] = "completed"
  /\ runner.pc \in {"attempt", "agent", "read"} => indexStatus[runner.step] = "pending"
  /\ runner.pc \in {"agent", "read"} => resultFile[runner.step] = reports[runner.step]
  /\ onBranch \/ runner.pc \in {"idle", "checkout"}
  /\ onBranch => \A n \in Steps :
                   phaseHead.index[n] = "completed" => indexStatus[n] = "completed"
  /\ RecordedIsCommitted

(* Nothing is recorded before the first run.                               *)
LEMMA RecordInitInv == ExecutorInit => RecordInv
  BY DEF ExecutorInit, RecordInv, AllPending, NoRun, CompletedOnReport, RecordedIsCommitted

(* Every step keeps what is recorded true to what was done.                *)
LEMMA RecordNextInv ==
  ExecutorTyped /\ RecordInv /\ [ExecutorNext]_executorVars => RecordInv'
<1> SUFFICES ASSUME ExecutorTyped, RecordInv, [ExecutorNext]_executorVars PROVE RecordInv'
  OBVIOUS
<1> USE DEF RecordInv, CompletedOnReport, RecordedIsCommitted, At, Exit, NoRun
<1>a. /\ indexStatus \in [Steps -> StepStatus]
      /\ phaseHead.index \in [Steps -> StepStatus]
      /\ resultFile \in [Steps -> Reported \cup {"none"}]
      /\ reports \in [Steps -> Reported \cup {"none"}]
      /\ runner \in Run
      /\ runner.pc \in HasStep => runner.step \in Steps
  BY DEF ExecutorTyped, ExecutorTypeOK, Statuses, Run, RunnerPc
<1>b. \A pc : Goto(pc) => runner'.pc = pc /\ runner'.step = runner.step
  BY <1>a DEF Run, Goto
<1>c. runner.pc \in {"attempt", "agent", "read"} => runner.step \in Steps
  BY <1>a DEF HasStep
<1>d. InTree.index = indexStatus
  BY DEF InTree
<1>1. CASE UNCHANGED executorVars
  BY <1>1 DEF executorVars
<1>2. CASE StartRun \/ CheckoutBranch
  BY <1>2, <1>b DEF StartRun, CheckoutBranch, tree
<1>3. CASE NextStep
  BY <1>3, <1>b DEF NextStep, tree
<1>4. CASE BeginAttempt
  <2>1. /\ resultFile'[runner.step] = "none" /\ reports'[runner.step] = "none"
        /\ \A n \in Steps : n # runner.step => reports'[n] = reports[n]
    BY <1>4, <1>a, <1>c DEF BeginAttempt, Cleared
  <2> QED
    BY <1>4, <2>1, <1>b, <1>c DEF BeginAttempt, tree
<1>5. CASE AgentWorks
  BY <1>5, <1>c DEF AgentWorks
<1>6. CASE AgentCommits
  BY <1>6, <1>d DEF AgentCommits
<1>7. CASE AgentReports
  <2>1. PICK r \in Reported :
          /\ resultFile' = [resultFile EXCEPT ![runner.step] = r]
          /\ reports' = [reports EXCEPT ![runner.step] = r]
    BY <1>7 DEF AgentReports
  <2>2. /\ resultFile'[runner.step] = reports'[runner.step]
        /\ \A n \in Steps : n # runner.step => reports'[n] = reports[n]
    BY <1>7, <2>1, <1>a, <1>c DEF AgentReports
  <2> QED
    BY <1>7, <2>2, <1>c DEF AgentReports, tree
<1>8. CASE AgentEnds
  BY <1>8, <1>b DEF AgentEnds, tree
<1>9. CASE ReadResult
  <2>1. /\ runner.step \in Steps /\ indexStatus[runner.step] = "pending" /\ onBranch
        /\ resultFile[runner.step] = reports[runner.step]
    BY <1>9, <1>c DEF ReadResult
  <2>2. \A s : SetStatus(runner.step, s) =>
          \A n \in Steps : indexStatus'[n] = IF n = runner.step THEN s ELSE indexStatus[n]
    BY <1>a, <2>1 DEF SetStatus
  <2>3. CASE resultFile[runner.step] = "completed" /\ SetStatus(runner.step, "completed")
               /\ Goto("feat")
    <3>1. \A n \in Steps : indexStatus'[n] =
            IF n = runner.step THEN "completed" ELSE indexStatus[n]
      BY <2>2, <2>3
    <3>2. reports[runner.step] = "completed" /\ runner'.pc = "feat"
      BY <2>1, <2>3, <1>b
    <3>3. UNCHANGED <<dirtyWork, phaseHead, onBranch, reports>>
      BY <1>9 DEF ReadResult
    <3> QED
      BY <2>1, <3>1, <3>2, <3>3
  <2>4. CASE resultFile[runner.step] = "blocked" /\ SetStatus(runner.step, "blocked")
               /\ Goto("top")
    BY <1>9, <2>1, <2>2, <2>4, <1>b DEF ReadResult
  <2>5. CASE runner' = Retry(runner) /\ UNCHANGED indexStatus
    <3>1. runner'.pc = "attempt" /\ runner'.step = runner.step
      BY <2>5, <1>a DEF Retry, Run
    <3> QED
      BY <1>9, <2>1, <2>5, <3>1 DEF ReadResult
  <2>6. CASE SetStatus(runner.step, "error") /\ Goto("feat")
    BY <1>9, <2>1, <2>2, <2>6, <1>b DEF ReadResult
  <2> QED
    BY <1>9, <2>3, <2>4, <2>5, <2>6 DEF ReadResult
<1>10. CASE FeatCommit \/ RecordTop \/ Finish
  BY <1>10, <1>b DEF FeatCommit, RecordTop, Finish
<1>11. CASE ChoreCommit \/ FinalCommit
  BY <1>11, <1>b, <1>d DEF ChoreCommit, FinalCommit, Unstaged
<1>12. CASE RunCrashes
  BY <1>12 DEF RunCrashes, tree
<1>13. ASSUME NEW k \in Steps, ResetStep(k) PROVE RecordInv'
  <2>1. \A n \in Steps : indexStatus'[n] = IF n = k THEN "pending" ELSE indexStatus[n]
    BY <1>13, <1>a DEF ResetStep, SetStatus
  <2> QED
    BY <1>13, <2>1 DEF ResetStep
<1>14. CASE CommitByHand \/ LeaveBranch
  BY <1>14, <1>d DEF CommitByHand, LeaveBranch, AllPending
<1> QED
  BY <1>1, <1>2, <1>3, <1>4, <1>5, <1>6, <1>7, <1>8, <1>9, <1>10, <1>11, <1>12, <1>13,
     <1>14 DEF ExecutorNext, RunnerStep

-----------------------------------------------------------------------------
(* The order of the steps.                                                 *)

(* Everything before a step that was worked on is completed.               *)
StepsInOrder(status) ==
  \A m, n \in Steps : m < n /\ status[n] # "pending" => status[m] = "completed"
AllCompleted(status) == \A n \in Steps : status[n] = "completed"
Halted(status, n) == status[n] \in {"error", "blocked"}
NoneHalted(status) == \A n \in Steps : ~Halted(status, n)

OrderInv ==
  /\ runner.pc = "top" => Halted(indexStatus, runner.step)
  /\ runner.pc \in {"feat", "chore"} => indexStatus[runner.step] \in {"completed", "error"}
  /\ ~detoured =>
       /\ StepsInOrder(indexStatus) /\ StepsInOrder(phaseHead.index)
       /\ phaseStatus = "completed" => AllCompleted(indexStatus)
       /\ phaseHead.phase = "completed" => AllCompleted(phaseHead.index)
       /\ runner.pc \in {"loop", "attempt", "agent", "read", "finish"} => NoneHalted(indexStatus)
       /\ runner.pc = "checkout" /\ onBranch => NoneHalted(indexStatus)
       /\ runner.pc \in {"attempt", "agent", "read"} =>
            \A m \in Steps : m < runner.step => indexStatus[m] = "completed"
       /\ runner.pc \in {"feat", "chore"} =>
            \A n \in Steps \ {runner.step} : ~Halted(indexStatus, n)
       /\ runner.pc = "finish" => AllCompleted(indexStatus)

(* No step is done before the first run.                                   *)
LEMMA OrderInitInv == ExecutorInit => OrderInv
  BY DEF ExecutorInit, OrderInv, AllPending, NoRun, StepsInOrder

(* _check_blockers looks at the last step that was worked on.  In order,   *)
(* that is the only one which can have failed.                             *)
LEMMA UnblockedIsClean ==
  ASSUME NEW status, StepsInOrder(status), ~Blocked(status) PROVE NoneHalted(status)
<1>1. ASSUME NEW n \in Steps, Halted(status, n) PROVE FALSE
  <2>1. \A m \in Steps : m > n => status[m] = "pending"
    BY <1>1 DEF StepsInOrder, Halted, Steps
  <2> QED
    BY <1>1, <2>1 DEF Blocked, Halted
<1> QED
  BY <1>1 DEF NoneHalted

(* Every step keeps the steps done in their order.                         *)
LEMMA OrderNextInv ==
  ExecutorTyped /\ RecordInv /\ OrderInv /\ [ExecutorNext]_executorVars => OrderInv'
<1> SUFFICES ASSUME ExecutorTyped, RecordInv, OrderInv, [ExecutorNext]_executorVars
             PROVE  OrderInv'
  OBVIOUS
<1> USE DEF OrderInv, At, Exit, NoRun
<1>a. /\ indexStatus \in [Steps -> StepStatus]
      /\ phaseHead.index \in [Steps -> StepStatus]
      /\ runner \in Run
      /\ runner.pc \in HasStep => runner.step \in Steps
      /\ Steps \subseteq Int
  BY DEF ExecutorTyped, ExecutorTypeOK, Statuses, Run, RunnerPc, Steps
<1>b. \A pc : Goto(pc) => runner'.pc = pc /\ runner'.step = runner.step
  BY <1>a DEF Run, Goto
<1>c. InTree.index = indexStatus /\ InTree.phase = phaseStatus
  BY DEF InTree
<1>d. StepsInOrder(AllPending)
  BY DEF StepsInOrder, AllPending
<1>1. CASE UNCHANGED executorVars
  BY <1>1 DEF executorVars
<1>2. CASE StartRun
  BY <1>2, <1>b, UnblockedIsClean DEF StartRun, tree
<1>3. CASE CheckoutBranch
  <2>1. CASE Exit
    BY <1>3, <2>1 DEF CheckoutBranch
  <2>2. CASE Goto("loop") /\ onBranch
    BY <1>3, <2>2, <1>b DEF CheckoutBranch
  <2>3. CASE Goto("loop") /\ ~onBranch
    <3>1. ~detoured' => ~detoured /\ ~Blocked(phaseHead.index)
      <4>1. ~Exit
        BY <2>3, <1>b
      <4>2. detoured' = (detoured \/ Blocked(phaseHead.index))
        BY <1>3, <2>3, <4>1 DEF CheckoutBranch
      <4> QED
        BY <4>2
    <3>2. ~detoured' => NoneHalted(phaseHead.index)
      BY <3>1, UnblockedIsClean
    <3> QED
      BY <1>3, <2>3, <3>1, <3>2, <1>b DEF CheckoutBranch
  <2> QED
    BY <1>3, <2>1, <2>2, <2>3 DEF CheckoutBranch
<1>4. CASE NextStep
  <2>1. ASSUME NEW n \in Steps,
               indexStatus[n] = "pending",
               \A m \in 1..(n - 1) : indexStatus[m] # "pending",
               runner' = [pc |-> "attempt", step |-> n, attempt |-> 1]
        PROVE  OrderInv'
    <3>1. ~detoured => \A m \in Steps : m < n => indexStatus[m] = "completed"
      <4> SUFFICES ASSUME ~detoured, NEW m \in Steps, m < n
                   PROVE  indexStatus[m] = "completed"
        OBVIOUS
      <4>1. m \in 1..(n - 1)
        BY DEF Steps
      <4>2. indexStatus[m] \in StepStatus /\ indexStatus[m] # "pending"
        BY <4>1, <2>1, <1>a
      <4>3. ~Halted(indexStatus, m)
        BY <1>4 DEF NextStep, NoneHalted
      <4> QED
        BY <4>2, <4>3 DEF StepStatus, Halted
    <3> QED
      BY <1>4, <2>1, <3>1 DEF NextStep, tree
  <2>2. CASE (\A n \in Steps : indexStatus[n] # "pending") /\ Goto("finish")
    <3>1. ~detoured => AllCompleted(indexStatus)
      BY <1>4, <2>2, <1>a DEF NextStep, NoneHalted, Halted, AllCompleted, StepStatus
    <3> QED
      BY <1>4, <2>2, <3>1, <1>b DEF NextStep, tree
  <2> QED
    BY <1>4, <2>1, <2>2 DEF NextStep
<1>5. CASE BeginAttempt \/ AgentEnds
  BY <1>5, <1>b DEF BeginAttempt, AgentEnds, tree
<1>6. CASE AgentWorks \/ AgentReports
  BY <1>6 DEF AgentWorks, AgentReports, tree
<1>7. CASE AgentCommits
  BY <1>7, <1>c DEF AgentCommits
<1>8. CASE ReadResult
  <2> DEFINE k == runner.step
  <2>1. k \in Steps /\ indexStatus[k] = "pending"
    BY <1>8, <1>a DEF ReadResult, RecordInv, HasStep
  <2>2. ASSUME NEW s \in {"completed", "blocked", "error"}, SetStatus(k, s)
        PROVE  /\ \A n \in Steps : indexStatus'[n] = IF n = k THEN s ELSE indexStatus[n]
               /\ ~detoured => /\ StepsInOrder(indexStatus')
                               /\ \A n \in Steps \ {k} : ~Halted(indexStatus', n)
                               /\ phaseStatus # "completed"
    <3>1. \A n \in Steps : indexStatus'[n] = IF n = k THEN s ELSE indexStatus[n]
      BY <2>1, <2>2, <1>a DEF SetStatus
    <3>2. ASSUME ~detoured PROVE StepsInOrder(indexStatus')
      <4>1. \A m \in Steps : m < k => indexStatus[m] = "completed"
        BY <1>8, <3>2 DEF ReadResult
      <4>2. \A m, n \in Steps : m < n /\ indexStatus[n] # "pending" => indexStatus[m] = "completed"
        BY <3>2 DEF StepsInOrder
      <4>3. \A n \in Steps : k < n => indexStatus[n] = "pending"
        BY <4>2, <2>1
      <4> QED
        BY <4>1, <4>2, <4>3, <3>1, <2>1 DEF StepsInOrder
    <3>3. ASSUME ~detoured PROVE \A n \in Steps \ {k} : ~Halted(indexStatus', n)
      BY <1>8, <3>1, <3>3 DEF ReadResult, NoneHalted, Halted
    <3>4. ~detoured => phaseStatus # "completed"
      BY <2>1 DEF AllCompleted
    <3> QED
      BY <3>1, <3>2, <3>3, <3>4
  <2>3. CASE SetStatus(k, "completed") /\ Goto("feat")
    BY <1>8, <2>1, <2>2, <2>3, <1>b DEF ReadResult
  <2>4. CASE SetStatus(k, "blocked") /\ Goto("top")
    BY <1>8, <2>1, <2>2, <2>4, <1>b DEF ReadResult, Halted
  <2>5. CASE runner' = Retry(runner) /\ UNCHANGED indexStatus
    <3>1. runner'.pc = "attempt" /\ runner'.step = k
      BY <2>5, <1>a DEF Retry, Run
    <3> QED
      BY <1>8, <2>1, <2>5, <3>1 DEF ReadResult
  <2>6. CASE SetStatus(k, "error") /\ Goto("feat")
    BY <1>8, <2>1, <2>2, <2>6, <1>b DEF ReadResult
  <2> QED
    BY <1>8, <2>3, <2>4, <2>5, <2>6 DEF ReadResult
<1>9. CASE FeatCommit
  BY <1>9, <1>b DEF FeatCommit
<1>10. CASE ChoreCommit
  <2>1. phaseHead' \in {phaseHead, InTree}
    BY <1>10 DEF ChoreCommit
  <2>2. CASE indexStatus[runner.step] = "completed" /\ runner' = [NoRun EXCEPT !.pc = "loop"]
    <3>1. ~detoured => NoneHalted(indexStatus)
      BY <1>10, <2>2 DEF ChoreCommit, NoneHalted, Halted
    <3> QED
      BY <1>10, <2>1, <2>2, <3>1, <1>c DEF ChoreCommit
  <2>3. CASE indexStatus[runner.step] # "completed" /\ Goto("top")
    BY <1>10, <2>1, <2>3, <1>b, <1>c DEF ChoreCommit, Halted
  <2> QED
    BY <1>10, <2>2, <2>3 DEF ChoreCommit
<1>11. CASE RecordTop
  BY <1>11 DEF RecordTop, Halted
<1>12. CASE Finish
  BY <1>12, <1>b DEF Finish
<1>13. CASE FinalCommit \/ RunCrashes
  BY <1>13, <1>c DEF FinalCommit, RunCrashes, tree
<1>14. ASSUME NEW k \in Steps, ResetStep(k) PROVE OrderInv'
  <2>1. \A n \in Steps : indexStatus'[n] = IF n = k THEN "pending" ELSE indexStatus[n]
    BY <1>14, <1>a DEF ResetStep, SetStatus
  <2>2. indexStatus[k] \in {"error", "blocked"}
    BY <1>14 DEF ResetStep
  <2>3. ASSUME ~detoured PROVE StepsInOrder(indexStatus') /\ phaseStatus # "completed"
    <3>1. \A m, n \in Steps : m < n /\ indexStatus[n] # "pending" => indexStatus[m] = "completed"
      BY <2>3 DEF StepsInOrder
    <3> QED
      BY <3>1, <2>1, <2>2, <2>3 DEF StepsInOrder, AllCompleted
  <2> QED
    BY <1>14, <2>3 DEF ResetStep
<1>15. CASE CommitByHand
  BY <1>15, <1>c DEF CommitByHand
<1>16. CASE LeaveBranch
  BY <1>16, <1>c, <1>d DEF LeaveBranch
<1> QED
  BY <1>1, <1>2, <1>3, <1>4, <1>5, <1>6, <1>7, <1>8, <1>9, <1>10, <1>11, <1>12, <1>13,
     <1>14, <1>15, <1>16 DEF ExecutorNext, RunnerStep

-----------------------------------------------------------------------------
(* The executor's invariant: for every length of a phase, every order of   *)
(* crashes, failed commits, resets and changes of branch.                  *)
THEOREM ExecutorInductive ==
  ExecutorInit /\ [][ExecutorNext]_executorVars => [](ExecutorTyped /\ RecordInv /\ OrderInv)
<1>1. ExecutorInit => ExecutorTyped /\ RecordInv /\ OrderInv
  BY ExecutorInitTyped, RecordInitInv, OrderInitInv
<1>2. /\ ExecutorTyped /\ RecordInv /\ OrderInv
      /\ [ExecutorNext]_executorVars
      => (ExecutorTyped /\ RecordInv /\ OrderInv)'
  BY ExecutorNextTyped, RecordNextInv, OrderNextInv
<1> QED
  BY <1>1, <1>2, PTL

(* What index.json and git say of a phase is true, in its order: a step is *)
(* completed on its last agent's report, its work is committed with it,    *)
(* and the steps before it are completed (scripts/execute.py).             *)
THEOREM ProgressTold == ExecutorSpec => []ProgressIsTold
<1>1. ExecutorTyped /\ RecordInv /\ OrderInv => ProgressIsTold
  <2>1. ExecutorTyped /\ OrderInv => InOrderUnlessDetoured
    BY DEF OrderInv, InOrderUnlessDetoured, StepsInOrder, AllCompleted
  <2> QED
    BY <2>1 DEF RecordInv, ProgressIsTold
<1> QED
  BY <1>1, ExecutorInductive, PTL DEF ExecutorSpec
=============================================================================
