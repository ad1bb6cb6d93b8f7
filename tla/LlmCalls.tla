------------------------------ MODULE LlmCalls ------------------------------
(***************************************************************************)
(* Calls of the language model and the records of them: OpenAICompatLLM    *)
(* speaks to the inference server, whole answers or streams;               *)
(* TracedLLMClient wraps it and hands every call to the Langfuse tracer;   *)
(* the field extraction hands its OCR runs to MLflow.  Recording is best   *)
(* effort: what the backend of it does never reaches the caller.           *)
(*                                                                         *)
(* The n-th piece of text of a call is n.                                  *)
(***************************************************************************)
EXTENDS Integers, Sequences, FiniteSets

CONSTANTS
  Callers,       (* calls; each is made once                               *)
  MaxPieces,     (* bound: pieces of text in a stream                      *)
  ParamCount,    (* parameters and metrics of an OCR run                   *)
  None           (* a number or a record that is not there                 *)

ASSUME LlmAssumption ==
  /\ MaxPieces \in Nat \ {0} /\ ParamCount \in Nat \ {0} /\ None \notin Nat

VARIABLES
  tracer,      (* the wrapper: none, around a NoopTracer, or Langfuse      *)
  llmCalls,    (* of each call: where it is and what it has                *)
  heard,       (* of each call: the pieces its caller has                  *)
  generations, (* Langfuse: the records it holds, in order                 *)
  dropped,     (* history: calls whose record Langfuse refused             *)
  ocrRun       (* MLflow: an OCR run                                       *)

llmVars == <<tracer, llmCalls, heard, generations, dropped, ocrRun>>

RawUsages == {None, [prompt |-> 2, completion |-> 1, total |-> None],
              [prompt |-> None, completion |-> 1, total |-> 4]}
Usage == [prompt : Nat, completion : Nat, total : Nat]
Started == [pc |-> "new", kind |-> "none", pieces |-> <<>>, usage |-> None]

LlmInit ==
  /\ tracer \in {"none", "noop", "langfuse"}
  /\ llmCalls = [c \in Callers |-> Started]
  /\ heard = [c \in Callers |-> <<>>]
  /\ generations = <<>>
  /\ dropped = {}
  /\ ocrRun = [pc |-> "none", logged |-> 0, status |-> "none"]

-----------------------------------------------------------------------------
CallIs(c, kind, pc) == llmCalls[c].kind = kind /\ llmCalls[c].pc = pc
Known(n) == IF n = None THEN 0 ELSE n

(* _usage_from.                                                            *)
UsageFrom(raw) ==
  IF raw = None THEN None
  ELSE [prompt |-> Known(raw.prompt), completion |-> Known(raw.completion),
        total |-> IF raw.total # None THEN raw.total
                  ELSE Known(raw.prompt) + Known(raw.completion)]

CallLlm(c, kind) ==
  /\ llmCalls[c].pc = "new"
  /\ llmCalls' = [llmCalls EXCEPT ![c].pc = "waiting", ![c].kind = kind]
  /\ UNCHANGED <<tracer, heard, generations, dropped, ocrRun>>

(* The unwrapped client has nothing to record: it is done at once.         *)
Recording(pc) == IF pc = "done" THEN "record done" ELSE "record raised"
Ended(pc) == IF tracer = "none" THEN pc ELSE Recording(pc)

(* generate_with_usage.  An answer without content is an empty text.       *)
WholeAnswer(c) ==
  /\ CallIs(c, "generate", "waiting")
  /\ \E raw \in RawUsages, pieces \in {<<>>, <<1>>} :
       llmCalls' = [llmCalls EXCEPT ![c].pc = Ended("done"), ![c].pieces = pieces,
                              ![c].usage = UsageFrom(raw)]
  /\ heard' = IF tracer = "none" THEN [heard EXCEPT ![c] = llmCalls'[c].pieces] ELSE heard
  /\ UNCHANGED <<tracer, generations, dropped, ocrRun>>

(* A line of the stream (_parse_sse): text, usage, both, or neither as in  *)
(* a comment, [DONE] and an empty delta.                                   *)
StreamLine(c) ==
  /\ CallIs(c, "stream", "waiting")
  /\ \E text \in {<<>>, <<Len(llmCalls[c].pieces) + 1>>}, raw \in RawUsages :
       /\ Len(llmCalls[c].pieces \o text) <= MaxPieces
       /\ llmCalls' = [llmCalls EXCEPT ![c].pieces = @ \o text,
                                 ![c].usage = IF raw = None THEN @ ELSE UsageFrom(raw)]
       /\ heard' = [heard EXCEPT ![c] = @ \o text]
  /\ UNCHANGED <<tracer, generations, dropped, ocrRun>>

StreamEnds(c) ==
  /\ CallIs(c, "stream", "waiting")
  /\ llmCalls' = [llmCalls EXCEPT ![c].pc = Ended("done")]
  /\ UNCHANGED <<tracer, heard, generations, dropped, ocrRun>>

(* No connection, a timeout, an error status, a line that is no JSON.      *)
CallBreaks(c) ==
  /\ llmCalls[c].pc = "waiting"
  /\ llmCalls' = [llmCalls EXCEPT ![c].pc = Ended("raised"), ![c].usage = None]
  /\ UNCHANGED <<tracer, heard, generations, dropped, ocrRun>>

(* The browser is gone: the generator of a stream is closed where it       *)
(* yields.  GeneratorExit is no Exception, so there is no record.          *)
Abandon(c) ==
  /\ CallIs(c, "stream", "waiting") /\ heard[c] # <<>>
  /\ llmCalls' = [llmCalls EXCEPT ![c].pc = "closed"]
  /\ UNCHANGED <<tracer, heard, generations, dropped, ocrRun>>

(* Fault: the record of a stream has its last piece for the output.        *)
LastPieceFault(c, failed) ==
  [call |-> c, error |-> failed, usage |-> llmCalls[c].usage,
   output |-> IF llmCalls[c].pieces = <<>> THEN <<>>
              ELSE <<llmCalls[c].pieces[Len(llmCalls[c].pieces)]>>]

(* _record.                                                                *)
Generation(c, failed) ==
  [call |-> c, error |-> failed, usage |-> llmCalls[c].usage,
   output |-> llmCalls[c].pieces]

(* The tracer swallows what Langfuse raises; then the call returns.        *)
RecordCall(c, pc) ==
  /\ llmCalls[c].pc = Recording(pc)
  /\ \/ /\ tracer = "langfuse"
        /\ generations' = Append(generations, Generation(c, pc = "raised"))
        /\ UNCHANGED dropped
     \/ tracer = "langfuse" /\ dropped' = dropped \cup {c} /\ UNCHANGED generations
     \/ tracer = "noop" /\ UNCHANGED <<generations, dropped>>
  /\ llmCalls' = [llmCalls EXCEPT ![c].pc = pc]
  /\ heard' = IF llmCalls[c].kind = "generate" /\ pc = "done"
                THEN [heard EXCEPT ![c] = llmCalls[c].pieces] ELSE heard
  /\ UNCHANGED <<tracer, ocrRun>>

-----------------------------------------------------------------------------
(* A call of MLflow that fails leaves the run as it is.                    *)
LeftAs == ocrRun.status

(* log_ocr_run: one request for the run, one for each of its parameters    *)
(* and metrics, and one to end it.                                         *)
CreateRun ==
  /\ ocrRun.pc = "none"
  /\ ocrRun' \in {[ocrRun EXCEPT !.pc = "logging", !.status = "RUNNING"],
               [ocrRun EXCEPT !.pc = "returned"]}
LogValue ==
  /\ ocrRun.pc = "logging" /\ ocrRun.logged < ParamCount
  /\ ocrRun' \in {[ocrRun EXCEPT !.logged = @ + 1],
               [ocrRun EXCEPT !.pc = "returned", !.status = LeftAs]}
EndRun ==
  /\ ocrRun.pc = "logging" /\ ocrRun.logged = ParamCount
  /\ ocrRun' \in {[ocrRun EXCEPT !.pc = "returned", !.status = "FINISHED"],
               [ocrRun EXCEPT !.pc = "returned", !.status = LeftAs]}
LogOcrRun ==
  /\ CreateRun \/ LogValue \/ EndRun
  /\ UNCHANGED <<tracer, llmCalls, heard, generations, dropped>>

LlmNext ==
  \/ \E c \in Callers :
       \/ \E kind \in {"generate", "stream"} : CallLlm(c, kind)
       \/ WholeAnswer(c) \/ StreamLine(c) \/ StreamEnds(c) \/ CallBreaks(c)
       \/ Abandon(c) \/ \E pc \in {"done", "raised"} : RecordCall(c, pc)
  \/ LogOcrRun

LlmSpec == LlmInit /\ [][LlmNext]_llmVars

-----------------------------------------------------------------------------
LlmTypeOK ==
  /\ tracer \in {"none", "noop", "langfuse"}
  /\ \A c \in Callers : /\ llmCalls[c].usage \in Usage \cup {None}
                        /\ heard[c] \in Seq(1..MaxPieces)
  /\ \A i \in DOMAIN generations : generations[i].call \in Callers
  /\ dropped \subseteq Callers
  /\ ocrRun.logged \in 0..ParamCount

TracesOf(c) == {i \in DOMAIN generations : generations[i].call = c}

(* With Langfuse on, a call that returned or raised has exactly one record *)
(* unless Langfuse refused it, and the record has the text that the caller *)
(* got, to the last piece before an error; a stream that was given up has  *)
(* none (llm/traced.py).  And a run that MLflow shows as FINISHED has all  *)
(* its values (mlflow_tracker.py).                                         *)
TracesTellCalls ==
  /\ \A c \in Callers :
       /\ tracer = "langfuse" /\ llmCalls[c].pc \in {"done", "raised"} =>
            Cardinality(TracesOf(c)) = IF c \in dropped THEN 0 ELSE 1
       /\ llmCalls[c].pc = "closed" => TracesOf(c) = {}
       /\ llmCalls[c].pc \in {"done", "raised"} => \A i \in TracesOf(c) :
            /\ generations[i].output = heard[c]
            /\ generations[i].error = (llmCalls[c].pc = "raised")
  /\ ocrRun.status = "FINISHED" => ocrRun.logged = ParamCount
=============================================================================
