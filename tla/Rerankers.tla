----------------------------- MODULE Rerankers -----------------------------
(***************************************************************************)
(* The reranker of the search (adapters/reranker/qwen3_reranker.py).  One  *)
(* object serves all requests and loads its model when a request first     *)
(* needs it.  Nothing locks: requests score at once in the threads of the  *)
(* server, and each of them may find the object without a model, with all  *)
(* of it, in the middle of another's loading, or as a load left it that    *)
(* failed halfway.                                                         *)
(***************************************************************************)
EXTENDS Integers, Sequences, SequencesExt

CONSTANTS
  Scorers,       (* threads                                                *)
  MaxScores      (* bound: calls of score()                                *)

ASSUME RerankersAssumption == MaxScores \in Nat

VARIABLES
  loaded,      (* the attributes of the reranker that are set              *)
  outcome,     (* history: of the loads that had set the model, whether    *)
               (*   one came to its end ("whole"), else whether one failed *)
               (*   ("half")                                               *)
  scorers,     (* of each thread: where it is in score()                   *)
  scores       (* calls so far                                             *)

rerankVars == <<loaded, outcome, scorers, scores>>

(* Fault: the model is set before it is moved to its device.               *)
ModelFirstFault == <<"model", "tokenizer", "yes", "no", "prefix", "suffix">>

(* _ensure_loaded: the attributes in the order of their assignments.       *)
Attributes == <<"tokenizer", "model", "yes", "no", "prefix", "suffix">>
AllSet == ToSet(Attributes)

(* beside and half: whether another thread was loading when the call came, *)
(* and whether it came after a load that had left half of the reranker.    *)
RestingScorer == [pc |-> "idle", next |-> 1, beside |-> FALSE, half |-> FALSE,
                  rows |-> {}, used |-> AllSet]

RerankInit ==
  /\ loaded = {} /\ outcome = "none"
  /\ scorers = [t \in Scorers |-> RestingScorer]
  /\ scores = 0

-----------------------------------------------------------------------------
ScorerIs(t, pc) == scorers[t].pc = pc
LoadingNow == {t \in Scorers : ScorerIs(t, "load")}

(* A request without passages returns before it looks.                     *)
CallScore(t) ==
  /\ ScorerIs(t, "idle") /\ scores < MaxScores
  /\ scores' = scores + 1
  /\ scorers' = [scorers EXCEPT
       ![t] = [RestingScorer EXCEPT !.pc = IF "model" \in loaded THEN "encode" ELSE "load",
                             !.beside = LoadingNow # {}, !.half = (outcome = "half")]]
  /\ UNCHANGED <<loaded, outcome>>

(* Loading may fail before each assignment: the weights are read, moved to *)
(* the device, and the tokenizer is asked four times after the model was   *)
(* set.  The call ends with the exception; what is set stays set, and no   *)
(* later call begins another load if that is the model.                    *)
LoadFails(t) ==
  /\ ScorerIs(t, "load")
  /\ scorers' = [scorers EXCEPT ![t] = RestingScorer]
  /\ outcome' = IF outcome = "none" /\ scorers[t].next > 2 THEN "half" ELSE outcome
  /\ UNCHANGED <<loaded, scores>>

SetAttribute(t) ==
  LET last == scorers[t].next = Len(Attributes) IN
  /\ ScorerIs(t, "load")
  /\ loaded' = loaded \cup {Attributes[scorers[t].next]}
  /\ outcome' = IF last THEN "whole" ELSE outcome
  /\ scorers' = [scorers EXCEPT ![t].pc = IF last THEN "encode" ELSE "load", ![t].next = @ + 1]
  /\ UNCHANGED scores

(* The rows are made with the tokenizer, the prefix and the suffix; the    *)
(* logits of the model are read at the numbers of "yes" and "no".          *)
Encode(t) ==
  /\ ScorerIs(t, "encode")
  /\ scorers' = [scorers EXCEPT
       ![t].pc = "infer", ![t].rows = loaded \cap {"tokenizer", "prefix", "suffix"}]
  /\ UNCHANGED <<loaded, outcome, scores>>

Infer(t) ==
  /\ ScorerIs(t, "infer")
  /\ scorers' = [scorers EXCEPT
       ![t].pc = "idle",
       ![t].used = scorers[t].rows \cup (loaded \cap {"model", "yes", "no"})]
  /\ UNCHANGED <<loaded, outcome, scores>>

RerankNext ==
  \E t \in Scorers :
    CallScore(t) \/ LoadFails(t) \/ SetAttribute(t) \/ Encode(t) \/ Infer(t)

RerankSpec == RerankInit /\ [][RerankNext]_rerankVars

-----------------------------------------------------------------------------
RerankTypeOK ==
  /\ loaded \subseteq AllSet
  /\ outcome \in {"none", "half", "whole"}
  /\ scores \in 0..MaxScores
  /\ \A t \in Scorers : /\ scorers[t].next \in 1..Len(Attributes) + 1
                        /\ scorers[t].used \subseteq AllSet

(* However threads load, fail and score beside each other, a score always  *)
(* has the tokenizer and a model; and it lacks the numbers of yes and no,  *)
(* the prefix or the suffix only if its call began while another thread    *)
(* was loading, or came after a load that failed with the model set and    *)
(* before one that came to its end (_ensure_loaded and score).             *)
ScoresAreWhole ==
  \A t \in Scorers :
    /\ {"tokenizer", "model"} \subseteq scorers[t].used
    /\ scorers[t].used # AllSet => scorers[t].beside \/ scorers[t].half
=============================================================================
