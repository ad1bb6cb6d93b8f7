--------------------------- MODULE FieldExtraction ---------------------------
(***************************************************************************)
(* One extraction (services/extraction_service.py): the lines of the       *)
(* document, the route, the calls to a language or vision model, the       *)
(* fields made of its replies, and the boxes drawn as their evidence.  The *)
(* vision extractor asks for a few keys per call, in concurrent calls; a   *)
(* call may fail and a reply may say anything.                             *)
(*                                                                         *)
(* A line holds values; the box around some lines is the set of their ids. *)
(* The box that a vision model gives itself is the set {0}, and no box {}. *)
(***************************************************************************)
EXTENDS Integers, Sequences, FiniteSets

CONSTANTS
  KeyCount,     (* fields of the schema                                    *)
  ChunkSize,    (* _CHUNK_SIZE: keys per call                              *)
  MaxCalls,     (* _MAX_CONCURRENCY                                        *)
  MaxMatches,   (* more lines than that (3) with a value are ambiguous     *)
  PageCount,    (* pages of the document                                   *)
  MaxPages,     (* max_pages: the pages shown to a vision model            *)
  Papers,       (* the lines of documents: sequences of [page, holds]      *)
  Payloads      (* what a reply may say of a key                           *)

ASSUME ExtractionAssumption ==
  /\ {KeyCount, ChunkSize, MaxCalls, MaxMatches, PageCount, MaxPages} \subseteq Nat \ {0}
  /\ Papers \subseteq Seq([page : Nat, holds : SUBSET {"short", "long"}])
  /\ Payloads \subseteq [value : {"none", "short", "long"}, page : Nat,
                        boxed : BOOLEAN, sure : BOOLEAN, lines : Seq(Int)]

VARIABLES
  paper,      (* the lines that the line providers give                    *)
  ask,        (* the request                                               *)
  calls,      (* its calls to the model                                    *)
  collected,  (* how many of their replies, in order, have been taken      *)
  fields,     (* ExtractionResult.fields                                   *)
  drawn       (* the fields whose boxes have been drawn                    *)

extractionVars == <<paper, ask, calls, collected, fields, drawn>>

Keys == 1..KeyCount

(* A model may spell a key with other blanks or capitals.                  *)
Spelled == Keys \X {"exactly", "nearly"}
NoCall == [status |-> "none", said |-> <<>>]
NoAsk == [pc |-> "none", by |-> "none", vision |-> "none", prefer |-> FALSE,
          propose |-> FALSE]

ExtractionInit ==
  /\ paper = <<>> /\ ask = NoAsk /\ calls = <<>> /\ collected = 0
  /\ fields = <<>> /\ drawn = {}

AskAt(pc) == ask.pc = pc
AskGoto(pc) == ask' = [ask EXCEPT !.pc = pc]

(* extract or propose_schema, with vision if the user prefers it.          *)
GiveRequest ==
  /\ AskAt("none")
  /\ paper' \in Papers
  /\ \E vision \in {"none", "qwen", "gemini"}, prefer, propose \in BOOLEAN :
       ask' = [NoAsk EXCEPT !.pc = "route", !.vision = vision, !.prefer = prefer,
                            !.propose = propose]
  /\ UNCHANGED <<calls, collected, fields, drawn>>

-----------------------------------------------------------------------------
ChunkCount == (KeyCount + ChunkSize - 1) \div ChunkSize
Asked(c) ==
  IF Len(calls) = 1 THEN Keys
  ELSE {k \in Keys : (k - 1) \div ChunkSize = c - 1}

EmptyField(k) ==
  [key |-> k, value |-> "none", page |-> 0, box |-> {}, lines |-> {}, review |-> TRUE]
AllEmpty == [k \in Keys |-> EmptyField(k)]

(* The model is asked in as many calls as the extractor makes; without     *)
(* lines or pages there is none, and every field is empty - or no schema   *)
(* can be proposed.                                                        *)
CallModel(by) ==
  /\ ask' = [ask EXCEPT !.pc = "calls", !.by = by]
  /\ calls' = [c \in 1..(IF by = "qwen" /\ ~ask.propose THEN ChunkCount ELSE 1) |-> NoCall]
  /\ UNCHANGED fields

NothingToRead(by) ==
  /\ ask' = [ask EXCEPT !.pc = IF ask.propose THEN "refused" ELSE "draw", !.by = by]
  /\ fields' = IF ask.propose THEN <<>> ELSE AllEmpty
  /\ UNCHANGED calls

(* _extract_fields and propose_schema; only the former turns to vision by  *)
(* itself when no provider finds a line.  Rendering the pages may fail,    *)
(* and so may opening the file for its lines.                              *)
ChooseRoute ==
  /\ AskAt("route")
  /\ \/ /\ ask.prefer /\ ask.vision = "none"
        /\ AskGoto("refused") /\ UNCHANGED <<calls, fields>>
     \/ /\ ask.vision # "none"
        /\ ask.prefer \/ (paper = <<>> /\ ~ask.propose)
        /\ CallModel(ask.vision) \/ NothingToRead(ask.vision)
     \/ /\ ~ask.prefer /\ paper # <<>>
        /\ CallModel("text")
     \/ /\ ~ask.prefer /\ paper = <<>> /\ (ask.vision = "none" \/ ask.propose)
        /\ NothingToRead("text")
     \/ /\ ~ask.prefer
        /\ AskGoto("failed") /\ UNCHANGED <<calls, fields>>
  /\ UNCHANGED <<paper, collected, drawn>>

(* _extract_raw: a pool of threads takes the calls in their order.         *)
StartCall(c) ==
  /\ AskAt("calls") /\ calls[c].status = "none"
  /\ \A d \in 1..(c - 1) : calls[d].status # "none"
  /\ Cardinality({d \in DOMAIN calls : calls[d].status = "running"}) < MaxCalls
  /\ calls' = [calls EXCEPT ![c].status = "running"]
  /\ UNCHANGED <<paper, ask, collected, fields, drawn>>

(* _generate and _parse_fields: an error, nothing that can be parsed, or   *)
(* some keys - the ones asked for or others.                               *)
ModelReplies(c) ==
  /\ ask.pc \in {"calls", "broken"} /\ calls[c].status = "running"
  /\ \/ calls' = [calls EXCEPT ![c].status = "failed"]
     \/ \E said \in {<<>>} \cup (UNION {[{s} -> Payloads] : s \in Spelled})
                    \cup [{<<k, "exactly">> : k \in Asked(c)} -> Payloads] :
          calls' = [calls EXCEPT ![c] = [status |-> "ok", said |-> said]]
  /\ UNCHANGED <<paper, ask, collected, fields, drawn>>

(* executor.map gives the replies in the order of the calls; a failed one  *)
(* raises, and calls that have not started are not made.                   *)
CollectReply ==
  LET c == collected + 1 IN
  /\ AskAt("calls") /\ c \in DOMAIN calls
  /\ \/ /\ calls[c].status = "ok"
        /\ collected' = c /\ UNCHANGED ask
     \/ /\ calls[c].status = "failed"
        /\ AskGoto("broken") /\ UNCHANGED collected
  /\ UNCHANGED <<paper, calls, fields, drawn>>

RaiseFailure ==
  /\ AskAt("broken") /\ \A c \in DOMAIN calls : calls[c].status # "running"
  /\ AskGoto("failed")
  /\ UNCHANGED <<paper, calls, collected, fields, drawn>>

-----------------------------------------------------------------------------
(* Fault: a reply replaces the ones before it.                             *)
LastReplyFault(later, earlier) == later

(* parsed.update.                                                          *)
Updated(later, earlier) ==
  [s \in DOMAIN later \cup DOMAIN earlier |->
     IF s \in DOMAIN later THEN later[s] ELSE earlier[s]]

ParsedUpTo[c \in 0..Len(calls)] ==
  IF c = 0 THEN <<>> ELSE Updated(calls[c].said, ParsedUpTo[c - 1])
Parsed == ParsedUpTo[Len(calls)]

(* Only Qwen's extractor also accepts a key that is nearly the one asked.  *)
PayloadsFor(k) ==
  IF <<k, "exactly">> \in DOMAIN Parsed THEN {Parsed[<<k, "exactly">>]}
  ELSE IF ask.by = "qwen" /\ <<k, "nearly">> \in DOMAIN Parsed
       THEN {Parsed[<<k, "nearly">>]} ELSE {}

LineIds == DOMAIN paper
PageOfLine(id) == paper[id].page

(* _evidence_location: the cited lines on the page of the first one.       *)
SamePage(lines, page) == {id \in lines : PageOfLine(id) = page}

(* _build_field of the extractor that reads lines: cited lines that do not *)
(* exist are left out.                                                     *)
TextField(k, p) ==
  LET cited == {n \in DOMAIN p.lines : p.lines[n] \in LineIds}
      ids == {p.lines[n] : n \in cited}
      page == IF cited = {} THEN 0
              ELSE PageOfLine(p.lines[CHOOSE n \in cited : \A m \in cited : n <= m])
  IN [key |-> k, value |-> p.value, page |-> page, lines |-> ids,
      box |-> IF page = 0 THEN {} ELSE SamePage(ids, page),
      review |-> p.value = "none" \/ ~p.sure]

(* _build_field of the vision extractors: _box_to_bbox needs the page to   *)
(* be one that was shown.                                                  *)
VisionField(k, p) ==
  [key |-> k, value |-> p.value, page |-> p.page, lines |-> {},
   box |-> IF p.boxed /\ p.page \in 1..PageCount /\ p.page <= MaxPages THEN {0} ELSE {},
   review |-> p.value = "none" \/ ~p.sure]

BuildFields ==
  /\ AskAt("calls") /\ collected = Len(calls)
  /\ IF ask.propose
     THEN AskGoto(IF DOMAIN Parsed = {} THEN "refused" ELSE "done") /\ UNCHANGED fields
     ELSE /\ fields' = [k \in Keys |->
               IF PayloadsFor(k) = {} THEN EmptyField(k)
               ELSE LET p == CHOOSE p \in PayloadsFor(k) : TRUE
                    IN IF ask.by = "text" THEN TextField(k, p) ELSE VisionField(k, p)]
          /\ AskGoto(IF ask.by = "qwen" THEN "ground" ELSE "draw")
  /\ UNCHANGED <<paper, calls, collected, drawn>>

(* _match_value_box: the lines that hold the value, on the field's page -  *)
(* or, if no line is on that page, on the first page that has some; none   *)
(* if there are too many or the value is too short.                        *)
MatchedLines(f) ==
  LET on(p) == {id \in LineIds : PageOfLine(id) = p /\ f.value \in paper[id].holds}
      withLines == {PageOfLine(id) : id \in LineIds}
      fit == {p \in (IF f.page \in withLines THEN {f.page} ELSE withLines) :
                Cardinality(on(p)) \in 1..MaxMatches}
  IN IF f.value # "long" \/ fit = {} THEN {}
     ELSE on(CHOOSE p \in fit : \A q \in fit : p <= q)

(* _ground_with_lines; the lines may not be found.                         *)
GroundFields ==
  /\ AskAt("ground")
  /\ \/ fields' = [k \in Keys |-> IF MatchedLines(fields[k]) = {} THEN fields[k]
                                  ELSE [fields[k] EXCEPT !.box = MatchedLines(fields[k])]]
     \/ UNCHANGED fields
  /\ AskGoto("draw")
  /\ UNCHANGED <<paper, calls, collected, drawn>>

(* render_field_evidence: page by page, each of which may fail.            *)
DrawEvidence ==
  /\ AskAt("draw")
  /\ \E pages \in SUBSET (1..PageCount) :
       drawn' = {fields[k] : k \in {j \in Keys : fields[j].box # {} /\ fields[j].page \in pages}}
  /\ AskGoto("done")
  /\ UNCHANGED <<paper, calls, collected, fields>>

ExtractionNext ==
  \/ GiveRequest \/ ChooseRoute \/ CollectReply \/ RaiseFailure \/ BuildFields
  \/ (\E c \in DOMAIN calls : StartCall(c) \/ ModelReplies(c))
  \/ GroundFields \/ DrawEvidence

ExtractionSpec == ExtractionInit /\ [][ExtractionNext]_extractionVars
-----------------------------------------------------------------------------
Field == [key : Keys, value : {"none", "short", "long"}, page : Nat,
          box : SUBSET (LineIds \cup {0}), lines : SUBSET LineIds, review : BOOLEAN]

ExtractionTypeOK ==
  /\ paper = <<>> \/ paper \in Papers
  /\ ask.pc \in {"none", "route", "calls", "broken", "ground", "draw", "done",
                 "refused", "failed"}
  /\ ask.by \in {"none", "text", "qwen", "gemini"}
  /\ \A c \in DOMAIN calls : calls[c].status \in {"none", "running", "ok", "failed"}
  /\ collected \in 0..Len(calls)
  /\ \A k \in DOMAIN fields : fields[k] \in Field
  /\ drawn \subseteq {fields[k] : k \in DOMAIN fields}

(* An answer is never a partial one: no call behind it failed, it has each *)
(* field once, and a field is what the call that asked for it replied, in  *)
(* whatever order the calls ended - provided that no reply speaks of keys  *)
(* that it was not asked for.                                              *)
AnswerIsWhole ==
  (AskAt("done") /\ ~ask.propose) =>
    /\ \A c \in DOMAIN calls : calls[c].status = "ok"
    /\ DOMAIN fields = Keys
    /\ (\A c \in DOMAIN calls : \A s \in DOMAIN calls[c].said : s[1] \in Asked(c)) =>
         \A c \in DOMAIN calls : \A k \in Asked(c) :
           LET said == calls[c].said IN
           IF <<k, "exactly">> \in DOMAIN said
           THEN fields[k].value = said[<<k, "exactly">>].value
           ELSE fields[k].value \in
                  {"none"} \cup {said[s].value : s \in DOMAIN said \cap {<<k, "nearly">>}}

(* A box that is drawn lies on the page on which it is drawn: it is the    *)
(* one the model gave for that page, or it goes around lines of that page, *)
(* all those that the field cites there or those that hold its value.      *)
(* This fails only for a page without any lines, when a box was found on   *)
(* another page.                                                           *)
BoxesOnTheirPage ==
  \A f \in drawn :
    \/ f.box = {0}
    \/ ask.by = "text" /\ f.box = {id \in f.lines : PageOfLine(id) = f.page}
    \/ /\ ask.by = "qwen"
       /\ \A id \in f.box : f.value \in paper[id].holds
       /\ (\E id \in LineIds : PageOfLine(id) = f.page) =>
            \A id \in f.box : PageOfLine(id) = f.page

(* The fields of an answer are whole, and drawn where they were found.     *)
FieldsAreGrounded == AnswerIsWhole /\ BoxesOnTheirPage
=============================================================================
