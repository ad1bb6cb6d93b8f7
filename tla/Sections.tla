------------------------------- MODULE Sections -------------------------------
(***************************************************************************)
(* How a parsed document is cut into pieces that carry a page: the         *)
(* sections of adapters/ingestion/structure.py (a line of the JSONL        *)
(* exports each), the segments of the parse preview (api/v1/parse.py) and  *)
(* the page that the markdown chunker gives a chunk.                       *)
(*                                                                         *)
(* Markdown is read line by line; a line is a heading, a text, blank, or   *)
(* an image marker, and an offset is the number of its line.               *)
(***************************************************************************)
EXTENDS Integers, Sequences, Flatten

CONSTANTS
  MaxLength,   (* lines of a document at most                              *)
  MaxLevel     (* levels of headings                                       *)

ASSUME SectionsAssumption == MaxLength \in Nat \ {0} /\ MaxLevel \in 1..6

VARIABLES
  markdown,    (* the lines                                                *)
  pageMap,     (* MarkdownDoc.page_map: offsets at which a page begins     *)
  lineNo,      (* the lines read so far; -1 before there is a document     *)
  headings,    (* build_sections: the stack of enclosing headings          *)
  preamble,    (* the lines before the first heading                       *)
  sections     (* the sections, the last of which is open                  *)

sectionVars == <<markdown, pageMap, lineNo, headings, preamble, sections>>

Heading(level) == [kind |-> "heading", level |-> level]
Text(t) == [kind |-> "text", level |-> t]
Blank == [kind |-> "blank", level |-> 0]
Image == [kind |-> "image", level |-> 0]
LineSet == {Heading(l) : l \in 1..MaxLevel} \cup {Text(1), Text(2), Blank, Image}

(* Pages are numbered from 1; their first one may begin after the start.   *)
PageStarts == {x \in (0..1) \X (1..MaxLength) : x[1] < x[2]}
PageMaps == {<<>>} \cup {<<[at |-> x[1], page |-> 1], [at |-> x[2], page |-> 2]>> :
                          x \in PageStarts}

SectionsInit ==
  /\ markdown = <<>> /\ pageMap = <<>> /\ lineNo = -1
  /\ headings = <<>> /\ preamble = <<>> /\ sections = <<>>

GiveDocument ==
  /\ lineNo = -1
  /\ markdown' \in UNION {[1..n -> LineSet] : n \in 1..MaxLength}
  /\ pageMap' \in PageMaps
  /\ lineNo' = 0
  /\ UNCHANGED <<headings, preamble, sections>>

-----------------------------------------------------------------------------
(* The last page that has begun at an offset.                              *)
Begun(offset) == {k \in DOMAIN pageMap : pageMap[k].at <= offset}
LastBegun(offset) ==
  pageMap[CHOOSE k \in Begun(offset) : \A m \in Begun(offset) : m <= k].page

(* structure._page_for_offset; a document without pages has page 0 (None). *)
PageFor(offset) ==
  IF pageMap = <<>> THEN 0
  ELSE IF Begun(offset) = {} THEN pageMap[1].page ELSE LastBegun(offset)

(* The lines of some kinds.                                                *)
Only(lines, kinds) ==
  Flat([i \in DOMAIN lines |-> IF lines[i].kind \in kinds THEN <<lines[i]>> ELSE <<>>])

(* markdown_to_text leaves the texts.                                      *)
PlainText(lines) == Only(lines, {"text"})

Section(level, start, path, page) ==
  [level |-> level, start |-> start, path |-> path, body |-> <<>>, page |-> page]
TitleOnly(level) == Section(level, 0, <<>>, PageFor(0))

(* Fault: what comes before the first heading is dropped.                  *)
NoPreambleFault == <<>>

(* _emit_preamble: nothing if no text is left of it.                       *)
EmitPreamble ==
  IF PlainText(preamble) = <<>> THEN <<>>
  ELSE <<[TitleOnly(0) EXCEPT !.body = PlainText(preamble)]>>

(* The headings that a new one of this level does not close: pop while the *)
(* last one's level is not smaller.                                        *)
Open(stack, level) ==
  LET kept == {n \in 0..Len(stack) : n = 0 \/ stack[n].level < level}
  IN SubSeq(stack, 1, CHOOSE n \in kept : \A m \in kept : m <= n)

Current == markdown[lineNo + 1]
Closed == lineNo = Len(markdown) /\ lineNo # -1

ReadHeading ==
  /\ lineNo \in 0..(Len(markdown) - 1) /\ Current.kind = "heading"
  /\ LET stack == Append(Open(headings, Current.level),
                         [level |-> Current.level, line |-> lineNo]) IN
     /\ headings' = stack
     /\ sections' = (IF headings = <<>> THEN EmitPreamble ELSE sections)
          \o <<Section(Current.level, lineNo, [k \in DOMAIN stack |-> stack[k].line],
                       PageFor(lineNo))>>
  /\ lineNo' = lineNo + 1
  /\ UNCHANGED <<markdown, pageMap, preamble>>

(* A line of the open section, or of the preamble.                         *)
ReadLine ==
  /\ lineNo \in 0..(Len(markdown) - 1) /\ Current.kind # "heading"
  /\ IF headings = <<>>
     THEN preamble' = Append(preamble, Current) /\ UNCHANGED sections
     ELSE /\ sections' = [sections EXCEPT ![Len(sections)].body =
                            @ \o PlainText(<<Current>>)]
          /\ UNCHANGED preamble
  /\ lineNo' = lineNo + 1
  /\ UNCHANGED <<markdown, pageMap, headings>>

SectionsNext == GiveDocument \/ ReadHeading \/ ReadLine

SectionsSpec == SectionsInit /\ [][SectionsNext]_sectionVars

-----------------------------------------------------------------------------
(* build_sections of a document without a heading: a single section.       *)
Built ==
  IF sections # <<>> THEN sections
  ELSE <<[TitleOnly(0) EXCEPT !.body = PlainText(markdown)]>>

(* parse._page_for_offset, which knows no page before the first one begins.*)
SegmentPage(offset) == IF Begun(offset) = {} THEN 0 ELSE LastBegun(offset)

(* The blocks of _segment_markdown: the split at the first blank line      *)
(* after the line at which a block starts, so that the second of two blank *)
(* lines belongs to the block after it.  A block without lines is dropped. *)
BlockFrom(offset) == [start |-> offset, first |-> offset, lines |-> <<>>]
BlocksUpTo[n \in 0..Len(markdown)] ==
  IF n = 0 THEN <<BlockFrom(0)>>
  ELSE LET before == BlocksUpTo[n - 1]
           open == before[Len(before)]
       IN IF markdown[n].kind # "blank"
          THEN [before EXCEPT ![Len(before)] =
                  [start |-> open.start, lines |-> Append(open.lines, markdown[n]),
                   first |-> IF open.lines = <<>> THEN n - 1 ELSE open.first]]
          ELSE IF open.start < n - 1 THEN Append(before, BlockFrom(n)) ELSE before
Blocks == BlocksUpTo[Len(markdown)]

(* _segment_markdown prefers sections if there are several.                *)
BySections == Len(Built) > 1

(* MarkdownDocChunker._estimate_page: the first place with that text.      *)
EstimatedPage(t) ==
  LET places == {i \in DOMAIN markdown : markdown[i] = t} IN
  PageFor(IF places = {} THEN 0 ELSE CHOOSE i \in {x - 1 : x \in places} :
                                       \A j \in places : i <= j - 1)

-----------------------------------------------------------------------------
SectionsTypeOK ==
  /\ lineNo \in -1..MaxLength
  /\ \A k \in DOMAIN sections : sections[k].level \in 0..MaxLevel /\ sections[k].page \in 0..2
  /\ \A k \in DOMAIN headings : headings[k].level \in 1..MaxLevel

(* No text of a document is lost, doubled or reordered by cutting it, with *)
(* and without headings, and no heading is lost from the preview ("no      *)
(* content may be left out", structure.py:95).                             *)
HeadingLines == {i \in DOMAIN markdown : markdown[i].kind = "heading"}
NoTextLost ==
  Closed =>
    /\ Flat([k \in DOMAIN Built |-> Built[k].body]) = PlainText(markdown)
    /\ IF BySections
       THEN {Built[k].start + 1 : k \in {n \in DOMAIN Built : Built[n].level > 0}} = HeadingLines
       ELSE Flat([k \in DOMAIN Blocks |-> Blocks[k].lines])
              = Only(markdown, {"heading", "text", "image"})

(* Pieces know their place.  The path of a section names the headings that *)
(* enclose it: those before it with a level below that of every heading    *)
(* after them up to its own.  Pages never go back, and the three ways to   *)
(* find one agree: a block has the page that a chunk with its first line   *)
(* has if that line occurs once, except that the preview has no page       *)
(* before the first begins, and takes a block for one of the page before   *)
(* if its page begins with it and a second blank line stands above.        *)
PathsEnclose ==
  \A k \in DOMAIN sections :
    LET s == sections[k]
        inner(i) == {j \in (i + 1)..s.start : markdown[j + 1].kind = "heading"}
    IN s.level > 0 => {s.path[n] : n \in DOMAIN s.path} =
         {i \in 0..s.start :
            /\ markdown[i + 1].kind = "heading"
            /\ \A j \in inner(i) : markdown[i + 1].level < markdown[j + 1].level}

PiecesPlaced ==
  /\ PathsEnclose
  /\ Closed =>
       /\ \A k \in DOMAIN Built : \A m \in 1..k : Built[m].page <= Built[k].page
       /\ \A k \in DOMAIN Blocks :
            LET b == Blocks[k] IN
            /\ b.lines # <<>>
            /\ \A i \in DOMAIN markdown : markdown[i] = b.lines[1] => i = b.first + 1
            => \/ SegmentPage(b.start) \in {0, EstimatedPage(b.lines[1])}
               \/ /\ markdown[b.start + 1].kind = "blank" /\ b.first = b.start + 1
                  /\ \E m \in DOMAIN pageMap : pageMap[m].at = b.first

(* A document is cut without loss, and each piece knows where it was.      *)
DocumentIsWhole == NoTextLost /\ PiecesPlaced
=============================================================================
