------------------------------ MODULE Parsers ------------------------------
(***************************************************************************)
(* Text from a file (adapters/ingestion/extract): PdfExtractor tries four  *)
(* parsers in turn until one gives a text that is not blank.  One instance *)
(* of it serves every request of the process, so the converters that the   *)
(* Docling parser keeps, one with and one without OCR, are shared by the   *)
(* threads of ingests, parses and diffs.                                   *)
(*                                                                         *)
(* A page is the length of its text layer, the length of the text one only *)
(* sees (OCR reads it), whether it has an image, and where its text is on  *)
(* it: [left, top, right, bottom], from the top left.  A text is a         *)
(* sequence of parts, each from a page; page_map says where in it a page   *)
(* begins, and blocks, where on it.                                        *)
(***************************************************************************)
EXTENDS Integers, Sequences, FiniteSets

CONSTANTS
  Parsings,      (* calls of extract() that run at once                    *)
  SourceFiles,   (* files: [kind, pages]                                   *)
  ProbePages,    (* _PROBE_PAGES                                           *)
  DigitalMin,    (* _DIGITAL_TEXT_MIN_CHARS                                *)
  PageSize       (* width and height of a page                             *)

FileKinds == {"pdf", "deck", "office", "image"}
Box == [left : Int, top : Int, right : Int, bottom : Int]
PageText == [layer : Nat, seen : Nat, image : BOOLEAN, box : Box]

ASSUME ParsersAssumption ==
  /\ \A f \in SourceFiles : f.kind \in FileKinds /\ f.pages \in Seq(PageText)
  /\ ProbePages \in Nat \ {0} /\ DigitalMin \in Nat \ {0}
  /\ PageSize \in Nat \ {0}

VARIABLES
  libraries,    (* docling and openparse, if they are installed            *)
  converters,   (* the modes whose converter is cached: TRUE is with OCR   *)
  parsing,      (* of each call: its step and what it has                  *)
  parsed        (* of each call: the text it returned                      *)

parserVars == <<libraries, converters, parsing, parsed>>

Chain == <<"digital", "layout", "ocr", "fallback">>     \* _default_parsers
NoText == [by |-> "none", parts |-> <<>>, map |-> <<>>, exact |-> TRUE, blocks |-> <<>>]
NoFile == [kind |-> "none", pages |-> <<>>]
Idle == [pc |-> "new", file |-> NoFile, at |-> 1, ocr |-> FALSE, uses |-> FALSE,
         tried |-> FALSE, raised |-> FALSE]

ParsersInit ==
  /\ libraries \in SUBSET {"digital", "layout"}
  /\ converters = {}
  /\ parsing = [r \in Parsings |-> Idle]
  /\ parsed = [r \in Parsings |-> NoText]

-----------------------------------------------------------------------------
(* The text of a file, part by part.  Parts have a page and a length.      *)
SumsOf(s) ==
  LET sums[n \in 0..Len(s)] == IF n = 0 THEN 0 ELSE sums[n - 1] + s[n] IN sums
SumOf(s) == SumsOf(s)[Len(s)]
LengthsOf(parts) == [i \in 1..Len(parts) |-> parts[i].length]
LengthOf(parts) == SumOf(LengthsOf(parts))
Numbered(lengths) ==
  [i \in DOMAIN lengths |-> [page |-> i, length |-> lengths[i]]]
Starts(parts, gap, i) == SumsOf(LengthsOf(parts))[i - 1] + gap * (i - 1)

(* Every part begins its page: _assemble, _plain_fallback, _parse_pptx,    *)
(* _split_pages_by_sentinel.                                               *)
MapOf(parts, gap) ==
  [i \in 1..Len(parts) |-> <<Starts(parts, gap, i), parts[i].page>>]

Joined(by, parts, map, exact) ==
  [by |-> by, parts |-> parts, map |-> map, exact |-> exact, blocks |-> <<>>]

(* Docling, with or without OCR.  A page without any item gives no part    *)
(* and no page break, so that the pages after it count one less.           *)
Joiner == 2
ItemsUpTo(parts) ==
  LET items[n \in 0..Len(parts)] ==
        IF n = 0 THEN <<>>
        ELSE items[n - 1] \o (IF parts[n].length > 0 THEN <<parts[n]>> ELSE <<>>)
  IN items
Items(file, ocr) ==
  LET parts == Numbered([i \in DOMAIN file.pages |->
                 file.pages[i].layer + (IF ocr THEN file.pages[i].seen ELSE 0)])
  IN ItemsUpTo(parts)[Len(parts)]

(* _split_pages_by_sentinel: the n-th segment is page n.                   *)
Digital(file, ocr) ==
  LET parts == Items(file, ocr)
      counted == [i \in 1..Len(parts) |-> [parts[i] EXCEPT !.page = i]]
  IN  Joined("digital", parts, MapOf(counted, Joiner),
             \A i \in 1..Len(parts) : parts[i].page = i)

(* An old Docling has no page breaks: _build_page_map_from_docling cuts    *)
(* the text into as many equal pieces as there are pages.                  *)
DigitalGuessed(file, ocr) ==
  LET parts == Items(file, ocr)
      n == Len(file.pages)
      piece == LengthOf(parts) \div n
  IN  Joined("digital", parts,
             [i \in 1..n |-> <<(i - 1) * (IF piece = 0 THEN 1 ELSE piece), i>>], FALSE)

(* Open-Parse: its nodes, which may or may not tell their page; a new page *)
(* number is a new entry of page_map.                                      *)
Layout(file, told) ==
  LET parts == Items(file, FALSE)
      map == IF told \/ parts = <<>> THEN MapOf(parts, Joiner) ELSE << <<0, 1>> >>
  IN  Joined("layout", parts, map, told)

(* pymupdf reads the text layer, as markdown or plain; images leave a      *)
(* marker of length 1 at the end of their page.                            *)
Ocr(file, markers) ==
  LET parts == Numbered([i \in DOMAIN file.pages |->
        file.pages[i].layer + (IF markers /\ file.pages[i].image THEN 1 ELSE 0)])
  IN  Joined("ocr", parts, MapOf(parts, 0), TRUE)

(* Plain text: only slides have pages, each with a heading of length 1.    *)
Fallback(file) ==
  LET deck == file.kind = "deck"
      parts == Numbered([i \in DOMAIN file.pages |->
                 file.pages[i].layer + (IF deck THEN 1 ELSE 0)])
  IN  Joined("fallback", parts, IF deck THEN MapOf(parts, 0) ELSE <<>>, deck)

(* Docling measures a box from the bottom left or from the top left.       *)
FromBottom(box) ==
  [box EXCEPT !.top = PageSize - box.top, !.bottom = PageSize - box.bottom]
Within(v) == IF v < 0 THEN 0 ELSE IF v > PageSize THEN PageSize ELSE v
NoBox == [x |-> 0, y |-> 0, w |-> 0, h |-> 0]

(* Fault: every box is taken to be measured from the top left.             *)
NoFlipFault(box, bottomLeft) ==
  LET b == [x |-> Within(box.left), w |-> Within(box.right - box.left),
            y |-> Within(box.top), h |-> Within(box.bottom - box.top)]
  IN  IF b.w = 0 \/ b.h = 0 THEN NoBox ELSE b

(* _normalize_bbox, in units of the page.                                  *)
Normalized(box, bottomLeft) ==
  LET b == [x |-> Within(box.left), w |-> Within(box.right - box.left),
            y |-> Within(IF bottomLeft THEN PageSize - box.top ELSE box.top),
            h |-> Within(IF bottomLeft THEN box.top - box.bottom
                                       ELSE box.bottom - box.top)]
  IN  IF b.w = 0 \/ b.h = 0 THEN NoBox ELSE b

(* _build_blocks_from_docling: what there is before something fails.       *)
WithBlocks(text, file, bottomLeft, count) ==
  [text EXCEPT !.blocks =
     [i \in 1..count |->
        LET box == file.pages[text.parts[i].page].box
        IN  [page |-> text.parts[i].page,
             box  |-> Normalized(IF bottomLeft THEN FromBottom(box) ELSE box,
                                 bottomLeft)]]]

-----------------------------------------------------------------------------
(* A call of extract().                                                    *)
Stands(r, pc) == parsing[r].pc = pc
Goes(r, call) == parsing' = [parsing EXCEPT ![r] = call]
Parser(r) == Chain[parsing[r].at]
File(r) == parsing[r].file

Supports(parser, kind) ==
  CASE parser = "digital"  -> TRUE
    [] parser = "layout"   -> kind # "image"
    [] parser = "ocr"      -> kind = "pdf"
    [] parser = "fallback" -> kind \in {"deck", "office"}
Usable(r) ==
  /\ Parser(r) \in libraries \cup {"ocr", "fallback"}
  /\ Supports(Parser(r), File(r).kind)

Begins(r) ==
  /\ Stands(r, "new")
  /\ \E f \in SourceFiles : Goes(r, [parsing[r] EXCEPT !.pc = "choose", !.file = f])
  /\ UNCHANGED <<libraries, converters, parsed>>

NextParser(r, raises) ==
  Goes(r, [parsing[r] EXCEPT !.pc = IF parsing[r].at = Len(Chain) THEN "failed" ELSE "choose",
                             !.at = @ + 1, !.raised = @ \/ raises])

Skips(r) ==
  /\ Stands(r, "choose") /\ ~Usable(r)
  /\ NextParser(r, FALSE)
  /\ UNCHANGED <<libraries, converters, parsed>>

(* _needs_ocr: an image does, office files do not, a pdf does unless its   *)
(* first pages have text enough.                                           *)
Probed(pages) == SubSeq(pages, 1, IF Len(pages) < ProbePages THEN Len(pages)
                                                          ELSE ProbePages)
NeedsOcr(file) ==
  \/ file.kind = "image"
  \/ /\ file.kind = "pdf"
     /\ SumOf([i \in DOMAIN Probed(file.pages) |-> Probed(file.pages)[i].layer]) < DigitalMin

(* A probe that fails says that the file needs it.                         *)
Probes(r) ==
  /\ Stands(r, "choose") /\ Usable(r) /\ Parser(r) = "digital"
  /\ \E failing \in BOOLEAN :
       /\ failing => File(r).kind = "pdf"
       /\ Goes(r, [parsing[r] EXCEPT !.pc = "ensure", !.tried = TRUE,
                                       !.ocr = failing \/ NeedsOcr(File(r))])
  /\ UNCHANGED <<libraries, converters, parsed>>

(* _ensure_converter: the cached converter of the mode, or a new one.      *)
ConverterFor(r) == {parsing[r].ocr}

EnsuresConverter(r) ==
  /\ Stands(r, "ensure")
  /\ \E mode \in ConverterFor(r) :
       Goes(r, [parsing[r] EXCEPT !.pc = IF mode \in converters THEN "convert" ELSE "build",
                                  !.uses = mode])
  /\ UNCHANGED <<libraries, converters, parsed>>

(* Building takes long and others may do the same meanwhile; it may fail.  *)
Builds(r) ==
  /\ Stands(r, "build")
  /\ \/ /\ Goes(r, [parsing[r] EXCEPT !.pc = "convert"])
        /\ converters' = converters \cup {parsing[r].uses}
     \/ NextParser(r, FALSE) /\ UNCHANGED converters
  /\ UNCHANGED <<libraries, parsed>>

(* extract() takes a text that is not blank.                               *)
Takes(r, text) ==
  IF LengthOf(text.parts) = 0
    THEN NextParser(r, FALSE) /\ UNCHANGED parsed
    ELSE Goes(r, [parsing[r] EXCEPT !.pc = "done"]) /\ parsed' = [parsed EXCEPT ![r] = text]

Converts(r) ==
  /\ Stands(r, "convert")
  /\ \/ \E text \in {Digital(File(r), parsing[r].uses),
                      DigitalGuessed(File(r), parsing[r].uses)},
           bottomLeft \in BOOLEAN :
          \E count \in {0, Len(text.parts)} :
            Takes(r, WithBlocks(text, File(r), bottomLeft, count))
     \/ NextParser(r, FALSE) /\ UNCHANGED parsed
  /\ UNCHANGED <<libraries, converters>>

ParsesLayout(r) ==
  /\ Stands(r, "choose") /\ Usable(r) /\ Parser(r) = "layout"
  /\ \/ \E told \in BOOLEAN : Takes(r, Layout(File(r), told))
     \/ NextParser(r, FALSE) /\ UNCHANGED parsed
  /\ UNCHANGED <<libraries, converters>>

(* The images of a damaged file are given up; only opening the file in the *)
(* plain fallback raises.                                                  *)
ParsesOcr(r) ==
  /\ Stands(r, "choose") /\ Usable(r) /\ Parser(r) = "ocr"
  /\ \/ \E markers \in BOOLEAN : Takes(r, Ocr(File(r), markers))
     \/ NextParser(r, TRUE) /\ UNCHANGED parsed
  /\ UNCHANGED <<libraries, converters>>

ParsesPlain(r) ==
  /\ Stands(r, "choose") /\ Usable(r) /\ Parser(r) = "fallback"
  /\ Takes(r, Fallback(File(r))) \/ (NextParser(r, FALSE) /\ UNCHANGED parsed)
  /\ UNCHANGED <<libraries, converters>>

ParsersNext ==
  \E r \in Parsings :
    \/ Begins(r) \/ Skips(r) \/ Probes(r) \/ EnsuresConverter(r) \/ Builds(r)
    \/ Converts(r) \/ ParsesLayout(r) \/ ParsesOcr(r) \/ ParsesPlain(r)

ParsersSpec == ParsersInit /\ [][ParsersNext]_parserVars

-----------------------------------------------------------------------------
ParsersTypeOK ==
  /\ libraries \subseteq {"digital", "layout"}
  /\ converters \subseteq BOOLEAN
  /\ \A r \in Parsings :
       /\ parsing[r].file \in SourceFiles \cup {NoFile}
       /\ parsing[r].at \in 1..Len(Chain) + 1
       /\ parsed[r].by \in {"none"} \cup {Chain[n] : n \in DOMAIN Chain}

PageAtOffset(map, x) ==
  LET before == {i \in 1..Len(map) : map[i][1] <= x}
  IN  map[CHOOSE i \in before : \A j \in before : j <= i][2]

PagesTold(text) ==
  LET gap == IF text.by \in {"digital", "layout"} THEN Joiner ELSE 0 IN
  text.exact => \A i \in 1..Len(text.parts) :
                  \A x \in 0..text.parts[i].length - 1 :
                    PageAtOffset(text.map, Starts(text.parts, gap, i) + x)
                      = text.parts[i].page

OnPage(box) ==
  0 <= box.left /\ box.left < box.right /\ box.right <= PageSize
  /\ 0 <= box.top /\ box.top < box.bottom /\ box.bottom <= PageSize
BoxesDrawn(text, pages) ==
  \A i \in 1..Len(text.blocks) :
    LET placed == pages[text.blocks[i].page].box IN
    OnPage(placed) =>
      text.blocks[i].box = [x |-> placed.left, y |-> placed.top,
                            w |-> placed.right - placed.left,
                            h |-> placed.bottom - placed.top]

(* page_map tells the page of every character, in the texts whose parser   *)
(* knew it (no page without items before one with some, no old Docling, no *)
(* node without a page), and a block is where its text is on the page,     *)
(* from whichever corner Docling measures (ir.py MarkdownDoc, DocBlock).   *)
TextIsLocated ==
  \A r \in Parsings :
    PagesTold(parsed[r]) /\ BoxesDrawn(parsed[r], File(r).pages)

(* Whatever the calls beside it build and cache, the Docling parser reads  *)
(* what it takes for a scan with OCR, and no text that one only sees is    *)
(* missing from it (_ensure_converter, _needs_ocr).                        *)
ScansAreRead ==
  \A r \in Parsings :
    (parsed[r].by = "digital" /\ NeedsOcr(File(r))) =>
      \A p \in 1..Len(File(r).pages) :
        File(r).pages[p].seen > 0 =>
          \E i \in 1..Len(parsed[r].parts) :
            /\ parsed[r].parts[i].page = p
            /\ parsed[r].parts[i].length >= File(r).pages[p].seen

(* What a file says is read, and it is known where.                        *)
FilesAreRead == TextIsLocated /\ ScansAreRead
=============================================================================
