--------------------------- MODULE Documents_proofs ---------------------------
(***************************************************************************)
(* Proofs about how the server treats files: the caches of a comparison    *)
(* (DiffCache), for every number of comparisons and of overwrites, the     *)
(* temporary files of an upload (TempFiles), what a comparison answers and *)
(* marks (DiffMarks), for all texts and widths of a page, the fields of an *)
(* extraction (FieldExtraction), for all schemas and replies, the texts    *)
(* that are read from files (Parsers), for all files, and the pieces that  *)
(* a document is cut into (Sections), for all documents.                   *)
(***************************************************************************)
EXTENDS DiffCache, TempFiles, DiffMarks, FieldExtraction, Parsers, Sections,
        SequenceTheorems, FiniteSetTheorems, WellFoundedInduction, TLAPS

-----------------------------------------------------------------------------
(* The inductive invariant.                                                *)
DiffSteps == {"none", "stat", "text", "page1", "page2", "done"}
Comparison ==
  [pc : DiffSteps, mtime : Pair, text : Pair, page : Pair, marks : Pair \X Pair]

DiffTyped ==
  /\ diskVersion \in Pair
  /\ diskVersion[1] + diskVersion[2] <= MaxOverwrites + 2
  /\ \A f \in Sides : diskVersion[f] >= 1
  /\ diffs \in [Requests -> Comparison]
  /\ untouched \in [Requests -> SUBSET Sides]

(* A version that was read when or after the file had the mtime m.         *)
NotOlder(v, f, m) == v \in Versions /\ m <= v /\ v <= diskVersion[f]

(* A cached text is no older than the mtime it is kept under.              *)
TextEntry(e) ==
  \E f \in Sides, m \in Versions :
    e.key = CacheKey(f, m) /\ m >= 1 /\ NotOlder(e.value, f, m)
TextsKept == \A e \in textCache : TextEntry(e)

(* So are cached pages, and they carry the marks they are kept under.      *)
PageEntry(e) ==
  \E f \in Sides, m \in Versions, marks \in Pair, v \in Versions :
    /\ e.key = PageKey(f, m, marks)
    /\ e.value = <<v, marks>>
    /\ v = 0 \/ NotOlder(v, f, m)
PagesKept == \A e \in pageCache : PageEntry(e)

(* What a comparison has read of a file so far: its mtime, its text, its   *)
(* pages.                                                                  *)
HasRead(r, f) ==
  LET d == diffs[r] IN
  /\ d.mtime[f] <= diskVersion[f]
  /\ d.pc \in {"text", "page1", "page2", "done"} => d.mtime[f] >= 1
  /\ d.pc \in {"page1", "page2", "done"} => d.text[f] >= 1
  /\ f \in untouched[r] =>
       /\ d.mtime[f] \in {0, diskVersion[f]}
       /\ d.text[f] \in {0, diskVersion[f]}
       /\ d.page[f] \in {0, diskVersion[f]}
  /\ d.pc = "done" \/ (f = 1 /\ d.pc = "page2") => d.marks[f] = d.text

DiffInv ==
  /\ DiffTyped /\ TextsKept /\ PagesKept
  /\ \A r \in Requests, f \in Sides : HasRead(r, f)

-----------------------------------------------------------------------------
(* The caches are empty at the start.                                      *)
LEMMA DiffInitInv == DiffInit => DiffInv
<1> SUFFICES ASSUME DiffInit PROVE DiffInv
  OBVIOUS
<1> USE DiffAssumption DEF DiffInit, NoDiff, Pair, Versions, Sides
<1>1. DiffTyped
  BY DEF DiffTyped, Comparison, DiffSteps
<1>2. TextsKept /\ PagesKept
  BY DEF TextsKept, PagesKept
<1>3. \A r \in Requests, f \in Sides : HasRead(r, f)
  BY DEF HasRead
<1> QED
  BY <1>1, <1>2, <1>3 DEF DiffInv

(* Files only grow younger, so what caches keep stays true of them.        *)
LEMMA EntriesStay ==
  ASSUME DiffTyped, diskVersion' \in Pair,
         \A f \in Sides : diskVersion[f] <= diskVersion'[f]
  PROVE  /\ \A e : TextEntry(e) => TextEntry(e)'
         /\ \A e : PageEntry(e) => PageEntry(e)'
<1>1. \A v, m \in Versions, f \in Sides : NotOlder(v, f, m) => NotOlder(v, f, m)'
  BY DiffAssumption DEF NotOlder, DiffTyped, Pair, Versions, Sides
<1>2. \A v, f, m : NotOlder(v, f, m) => v \in Versions
  BY DEF NotOlder
<1>3. ASSUME NEW e, TextEntry(e) PROVE TextEntry(e)'
  BY <1>1, <1>2, <1>3 DEF TextEntry, CacheKey
<1>4. ASSUME NEW e, PageEntry(e) PROVE PageEntry(e)'
  BY <1>1, <1>2, <1>4 DEF PageEntry, PageKey, CacheKey
<1> QED
  BY <1>3, <1>4

(* An overwrite gives the file a later time and leaves the caches behind   *)
(* it.                                                                     *)
LEMMA ReplaceInv ==
  ASSUME DiffInv, NEW g \in Sides, Replace(g) PROVE DiffInv'
<1> USE DiffAssumption DEF Versions, Pair, Sides
<1>1. /\ diskVersion' \in Pair
      /\ \A f \in Sides : diskVersion'[f] = IF f = g THEN diskVersion[f] + 1 ELSE diskVersion[f]
  BY DEF Replace, DiffInv, DiffTyped
<1>2. DiffTyped'
  BY <1>1 DEF Replace, DiffInv, DiffTyped
<1>3. TextsKept' /\ PagesKept'
  BY <1>1, EntriesStay DEF Replace, DiffInv, DiffTyped, TextsKept, PagesKept
<1>4. \A r \in Requests, f \in Sides : HasRead(r, f)'
  BY <1>1 DEF Replace, DiffInv, DiffTyped, HasRead, Comparison
<1> QED
  BY <1>2, <1>3, <1>4 DEF DiffInv

(* A comparison that starts has read nothing.                              *)
LEMMA StartInv ==
  ASSUME DiffInv, NEW r \in Requests, StartDiff(r) PROVE DiffInv'
<1> USE DiffAssumption DEF Versions, Pair, Sides, NoDiff
<1>1. DiffTyped'
  <2>1. [NoDiff EXCEPT !.pc = "stat"] \in Comparison
    BY DEF Comparison, DiffSteps
  <2>2. diffs' \in [Requests -> Comparison] /\ untouched' \in [Requests -> SUBSET Sides]
    BY <2>1 DEF StartDiff, DiffInv, DiffTyped
  <2> QED
    BY <2>2 DEF StartDiff, DiffInv, DiffTyped
<1>2. TextsKept' /\ PagesKept'
  BY DEF StartDiff, DiffInv, TextsKept, PagesKept, TextEntry, PageEntry, NotOlder
<1>3. \A q \in Requests, f \in Sides : HasRead(q, f)'
  BY DEF StartDiff, DiffInv, DiffTyped, HasRead, Comparison
<1> QED
  BY <1>1, <1>2, <1>3 DEF DiffInv

(* The time that a comparison takes is the present one or an earlier one.  *)
LEMMA StatInv ==
  ASSUME DiffInv, NEW r \in Requests, NEW g \in Sides, StatFile(r, g) PROVE DiffInv'
<1> USE DiffAssumption DEF Versions, Pair, Sides
<1>1. DiffTyped'
  <2>1. [diffs[r].mtime EXCEPT ![g] = diskVersion[g]] \in Pair
    BY DEF DiffInv, DiffTyped, Comparison
  <2> HIDE DEF Pair, Versions, Sides
  <2> DEFINE d == diffs[r]
             after == [d EXCEPT !.mtime[g] = diskVersion[g],
                                !.pc = IF g = 2 THEN "text" ELSE @]
  <2>2. d \in Comparison /\ diffs \in [Requests -> Comparison]
    BY DEF DiffInv, DiffTyped
  <2>3. after \in Comparison
    BY <2>1, <2>2 DEF Comparison, DiffSteps
  <2>4. diffs' = [diffs EXCEPT ![r] = after]
    BY DEF StatFile
  <2>5. diffs' \in [Requests -> Comparison]
    BY <2>2, <2>3, <2>4
  <2> QED
    BY <2>5 DEF StatFile, DiffInv, DiffTyped
<1>2. TextsKept' /\ PagesKept'
  BY DEF StatFile, DiffInv, TextsKept, PagesKept, TextEntry, PageEntry, NotOlder
<1>3. \A q \in Requests, f \in Sides : HasRead(q, f)'
  BY DEF StatFile, DiffInv, DiffTyped, HasRead, Comparison
<1> QED
  BY <1>1, <1>2, <1>3 DEF DiffInv

(* What a cached function gives is in the cache it leaves, and the cache   *)
(* has no other new entries.                                               *)
LEMMA CachedKeeps ==
  ASSUME NEW cache, NEW key, NEW computed, NEW c \in Cached(cache, key, computed)
  PROVE  /\ c.got = computed \/ \E e \in cache : e.key = key /\ e.value = c.got
         /\ \A e \in c.cache : e \in cache \/ e = [key |-> key, value |-> computed]
BY DEF Cached

(* What is read is at least as new as the time taken before.               *)
LEMMA ReadTextInv ==
  ASSUME DiffInv, NEW r \in Requests, NEW g \in Sides, ReadText(r, g) PROVE DiffInv'
<1> DEFINE m == diffs[r].mtime[g]
<1> USE DiffAssumption DEF Versions, Pair, Sides
<1>1. /\ m \in Versions /\ m >= 1 /\ m <= diskVersion[g]
      /\ g \in untouched[r] => m = diskVersion[g]
      /\ diskVersion[g] \in Versions
  BY DEF ReadText, DiffInv, DiffTyped, HasRead, Comparison
<1>2. PICK c \in Cached(textCache, CacheKey(g, m), diskVersion[g]) :
        /\ textCache' = c.cache
        /\ diffs' = [diffs EXCEPT ![r].text[g] = c.got,
                                  ![r].pc = IF g = 2 THEN "page1" ELSE @]
  BY DEF ReadText
<1>3. NotOlder(c.got, g, m)
  <2>1. CASE c.got = diskVersion[g]
    BY <2>1, <1>1 DEF NotOlder
  <2>2. ASSUME NEW e \in textCache, e.key = CacheKey(g, m), e.value = c.got
        PROVE  NotOlder(c.got, g, m)
    <3>1. TextEntry(e)
      BY DEF DiffInv, TextsKept
    <3>2. PICK f \in Sides, k \in Versions :
            e.key = CacheKey(f, k) /\ k >= 1 /\ NotOlder(e.value, f, k)
      BY <3>1 DEF TextEntry
    <3>3. f = g /\ k = m
      BY <2>2, <3>2 DEF CacheKey
    <3> QED
      BY <2>2, <3>2, <3>3
  <2> QED
    BY <2>1, <2>2, CachedKeeps
<1>4. TextsKept'
  <2>1. SUFFICES ASSUME NEW e \in c.cache PROVE TextEntry(e)'
    BY <1>2 DEF TextsKept
  <2>2. \A x : TextEntry(x) => TextEntry(x)'
    BY DEF ReadText, TextEntry, NotOlder
  <2>3. CASE e \in textCache
    BY <2>2, <2>3 DEF DiffInv, TextsKept
  <2>4. CASE e = [key |-> CacheKey(g, m), value |-> diskVersion[g]]
    <3>1. e.key = CacheKey(g, m) /\ NotOlder(e.value, g, m)
      BY <2>4, <1>1 DEF NotOlder
    <3>2. TextEntry(e)
      BY <3>1, <1>1 DEF TextEntry
    <3> QED
      BY <2>2, <3>2
  <2> QED
    BY <2>3, <2>4, CachedKeeps
<1>5. DiffTyped'
  <2>1. [diffs[r].text EXCEPT ![g] = c.got] \in Pair
    BY <1>3 DEF DiffInv, DiffTyped, Comparison, NotOlder
  <2> HIDE DEF Pair, Versions, Sides
  <2> DEFINE d == diffs[r]
             after == [d EXCEPT !.text[g] = c.got,
                                !.pc = IF g = 2 THEN "page1" ELSE @]
  <2>2. d \in Comparison /\ diffs \in [Requests -> Comparison]
    BY DEF DiffInv, DiffTyped
  <2>3. after \in Comparison
    BY <2>1, <2>2 DEF Comparison, DiffSteps
  <2>4. diffs' = [diffs EXCEPT ![r] = after]
    BY <1>2
  <2>5. diffs' \in [Requests -> Comparison]
    BY <2>2, <2>3, <2>4
  <2> QED
    BY <2>5 DEF ReadText, DiffInv, DiffTyped
<1>6. PagesKept'
  BY DEF ReadText, DiffInv, PagesKept, PageEntry, NotOlder
<1>7. \A q \in Requests, f \in Sides : HasRead(q, f)'
  BY <1>1, <1>2, <1>3 DEF ReadText, DiffInv, DiffTyped, HasRead, Comparison, NotOlder
<1> QED
  BY <1>4, <1>5, <1>6, <1>7 DEF DiffInv

(* A page is drawn from the file as it is, under the time taken before.    *)
LEMMA DrawInv ==
  ASSUME DiffInv, NEW r \in Requests, NEW g \in Sides, DrawPages(r, g) PROVE DiffInv'
<1> DEFINE m == diffs[r].mtime[g]
           marks == diffs[r].text
<1> USE DiffAssumption DEF Versions, Pair, Sides
<1>1. /\ m \in Versions /\ m >= 1 /\ m <= diskVersion[g] /\ marks \in Pair
      /\ g \in untouched[r] => m = diskVersion[g]
      /\ diskVersion[g] \in Versions
  BY DEF DrawPages, DiffInv, DiffTyped, HasRead, Comparison
<1>2. PICK shown \in {0, diskVersion[g]} :
        \E c \in Cached(pageCache, PageKey(g, m, marks), <<shown, marks>>) :
          /\ pageCache' = c.cache
          /\ diffs' = [diffs EXCEPT ![r].page[g] = c.got[1], ![r].marks[g] = c.got[2],
                                    ![r].pc = IF g = 1 THEN "page2" ELSE "done"]
  BY DEF DrawPages
<1>3. PICK c \in Cached(pageCache, PageKey(g, m, marks), <<shown, marks>>) :
          /\ pageCache' = c.cache
          /\ diffs' = [diffs EXCEPT ![r].page[g] = c.got[1], ![r].marks[g] = c.got[2],
                                    ![r].pc = IF g = 1 THEN "page2" ELSE "done"]
  BY <1>2
<1>4. shown \in Versions /\ (shown = 0 \/ NotOlder(shown, g, m))
  BY <1>1 DEF NotOlder
<1>5. /\ c.got[1] \in Versions /\ (c.got[1] = 0 \/ NotOlder(c.got[1], g, m))
      /\ c.got[2] = marks
  <2>1. CASE c.got = <<shown, marks>>
    BY <2>1, <1>4
  <2>2. ASSUME NEW e \in pageCache, e.key = PageKey(g, m, marks), e.value = c.got
        PROVE  /\ c.got[1] \in Versions /\ (c.got[1] = 0 \/ NotOlder(c.got[1], g, m))
               /\ c.got[2] = marks
    <3>1. PageEntry(e)
      BY DEF DiffInv, PagesKept
    <3>2. PICK f \in Sides, k \in Versions, ms \in Pair, v \in Versions :
            /\ e.key = PageKey(f, k, ms)
            /\ e.value = <<v, ms>>
            /\ v = 0 \/ NotOlder(v, f, k)
      BY <3>1 DEF PageEntry
    <3>3. f = g /\ k = m /\ ms = marks
      BY <2>2, <3>2 DEF PageKey, CacheKey
    <3> QED
      BY <2>2, <3>2, <3>3
  <2> QED
    BY <2>1, <2>2, CachedKeeps
<1>6. PagesKept'
  <2>1. SUFFICES ASSUME NEW e \in c.cache PROVE PageEntry(e)'
    BY <1>3 DEF PagesKept
  <2>2. \A x : PageEntry(x) => PageEntry(x)'
    BY DEF DrawPages, PageEntry, NotOlder
  <2>3. CASE e \in pageCache
    BY <2>2, <2>3 DEF DiffInv, PagesKept
  <2>4. CASE e = [key |-> PageKey(g, m, marks), value |-> <<shown, marks>>]
    <3>1. e.key = PageKey(g, m, marks) /\ e.value = <<shown, marks>>
      BY <2>4
    <3>2. PageEntry(e)
      BY <3>1, <1>1, <1>4 DEF PageEntry
    <3> QED
      BY <2>2, <3>2
  <2> QED
    BY <2>3, <2>4, CachedKeeps
<1>7. DiffTyped'
  BY <1>1, <1>3, <1>5 DEF DrawPages, DiffInv, DiffTyped, Comparison, DiffSteps
<1>8. TextsKept'
  BY DEF DrawPages, DiffInv, TextsKept, TextEntry, NotOlder
<1>9. \A q \in Requests, f \in Sides : HasRead(q, f)'
  BY <1>1, <1>3, <1>5 DEF DrawPages, DiffInv, DiffTyped, HasRead, Comparison, NotOlder
<1> QED
  BY <1>6, <1>7, <1>8, <1>9 DEF DiffInv

(* Every step keeps the caches no older than their keys.                   *)
LEMMA DiffNextInv == DiffInv /\ [DiffNext]_diffVars => DiffInv'
<1> SUFFICES ASSUME DiffInv, [DiffNext]_diffVars PROVE DiffInv'
  OBVIOUS
<1>1. CASE UNCHANGED diffVars
  BY <1>1 DEF diffVars, DiffInv, DiffTyped, TextsKept, PagesKept, TextEntry, PageEntry,
              NotOlder, HasRead
<1>2. CASE DiffNext
  BY <1>2, ReplaceInv, StartInv, StatInv, ReadTextInv, DrawInv DEF DiffNext
<1> QED
  BY <1>1, <1>2

(* The caches and the comparisons stay in step for any number of threads.  *)
THEOREM DiffInductive == DiffSpec => []DiffInv
BY DiffInitInv, DiffNextInv, PTL DEF DiffSpec

(* The variables of the diff caches have their types.                      *)
THEOREM DiffTypeCorrect == DiffSpec => []DiffTypeOK
<1>1. DiffInv => DiffTypeOK
  BY DEF DiffInv, DiffTyped, DiffTypeOK, Comparison, DiffSteps
<1> QED
  BY <1>1, DiffInductive, PTL

(* A comparison of a file that nobody replaced meanwhile shows its present *)
(* text and pages, marked for its own two texts (diff_documents).          *)
THEOREM DiffCurrent == DiffSpec => []DiffIsCurrent
<1>1. DiffInv => DiffIsCurrent
  BY DEF DiffInv, DiffTyped, DiffIsCurrent, HasRead, Comparison, Pair, Versions, Sides
<1> QED
  BY <1>1, DiffInductive, PTL

-----------------------------------------------------------------------------
(* Temporary files.                                                        *)

TempSteps ==
  {"idle", "write", "extract", "parse", "preview", "image", "convert", "theme", "fonts",
   "profile", "soffice", "pages", "previewed", "raise", "finish"}
Uploads == {"upload_a", "upload_b", "parse_pdf"}
AllTemp == Uploads \cup
  {"theme_copy", "old_theme", "normalized", "half_copy", "out_dir", "preview_pdf", "half_pdf"}
Upload ==
  [pc : TempSteps, route : Routes \cup {"none"}, formats : Formats \X Formats,
   side : {1, 2}, guarded : SUBSET Uploads, answer : {"none", "ok", "error"},
   back : {"none", "parse", "pages"}]

TempTyped ==
  /\ onDisk \subseteq AllTemp
  /\ upload \in Upload
  /\ mishap \in BOOLEAN
  /\ upload.pc \in {"write", "extract"} /\ upload.side = 2 => upload.route = "diff"
  /\ upload.pc \in {"convert", "theme", "fonts", "profile", "soffice"} =>
       upload.back # "none"

(* The files that a conversion finds: those of a request that renders its  *)
(* pages are in its finally block, one that parses is not there yet.       *)
Base == IF upload.back = "parse" THEN {"upload_a"} ELSE upload.guarded

(* Where the request is, these files may be there and no other.            *)
Accounted ==
  /\ AtStep("idle") => onDisk = {}
  /\ AtStep("write") => onDisk = IF upload.side = 1 THEN {} ELSE {"upload_a"}
  /\ AtStep("extract") =>
       onDisk = IF upload.side = 1 THEN {"upload_a"} ELSE {"upload_a", "upload_b"}
  /\ upload.pc \in {"parse", "preview", "image", "previewed", "finish"} =>
       onDisk \subseteq upload.guarded
  /\ upload.pc \in {"convert", "theme"} => onDisk \subseteq Base
  /\ AtStep("fonts") => onDisk \subseteq Base \cup {"theme_copy"}
  /\ AtStep("profile") => onDisk \subseteq Base \cup {"normalized"}
  /\ AtStep("soffice") => onDisk \subseteq Base \cup {"normalized", "out_dir"}
  /\ AtStep("pages") => onDisk \subseteq upload.guarded \cup {"preview_pdf"}
  /\ ~AtStep("raise")

TempInv == TempTyped /\ (~mishap => Accounted)

(* A resting server has no upload.                                         *)
LEMMA NoUploadFacts ==
  /\ NoUpload \in Upload /\ NoUpload.pc = "idle" /\ NoUpload.side = 1
  /\ \A a \in {"none", "ok", "error"} :
       [NoUpload EXCEPT !.answer = a] \in Upload /\ [NoUpload EXCEPT !.answer = a].pc = "idle"
BY DEF NoUpload, Upload, TempSteps, Uploads, Formats, Routes

(* There is no file at the start.                                          *)
LEMMA TempInitInv == TempInit => TempInv
BY NoUploadFacts DEF TempInit, TempInv, TempTyped, Accounted, AtStep

(* An answer ends the request: what it leaves is what is on the disk.      *)
LEMMA AnsweredInv ==
  ASSUME NEW a \in {"ok", "error"}, Answered(a), onDisk' \subseteq AllTemp,
         mishap' \in BOOLEAN, mishap' \/ onDisk' = {}
  PROVE  TempInv'
BY NoUploadFacts DEF Answered, TempInv, TempTyped, Accounted, AtStep

(* A step within a request, to a place where its files are accounted for.  *)
LEMMA StepInv ==
  ASSUME TempInv, NEW pc \in TempSteps, Step(pc)
  PROVE  /\ upload' \in Upload /\ upload'.pc = pc /\ upload'.side = upload.side
         /\ upload'.route = upload.route /\ upload'.guarded = upload.guarded
         /\ upload'.back = upload.back
BY DEF Step, TempInv, TempTyped, Upload

(* A request comes.                                                        *)
LEMMA ReceiveInv ==
  ASSUME TempInv, NEW route \in Routes, NEW f \in Formats, NEW g \in Formats,
         Receive(route, f, g)
  PROVE  TempInv'
<1>1. /\ upload' \in Upload /\ upload'.pc = "write" /\ upload'.side = 1
  BY NoUploadFacts DEF Receive, Upload, TempSteps
<1> QED
  BY <1>1 DEF Receive, TempInv, TempTyped, Accounted, AtStep

(* The upload is written, or the disk is full.                             *)
LEMMA WriteUploadInv == TempInv /\ WriteUpload => TempInv'
<1> SUFFICES ASSUME TempInv, WriteUpload PROVE TempInv'
  OBVIOUS
<1>1. /\ upload \in Upload /\ upload.pc = "write" /\ mishap \in BOOLEAN
      /\ onDisk' = onDisk \cup {UploadOf(upload.side)} /\ upload.side \in {1, 2}
      /\ upload.side = 2 => upload.route = "diff"
      /\ onDisk' \subseteq AllTemp
  BY DEF TempInv, TempTyped, WriteUpload, AtStep, Upload, UploadOf, AllTemp, Uploads
<1>2. ~mishap => onDisk = IF upload.side = 1 THEN {} ELSE {"upload_a"}
  BY <1>1 DEF TempInv, Accounted, AtStep
<1>3. CASE Answered("error") /\ mishap' = TRUE
  BY <1>1, <1>3, AnsweredInv
<1>4. CASE mishap' = mishap /\ upload.route \in {"diff", "extract"} /\ Step("extract")
  <2>1. /\ upload' \in Upload /\ upload'.pc = "extract" /\ upload'.side = upload.side
        /\ upload'.route = upload.route
    BY <1>4, StepInv DEF TempSteps
  <2> QED
    BY <2>1, <1>1, <1>2, <1>4 DEF TempInv, TempTyped, Accounted, AtStep, UploadOf
<1>5. CASE /\ mishap' = mishap /\ upload.route = "parseImage"
           /\ upload' = [upload EXCEPT !.pc = "preview", !.guarded = {"upload_a"}]
  <2>1. /\ upload' \in Upload /\ upload'.pc = "preview" /\ upload'.guarded = {"upload_a"}
    BY <1>1, <1>5 DEF Upload, TempSteps, Uploads
  <2> QED
    BY <2>1, <1>1, <1>2, <1>5 DEF TempInv, TempTyped, Accounted, AtStep, UploadOf
<1>6. CASE /\ mishap' = mishap /\ upload.route \notin {"diff", "extract", "parseImage"}
           /\ upload' = [upload EXCEPT !.pc = "convert", !.back = "parse"]
  <2>1. /\ upload' \in Upload /\ upload'.pc = "convert" /\ upload'.back = "parse"
    BY <1>1, <1>6 DEF Upload, TempSteps
  <2> QED
    BY <2>1, <1>1, <1>2, <1>6 DEF TempInv, TempTyped, Accounted, AtStep, UploadOf, Base
<1>7. CASE /\ mishap' = mishap /\ upload.route \notin {"diff", "extract", "parseImage"}
           /\ upload' = [upload EXCEPT !.pc = "parse", !.guarded = {"upload_a", "parse_pdf"}]
  <2>1. /\ upload' \in Upload /\ upload'.pc = "parse"
        /\ upload'.guarded = {"upload_a", "parse_pdf"}
    BY <1>1, <1>7 DEF Upload, TempSteps, Uploads
  <2> QED
    BY <2>1, <1>1, <1>2, <1>7 DEF TempInv, TempTyped, Accounted, AtStep, UploadOf
<1> QED
  BY <1>3, <1>4, <1>5, <1>6, <1>7 DEF WriteUpload

(* An upload is extracted, or its file is deleted.                         *)
LEMMA ExtractUploadInv == TempInv /\ ExtractUpload => TempInv'
<1> SUFFICES ASSUME TempInv, ExtractUpload PROVE TempInv'
  OBVIOUS
<1>1. /\ upload \in Upload /\ upload.pc = "extract" /\ mishap \in BOOLEAN
      /\ onDisk \subseteq AllTemp /\ upload.side \in {1, 2}
      /\ upload.side = 2 => upload.route = "diff"
  BY DEF TempInv, TempTyped, ExtractUpload, AtStep, Upload
<1>2. ~mishap => onDisk = IF upload.side = 1 THEN {"upload_a"} ELSE {"upload_a", "upload_b"}
  BY <1>1 DEF TempInv, Accounted, AtStep
<1>3. CASE /\ UNCHANGED <<onDisk, mishap>> /\ upload.route = "diff" /\ upload.side = 1
           /\ upload' = [upload EXCEPT !.pc = "write", !.side = 2]
  <2>1. /\ upload' \in Upload /\ upload'.pc = "write" /\ upload'.side = 2
        /\ upload'.route = "diff"
    BY <1>1, <1>3 DEF Upload, TempSteps
  <2> QED
    BY <2>1, <1>1, <1>2, <1>3 DEF TempInv, TempTyped, Accounted, AtStep
<1>4. CASE /\ UNCHANGED <<onDisk, mishap>>
           /\ upload' = [upload EXCEPT !.side = 1, !.guarded = {"upload_a", "upload_b"},
                  !.pc = IF upload.route = "diff" THEN "preview" ELSE "finish"]
  <2>1. /\ upload' \in Upload /\ upload'.pc \in {"preview", "finish"}
        /\ upload'.guarded = {"upload_a", "upload_b"}
    BY <1>1, <1>4 DEF Upload, TempSteps, Uploads
  <2> QED
    BY <2>1, <1>1, <1>2, <1>4 DEF TempInv, TempTyped, Accounted, AtStep
<1>5. CASE /\ onDisk' = onDisk \ {UploadOf(upload.side)}
           /\ mishap' = (mishap \/ upload.side = 2)
           /\ Answered("error")
  <2>1. mishap' \in BOOLEAN /\ (mishap' \/ onDisk' = {})
    BY <1>1, <1>2, <1>5 DEF UploadOf
  <2> QED
    BY <2>1, <1>1, <1>5, AnsweredInv
<1> QED
  BY <1>3, <1>4, <1>5 DEF ExtractUpload

(* A document is parsed, or the finally block deletes its files.           *)
LEMMA ParseInv == TempInv /\ Parse => TempInv'
<1> SUFFICES ASSUME TempInv, Parse PROVE TempInv'
  OBVIOUS
<1>1. /\ upload \in Upload /\ upload.pc = "parse" /\ mishap \in BOOLEAN /\ mishap' = mishap
      /\ onDisk \subseteq AllTemp
  BY DEF TempInv, TempTyped, Parse, AtStep
<1>2. ~mishap => onDisk \subseteq upload.guarded
  BY <1>1 DEF TempInv, Accounted
<1>3. CASE /\ Step(IF upload.route = "jsonl" THEN "finish" ELSE "preview")
           /\ UNCHANGED onDisk
  <2>1. /\ upload' \in Upload /\ upload'.pc \in {"finish", "preview"}
        /\ upload'.guarded = upload.guarded
    <3>1. CASE upload.route = "jsonl"
      BY <1>3, <3>1, StepInv DEF TempSteps
    <3>2. CASE upload.route # "jsonl"
      BY <1>3, <3>2, StepInv DEF TempSteps
    <3> QED
      BY <3>1, <3>2
  <2> QED
    BY <2>1, <1>1, <1>2, <1>3 DEF TempInv, TempTyped, Accounted, AtStep
<1>4. CASE /\ onDisk' = onDisk \ upload.guarded
           /\ upload' = [NoUpload EXCEPT !.pc = "write", !.route = "parseImage",
                             !.formats = upload.formats]
  <2>1. upload' \in Upload /\ upload'.pc = "write" /\ upload'.side = 1
    BY <1>1, <1>4, NoUploadFacts DEF Upload, TempSteps, Routes
  <2> QED
    BY <2>1, <1>1, <1>2, <1>4 DEF TempInv, TempTyped, Accounted, AtStep
<1>5. CASE onDisk' = onDisk \ upload.guarded /\ Answered("error")
  BY <1>1, <1>2, <1>5, AnsweredInv
<1> QED
  BY <1>3, <1>4, <1>5 DEF Parse

(* A conversion ends without a PDF: the request goes on with its file.     *)
LEMMA NoPdfInv ==
  ASSUME TempInv, NoPdf, mishap' = mishap, onDisk' \subseteq AllTemp,
         ~mishap => onDisk' \subseteq Base
  PROVE  TempInv'
<1>1. CASE upload.back = "parse"
  <2>1. /\ upload' \in Upload /\ upload'.pc = "parse"
        /\ upload'.guarded = {"upload_a", "parse_pdf"}
    <3>1. /\ upload \in Upload
          /\ upload' = [upload EXCEPT !.pc = "parse", !.guarded = {"upload_a", "parse_pdf"}]
      BY <1>1 DEF NoPdf, TempInv, TempTyped
    <3> QED
      BY <3>1 DEF Upload, TempSteps, Uploads
  <2> QED
    BY <1>1, <2>1 DEF TempInv, TempTyped, Accounted, AtStep, Base
<1>2. CASE upload.back # "parse"
  <2>1. upload' \in Upload /\ upload'.pc = "previewed" /\ upload'.guarded = upload.guarded
    BY <1>2, StepInv DEF NoPdf, TempSteps
  <2> QED
    BY <1>2, <2>1 DEF TempInv, TempTyped, Accounted, AtStep, Base
<1> QED
  BY <1>1, <1>2

(* Steps that neither make nor delete a file.                              *)
LEMMA QuietStepsInv ==
  TempInv /\ (Preview \/ FindSoffice \/ Previewed) => TempInv'
<1> SUFFICES ASSUME TempInv, Preview \/ FindSoffice \/ Previewed PROVE TempInv'
  OBVIOUS
<1>1. /\ upload \in Upload /\ mishap \in BOOLEAN /\ mishap' = mishap
      /\ onDisk \subseteq AllTemp /\ onDisk' = onDisk
  BY DEF TempInv, TempTyped, Preview, FindSoffice, Previewed
<1>2. CASE Preview
  <2>1. ~mishap => onDisk \subseteq upload.guarded
    BY <1>2 DEF TempInv, Accounted, Preview, AtStep
  <2>2. CASE \E pc \in {"previewed", "pages", "image"} : Step(pc)
    <3>1. PICK pc \in {"previewed", "pages", "image"} : Step(pc)
      BY <2>2
    <3>2. upload' \in Upload /\ upload'.pc = pc /\ upload'.guarded = upload.guarded
      BY <3>1, StepInv DEF TempSteps
    <3> QED
      BY <3>2, <2>1, <1>1 DEF TempInv, TempTyped, Accounted, AtStep
  <2>3. CASE upload' = [upload EXCEPT !.pc = "convert", !.back = "pages"]
    <3>1. /\ upload' \in Upload /\ upload'.pc = "convert" /\ upload'.back = "pages"
          /\ upload'.guarded = upload.guarded
      BY <2>3, <1>1 DEF Upload, TempSteps
    <3> QED
      BY <3>1, <2>1, <1>1 DEF TempInv, TempTyped, Accounted, AtStep, Base
  <2> QED
    BY <1>2, <2>2, <2>3 DEF Preview
<1>3. CASE FindSoffice
  <2>1. upload.pc = "convert" /\ (~mishap => onDisk \subseteq Base)
    BY <1>3 DEF TempInv, Accounted, FindSoffice, AtStep
  <2>2. CASE NoPdf
    BY <2>1, <2>2, <1>1, NoPdfInv
  <2>3. CASE \E pc \in {"theme", "fonts", "profile"} : Step(pc)
    <3>1. PICK pc \in {"theme", "fonts", "profile"} : Step(pc)
      BY <2>3
    <3>2. /\ upload' \in Upload /\ upload'.pc = pc /\ upload'.guarded = upload.guarded
          /\ upload'.back = upload.back
      BY <3>1, StepInv DEF TempSteps
    <3> QED
      BY <3>2, <2>1, <1>1 DEF TempInv, TempTyped, Accounted, AtStep, Base
  <2> QED
    BY <1>3, <2>2, <2>3 DEF FindSoffice
<1>4. CASE Previewed
  <2>1. upload.pc = "previewed" /\ (~mishap => onDisk \subseteq upload.guarded)
    BY <1>4 DEF TempInv, Accounted, Previewed, AtStep
  <2>2. CASE upload' = [upload EXCEPT !.pc = "preview", !.side = 2]
    <3>1. upload' \in Upload /\ upload'.pc = "preview" /\ upload'.guarded = upload.guarded
      BY <2>2, <1>1 DEF Upload, TempSteps
    <3> QED
      BY <3>1, <2>1, <1>1 DEF TempInv, TempTyped, Accounted, AtStep
  <2>3. CASE Step("finish")
    <3>1. upload' \in Upload /\ upload'.pc = "finish" /\ upload'.guarded = upload.guarded
      BY <2>3, StepInv DEF TempSteps
    <3> QED
      BY <3>1, <2>1, <1>1 DEF TempInv, TempTyped, Accounted, AtStep
  <2> QED
    BY <1>4, <2>2, <2>3 DEF Previewed
<1> QED
  BY <1>2, <1>3, <1>4

(* An image becomes a PDF, whole or not at all unless the disk is full.    *)
LEMMA ImageToPdfInv == TempInv /\ ImageToPdf => TempInv'
<1> SUFFICES ASSUME TempInv, ImageToPdf PROVE TempInv'
  OBVIOUS
<1>1. /\ onDisk \subseteq AllTemp /\ mishap \in BOOLEAN
      /\ ~mishap => onDisk \subseteq upload.guarded
  BY DEF TempInv, TempTyped, Accounted, ImageToPdf, AtStep
<1>2. onDisk' \subseteq AllTemp /\ mishap' \in BOOLEAN
  BY <1>1 DEF ImageToPdf, AllTemp
<1>3. PICK pc \in {"previewed", "pages"} :
        /\ Step(pc)
        /\ \/ pc = "previewed" /\ UNCHANGED <<onDisk, mishap>>
           \/ pc = "pages" /\ onDisk' = onDisk \cup {"preview_pdf"} /\ mishap' = mishap
           \/ mishap' = TRUE
  BY DEF ImageToPdf
<1>4. /\ upload' \in Upload /\ upload'.pc = pc /\ upload'.guarded = upload.guarded
  BY <1>3, StepInv DEF TempSteps
<1> QED
  BY <1>1, <1>2, <1>3, <1>4 DEF TempInv, TempTyped, Accounted, AtStep

(* What the steps of a conversion keep of the request.                     *)
LEMMA ConvertStep ==
  ASSUME TempInv, NEW pc \in {"fonts", "profile", "soffice"}, Step(pc),
         upload.pc \in {"convert", "theme", "fonts", "profile", "soffice"}
  PROVE  /\ upload' \in Upload /\ upload'.pc = pc /\ upload'.back = upload.back
         /\ upload'.back # "none" /\ Base' = Base
<1>1. /\ upload' \in Upload /\ upload'.pc = pc /\ upload'.guarded = upload.guarded
      /\ upload'.back = upload.back
  BY StepInv DEF TempSteps
<1>2. upload.back # "none"
  BY DEF TempInv, TempTyped
<1> QED
  BY <1>1, <1>2 DEF Base

(* The theme of a document is patched in a copy.                           *)
LEMMA PatchThemeInv == TempInv /\ PatchTheme => TempInv'
<1> SUFFICES ASSUME TempInv, PatchTheme PROVE TempInv'
  OBVIOUS
<1>1. /\ onDisk \subseteq AllTemp /\ mishap \in BOOLEAN /\ mishap' = mishap
      /\ ~mishap => onDisk \subseteq Base
      /\ upload.pc = "theme" /\ Step("fonts")
      /\ onDisk' \subseteq onDisk \cup {"theme_copy"}
  BY DEF TempInv, TempTyped, Accounted, PatchTheme, AtStep
<1>2. onDisk' \subseteq AllTemp
  BY <1>1 DEF AllTemp
<1>3. /\ upload' \in Upload /\ upload'.pc = "fonts" /\ upload'.back # "none"
      /\ Base' = Base
  BY <1>1, ConvertStep
<1> QED
  BY <1>1, <1>2, <1>3 DEF TempInv, TempTyped, Accounted, AtStep

(* The fonts are set in a copy, which replaces the one with the theme; a   *)
(* failure leaves no file without a mishap.                                *)
LEMMA NormalizeFontsInv == TempInv /\ NormalizeFonts => TempInv'
<1> SUFFICES ASSUME TempInv, NormalizeFonts PROVE TempInv'
  OBVIOUS
<1>1. /\ onDisk \subseteq AllTemp /\ mishap \in BOOLEAN
      /\ ~mishap => onDisk \subseteq Base \cup {"theme_copy"}
      /\ upload.pc = "fonts" /\ Step("profile")
  BY DEF TempInv, TempTyped, Accounted, NormalizeFonts, FontsFailed, AtStep
<1>2. onDisk' \subseteq AllTemp /\ mishap' \in BOOLEAN
  BY <1>1 DEF NormalizeFonts, AllTemp
<1>3. ~mishap' => ~mishap /\ onDisk' \subseteq Base \cup {"normalized"}
  BY <1>1 DEF NormalizeFonts
<1>4. /\ upload' \in Upload /\ upload'.pc = "profile" /\ upload'.back # "none"
      /\ Base' = Base
  BY <1>1, ConvertStep
<1> QED
  BY <1>2, <1>3, <1>4 DEF TempInv, TempTyped, Accounted, AtStep

(* The profile and the output directory are made, or the disk is full.     *)
LEMMA EnsureProfileInv == TempInv /\ EnsureProfile => TempInv'
<1> SUFFICES ASSUME TempInv, EnsureProfile PROVE TempInv'
  OBVIOUS
<1>1. /\ onDisk \subseteq AllTemp /\ mishap \in BOOLEAN
      /\ ~mishap => onDisk \subseteq Base \cup {"normalized"}
      /\ upload.pc = "profile"
  BY DEF TempInv, TempTyped, Accounted, EnsureProfile, AtStep
<1>2. CASE Step("soffice") /\ onDisk' = onDisk \cup {"out_dir"} /\ mishap' = mishap
  <2>1. onDisk' \subseteq AllTemp
    BY <1>1, <1>2 DEF AllTemp
  <2>2. /\ upload' \in Upload /\ upload'.pc = "soffice" /\ upload'.back # "none"
        /\ Base' = Base
    BY <1>1, <1>2, ConvertStep
  <2> QED
    BY <1>1, <1>2, <2>1, <2>2 DEF TempInv, TempTyped, Accounted, AtStep
<1>3. CASE Step("raise") /\ mishap' = TRUE /\ onDisk' = onDisk
  <2>1. upload' \in Upload /\ upload'.pc = "raise"
    BY <1>3, StepInv DEF TempSteps
  <2> QED
    BY <1>1, <1>3, <2>1 DEF TempInv, TempTyped
<1> QED
  BY <1>2, <1>3 DEF EnsureProfile

(* soffice runs; the finally block deletes its directory and the copy.     *)
LEMMA RunSofficeInv == TempInv /\ RunSoffice => TempInv'
<1> SUFFICES ASSUME TempInv, RunSoffice PROVE TempInv'
  OBVIOUS
<1> DEFINE kept == onDisk \ {"out_dir", "normalized"}
           pdf == IF upload.back = "parse" THEN "parse_pdf" ELSE "preview_pdf"
<1>1. /\ onDisk \subseteq AllTemp /\ mishap \in BOOLEAN /\ upload \in Upload
      /\ ~mishap => onDisk \subseteq Base \cup {"normalized", "out_dir"}
      /\ upload.pc = "soffice" /\ upload.back \in {"parse", "pages"}
  BY DEF TempInv, TempTyped, Accounted, RunSoffice, AtStep, Upload
<1>2. kept \subseteq AllTemp /\ (~mishap => kept \subseteq Base)
  BY <1>1
<1>3. CASE NoPdf /\ onDisk' = kept /\ mishap' = mishap
  BY <1>2, <1>3, NoPdfInv
<1>4. CASE /\ onDisk' = kept \cup {pdf} /\ mishap' = mishap
           /\ upload' = [upload EXCEPT !.pc = upload.back, !.guarded =
                IF upload.back = "parse" THEN {"upload_a", "parse_pdf"} ELSE @]
  <2>1. onDisk' \subseteq AllTemp
    BY <1>2, <1>4 DEF AllTemp, Uploads
  <2>2. CASE upload.back = "parse"
    <3>1. upload' = [upload EXCEPT !.pc = "parse", !.guarded = {"upload_a", "parse_pdf"}]
      BY <1>4, <2>2
    <3>2. /\ upload' \in Upload /\ upload'.pc = "parse"
          /\ upload'.guarded = {"upload_a", "parse_pdf"}
      BY <1>1, <3>1 DEF Upload, TempSteps, Uploads
    <3>3. ~mishap' => onDisk' \subseteq {"upload_a", "parse_pdf"}
      BY <1>2, <1>4, <2>2 DEF Base
    <3> QED
      BY <1>1, <1>4, <2>1, <3>2, <3>3 DEF TempInv, TempTyped, Accounted, AtStep
  <2>3. CASE upload.back = "pages"
    <3>1. upload' = [upload EXCEPT !.pc = "pages", !.guarded = upload.guarded]
      BY <1>4, <2>3
    <3>2. /\ upload' \in Upload /\ upload'.pc = "pages"
          /\ upload'.guarded = upload.guarded
      BY <1>1, <3>1 DEF Upload, TempSteps
    <3>3. ~mishap' => onDisk' \subseteq upload.guarded \cup {"preview_pdf"}
      BY <1>2, <1>4, <2>3 DEF Base
    <3> QED
      BY <1>1, <1>4, <2>1, <3>2, <3>3 DEF TempInv, TempTyped, Accounted, AtStep
  <2> QED
    BY <1>1, <2>2, <2>3
<1>5. CASE Step("raise") /\ onDisk' = kept \cup {"half_pdf"} /\ mishap' = TRUE
  <2>1. upload' \in Upload /\ upload'.pc = "raise"
    BY <1>5, StepInv DEF TempSteps
  <2>2. onDisk' \subseteq AllTemp
    BY <1>2, <1>5 DEF AllTemp
  <2> QED
    BY <1>5, <2>1, <2>2 DEF TempInv, TempTyped
<1> QED
  BY <1>3, <1>4, <1>5 DEF RunSoffice

(* The pages are drawn, and the PDF made for them goes.                    *)
LEMMA RenderPagesInv == TempInv /\ RenderPages => TempInv'
<1> SUFFICES ASSUME TempInv, RenderPages PROVE TempInv'
  OBVIOUS
<1>1. /\ onDisk \subseteq AllTemp /\ mishap \in BOOLEAN /\ mishap' = mishap
      /\ ~mishap => onDisk \subseteq upload.guarded \cup {"preview_pdf"}
      /\ onDisk' = onDisk \ {"preview_pdf"} /\ Step("previewed")
  BY DEF TempInv, TempTyped, Accounted, RenderPages, AtStep
<1>2. upload' \in Upload /\ upload'.pc = "previewed" /\ upload'.guarded = upload.guarded
  BY <1>1, StepInv DEF TempSteps
<1> QED
  BY <1>1, <1>2 DEF TempInv, TempTyped, Accounted, AtStep

(* The finally block of the route, after an answer and after an exception: *)
(* an exception gets there only after a mishap.                            *)
LEMMA FinallyInv == TempInv /\ (Raise \/ FinishUpload) => TempInv'
<1> SUFFICES ASSUME TempInv, Raise \/ FinishUpload PROVE TempInv'
  OBVIOUS
<1>1. /\ onDisk \subseteq AllTemp /\ mishap \in BOOLEAN /\ mishap' = mishap
      /\ onDisk' = onDisk \ upload.guarded
      /\ Answered("error") \/ Answered("ok")
  BY DEF TempInv, TempTyped, Raise, FinishUpload, Deleted
<1>2. ~mishap => onDisk \subseteq upload.guarded
  BY DEF TempInv, Accounted, Raise, FinishUpload, AtStep
<1> QED
  BY <1>1, <1>2, AnsweredInv

(* Every step keeps the account of the files.                              *)
LEMMA TempNextInv == TempInv /\ [TempNext]_tempVars => TempInv'
<1> SUFFICES ASSUME TempInv, [TempNext]_tempVars PROVE TempInv'
  OBVIOUS
<1>1. ASSUME NEW route \in Routes \ {"parseImage"}, NEW f \in Formats, NEW g \in Formats,
             Receive(route, f, g)
      PROVE  TempInv'
  BY <1>1, ReceiveInv
<1>2. CASE WriteUpload \/ ExtractUpload \/ Parse
  BY <1>2, WriteUploadInv, ExtractUploadInv, ParseInv
<1>3. CASE Preview \/ FindSoffice \/ Previewed
  BY <1>3, QuietStepsInv
<1>4. CASE ImageToPdf \/ PatchTheme \/ NormalizeFonts \/ EnsureProfile
  BY <1>4, ImageToPdfInv, PatchThemeInv, NormalizeFontsInv, EnsureProfileInv
<1>5. CASE RunSoffice \/ RenderPages \/ Raise \/ FinishUpload
  BY <1>5, RunSofficeInv, RenderPagesInv, FinallyInv
<1>6. CASE UNCHANGED tempVars
  BY <1>6 DEF tempVars, TempInv, TempTyped, Accounted, AtStep, Base
<1> QED
  BY <1>1, <1>2, <1>3, <1>4, <1>5, <1>6 DEF TempNext

(* Wherever a request is, the files it may have left are those that the    *)
(* finally blocks ahead of it delete, unless a mishap happened.            *)
THEOREM TempInvariant == TempSpec => [](TempInv /\ TempTypeOK)
<1>1. TempInv => TempTypeOK
  BY DEF TempInv, TempTyped, TempTypeOK, Upload, AllTemp, Uploads
<1> QED
  BY <1>1, TempInitInv, TempNextInv, PTL DEF TempSpec

(* FailuresHandled: without a mishap, an answered request leaves no file   *)
(* on the disk, and what goes wrong with a preview stops no answer.        *)
THEOREM NoFileIsLeft == TempSpec => []FailuresHandled
<1>1. TempInv => FailuresHandled
  BY DEF TempInv, Accounted, FailuresHandled
<1> QED
  BY <1>1, TempInvariant, PTL

-----------------------------------------------------------------------------
(* Differences and their marks.                                            *)

Tags == {"equal", "change", "delete", "add"}
OpRecord == [op : Tags, left : Nat, right : Nat]
Counts == [added : Nat, deleted : Nat, changed : Nat]

MarksTyped ==
  /\ texts \in Texts \X Texts
  /\ at \in Nat \X Nat /\ at[1] <= Len(texts[1]) /\ at[2] <= Len(texts[2])
  /\ lastTag \in {"none", "begin", "equal", "delete", "insert", "replace"}
  /\ ops \in Seq(OpRecord) /\ counts \in Counts
  /\ lastTag \in {"none", "begin"} => at = <<0, 0>> /\ ops = <<>>

(* What an operation says is true of the lines that have been read.        *)
OpTrue(o) ==
  /\ o.left \in 0..at[1] /\ o.right \in 0..at[2]
  /\ o.op = "delete" <=> o.right = 0
  /\ o.op = "add" <=> o.left = 0
  /\ o.op = "equal" => Left(o.left) = Right(o.right)
  /\ o.op = "change" => Left(o.left) # Right(o.right)

(* The operations name the lines read, each once and in their order.       *)
InOrder(side) ==
  /\ \A i \in 1..at[side] : \E k \in DOMAIN ops : LineOf(ops[k], side) = i
  /\ \A j, k \in DOMAIN ops : j < k /\ LineOf(ops[k], side) # 0 =>
       LineOf(ops[j], side) < LineOf(ops[k], side)

Counted ==
  counts = [added |-> Number("add"), deleted |-> Number("delete"),
            changed |-> Number("change")]

MarksInv ==
  /\ MarksTyped
  /\ \A k \in DOMAIN ops : OpTrue(ops[k])
  /\ InOrder(1) /\ InOrder(2)
  /\ Counted

(* The operations that a block adds: p lines of both texts, then deleted,  *)
(* then added lines.                                                       *)
Added(tag, p, d, k) ==
  IF k <= p THEN Op(tag, at[1] + k, at[2] + k)
  ELSE IF k <= p + d THEN Op("delete", at[1] + k, 0)
  ELSE Op("add", 0, at[2] + k - d)

(* Texts are sequences, and so are their lines.                            *)
LEMMA TextFacts ==
  ASSUME NEW t \in Texts
  PROVE  /\ t \in Seq(Lines) /\ Len(t) \in 0..MaxLines /\ DOMAIN t = 1..Len(t)
         /\ \A i \in DOMAIN t : t[i] \in Lines
<1>1. PICK n \in 0..MaxLines : t \in [1..n -> Lines]
  BY DEF Texts
<1>2. n \in Nat /\ t \in Seq(Lines)
  BY <1>1, MarksAssumption, SeqDef
<1> QED
  BY <1>1, <1>2

(* Numbers between two bounds.                                             *)
LEMMA Interval ==
  ASSUME NEW a \in Nat, NEW b \in Nat
  PROVE  IsFiniteSet((a + 1)..(a + b)) /\ Cardinality((a + 1)..(a + b)) = b
<1>1. CASE b = 0
  <2>1. (a + 1)..(a + b) = {}
    BY <1>1
  <2> QED
    BY <1>1, <2>1, FS_EmptySet
<1>2. CASE b # 0
  BY <1>2, FS_Interval
<1> QED
  BY <1>1, <1>2

(* Operations that are appended in one stretch are counted.                *)
LEMMA NumberGrows ==
  ASSUME NEW tag, NEW a \in Nat, NEW b \in Nat, ops \in Seq(OpRecord),
         DOMAIN ops \subseteq DOMAIN ops',
         \A k \in DOMAIN ops : ops'[k] = ops[k],
         \A k \in DOMAIN ops' \ DOMAIN ops : ops'[k].op = tag <=> k \in (a + 1)..(a + b),
         (a + 1)..(a + b) \subseteq DOMAIN ops' \ DOMAIN ops
  PROVE  Number(tag)' = Number(tag) + b /\ Number(tag) \in Nat
<1> DEFINE Old == {k \in DOMAIN ops : ops[k].op = tag}
           New == (a + 1)..(a + b)
<1>1. {k \in DOMAIN ops' : ops'[k].op = tag} = Old \cup New
  OBVIOUS
<1>2. Old \cap New = {}
  OBVIOUS
<1>3. IsFiniteSet(Old)
  <2>1. Old \subseteq 1..Len(ops) /\ Len(ops) \in Nat
    OBVIOUS
  <2>2. IsFiniteSet(1..Len(ops))
    <3>1. \A n \in Nat : IsFiniteSet(1..n)
      BY FS_Interval
    <3> QED
      BY <2>1, <3>1
  <2> QED
    BY <2>1, <2>2, FS_Subset
<1>4. IsFiniteSet(New) /\ Cardinality(New) = b
  BY Interval
<1>5. Cardinality(Old \cup New) = Cardinality(Old) + Cardinality(New)
  <2>1. Cardinality(Old \cap New) = 0
    BY <1>2, FS_EmptySet
  <2>2. Cardinality(Old \cup New) = Cardinality(Old) + Cardinality(New) - Cardinality(Old \cap New)
    BY <1>3, <1>4, FS_Union
  <2> QED
    BY <1>3, <1>4, <2>1, <2>2, FS_CardinalityType
<1>6. Cardinality(Old) \in Nat
  BY <1>3, FS_CardinalityType
<1> QED
  BY <1>1, <1>4, <1>5, <1>6 DEF Number

(* A block of p lines of both texts, d deleted and a added ones, as it is  *)
(* appended to the operations.                                             *)
Appended(tag, p, d, a) ==
  /\ texts' = texts
  /\ at' = <<at[1] + p + d, at[2] + p + a>>
  /\ at[1] + p + d <= Len(texts[1]) /\ at[2] + p + a <= Len(texts[2])
  /\ lastTag' \in {"equal", "delete", "insert", "replace"}
  /\ ops' \in Seq(OpRecord) /\ Len(ops') = Len(ops) + p + d + a
  /\ \A k \in DOMAIN ops : ops'[k] = ops[k]
  /\ \A k \in 1..(p + d + a) : ops'[Len(ops) + k] = Added(tag, p, d, k)
  /\ counts' = [added |-> counts.added + a, deleted |-> counts.deleted + d,
                changed |-> counts.changed + (IF tag = "change" THEN p ELSE 0)]
  /\ \A k \in 1..p : Left(at[1] + k) = Right(at[2] + k) <=> tag = "equal"

(* An operation, by its parts.                                             *)
IsOp(o, tag, i, j) == o.op = tag /\ o.left = i /\ o.right = j

(* What the block adds at place k, after n operations on x and y lines.    *)
Adds(o, tag, p, d, a, n, x, y, k) ==
  \/ n < k /\ k <= n + p /\ IsOp(o, tag, x + k - n, y + k - n)
  \/ n + p < k /\ k <= n + p + d /\ IsOp(o, "delete", x + k - n, 0)
  \/ n + p + d < k /\ k <= n + p + d + a /\ IsOp(o, "add", 0, y + k - n - d)

(* The state before and after a block, as numbers.                         *)
BlockState(tag, p, d, a, n, x, y) ==
  /\ n \in Nat /\ x \in Nat /\ y \in Nat
  /\ DOMAIN ops = 1..n /\ DOMAIN ops' = 1..(n + p + d + a)
  /\ at[1] = x /\ at[2] = y /\ at'[1] = x + p + d /\ at'[2] = y + p + a
  /\ \A k \in DOMAIN ops : ops'[k] = ops[k]
  /\ \A k \in DOMAIN ops' \ DOMAIN ops : Adds(ops'[k], tag, p, d, a, n, x, y, k)
  /\ \A k \in 1..p : texts[1][x + k] = texts[2][y + k] <=> tag = "equal"

LEMMA BlockFacts ==
  ASSUME MarksInv, NEW tag \in {"equal", "change"}, NEW p \in Nat, NEW d \in Nat,
         NEW a \in Nat, Appended(tag, p, d, a)
  PROVE  /\ BlockState(tag, p, d, a, Len(ops), at[1], at[2])
         /\ ops \in Seq(OpRecord) /\ ops' \in Seq(OpRecord) /\ at' \in Nat \X Nat
         /\ at'[1] <= Len(texts[1]) /\ at'[2] <= Len(texts[2])
<1> DEFINE n == Len(ops)  x == at[1]  y == at[2]
<1>1. /\ ops \in Seq(OpRecord) /\ n \in Nat /\ DOMAIN ops = 1..n
      /\ ops' \in Seq(OpRecord) /\ DOMAIN ops' = 1..(n + p + d + a)
      /\ at \in Nat \X Nat /\ x \in Nat /\ y \in Nat
      /\ at' = <<x + p + d, y + p + a>>
      /\ x + p + d <= Len(texts[1]) /\ y + p + a <= Len(texts[2])
      /\ \A k \in DOMAIN ops : ops'[k] = ops[k]
      /\ \A k \in 1..(p + d + a) : ops'[n + k] = Added(tag, p, d, k)
      /\ \A k \in 1..p : texts[1][x + k] = texts[2][y + k] <=> tag = "equal"
  BY DEF MarksInv, MarksTyped, Appended, Left, Right
<1>2. \A k : Added(tag, p, d, k) =
         IF k <= p THEN Op(tag, x + k, y + k)
         ELSE IF k <= p + d THEN Op("delete", x + k, 0) ELSE Op("add", 0, y + k - d)
  BY DEF Added
<1> HIDE DEF n, x, y
<1>3. ASSUME NEW k \in DOMAIN ops' \ DOMAIN ops
      PROVE  Adds(ops'[k], tag, p, d, a, n, x, y, k)
  <2> DEFINE j == k - n
  <2>0. n \in Nat /\ x \in Nat /\ y \in Nat /\ k \in 1..(n + p + d + a) \ 1..n
    BY <1>1
  <2>1. k \in Int /\ j \in 1..(p + d + a) /\ n + j = k /\ k = j + n
        /\ x + k - n = x + j /\ y + k - n = y + j
    BY <2>0
  <2>2. ops'[k] = Added(tag, p, d, j)
    <3>1. ops'[n + j] = Added(tag, p, d, j)
      BY <1>1, <2>1
    <3> QED
      BY <2>1, <3>1
  <2> HIDE DEF j
  <2>n. n \in Nat /\ j \in Nat /\ k = n + j /\ j <= p + d + a
    BY <2>0, <2>1
  <2>3. CASE j <= p
    <3>1. ops'[k] = Op(tag, x + j, y + j)
      BY <1>2, <2>2, <2>3
    <3>2. IsOp(ops'[k], tag, x + j, y + j)
      BY <3>1 DEF Op, IsOp
    <3>3. n < k /\ k <= n + p
      BY <2>n, <2>1, <2>3
    <3> QED
      BY <2>0, <2>1, <3>2, <3>3 DEF Adds
  <2>4. CASE j > p /\ j <= p + d
    <3>1. ops'[k] = Op("delete", x + j, 0)
      BY <1>2, <2>1, <2>2, <2>4
    <3>2. IsOp(ops'[k], "delete", x + j, 0)
      BY <3>1 DEF Op, IsOp
    <3>3. n + p < k /\ k <= n + p + d
      BY <2>n, <2>4
    <3> QED
      BY <2>0, <2>1, <3>2, <3>3 DEF Adds
  <2>5. CASE j > p + d
    <3>1. ops'[k] = Op("add", 0, y + j - d)
      BY <1>2, <2>1, <2>2, <2>5
    <3>2. IsOp(ops'[k], "add", 0, y + j - d)
      BY <3>1 DEF Op, IsOp
    <3>3. n + p + d < k /\ k <= n + p + d + a
      BY <2>n, <2>5
    <3> QED
      BY <2>0, <2>1, <3>2, <3>3 DEF Adds
  <2> QED
    BY <2>1, <2>3, <2>4, <2>5
<1>4. at' \in Nat \X Nat /\ at'[1] = x + p + d /\ at'[2] = y + p + a
  BY <1>1
<1>5. at[1] = x /\ at[2] = y
  BY DEF x, y
<1>6. BlockState(tag, p, d, a, n, x, y)
  BY <1>1, <1>3, <1>4, <1>5 DEF BlockState
<1> QED
  BY <1>1, <1>4, <1>6 DEF n, x, y

(* The operations that a block appends keep the account of both texts.     *)
LEMMA BlockInv ==
  ASSUME MarksInv, NEW tag \in {"equal", "change"}, NEW p \in Nat, NEW d \in Nat,
         NEW a \in Nat, Appended(tag, p, d, a)
  PROVE  MarksInv'
<1> DEFINE n == Len(ops)  x == at[1]  y == at[2]
<1>0. BlockState(tag, p, d, a, n, x, y)
  BY BlockFacts
<1> HIDE DEF n, x, y
<1>a. n \in Nat /\ x \in Nat /\ y \in Nat
  BY <1>0 DEF BlockState
<1> USE <1>a
<1>g. /\ ops \in Seq(OpRecord) /\ ops' \in Seq(OpRecord) /\ at' \in Nat \X Nat
      /\ at'[1] <= Len(texts[1]) /\ at'[2] <= Len(texts[2])
  BY BlockFacts
<1>b. DOMAIN ops = 1..n /\ DOMAIN ops' = 1..(n + p + d + a)
  BY <1>0 DEF BlockState
<1>c. at[1] = x /\ at[2] = y /\ at'[1] = x + p + d /\ at'[2] = y + p + a
  BY <1>0 DEF BlockState
<1>d. \A k \in DOMAIN ops : ops'[k] = ops[k]
  BY <1>0 DEF BlockState
<1>e. \A k \in DOMAIN ops' \ DOMAIN ops : Adds(ops'[k], tag, p, d, a, n, x, y, k)
  BY <1>0 DEF BlockState
<1>f. \A k \in 1..p : texts[1][x + k] = texts[2][y + k] <=> tag = "equal"
  BY <1>0 DEF BlockState
<1>2. texts' = texts
  BY DEF Appended
<1>4. ASSUME NEW k \in DOMAIN ops
      PROVE  /\ ops[k].left \in 0..x /\ ops[k].right \in 0..y /\ OpTrue(ops[k])
  BY <1>c DEF MarksInv, OpTrue
<1>5. MarksTyped'
  <2>1. counts' \in Counts
    <3>1. counts.added \in Nat /\ counts.deleted \in Nat /\ counts.changed \in Nat
      BY DEF MarksInv, MarksTyped, Counts
    <3> DEFINE c == IF tag = "change" THEN p ELSE 0
    <3>2. c \in Nat /\ counts' = [added |-> counts.added + a, deleted |-> counts.deleted + d,
                                 changed |-> counts.changed + c]
      BY DEF Appended
    <3> HIDE DEF c
    <3> QED
      BY <3>1, <3>2 DEF Counts
  <2> QED
    BY <1>g, <1>2, <2>1 DEF MarksInv, MarksTyped, Appended
<1>6. ASSUME NEW k \in DOMAIN ops' PROVE OpTrue(ops[k])'
  <2>a. OpTrue(ops[k])' =
          LET o == ops'[k] IN
          /\ o.left \in 0..(x + p + d) /\ o.right \in 0..(y + p + a)
          /\ o.op = "delete" <=> o.right = 0
          /\ o.op = "add" <=> o.left = 0
          /\ o.op = "equal" => texts[1][o.left] = texts[2][o.right]
          /\ o.op = "change" => texts[1][o.left] # texts[2][o.right]
    BY <1>c, <1>2 DEF OpTrue, Left, Right
  <2>1. CASE k \in DOMAIN ops
    <3>1. OpTrue(ops[k]) /\ ops'[k] = ops[k] /\ ops[k].left \in 0..x /\ ops[k].right \in 0..y
      BY <1>d, <1>4, <2>1
    <3> QED
      BY <2>a, <3>1 DEF OpTrue, Left, Right
  <2>2. CASE k \notin DOMAIN ops
    <3>1. Adds(ops'[k], tag, p, d, a, n, x, y, k) /\ k \in Nat
      BY <1>b, <1>e, <2>2
    <3>2. CASE n < k /\ k <= n + p /\ IsOp(ops'[k], tag, x + k - n, y + k - n)
      <4> DEFINE j == k - n
      <4>1. j \in 1..p /\ x + k - n = x + j /\ y + k - n = y + j
        BY <3>1, <3>2
      <4> HIDE DEF j
      <4>2. texts[1][x + j] = texts[2][y + j] <=> tag = "equal"
        BY <1>f, <4>1
      <4>3. ops'[k].op = tag /\ ops'[k].left = x + j /\ ops'[k].right = y + j
        BY <3>2, <4>1 DEF IsOp
      <4>4. x + j \in 1..(x + p + d) /\ y + j \in 1..(y + p + a)
        BY <4>1
      <4> QED
        BY <2>a, <4>2, <4>3, <4>4
    <3>3. CASE n + p < k /\ k <= n + p + d /\ IsOp(ops'[k], "delete", x + k - n, 0)
      <4>1. x + k - n \in 1..(x + p + d) /\ 0 \in 0..(y + p + a)
        BY <3>1, <3>3
      <4> QED
        BY <2>a, <3>3, <4>1 DEF IsOp
    <3>4. CASE n + p + d < k /\ k <= n + p + d + a /\ IsOp(ops'[k], "add", 0, y + k - n - d)
      <4>1. y + k - n - d \in 1..(y + p + a) /\ 0 \in 0..(x + p + d)
        BY <3>1, <3>4
      <4> QED
        BY <2>a, <3>4, <4>1 DEF IsOp
    <3> QED
      BY <3>1, <3>2, <3>3, <3>4 DEF Adds
  <2> QED
    BY <2>1, <2>2
<1>7. InOrder(1)'
  <2>1. ASSUME NEW i \in 1..(x + p + d)
        PROVE  \E k \in DOMAIN ops' : ops'[k].left = i
    <3>1. CASE i <= x
      <4>1. PICK k \in DOMAIN ops : ops[k].left = i
        BY <1>c, <3>1 DEF MarksInv, InOrder, LineOf
      <4> QED
        BY <4>1, <1>b, <1>d
    <3>2. CASE i > x
      <4> DEFINE k == n + i - x
      <4>1. k \in DOMAIN ops' \ DOMAIN ops /\ k <= n + p + d /\ k \in Nat /\ x + k - n = i
        BY <1>b, <3>2
      <4> HIDE DEF k
      <4>2. Adds(ops'[k], tag, p, d, a, n, x, y, k)
        BY <4>1, <1>e
      <4>3. ops'[k].left = x + k - n
        BY <4>1, <4>2 DEF Adds, IsOp
      <4> QED
        BY <4>1, <4>3
    <3> QED
      BY <3>1, <3>2
  <2>2. ASSUME NEW j \in DOMAIN ops', NEW k \in DOMAIN ops', j < k, ops'[k].left # 0
        PROVE  ops'[j].left < ops'[k].left
    <3>1. CASE k \in DOMAIN ops
      <4>1. j \in DOMAIN ops
        BY <1>b, <2>2, <3>1
      <4> QED
        BY <4>1, <3>1, <2>2, <1>d DEF MarksInv, InOrder, LineOf
    <3>2. CASE k \notin DOMAIN ops
      <4>0. Adds(ops'[k], tag, p, d, a, n, x, y, k) /\ k \in Nat /\ j \in Nat
        BY <1>b, <1>e, <3>2
      <4>1. n < k /\ k <= n + p + d /\ ops'[k].left = x + k - n
        BY <4>0, <2>2 DEF Adds, IsOp
      <4>2. CASE j \in DOMAIN ops
        <5>1. ops'[j].left \in 0..x
          BY <4>2, <1>d, <1>4
        <5> QED
          BY <5>1, <4>0, <4>1
      <4>3. CASE j \notin DOMAIN ops
        <5>1. Adds(ops'[j], tag, p, d, a, n, x, y, j)
          BY <4>3, <1>e
        <5>2. ops'[j].left = x + j - n
          BY <5>1, <4>0, <4>1, <2>2 DEF Adds, IsOp
        <5> QED
          BY <5>2, <4>0, <4>1, <2>2
      <4> QED
        BY <4>2, <4>3
    <3> QED
      BY <3>1, <3>2
  <2> QED
    BY <2>1, <2>2, <1>c DEF InOrder, LineOf
<1>8. InOrder(2)'
  <2>1. ASSUME NEW i \in 1..(y + p + a)
        PROVE  \E k \in DOMAIN ops' : ops'[k].right = i
    <3>1. CASE i <= y
      <4>1. PICK k \in DOMAIN ops : ops[k].right = i
        BY <1>c, <3>1 DEF MarksInv, InOrder, LineOf
      <4> QED
        BY <4>1, <1>b, <1>d
    <3>2. CASE i > y /\ i <= y + p
      <4> DEFINE k == n + i - y
      <4>1. k \in DOMAIN ops' \ DOMAIN ops /\ k <= n + p /\ k \in Nat /\ y + k - n = i
        BY <1>b, <3>2
      <4> HIDE DEF k
      <4>2. Adds(ops'[k], tag, p, d, a, n, x, y, k)
        BY <4>1, <1>e
      <4>3. ops'[k].right = y + k - n
        BY <4>1, <4>2 DEF Adds, IsOp
      <4> QED
        BY <4>1, <4>3
    <3>3. CASE i > y + p
      <4> DEFINE k == n + d + i - y
      <4>1. k \in DOMAIN ops' \ DOMAIN ops /\ k > n + p + d /\ k \in Nat /\ y + k - n - d = i
        BY <1>b, <3>3
      <4> HIDE DEF k
      <4>2. Adds(ops'[k], tag, p, d, a, n, x, y, k)
        BY <4>1, <1>e
      <4>3. ops'[k].right = y + k - n - d
        BY <4>1, <4>2 DEF Adds, IsOp
      <4> QED
        BY <4>1, <4>3
    <3> QED
      BY <3>1, <3>2, <3>3
  <2>2. ASSUME NEW j \in DOMAIN ops', NEW k \in DOMAIN ops', j < k, ops'[k].right # 0
        PROVE  ops'[j].right < ops'[k].right
    <3>1. CASE k \in DOMAIN ops
      <4>1. j \in DOMAIN ops
        BY <1>b, <2>2, <3>1
      <4> QED
        BY <4>1, <3>1, <2>2, <1>d DEF MarksInv, InOrder, LineOf
    <3>2. CASE k \notin DOMAIN ops
      <4>0. Adds(ops'[k], tag, p, d, a, n, x, y, k) /\ k \in Nat /\ j \in Nat
        BY <1>b, <1>e, <3>2
      <4>1. \/ n < k /\ k <= n + p /\ ops'[k].right = y + k - n
            \/ n + p + d < k /\ ops'[k].right = y + k - n - d
        BY <4>0, <2>2 DEF Adds, IsOp
      <4>2. CASE j \in DOMAIN ops
        <5>1. ops'[j].right \in 0..y
          BY <4>2, <1>d, <1>4
        <5> QED
          BY <5>1, <4>0, <4>1
      <4>3. CASE j \notin DOMAIN ops
        <5>1. Adds(ops'[j], tag, p, d, a, n, x, y, j)
          BY <4>3, <1>e
        <5>2. \/ n < j /\ j <= n + p /\ ops'[j].right = y + j - n
              \/ ops'[j].right = 0
              \/ n + p + d < j /\ ops'[j].right = y + j - n - d
          BY <5>1, <4>0 DEF Adds, IsOp
        <5> QED
          BY <5>2, <4>0, <4>1, <2>2
      <4> QED
        BY <4>2, <4>3
    <3> QED
      BY <3>1, <3>2
  <2> QED
    BY <2>1, <2>2, <1>c DEF InOrder, LineOf
<1>9. Counted'
  <2> DEFINE c == IF tag = "change" THEN p ELSE 0
  <2>0. DOMAIN ops \subseteq DOMAIN ops' /\ n + p \in Nat /\ n + p + d \in Nat /\ c \in Nat
    BY <1>b
  <2>a. ASSUME NEW k \in DOMAIN ops' \ DOMAIN ops
        PROVE  /\ k \in Nat
               /\ ops'[k].op = "change" <=> k \in (n + 1)..(n + c)
               /\ ops'[k].op = "delete" <=> k \in (n + p + 1)..(n + p + d)
               /\ ops'[k].op = "add" <=> k \in (n + p + d + 1)..(n + p + d + a)
    <3>1. Adds(ops'[k], tag, p, d, a, n, x, y, k) /\ k \in Nat /\ n < k
      BY <1>b, <1>e
    <3> QED
      BY <3>1 DEF Adds, IsOp
  <2>1. Number("change")' = Number("change") + c /\ Number("change") \in Nat
    <3>2. (n + 1)..(n + c) \subseteq DOMAIN ops' \ DOMAIN ops
      BY <1>b
    <3> HIDE DEF c
    <3> QED
      BY <1>b, <1>d, <1>g, <2>0, <2>a, <3>2, NumberGrows
  <2>2. Number("delete")' = Number("delete") + d /\ Number("delete") \in Nat
    <3>2. (n + p + 1)..(n + p + d) \subseteq DOMAIN ops' \ DOMAIN ops
      BY <1>b
    <3> QED
      BY <1>b, <1>d, <1>g, <2>0, <2>a, <3>2, NumberGrows
  <2>3. Number("add")' = Number("add") + a /\ Number("add") \in Nat
    <3>2. (n + p + d + 1)..(n + p + d + a) \subseteq DOMAIN ops' \ DOMAIN ops
      BY <1>b
    <3> QED
      BY <1>b, <1>d, <1>g, <2>0, <2>a, <3>2, NumberGrows
  <2>4. counts' = [added |-> counts.added + a, deleted |-> counts.deleted + d,
                   changed |-> counts.changed + c]
    BY DEF Appended
  <2>5. counts.added = Number("add") /\ counts.deleted = Number("delete")
        /\ counts.changed = Number("change")
    BY DEF MarksInv, Counted
  <2> HIDE DEF c
  <2> QED
    BY <2>1, <2>2, <2>3, <2>4, <2>5 DEF Counted
<1> QED
  BY <1>5, <1>6, <1>7, <1>8, <1>9 DEF MarksInv

(* There are no texts at the start.                                        *)
LEMMA MarksInitInv == MarksInit => MarksInv
<1> SUFFICES ASSUME MarksInit PROVE MarksInv
  OBVIOUS
<1>1. /\ texts = <<<<>>, <<>>>> /\ at = <<0, 0>> /\ lastTag = "none" /\ ops = <<>>
      /\ counts = [added |-> 0, deleted |-> 0, changed |-> 0]
  BY DEF MarksInit
<1>2. <<>> \in Texts /\ Len(<<>>) = 0
  <2>1. <<>> \in [1..0 -> Lines] /\ 0 \in 0..MaxLines
    BY MarksAssumption
  <2> QED
    BY <2>1 DEF Texts
<1>3. \A tag : Number(tag) = 0
  BY <1>1, FS_EmptySet DEF Number
<1>4. MarksTyped
  BY <1>1, <1>2 DEF MarksTyped, Counts
<1>5. DOMAIN ops = {}
  BY <1>1
<1> QED
  BY <1>1, <1>3, <1>4, <1>5 DEF MarksInv, InOrder, Counted

(* Two texts are given.                                                    *)
LEMMA GiveTextsInv == MarksInv /\ GiveTexts => MarksInv'
<1> SUFFICES ASSUME MarksInv, GiveTexts PROVE MarksInv'
  OBVIOUS
<1>1. /\ texts' \in Texts \X Texts /\ lastTag' = "begin" /\ at' = at /\ ops' = ops
      /\ counts' = counts /\ at = <<0, 0>> /\ ops = <<>>
  BY DEF GiveTexts, MarksInv, MarksTyped
<1>2. Len(texts'[1]) \in Nat /\ Len(texts'[2]) \in Nat
  BY <1>1, TextFacts
<1>3. MarksTyped'
  BY <1>1, <1>2 DEF MarksInv, MarksTyped
<1>4. DOMAIN ops = {}
  BY <1>1
<1> QED
  BY <1>1, <1>3, <1>4 DEF MarksInv, InOrder, Counted, Number, LineOf

(* Where a block is: within both texts.                                    *)
LEMMA WithinTexts ==
  ASSUME MarksInv
  PROVE  /\ at[1] \in Nat /\ at[2] \in Nat /\ ops \in Seq(OpRecord) /\ Len(ops) \in Nat
         /\ counts.added \in Nat /\ counts.deleted \in Nat /\ counts.changed \in Nat
         /\ counts = [added |-> counts.added, deleted |-> counts.deleted,
                      changed |-> counts.changed]
BY DEF MarksInv, MarksTyped, Counts

(* Operations that are made line by line are a sequence of operations.     *)
LEMMA OpsOfLines ==
  ASSUME NEW n \in Nat, NEW f, DOMAIN f = 1..n, f = [k \in 1..n |-> f[k]],
         \A k \in 1..n : f[k] \in OpRecord
  PROVE  f \in Seq(OpRecord) /\ Len(f) = n
<1>1. f \in [1..n -> OpRecord]
  OBVIOUS
<1>2. f \in Seq(OpRecord)
  BY <1>1, SeqDef
<1>3. DOMAIN f = 1..Len(f) /\ Len(f) \in Nat
  BY <1>2
<1> QED
  BY <1>2, <1>3

(* A block of equal lines.                                                 *)
LEMMA EqualBlockInv ==
  ASSUME MarksInv, NEW n \in 1..MaxLines, EqualBlock(n)
  PROVE  MarksInv'
<1> DEFINE new == [k \in 1..n |-> Op("equal", at[1] + k, at[2] + k)]
<1>1. n \in Nat
  BY MarksAssumption
<1>2. new \in Seq(OpRecord) /\ Len(new) = n
  <2>1. \A k \in 1..n : new[k] \in OpRecord
    BY <1>1, WithinTexts DEF Op, OpRecord, Tags
  <2> QED
    BY <1>1, <2>1, OpsOfLines
<1>3. ops' = ops \o new
  BY DEF EqualBlock
<1>4. \A k \in 1..n : new[k] = Added("equal", n, 0, k)
  BY DEF Added
<1> HIDE DEF new
<1>5. /\ ops' \in Seq(OpRecord) /\ Len(ops') = Len(ops) + n
      /\ \A k \in DOMAIN ops : ops'[k] = ops[k]
      /\ \A k \in 1..n : ops'[Len(ops) + k] = new[k]
  BY <1>1, <1>2, <1>3, WithinTexts, ConcatProperties
<1>6. counts' = [added |-> counts.added + 0, deleted |-> counts.deleted + 0,
                 changed |-> counts.changed + 0]
  BY WithinTexts DEF EqualBlock
<1>7. Appended("equal", n, 0, 0)
  <2>1. at[1] + n + 0 = at[1] + n /\ at[2] + n + 0 = at[2] + n /\ n + 0 + 0 = n
        /\ Len(ops) + n + 0 + 0 = Len(ops) + n
    BY <1>1, WithinTexts
  <2>2. /\ texts' = texts /\ lastTag' = "equal" /\ at' = <<at[1] + n, at[2] + n>>
        /\ at[1] + n <= Len(texts[1]) /\ at[2] + n <= Len(texts[2])
        /\ \A k \in 1..n : Left(at[1] + k) = Right(at[2] + k)
    BY DEF EqualBlock, Block
  <2> QED
    BY <1>4, <1>5, <1>6, <2>1, <2>2 DEF Appended
<1> QED
  BY <1>1, <1>7, BlockInv

(* A block of deleted lines.                                               *)
LEMMA DeleteBlockInv ==
  ASSUME MarksInv, NEW m \in 1..MaxLines, DeleteBlock(m)
  PROVE  MarksInv'
<1> DEFINE new == [k \in 1..m |-> Op("delete", at[1] + k, 0)]
<1>1. m \in Nat
  BY MarksAssumption
<1>2. new \in Seq(OpRecord) /\ Len(new) = m
  <2>1. \A k \in 1..m : new[k] \in OpRecord
    BY <1>1, WithinTexts DEF Op, OpRecord, Tags
  <2> QED
    BY <1>1, <2>1, OpsOfLines
<1>3. ops' = ops \o new
  BY DEF DeleteBlock
<1>4. \A k \in 1..m : new[k] = Added("change", 0, m, k)
  BY DEF Added
<1> HIDE DEF new
<1>5. /\ ops' \in Seq(OpRecord) /\ Len(ops') = Len(ops) + m
      /\ \A k \in DOMAIN ops : ops'[k] = ops[k]
      /\ \A k \in 1..m : ops'[Len(ops) + k] = new[k]
  BY <1>1, <1>2, <1>3, WithinTexts, ConcatProperties
<1>6. counts' = [added |-> counts.added + 0, deleted |-> counts.deleted + m,
                 changed |-> counts.changed + 0]
  BY WithinTexts DEF DeleteBlock
<1>7. Appended("change", 0, m, 0)
  <2>1. at[1] + 0 + m = at[1] + m /\ at[2] + 0 + 0 = at[2] + 0 /\ 0 + m + 0 = m
        /\ Len(ops) + 0 + m + 0 = Len(ops) + m
    BY <1>1, WithinTexts
  <2>2. /\ texts' = texts /\ lastTag' = "delete" /\ at' = <<at[1] + m, at[2] + 0>>
        /\ at[1] + m <= Len(texts[1]) /\ at[2] + 0 <= Len(texts[2])
    BY DEF DeleteBlock, Block
  <2> QED
    BY <1>4, <1>5, <1>6, <2>1, <2>2 DEF Appended
<1> QED
  BY <1>1, <1>7, BlockInv

(* A block of added lines.                                                 *)
LEMMA InsertBlockInv ==
  ASSUME MarksInv, NEW n \in 1..MaxLines, InsertBlock(n)
  PROVE  MarksInv'
<1> DEFINE new == [k \in 1..n |-> Op("add", 0, at[2] + k)]
<1>1. n \in Nat
  BY MarksAssumption
<1>2. new \in Seq(OpRecord) /\ Len(new) = n
  <2>1. \A k \in 1..n : new[k] \in OpRecord
    BY <1>1, WithinTexts DEF Op, OpRecord, Tags
  <2> QED
    BY <1>1, <2>1, OpsOfLines
<1>3. ops' = ops \o new
  BY DEF InsertBlock
<1>4. \A k \in 1..n : new[k] = Added("change", 0, 0, k)
  BY WithinTexts DEF Added
<1> HIDE DEF new
<1>5. /\ ops' \in Seq(OpRecord) /\ Len(ops') = Len(ops) + n
      /\ \A k \in DOMAIN ops : ops'[k] = ops[k]
      /\ \A k \in 1..n : ops'[Len(ops) + k] = new[k]
  BY <1>1, <1>2, <1>3, WithinTexts, ConcatProperties
<1>6. counts' = [added |-> counts.added + n, deleted |-> counts.deleted + 0,
                 changed |-> counts.changed + 0]
  BY WithinTexts DEF InsertBlock
<1>7. Appended("change", 0, 0, n)
  <2>1. at[1] + 0 + 0 = at[1] + 0 /\ at[2] + 0 + n = at[2] + n /\ 0 + 0 + n = n
        /\ Len(ops) + 0 + 0 + n = Len(ops) + n
    BY <1>1, WithinTexts
  <2>2. /\ texts' = texts /\ lastTag' = "insert" /\ at' = <<at[1] + 0, at[2] + n>>
        /\ at[1] + 0 <= Len(texts[1]) /\ at[2] + n <= Len(texts[2])
    BY DEF InsertBlock, Block
  <2> QED
    BY <1>4, <1>5, <1>6, <2>1, <2>2 DEF Appended
<1> QED
  BY <1>1, <1>7, BlockInv

(* A block of replaced lines.                                              *)
LEMMA ReplaceBlockInv ==
  ASSUME MarksInv, NEW m \in 1..MaxLines, NEW n \in 1..MaxLines, ReplaceBlock(m, n)
  PROVE  MarksInv'
<1> DEFINE p == IF m < n THEN m ELSE n
           d == m - p
           a == n - p
           pairs == [k \in 1..p |-> Op("change", at[1] + k, at[2] + k)]
           restLeft == [k \in 1..d |-> Op("delete", at[1] + p + k, 0)]
           restRight == [k \in 1..a |-> Op("add", 0, at[2] + p + k)]
           new == (pairs \o restLeft) \o restRight
<1>1. m \in Nat /\ n \in Nat /\ p \in Nat /\ d \in Nat /\ a \in Nat
      /\ p + d = m /\ p + a = n /\ p <= m /\ p <= n
  BY MarksAssumption
<1>2. ops' = ops \o new
  BY DEF ReplaceBlock, Replaced
<1>3. /\ Block("replace", m, n)
      /\ \A i \in 1..m, j \in 1..n : Left(at[1] + i) # Right(at[2] + j)
      /\ counts' = [added |-> counts.added + n - p, deleted |-> counts.deleted + m - p,
                    changed |-> counts.changed + p]
  BY DEF ReplaceBlock, Unlike
<1> HIDE DEF p
<1>w. at[1] \in Nat /\ at[2] \in Nat
  BY WithinTexts
<1>p. p \in Nat
  BY <1>1
<1>4. pairs \in Seq(OpRecord) /\ Len(pairs) = p
  <2>1. \A k \in 1..p : pairs[k] \in OpRecord
    BY <1>p, <1>w DEF Op, OpRecord, Tags
  <2> QED
    BY <1>p, <2>1, OpsOfLines
<1>d. d \in Nat /\ a \in Nat
  BY <1>1
<1> HIDE DEF d, a
<1>5. restLeft \in Seq(OpRecord) /\ Len(restLeft) = d
  <2>1. \A k \in 1..d : restLeft[k] \in OpRecord
    BY <1>p, <1>d, <1>w DEF Op, OpRecord, Tags
  <2> QED
    BY <1>d, <2>1, OpsOfLines
<1>6. restRight \in Seq(OpRecord) /\ Len(restRight) = a
  <2>1. \A k \in 1..a : restRight[k] \in OpRecord
    BY <1>p, <1>d, <1>w DEF Op, OpRecord, Tags
  <2> QED
    BY <1>d, <2>1, OpsOfLines
<1>7. /\ \A k \in 1..p : pairs[k] = Added("change", p, d, k)
      /\ \A k \in 1..d : restLeft[k] = Added("change", p, d, p + k)
      /\ \A k \in 1..a : restRight[k] = Added("change", p, d, p + d + k)
  <2>1. \A k \in 1..p : pairs[k] = Added("change", p, d, k)
    BY <1>1 DEF Added
  <2>2. ASSUME NEW k \in 1..d PROVE restLeft[k] = Added("change", p, d, p + k)
    <3>1. ~(p + k <= p) /\ p + k <= p + d /\ at[1] + (p + k) = at[1] + p + k
      BY <1>p, <1>d, <1>w
    <3> QED
      BY <3>1 DEF Added
  <2>3. ASSUME NEW k \in 1..a PROVE restRight[k] = Added("change", p, d, p + d + k)
    <3>1. ~(p + d + k <= p) /\ ~(p + d + k <= p + d)
          /\ at[2] + (p + d + k) - d = at[2] + p + k
      BY <1>p, <1>d, <1>w
    <3> QED
      BY <3>1 DEF Added
  <2> QED
    BY <2>1, <2>2, <2>3
<1> HIDE DEF pairs, restLeft, restRight
<1>8. /\ pairs \o restLeft \in Seq(OpRecord) /\ Len(pairs \o restLeft) = p + d
      /\ \A k \in 1..(p + d) : (pairs \o restLeft)[k] = Added("change", p, d, k)
  <2>1. /\ pairs \o restLeft \in Seq(OpRecord) /\ Len(pairs \o restLeft) = p + d
        /\ \A k \in 1..(p + d) : (pairs \o restLeft)[k] =
             IF k <= p THEN pairs[k] ELSE restLeft[k - p]
    BY <1>1, <1>d, <1>4, <1>5, ConcatProperties
  <2>2. ASSUME NEW k \in 1..(p + d), ~(k <= p)
        PROVE  restLeft[k - p] = Added("change", p, d, k)
    <3>1. k - p \in 1..d /\ p + (k - p) = k
      BY <1>1, <1>d, <2>2
    <3> QED
      BY <3>1, <1>7
  <2>3. ASSUME NEW k \in 1..(p + d), k <= p PROVE pairs[k] = Added("change", p, d, k)
    BY <1>1, <1>d, <1>7, <2>3
  <2> QED
    BY <2>1, <2>2, <2>3
<1>9. /\ new \in Seq(OpRecord) /\ Len(new) = p + d + a
      /\ \A k \in 1..(p + d + a) : new[k] = Added("change", p, d, k)
  <2> DEFINE front == pairs \o restLeft
  <2> HIDE DEF front
  <2>0. new = front \o restRight /\ p + d \in Nat
    BY <1>1, <1>d DEF front
  <2> HIDE DEF new
  <2>1. /\ new \in Seq(OpRecord) /\ Len(new) = p + d + a
        /\ \A k \in 1..(p + d + a) : new[k] =
             IF k <= p + d THEN front[k] ELSE restRight[k - (p + d)]
    <3>1. front \in Seq(OpRecord) /\ Len(front) = p + d
      BY <1>8 DEF front
    <3> QED
      <4> DEFINE b == p + d
      <4>1. b \in Nat /\ p + d + a = b + a /\ Len(front) = b
        BY <1>p, <1>d, <3>1
      <4> HIDE DEF b
      <4>2. /\ new \in Seq(OpRecord) /\ Len(new) = b + a
            /\ \A k \in 1..(b + a) : new[k] = IF k <= b THEN front[k] ELSE restRight[k - b]
        BY <1>d, <1>6, <2>0, <3>1, <4>1, ConcatProperties
      <4> QED
        BY <4>1, <4>2 DEF b
  <2>2. ASSUME NEW k \in 1..(p + d + a), ~(k <= p + d)
        PROVE  restRight[k - (p + d)] = Added("change", p, d, k)
    <3>1. k - (p + d) \in 1..a /\ p + d + (k - (p + d)) = k
      BY <1>1, <1>d, <2>2
    <3> QED
      BY <3>1, <1>7
  <2>3. ASSUME NEW k \in 1..(p + d + a), k <= p + d
        PROVE  front[k] = Added("change", p, d, k)
    <3>1. k \in 1..(p + d)
      BY <1>1, <1>d, <2>3
    <3> QED
      BY <3>1, <1>8 DEF front
  <2> QED
    BY <2>1, <2>2, <2>3
<1> HIDE DEF new
<1>10. /\ ops' \in Seq(OpRecord) /\ Len(ops') = Len(ops) + p + d + a
       /\ \A k \in DOMAIN ops : ops'[k] = ops[k]
       /\ \A k \in 1..(p + d + a) : ops'[Len(ops) + k] = new[k]
  <2> DEFINE l == p + d + a
  <2>0. ops \in Seq(OpRecord) /\ Len(ops) \in Nat
    BY WithinTexts
  <2>1. l \in Nat /\ Len(ops) + p + d + a = Len(ops) + l /\ ops \in Seq(OpRecord)
    BY <1>p, <1>d, <2>0
  <2> HIDE DEF l
  <2>2. new \in Seq(OpRecord) /\ Len(new) = l
    BY <1>9 DEF l
  <2>3. /\ ops' \in Seq(OpRecord) /\ Len(ops') = Len(ops) + l
        /\ \A k \in DOMAIN ops : ops'[k] = ops[k]
        /\ \A k \in 1..l : ops'[Len(ops) + k] = new[k]
    <3> DEFINE joined == ops \o new
    <3>1. /\ joined \in Seq(OpRecord) /\ Len(joined) = Len(ops) + l
          /\ \A k \in 1..(Len(ops) + l) :
               joined[k] = IF k <= Len(ops) THEN ops[k] ELSE new[k - Len(ops)]
      BY <2>1, <2>2, ConcatProperties
    <3>2. ops' = joined
      BY <1>2
    <3> HIDE DEF joined
    <3>3. \A k \in DOMAIN ops : k \in 1..(Len(ops) + l) /\ k <= Len(ops)
      BY <2>0, <2>1
    <3>4. \A k \in 1..l : Len(ops) + k \in 1..(Len(ops) + l) /\ ~(Len(ops) + k <= Len(ops))
                          /\ Len(ops) + k - Len(ops) = k
      BY <2>0, <2>1
    <3>5. \A k \in DOMAIN ops : joined[k] = ops[k]
      BY <3>1, <3>3
    <3>6. \A k \in 1..l : joined[Len(ops) + k] = new[k]
      BY <3>1, <3>4
    <3> QED
      BY <3>1, <3>2, <3>5, <3>6
  <2> QED
    BY <2>1, <2>3 DEF l
<1>11. counts' = [added |-> counts.added + a, deleted |-> counts.deleted + d,
                  changed |-> counts.changed + p]
  <2>1. counts.added + n - p = counts.added + a /\ counts.deleted + m - p = counts.deleted + d
    BY <1>1, <1>p, WithinTexts DEF a, d
  <2> QED
    BY <1>3, <2>1
<1>12. /\ at' = <<at[1] + p + d, at[2] + p + a>> /\ texts' = texts /\ lastTag' = "replace"
       /\ at[1] + p + d <= Len(texts[1]) /\ at[2] + p + a <= Len(texts[2])
  <2>1. at[1] + m = at[1] + p + d /\ at[2] + n = at[2] + p + a
    <3>1. m = p + d /\ n = p + a
      BY <1>1
    <3> QED
      BY <3>1, <1>p, <1>d, <1>w
  <2> QED
    BY <1>3, <2>1 DEF Block
<1>13. \A k \in 1..p : Left(at[1] + k) # Right(at[2] + k)
  BY <1>1, <1>3
<1>14. Appended("change", p, d, a)
  BY <1>9, <1>10, <1>11, <1>12, <1>13 DEF Appended
<1> QED
  BY <1>1, <1>d, <1>14, BlockInv

(* Every step keeps the account.                                           *)
LEMMA MarksNextInv == MarksInv /\ [MarksNext]_marksVars => MarksInv'
<1> SUFFICES ASSUME MarksInv, [MarksNext]_marksVars PROVE MarksInv'
  OBVIOUS
<1>1. CASE GiveTexts
  BY <1>1, GiveTextsInv
<1>2. ASSUME NEW m \in 1..MaxLines, NEW n \in 1..MaxLines,
             EqualBlock(m) \/ DeleteBlock(m) \/ InsertBlock(n) \/ ReplaceBlock(m, n)
      PROVE  MarksInv'
  BY <1>2, EqualBlockInv, DeleteBlockInv, InsertBlockInv, ReplaceBlockInv
<1>3. CASE UNCHANGED marksVars
  BY <1>3 DEF marksVars, MarksInv, MarksTyped, OpTrue, Left, Right, InOrder, LineOf,
              Counted, Number
<1> QED
  BY <1>1, <1>2, <1>3 DEF MarksNext

(* The operations so far tell what was read of both texts, in its order,   *)
(* and are counted; the types hold.                                        *)
THEOREM MarksInvariant == MarksSpec => [](MarksInv /\ MarksTypeOK)
<1>1. ASSUME MarksInv PROVE MarksTypeOK
  <2>1. Len(texts[1]) \in 0..MaxLines /\ Len(texts[2]) \in 0..MaxLines
    BY <1>1, TextFacts DEF MarksInv, MarksTyped
  <2>2. at \in (0..MaxLines) \X (0..MaxLines)
    BY <1>1, <2>1, MarksAssumption DEF MarksInv, MarksTyped
  <2>3. \A k \in DOMAIN ops : ops[k].left \in 0..MaxLines /\ ops[k].right \in 0..MaxLines
    BY <1>1, <2>2, MarksAssumption DEF MarksInv, OpTrue
  <2> QED
    BY <1>1, <2>2, <2>3 DEF MarksInv, MarksTyped, MarksTypeOK, RangeOf
<1> QED
  BY <1>1, MarksInitInv, MarksNextInv, PTL DEF MarksSpec

(* So at the end they tell both texts completely.                          *)
LEMMA OpsTellAll == MarksInv => OpsTellBothTexts
<1> SUFFICES ASSUME MarksInv, Done PROVE OpsTellBothTexts
  BY DEF OpsTellBothTexts
<1>1. /\ texts[1] \in Texts /\ texts[2] \in Texts
      /\ at[1] = Len(texts[1]) /\ at[2] = Len(texts[2]) /\ at[1] \in Nat /\ at[2] \in Nat
  BY DEF Done, MarksInv, MarksTyped
<1>2. DOMAIN texts[1] = 1..at[1] /\ DOMAIN texts[2] = 1..at[2]
  BY <1>1, TextFacts
<1>3. \A k \in DOMAIN ops : OpTrue(ops[k])
  BY DEF MarksInv
<1>4. {LineOf(o, 1) : o \in RangeOf(ops)} \ {0} = DOMAIN texts[1]
  BY <1>1, <1>2, <1>3 DEF MarksInv, InOrder, OpTrue, LineOf, RangeOf
<1>5. {LineOf(o, 2) : o \in RangeOf(ops)} \ {0} = DOMAIN texts[2]
  BY <1>1, <1>2, <1>3 DEF MarksInv, InOrder, OpTrue, LineOf, RangeOf
<1>6. ASSUME NEW side \in {1, 2}, NEW j \in DOMAIN ops, NEW k \in DOMAIN ops, j < k,
             LineOf(ops[k], side) # 0
      PROVE  LineOf(ops[j], side) < LineOf(ops[k], side)
  BY <1>6 DEF MarksInv, InOrder
<1>7. ASSUME NEW k \in DOMAIN ops
      PROVE  ops[k].op = "equal" <=>
        (ops[k].left # 0 /\ ops[k].right # 0 /\ Left(ops[k].left) = Right(ops[k].right))
  <2>1. ops[k].op \in Tags
    <3>1. ops[k] \in OpRecord
      BY WithinTexts
    <3> QED
      BY <3>1 DEF OpRecord
  <2> QED
    BY <2>1, <1>3 DEF OpTrue, Tags
<1> QED
  BY <1>4, <1>5, <1>6, <1>7 DEF OpsTellBothTexts, RangeOf, MarksInv, Counted

-----------------------------------------------------------------------------
(* Marks on a page where no line can be mistaken for another.              *)

Cell(side, i, k) ==
  [line |-> i, row |-> (k - 1) \div RowWidth[side], col |-> k,
   word |-> Shown(texts[side][i])[k]]

(* A line is a sequence of words, what it shows as well; one that is       *)
(* sought shows its text.                                                  *)
LEMMA LineFacts ==
  ASSUME MarksInv, NEW side \in {1, 2}, NEW i \in DOMAIN texts[side]
  PROVE  LET l == texts[side][i]  b == Body(l)  s == Shown(l) IN
         /\ b \in Seq(RangeOf(l)) /\ Len(b) \in Nat /\ DOMAIN b = 1..Len(b)
         /\ Len(s) \in Nat /\ DOMAIN s = 1..Len(s)
         /\ ~Unsought(l) => s = b /\ Len(b) >= 1
<1> DEFINE l == texts[side][i]  b == Body(l)  s == Shown(l)
<1>1. l \in Lines
  <2>1. texts[side] \in Texts
    BY DEF MarksInv, MarksTyped
  <2> QED
    BY <2>1, TextFacts
<1>2. l \in Seq(RangeOf(l))
  BY <1>1, MarksAssumption DEF RangeOf
<1> HIDE DEF l
<1>3. b \in Seq(RangeOf(l)) /\ (l # <<>> => Len(b) >= 1)
  <2>1. CASE Len(l) > 1 /\ l[1] = Hash
    <3>1. b = Tail(l)
      BY <2>1 DEF Body
    <3> QED
      BY <1>2, <2>1, <3>1
  <2>2. CASE ~(Len(l) > 1 /\ l[1] = Hash)
    <3>1. b = l
      BY <2>2 DEF Body
    <3> QED
      BY <1>2, <3>1, EmptySeq
  <2> QED
    BY <2>1, <2>2
<1>4. s = <<>> \/ s = b
  BY DEF Shown
<1>5. ~Unsought(l) => l # <<>> /\ l[1] # Marker
  BY DEF Unsought
<1>6. ~Unsought(l) => s = b
  BY <1>5 DEF Shown
<1> HIDE DEF b, s
<1>7. Len(b) \in Nat /\ DOMAIN b = 1..Len(b)
  BY <1>3
<1>8. Len(s) \in Nat /\ DOMAIN s = 1..Len(s)
  <2>1. CASE s = <<>>
    BY <2>1
  <2>2. CASE s = b
    BY <2>2, <1>7
  <2> QED
    BY <1>4, <2>1, <2>2
<1> QED
  BY <1>3, <1>5, <1>6, <1>7, <1>8 DEF l, b, s

(* The first row has as many words as a row may have.                      *)
LEMMA FirstRow ==
  ASSUME NEW w \in Nat \ {0}, NEW k \in Nat \ {0} PROVE (k - 1) \div w = 0 <=> k <= w
OBVIOUS

(* What stands on a page.                                                  *)
LEMMA PageFacts ==
  ASSUME MarksInv, NEW side \in {1, 2}
  PROVE  /\ \A p \in Page(side) :
              /\ p.line \in DOMAIN texts[side] /\ p.col \in Nat
              /\ p = Cell(side, p.line, p.col) /\ p \in Cells(side, p.line)
         /\ \A i \in DOMAIN texts[side] :
              /\ Cells(side, i) = {Cell(side, i, k) : k \in DOMAIN Shown(texts[side][i])}
              /\ Cells(side, i) \subseteq Page(side)
<1>1. ASSUME NEW i \in DOMAIN texts[side]
      PROVE  /\ Cells(side, i) = {Cell(side, i, k) : k \in DOMAIN Shown(texts[side][i])}
             /\ Cells(side, i) \subseteq Page(side)
  BY DEF Cells, Cell, Page
<1>2. ASSUME NEW p \in Page(side)
      PROVE  /\ p.line \in DOMAIN texts[side] /\ p.col \in Nat
             /\ p = Cell(side, p.line, p.col) /\ p \in Cells(side, p.line)
  <2>1. PICK i \in DOMAIN texts[side] : p \in Cells(side, i)
    BY DEF Page
  <2>2. PICK k \in DOMAIN Shown(texts[side][i]) : p = Cell(side, i, k)
    BY <1>1, <2>1
  <2>3. p.line = i /\ p.col = k
    BY <2>2 DEF Cell
  <2>4. k \in Nat
    BY LineFacts
  <2> QED
    BY <2>1, <2>2, <2>3, <2>4
<1> QED
  BY <1>1, <1>2

(* The places that begin at p where the words of a text stand.             *)
From(page, text, p) ==
  {q \in page : /\ q.line = p.line /\ q.row = p.row
                /\ q.col - p.col \in 0..(Len(text) - 1)
                /\ q.word = text[q.col - p.col + 1]}

(* The first n words of what a line shows.                                 *)
FirstWords(side, i, n) == {Cell(side, i, k) : k \in 1..n}

(* What a clear page says of the text of a line that is sought.            *)
LEMMA ClearFacts ==
  ASSUME MarksInv, NEW side \in {1, 2}, Clear(side), NEW i \in DOMAIN texts[side],
         ~Unsought(texts[side][i])
  PROVE  LET b == Body(texts[side][i]) IN
         /\ b[1] \notin Letters
         /\ \A p \in Page(side) : p.word = b[1] => p.line = i /\ p.col = 1
BY DEF Clear

(* A search for the beginning of such a text finds it where it stands, if  *)
(* it stands in one row, and nothing else.                                 *)
LEMMA LineFound ==
  ASSUME MarksInv, NEW side \in {1, 2}, Clear(side), NEW i \in DOMAIN texts[side],
         ~Unsought(texts[side][i]), NEW n \in 1..Len(Body(texts[side][i]))
  PROVE  Found(Page(side), SubSeq(Body(texts[side][i]), 1, n))
           = IF n <= RowWidth[side] THEN {FirstWords(side, i, n)} ELSE {}
<1> DEFINE b == Body(texts[side][i])  text == SubSeq(b, 1, n)  page == Page(side)
           first == Cell(side, i, 1)  w == RowWidth[side]
           mine == {q \in FirstWords(side, i, n) : q.row = 0}
<1>1. /\ b \in Seq(RangeOf(texts[side][i])) /\ Len(b) \in Nat /\ DOMAIN b = 1..Len(b)
      /\ Shown(texts[side][i]) = b
  BY LineFacts
<1>2. w \in Nat \ {0} /\ n \in Nat /\ n >= 1 /\ n <= Len(b)
  BY <1>1, MarksAssumption
<1>3. Len(text) = n /\ \A k \in 1..n : text[k] = b[k]
  <2> HIDE DEF b
  <2> QED
    BY <1>1, <1>2
<1>4. \A p \in page : p.word = b[1] => p.line = i /\ p.col = 1
  BY ClearFacts
<1> HIDE DEF text
<1>5. ASSUME NEW k \in 1..n
      PROVE  /\ Cell(side, i, k) \in page /\ Cell(side, i, k).line = i
             /\ Cell(side, i, k).col = k /\ Cell(side, i, k).word = b[k]
             /\ Cell(side, i, k).row = 0 <=> k <= w
  <2>1. k \in DOMAIN Shown(texts[side][i]) /\ k \in Nat \ {0}
    BY <1>1, <1>2
  <2>2. Cell(side, i, k) \in page
    BY <2>1, PageFacts
  <2>3. Cell(side, i, k).row = (k - 1) \div w
    BY DEF Cell
  <2>4. Cell(side, i, k).row = 0 <=> k <= w
    BY <2>1, <2>3, <1>2, FirstRow
  <2>5. Cell(side, i, k).word = b[k]
    BY <1>1 DEF Cell
  <2>6. Cell(side, i, k).line = i /\ Cell(side, i, k).col = k
    BY DEF Cell
  <2> QED
    BY <2>2, <2>4, <2>5, <2>6
<1>6. first \in page /\ first.line = i /\ first.row = 0 /\ first.col = 1
  BY <1>2, <1>5
<1> HIDE DEF b, page, w, first
<1>7. From(page, text, first) = mine
  <2>1. ASSUME NEW q \in From(page, text, first) PROVE q \in mine
    <3>1. q \in page /\ q.line = i /\ q.row = 0 /\ q.col - 1 \in 0..(n - 1)
      BY <1>3, <1>6 DEF From
    <3>2. q = Cell(side, i, q.col) /\ q.col \in Nat
      BY <3>1, PageFacts DEF page
    <3>3. q.col \in 1..n
      BY <1>2, <3>1, <3>2
    <3> QED
      BY <3>1, <3>2, <3>3 DEF FirstWords
  <2>2. ASSUME NEW q \in mine PROVE q \in From(page, text, first)
    <3>1. PICK k \in 1..n : q = Cell(side, i, k)
      BY DEF FirstWords
    <3>2. q \in page /\ q.line = i /\ q.row = 0 /\ q.col = k /\ q.word = text[k]
      BY <1>3, <1>5, <3>1
    <3>3. k - 1 \in 0..(n - 1) /\ k - 1 + 1 = k
      BY <1>2
    <3> QED
      BY <1>3, <1>6, <3>2, <3>3 DEF From
  <2> QED
    BY <2>1, <2>2
<1>8. (\A k \in 1..n : \E q \in mine : q.col = first.col + k - 1) <=> n <= w
  <2>1. \A k \in 1..n : first.col + k - 1 = k
    BY <1>2, <1>6
  <2>2. ASSUME NEW k \in 1..n PROVE (\E q \in mine : q.col = k) <=> k <= w
    <3>1. ASSUME NEW q \in mine, q.col = k PROVE k <= w
      <4>1. PICK m \in 1..n : q = Cell(side, i, m)
        BY <3>1 DEF FirstWords
      <4>2. q = Cell(side, i, k) /\ q.row = 0
        BY <1>5, <3>1, <4>1
      <4> QED
        BY <1>5, <4>2
    <3>2. ASSUME k <= w PROVE \E q \in mine : q.col = k
      BY <1>5, <3>2 DEF FirstWords
    <3> QED
      BY <3>1, <3>2
  <2>3. (\A k \in 1..n : k <= w) <=> n <= w
    BY <1>2
  <2> HIDE DEF mine
  <2> QED
    BY <2>1, <2>2, <2>3
<1>9. ASSUME NEW p \in page,
             \A k \in 1..n : \E q \in From(page, text, p) : q.col = p.col + k - 1
      PROVE  p = first
  <2>1. p.col \in Nat /\ p = Cell(side, p.line, p.col)
    BY PageFacts DEF page
  <2>2. 1 \in 1..n
    BY <1>2
  <2>3. \E q \in From(page, text, p) : q.col = p.col + 1 - 1
    BY <1>9, <2>2
  <2>4. PICK q \in From(page, text, p) : q.col = p.col
    BY <2>1, <2>3
  <2>5. q.col - p.col + 1 = 1
    BY <2>1, <2>4
  <2>6. q \in page /\ q.line = p.line /\ q.word = b[1]
    BY <1>3, <2>2, <2>5 DEF From
  <2>7. p.line = i /\ p.col = 1
    BY <1>4, <2>4, <2>6
  <2> QED
    BY <2>1, <2>7 DEF first
<1>10. Found(page, text) = {From(page, text, p) : p \in {x \in page : \A k \in 1..n :
                               \E q \in From(page, text, x) : q.col = x.col + k - 1}}
  BY <1>3 DEF Found, From
<1>11. n <= w => mine = FirstWords(side, i, n)
  BY <1>2, <1>5 DEF FirstWords
<1> HIDE DEF mine
<1>12. {x \in page : \A k \in 1..n : \E q \in From(page, text, x) : q.col = x.col + k - 1}
         = IF n <= w THEN {first} ELSE {}
  BY <1>6, <1>7, <1>8, <1>9
<1>13. Found(page, text) = IF n <= w THEN {FirstWords(side, i, n)} ELSE {}
  BY <1>7, <1>10, <1>11, <1>12
<1> QED
  BY <1>13 DEF b, text, page, w

(* The lesser of two numbers.                                              *)
LesserOf(m, n) == IF m < n THEN m ELSE n

(* So the search that falls back to beginnings finds what is within reach. *)
LEMMA LineSearched ==
  ASSUME MarksInv, NEW side \in {1, 2}, Clear(side), NEW i \in DOMAIN texts[side],
         ~Unsought(texts[side][i])
  PROVE  Searched(Page(side), texts[side][i]) = {Reach(side, i)}
<1> DEFINE b == Body(texts[side][i])  page == Page(side)  w == RowWidth[side]
           c == Cut(b)  m == LesserOf(Len(b), SearchWords)  h == LesserOf(m, w)
           beginning(n) == SubSeq(c, 1, n)
           tried == {n \in 1..Len(c) : n = Len(c) \/ ~(RangeOf(beginning(n)) \subseteq Letters)}
           hits == {n \in tried : Found(page, beginning(n)) # {}}
<1>1. /\ b \in Seq(RangeOf(texts[side][i])) /\ Len(b) \in Nat /\ DOMAIN b = 1..Len(b)
      /\ Shown(texts[side][i]) = b /\ Len(b) >= 1 /\ b[1] \notin Letters
  BY LineFacts, ClearFacts
<1>2. w \in Nat \ {0} /\ SearchWords \in Nat \ {0}
  BY MarksAssumption
<1>3. \A n \in 1..Len(b) : Found(page, SubSeq(b, 1, n))
                             = IF n <= w THEN {FirstWords(side, i, n)} ELSE {}
  BY LineFound
<1>4. Searched(page, texts[side][i]) = IF hits = {} THEN {}
        ELSE Found(page, beginning(CHOOSE n \in hits : \A k \in hits : k <= n))
  BY DEF Searched, Search
<1>5. c = SubSeq(b, 1, m)
  BY DEF Cut, LesserOf
<1>6. Reach(side, i) = {q \in {Cell(side, i, k) : k \in 1..Len(b)} :
                          q.row = 0 /\ q.col <= SearchWords}
  BY <1>1, PageFacts DEF Reach
<1> HIDE DEF b, page, w, c
<1>7. /\ m \in Nat /\ m >= 1 /\ m <= Len(b) /\ m <= SearchWords
      /\ \A k \in Nat : k <= Len(b) /\ k <= SearchWords => k <= m
  BY <1>1, <1>2 DEF LesserOf
<1> HIDE DEF m
<1>8. /\ h \in Nat /\ h >= 1 /\ h <= m /\ h <= w
      /\ \A k \in Nat : k <= m /\ k <= w => k <= h
  BY <1>2, <1>7 DEF LesserOf
<1> HIDE DEF h
<1>9. Len(c) = m /\ \A n \in 1..m : beginning(n) = SubSeq(b, 1, n)
  <2>1. c \in Seq(RangeOf(texts[side][i])) /\ Len(c) = m /\ \A k \in 1..m : c[k] = b[k]
    BY <1>1, <1>5, <1>7
  <2>2. ASSUME NEW n \in 1..m PROVE beginning(n) = SubSeq(b, 1, n)
    <3>1. /\ beginning(n) \in Seq(RangeOf(texts[side][i])) /\ Len(beginning(n)) = n
          /\ \A k \in 1..n : beginning(n)[k] = c[k]
      BY <2>1, <1>7
    <3>2. /\ SubSeq(b, 1, n) \in Seq(RangeOf(texts[side][i])) /\ Len(SubSeq(b, 1, n)) = n
          /\ \A k \in 1..n : SubSeq(b, 1, n)[k] = b[k]
      BY <1>1, <1>7
    <3>3. \A k \in 1..n : beginning(n)[k] = SubSeq(b, 1, n)[k]
      BY <2>1, <3>1, <3>2, <1>7
    <3> QED
      BY <3>1, <3>2, <3>3, SeqEqual
  <2> QED
    BY <2>1, <2>2
<1>10. ASSUME NEW n \in 1..m PROVE ~(RangeOf(beginning(n)) \subseteq Letters)
  <2>1. 1 \in DOMAIN SubSeq(b, 1, n) /\ SubSeq(b, 1, n)[1] = b[1]
    BY <1>1, <1>7
  <2> QED
    BY <1>1, <1>9, <2>1 DEF RangeOf
<1>11. tried = 1..m
  BY <1>9, <1>10
<1>12. ASSUME NEW n \in 1..m
       PROVE  /\ n \in Nat
              /\ Found(page, beginning(n)) = IF n <= w THEN {FirstWords(side, i, n)} ELSE {}
  <2>1. n \in Nat /\ n \in 1..Len(b)
    BY <1>1, <1>7
  <2>2. beginning(n) = SubSeq(b, 1, n)
    BY <1>9
  <2>3. Found(page, SubSeq(b, 1, n)) = IF n <= w THEN {FirstWords(side, i, n)} ELSE {}
    BY <1>3, <2>1
  <2> HIDE DEF beginning
  <2> QED
    BY <2>1, <2>2, <2>3
<1> HIDE DEF beginning, tried
<1>13. \A n : n \in hits <=> n \in 1..m /\ n <= w
  BY <1>11, <1>12
<1> HIDE DEF hits
<1>14. h \in hits /\ \A n \in hits : n \in Nat /\ n <= h
  BY <1>7, <1>8, <1>12, <1>13
<1>15. (CHOOSE n \in hits : \A k \in hits : k <= n) = h
  <2>1. \A n \in hits : (\A k \in hits : k <= n) <=> n = h
    BY <1>14
  <2> QED
    BY <1>14, <2>1
<1>16. FirstWords(side, i, h) = Reach(side, i)
  <2>1. ASSUME NEW k \in 1..Len(b)
        PROVE  (Cell(side, i, k).row = 0 /\ Cell(side, i, k).col <= SearchWords) <=> k \in 1..h
    <3>1. Cell(side, i, k).row = (k - 1) \div w /\ Cell(side, i, k).col = k
      BY DEF Cell, w
    <3>2. k \in Nat \ {0} /\ k <= Len(b)
      BY <1>1
    <3>3. (k - 1) \div w = 0 <=> k <= w
      BY <1>2, <3>2, FirstRow
    <3>4. k <= w /\ k <= SearchWords => k <= m /\ k <= h
      BY <1>7, <1>8, <3>2
    <3>5. k <= h => k <= m /\ k <= w
      BY <1>2, <1>7, <1>8, <3>2
    <3>6. k <= m => k <= SearchWords
      BY <1>2, <1>7, <3>2
    <3>7. k <= h <=> k \in 1..h
      BY <1>8, <3>2
    <3> HIDE DEF w
    <3> QED
      BY <3>1, <3>3, <3>4, <3>5, <3>6, <3>7
  <2>2. 1..h \subseteq 1..Len(b)
    BY <1>1, <1>7, <1>8
  <2> QED
    BY <1>6, <2>1, <2>2 DEF FirstWords
<1>17. Found(page, beginning(h)) = {Reach(side, i)}
  BY <1>7, <1>8, <1>12, <1>16
<1> QED
  BY <1>4, <1>14, <1>15, <1>17 DEF page

(* Searching for a word finds its places; a marker is not searched for.    *)
LEMMA WordSearched ==
  ASSUME MarksInv, NEW side \in {1, 2}, NEW w, w \notin Letters
  PROVE  Searched(Page(side), <<w>>)
           = {{q} : q \in {x \in Page(side) : x.word = w /\ w # Marker}}
<1> DEFINE page == Page(side)  text == <<w>>
           beginning(n) == SubSeq(text, 1, n)
           tried == {n \in 1..Len(text) : n = Len(text) \/ ~(RangeOf(beginning(n)) \subseteq Letters)}
           hits == {n \in tried : Found(page, beginning(n)) # {}}
<1>1. Len(text) = 1 /\ text[1] = w /\ text \in Seq({w}) /\ text # <<>>
  OBVIOUS
<1>2. beginning(1) = text
  <2>1. SubSeq(text, 1, Len(text)) = text
    BY <1>1, SubSeqFull
  <2> QED
    BY <1>1, <2>1
<1>3. \A p \in page : p.col \in Nat
  BY PageFacts
<1>4. ASSUME NEW p \in page
      PROVE  From(page, text, p) = IF p.word = w THEN {p} ELSE {}
  <2>1. ASSUME NEW q \in page, q.line = p.line, q.col = p.col PROVE q = p
    <3>1. q = Cell(side, q.line, q.col) /\ p = Cell(side, p.line, p.col)
      BY PageFacts
    <3> QED
      BY <2>1, <3>1
  <2>2. \A q \in page : q.col - p.col \in 0..0 <=> q.col = p.col
    BY <1>3
  <2>3. p.col - p.col + 1 = 1 /\ Len(text) - 1 = 0 /\ p.col - p.col \in 0..0
    BY <1>1, <1>3
  <2>4. \A q \in page : q \in From(page, text, p) <=> q = p /\ p.word = w
    BY <1>1, <2>1, <2>2, <2>3 DEF From
  <2>5. From(page, text, p) \subseteq page
    BY DEF From
  <2> QED
    BY <2>4, <2>5
<1>5. Found(page, text) = {From(page, text, p) : p \in {x \in page : \A k \in 1..Len(text) :
                              \E q \in From(page, text, x) : q.col = x.col + k - 1}}
  BY DEF Found, From
<1>6. {x \in page : \A k \in 1..Len(text) :
         \E q \in From(page, text, x) : q.col = x.col + k - 1} = {x \in page : x.word = w}
  <2>1. ASSUME NEW x \in page
        PROVE  (\A k \in 1..Len(text) : \E q \in From(page, text, x) : q.col = x.col + k - 1)
                 <=> x.word = w
    <3>1. x.col + 1 - 1 = x.col /\ 1..Len(text) = {1}
      BY <1>1, <1>3
    <3>2. From(page, text, x) = IF x.word = w THEN {x} ELSE {}
      BY <1>4
    <3> HIDE DEF page, text
    <3> QED
      BY <3>1, <3>2
  <2> QED
    BY <2>1
<1>7. Found(page, text) = {{q} : q \in {x \in page : x.word = w}}
  <2> HIDE DEF page, text
  <2> QED
    BY <1>4, <1>5, <1>6
<1>8. /\ Unsought(text) <=> w = Marker
      /\ Cut(Body(text)) = text
  <2>1. Body(text) = text
    BY <1>1 DEF Body
  <2>2. w # Bar
    BY DEF Letters
  <2>3. Unsought(text) <=> w = Marker
    <3> HIDE DEF text
    <3> QED
      BY <1>1, <2>1, <2>2 DEF Unsought
  <2>4. Cut(text) = beginning(1)
    <3>1. SearchWords \in Nat \ {0}
      BY MarksAssumption
    <3>2. (IF Len(text) < SearchWords THEN Len(text) ELSE SearchWords) = 1
      BY <1>1, <3>1
    <3> HIDE DEF text
    <3> QED
      BY <3>2 DEF Cut
  <2> QED
    BY <1>2, <2>1, <2>3, <2>4
<1>9. Search(page, text) = IF hits = {} THEN {}
        ELSE Found(page, beginning(CHOOSE n \in hits : \A m \in hits : m <= n))
  BY DEF Search
<1>10. hits = IF Found(page, text) = {} THEN {} ELSE {1}
  <2>1. tried = {1}
    BY <1>1
  <2> HIDE DEF tried
  <2> QED
    BY <1>2, <2>1
<1> HIDE DEF hits, page, text
<1>11. Search(page, text) = {{q} : q \in {x \in page : x.word = w}}
  <2>1. CASE hits = {}
    BY <1>7, <1>9, <1>10, <2>1
  <2>2. CASE hits = {1}
    <3>1. (CHOOSE n \in hits : \A m \in hits : m <= n) = 1
      BY <2>2
    <3> QED
      BY <1>2, <1>7, <1>9, <2>2, <3>1
  <2> QED
    BY <1>10, <2>1, <2>2
<1>12. Searched(page, text) = IF w = Marker THEN {} ELSE {{q} : q \in {x \in page : x.word = w}}
  BY <1>8, <1>11 DEF Searched
<1> QED
  BY <1>12 DEF page, text

(* What is searched for one change of a line: the line, or in it the words *)
(* W; and what should be marked for it.                                    *)
MarkedFor(side, line, W) ==
  LET lines == Searched(Page(side), line) IN
  IF W = {} THEN UNION lines
  ELSE UNION {rect \in UNION {Searched(Page(side), <<w>>) : w \in W} :
                OnLine(side, rect, lines)}

Changed(side, i, W) ==
  {q \in Page(side) :
     /\ ~Unsought(texts[side][i])
     /\ \/ W = {} /\ q \in Reach(side, i)
        \/ q.word \in W \ {Marker} /\ \E r \in Reach(side, i) : Touches(side, q, r)}

(* What is marked for one change: what is within reach of the line, or the *)
(* changed words that touch it; and nothing if the line is not sought.     *)
LEMMA EntryMarked ==
  ASSUME MarksInv, NEW side \in {1, 2}, Clear(side), NEW i \in DOMAIN texts[side],
         NEW W, \A w \in W : w \notin Letters
  PROVE  MarkedFor(side, texts[side][i], W) = Changed(side, i, W)
<1> DEFINE page == Page(side)  lines == Searched(page, texts[side][i])
           rects == UNION {Searched(page, <<w>>) : w \in W}
           near(q) == \E r \in Reach(side, i) : Touches(side, q, r)
<1>1. \A w \in W : Searched(page, <<w>>)
                     = {{q} : q \in {x \in page : x.word = w /\ w # Marker}}
  BY WordSearched
<1>2. \A q \in Reach(side, i) : q \in page
  BY PageFacts DEF Reach
<1>3. ~Unsought(texts[side][i]) => lines = {Reach(side, i)}
  BY LineSearched
<1>4. Unsought(texts[side][i]) => lines = {}
  BY DEF Searched
<1> HIDE DEF lines, page
<1>5. rects = {{q} : q \in {x \in page : x.word \in W \ {Marker}}}
  <2>1. ASSUME NEW w \in W, NEW rect \in Searched(page, <<w>>)
        PROVE  rect \in {{q} : q \in {x \in page : x.word \in W \ {Marker}}}
    <3>1. rect \in {{q} : q \in {x \in page : x.word = w /\ w # Marker}}
      BY <1>1, <2>1
    <3> QED
      BY <3>1
  <2>2. ASSUME NEW x \in page, x.word \in W \ {Marker} PROVE {x} \in rects
    <3>1. Searched(page, <<x.word>>)
            = {{q} : q \in {y \in page : y.word = x.word /\ x.word # Marker}}
      BY <1>1, <2>2
    <3>2. {x} \in Searched(page, <<x.word>>)
      BY <2>2, <3>1
    <3> QED
      BY <2>2, <3>2
  <2>3. \A rect \in rects : rect \in {{q} : q \in {x \in page : x.word \in W \ {Marker}}}
    BY <2>1
  <2> HIDE DEF rects
  <2> QED
    BY <2>2, <2>3
<1> HIDE DEF rects
<1>6. MarkedFor(side, texts[side][i], W)
        = IF W = {} THEN UNION lines ELSE UNION {rect \in rects : OnLine(side, rect, lines)}
  BY DEF MarkedFor, lines, rects, page
<1>7. CASE Unsought(texts[side][i])
  <2>1. \A rect : ~OnLine(side, rect, lines)
    BY <1>4, <1>7 DEF OnLine
  <2>2. MarkedFor(side, texts[side][i], W) = {}
    BY <1>4, <1>6, <1>7, <2>1
  <2>3. Changed(side, i, W) = {}
    BY <1>7 DEF Changed
  <2> QED
    BY <2>2, <2>3
<1>8. CASE ~Unsought(texts[side][i]) /\ W = {}
  <2>1. MarkedFor(side, texts[side][i], W) = Reach(side, i)
    BY <1>3, <1>6, <1>8
  <2>2. Changed(side, i, W) = Reach(side, i)
    BY <1>2, <1>8 DEF Changed, page
  <2> QED
    BY <2>1, <2>2
<1>9. CASE ~Unsought(texts[side][i]) /\ W # {}
  <2>1. \A q : OnLine(side, {q}, lines) <=> near(q)
    BY <1>3, <1>9 DEF OnLine
  <2> HIDE DEF near
  <2>2. UNION {rect \in rects : OnLine(side, rect, lines)}
          = {q \in page : q.word \in W \ {Marker} /\ near(q)}
    <3>1. ASSUME NEW q \in page, q.word \in W \ {Marker}, near(q)
          PROVE  q \in UNION {rect \in rects : OnLine(side, rect, lines)}
      <4>1. {q} \in rects /\ OnLine(side, {q}, lines)
        BY <1>5, <2>1, <3>1
      <4> QED
        BY <4>1
    <3>2. ASSUME NEW rect \in rects, OnLine(side, rect, lines), NEW q \in rect
          PROVE  q \in page /\ q.word \in W \ {Marker} /\ near(q)
      <4>1. PICK x \in page : x.word \in W \ {Marker} /\ rect = {x}
        BY <1>5
      <4>2. q = x /\ OnLine(side, {x}, lines)
        BY <3>2, <4>1
      <4> QED
        BY <2>1, <4>1, <4>2
    <3> QED
      BY <3>1, <3>2
  <2>3. Changed(side, i, W) = {q \in page : q.word \in W \ {Marker} /\ near(q)}
    BY <1>9 DEF Changed, page, near
  <2> QED
    BY <1>6, <1>9, <2>2, <2>3
<1> QED
  BY <1>7, <1>8, <1>9

(* What an operation says of a line is said of one of the text's lines.    *)
LEMMA LineOfOp ==
  ASSUME MarksInv, Done, NEW side \in {1, 2}, NEW o \in RangeOf(ops), LineOf(o, side) # 0
  PROVE  LineOf(o, side) \in DOMAIN texts[side]
<1>1. /\ DOMAIN texts[1] = 1..at[1] /\ DOMAIN texts[2] = 1..at[2]
      /\ at[1] \in Nat /\ at[2] \in Nat
  BY TextFacts DEF Done, MarksInv, MarksTyped
<1>2. o.left \in 0..at[1] /\ o.right \in 0..at[2]
  BY DEF MarksInv, OpTrue, RangeOf
<1> QED
  BY <1>1, <1>2 DEF LineOf

(* What is marked on a page, change by change.                             *)
LEMMA MarkedByChange ==
  ASSUME MarksInv, Done, NEW side \in {1, 2}, Clear(side)
  PROVE  Marked(side) =
           UNION {Changed(side, LineOf(o, side), WordsOf(o, side)) :
                  o \in {x \in RangeOf(ops) : x.op # "equal" /\ LineOf(x, side) # 0}}
<1> DEFINE mine == {x \in RangeOf(ops) : x.op # "equal" /\ LineOf(x, side) # 0}
           told == {x \in mine : texts[side][LineOf(x, side)] # <<>>}
           entry(o) == [line |-> texts[side][LineOf(o, side)], words |-> WordsOf(o, side)]
<1>1. ChangesOn(side) = {entry(o) : o \in told}
  BY DEF ChangesOn
<1>2. Marked(side) = UNION {MarkedFor(side, e.line, e.words) : e \in ChangesOn(side)}
  BY DEF Marked, MarkedFor
<1>3. ASSUME NEW o \in mine
      PROVE  MarkedFor(side, entry(o).line, entry(o).words)
               = Changed(side, LineOf(o, side), WordsOf(o, side))
  <2>1. \A w \in WordsOf(o, side) : w \notin Letters
    BY DEF WordsOf, ChangedWords
  <2>2. entry(o).line = texts[side][LineOf(o, side)] /\ entry(o).words = WordsOf(o, side)
    OBVIOUS
  <2>3. LineOf(o, side) \in DOMAIN texts[side]
    BY LineOfOp
  <2> QED
    BY <2>1, <2>2, <2>3, EntryMarked
<1>4. ASSUME NEW o \in mine, o \notin told
      PROVE  Changed(side, LineOf(o, side), WordsOf(o, side)) = {}
  <2>1. Unsought(texts[side][LineOf(o, side)])
    BY <1>4 DEF Unsought
  <2> QED
    BY <2>1 DEF Changed
<1> DEFINE due(o) == Changed(side, LineOf(o, side), WordsOf(o, side))
<1>5. told \subseteq mine
  OBVIOUS
<1> HIDE DEF mine, told, entry
<1>6. Marked(side) = UNION {MarkedFor(side, entry(o).line, entry(o).words) : o \in told}
  BY <1>1, <1>2
<1>7. Marked(side) = UNION {due(o) : o \in told}
  BY <1>3, <1>5, <1>6
<1>8. \A o \in mine : o \notin told => due(o) = {}
  BY <1>4
<1> HIDE DEF due
<1>9. UNION {due(o) : o \in told} = UNION {due(o) : o \in mine}
  BY <1>5, <1>8
<1> QED
  BY <1>7, <1>9 DEF mine, due

(* So the marks of a page are what its changes are due.                    *)
LEMMA MarksTellAll == MarksInv => MarksAreChanges
<1> SUFFICES ASSUME MarksInv, Done, NEW side \in {1, 2}, Clear(side)
             PROVE  Marked(side) = {p \in Page(side) : \E o \in RangeOf(ops) : IsDue(side, o, p)}
  BY DEF MarksAreChanges
<1> DEFINE mine == {x \in RangeOf(ops) : x.op # "equal" /\ LineOf(x, side) # 0}
<1>1. \A o \in RangeOf(ops), p \in Page(side) :
        IsDue(side, o, p) <=> o \in mine /\ p \in Changed(side, LineOf(o, side), WordsOf(o, side))
  BY DEF IsDue, Changed
<1>2. \A i, W : Changed(side, i, W) \subseteq Page(side)
  BY DEF Changed
<1>3. Marked(side) = UNION {Changed(side, LineOf(o, side), WordsOf(o, side)) : o \in mine}
  BY MarkedByChange
<1>4. mine \subseteq RangeOf(ops)
  OBVIOUS
<1> HIDE DEF mine
<1>5. ASSUME NEW p \in Marked(side)
      PROVE  p \in Page(side) /\ \E o \in RangeOf(ops) : IsDue(side, o, p)
  BY <1>1, <1>2, <1>3, <1>4
<1>6. ASSUME NEW p \in Page(side), NEW o \in RangeOf(ops), IsDue(side, o, p)
      PROVE  p \in Marked(side)
  BY <1>1, <1>3, <1>6
<1> QED
  BY <1>5, <1>6

(* The answer of a comparison and the marks on its pages tell the same     *)
(* changes, whatever the texts and however difflib cuts them into blocks.  *)
THEOREM ComparisonIsTrue == MarksSpec => []DiffIsTrue
<1>1. MarksInv => DiffIsTrue
  BY OpsTellAll, MarksTellAll DEF DiffIsTrue
<1> QED
  BY <1>1, MarksInvariant, PTL

-----------------------------------------------------------------------------
(* Fields and their evidence.                                              *)

(* A set of natural numbers that is not empty has a least one.             *)
LEMMA LeastExists ==
  ASSUME NEW T \in SUBSET Nat, T # {}
  PROVE  \E n \in T : \A m \in T : n <= m
<1> DEFINE R == {x \in Nat \X Nat : x[1] < x[2]}
<1>1. IsWellFoundedOn(R, Nat)
  BY NatLessThanWellFounded DEF OpToRel
<1>2. \A x, y \in Nat : <<y, x>> \in R <=> y < x
  OBVIOUS
<1> HIDE DEF R
<1>3. PICK n \in T : \A m \in T : ~(<<m, n>> \in R)
  BY <1>1, WFMin
<1>4. \A m \in T : n \in Nat /\ m \in Nat /\ ~(m < n)
  BY <1>2, <1>3
<1>5. \A m \in T : n <= m
  BY <1>4
<1> QED
  BY <1>5

(* So what holds of 0 and passes from a number to the next holds of all.   *)
LEMMA Counting ==
  ASSUME NEW N \in Nat, NEW P \in SUBSET (0..N), 0 \in P,
         \A n \in P : n < N => n + 1 \in P
  PROVE  P = 0..N
<1> SUFFICES ASSUME (0..N) \ P # {} PROVE FALSE
  OBVIOUS
<1>1. PICK n \in (0..N) \ P : \A m \in (0..N) \ P : n <= m
  <2> DEFINE T == (0..N) \ P
  <2>1. T \in SUBSET Nat
    OBVIOUS
  <2> HIDE DEF T
  <2>2. T # {} => \E n \in T : \A m \in T : n <= m
    BY <2>1, LeastExists
  <2> QED
    BY <2>2 DEF T
<1>2. n # 0 /\ n - 1 \in 0..N /\ n - 1 \in P /\ n - 1 < N /\ n - 1 + 1 = n
  BY <1>1
<1> QED
  BY <1>1, <1>2

-----------------------------------------------------------------------------
Replies == UNION {[S -> Payloads] : S \in SUBSET Spelled}
Values == {"none", "short", "long"}
AskSteps == {"none", "route", "calls", "broken", "ground", "draw", "done",
             "refused", "failed"}

FieldsTyped ==
  /\ paper = <<>> \/ paper \in Papers
  /\ ask \in [pc : AskSteps, by : {"none", "text", "qwen", "gemini"},
              vision : {"none", "qwen", "gemini"}, prefer : BOOLEAN, propose : BOOLEAN]
  /\ calls \in Seq([status : {"none", "running", "ok", "failed"}, said : Replies])
  /\ collected \in 0..Len(calls)
  /\ \A k \in DOMAIN fields : fields[k] \in Field
  /\ drawn \subseteq {fields[k] : k \in DOMAIN fields}

(* A field has what was replied by the call that asked for it.             *)
SaidBy(c, k) ==
  LET said == calls[c].said IN
  IF <<k, "exactly">> \in DOMAIN said
  THEN fields[k].value = said[<<k, "exactly">>].value
  ELSE fields[k].value \in
         {"none"} \cup {said[s].value : s \in DOMAIN said \cap {<<k, "nearly">>}}

Whole ==
  /\ \A c \in DOMAIN calls : calls[c].status = "ok"
  /\ DOMAIN fields = Keys
  /\ (\A c \in DOMAIN calls : \A s \in DOMAIN calls[c].said : s[1] \in Asked(c)) =>
       \A c \in DOMAIN calls : \A k \in Asked(c) : SaidBy(c, k)

(* A box lies on the page of its field.                                    *)
Placed(f) ==
  \/ f.box = {0}
  \/ ask.by = "text" /\ f.box = {id \in f.lines : PageOfLine(id) = f.page}
  \/ /\ ask.by = "qwen"
     /\ \A id \in f.box : f.value \in paper[id].holds
     /\ (\E id \in LineIds : PageOfLine(id) = f.page) =>
          \A id \in f.box : PageOfLine(id) = f.page

(* Where an extraction is, and what it then has.                           *)
FieldsInv ==
  /\ FieldsTyped
  /\ ask.pc \in {"none", "route"} => calls = <<>> /\ collected = 0
  /\ ask.pc \in {"none", "route", "calls", "broken"} => fields = <<>>
  /\ ask.pc # "done" => drawn = {}
  /\ \A f \in drawn : f.box # {}
  /\ \A c \in 1..collected : calls[c].status = "ok"
  /\ ask.pc = "ground" => ask.by = "qwen" /\ \A k \in DOMAIN fields : fields[k].box \in {{}, {0}}
  /\ ask.pc \in {"ground", "draw"} => ~ask.propose
  /\ ask.pc \in {"ground", "draw", "done"} /\ ~ask.propose => Whole
  /\ ask.pc \in {"draw", "done"} => \A k \in DOMAIN fields : fields[k].box # {} => Placed(fields[k])

(* There are no replies before there are calls.                            *)
LEMMA NothingSaid == <<>> \in Replies /\ DOMAIN (<<>>) = {}
<1>1. <<>> \in [{} -> Payloads]
  OBVIOUS
<1> QED
  BY <1>1 DEF Replies

(* A reply says something of keys only.                                    *)
LEMMA ReplyFacts ==
  ASSUME NEW said \in Replies
  PROVE  /\ DOMAIN said \subseteq Spelled
         /\ \A s \in DOMAIN said : said[s] \in Payloads
BY DEF Replies

(* The replies put together, call by call.                                 *)
LEMMA UpToUnfolds ==
  ASSUME FieldsTyped
  PROVE  \A c \in 0..Len(calls) : ParsedUpTo[c] =
           IF c = 0 THEN <<>> ELSE Updated(calls[c].said, ParsedUpTo[c - 1])
<1> DEFINE N == Len(calls)
           Next(h, c) == Updated(calls[c].said, h[c - 1])
           Is(h, m) == h = [c \in 0..m |-> IF c = 0 THEN <<>> ELSE Next(h, c)]
           P == {m \in 0..N : \E h : Is(h, m)}
<1>0. N \in Nat
  BY DEF FieldsTyped
<1>1. 0 \in P
  <2> DEFINE h == [c \in 0..0 |-> <<>>]
  <2>1. h = [c \in 0..0 |-> IF c = 0 THEN <<>> ELSE Next(h, c)]
    OBVIOUS
  <2>2. Is(h, 0)
    BY <2>1
  <2> HIDE DEF h, Is
  <2>3. \E g : Is(g, 0)
    BY <2>2
  <2> QED
    BY <1>0, <2>3
<1>2. ASSUME NEW m \in P, m < N PROVE m + 1 \in P
  <2>0. m \in Nat /\ m + 1 \in 0..N
    BY <1>0, <1>2
  <2>1. PICK h : Is(h, m)
    OBVIOUS
  <2> DEFINE k == [c \in 0..(m + 1) |->
                     IF c = m + 1 THEN Updated(calls[c].said, h[m]) ELSE h[c]]
  <2>2. ASSUME NEW c \in 0..(m + 1) PROVE k[c] = IF c = 0 THEN <<>> ELSE Next(k, c)
    <3>1. CASE c = m + 1
      <4>1. k[c] = Updated(calls[c].said, h[m]) /\ k[c - 1] = h[m] /\ c # 0
        BY <2>0, <3>1
      <4> HIDE DEF k
      <4> QED
        BY <4>1
    <3>2. CASE c \in 0..m
      <4>1. k[c] = h[c] /\ (c # 0 => k[c - 1] = h[c - 1])
        BY <2>0, <3>2
      <4>2. h[c] = IF c = 0 THEN <<>> ELSE Next(h, c)
        BY <2>1, <3>2
      <4> HIDE DEF k
      <4> QED
        BY <4>1, <4>2
    <3> QED
      BY <2>0, <3>1, <3>2
  <2>3. Is(k, m + 1)
    <3>1. k = [c \in 0..(m + 1) |-> k[c]]
      OBVIOUS
    <3> HIDE DEF k, Next
    <3> QED
      BY <2>2, <3>1
  <2>4. \E g : Is(g, m + 1)
    <3> HIDE DEF k, Is
    <3> QED
      BY <2>3
  <2> QED
    BY <2>0, <2>4
<1>3. \E h : Is(h, N)
  <2> HIDE DEF Is
  <2>1. P \in SUBSET (0..N)
    OBVIOUS
  <2> HIDE DEF P
  <2>2. P = 0..N
    BY <1>0, <1>1, <1>2, <2>1, Counting
  <2>3. N \in P
    BY <1>0, <2>2
  <2> QED
    BY <2>3 DEF P
<1>4. ParsedUpTo = CHOOSE h : Is(h, N)
  BY DEF ParsedUpTo
<1>5. Is(ParsedUpTo, N)
  <2> HIDE DEF Is
  <2> QED
    BY <1>3, <1>4
<1> HIDE DEF Next
<1>6. \A c \in 0..N : ParsedUpTo[c] = IF c = 0 THEN <<>> ELSE Next(ParsedUpTo, c)
  BY <1>5
<1> QED
  BY <1>6 DEF Next

(* All that the replies say of a key is in what is put together, and what  *)
(* is there was said.                                                      *)
LEMMA ParsedFacts ==
  ASSUME FieldsTyped
  PROVE  /\ \A c \in DOMAIN calls : DOMAIN calls[c].said \subseteq DOMAIN Parsed
         /\ \A s \in DOMAIN Parsed :
              \E c \in DOMAIN calls : s \in DOMAIN calls[c].said /\ Parsed[s] = calls[c].said[s]
<1> DEFINE N == Len(calls)
           Tells(c) ==
             /\ \A d \in 1..c : DOMAIN calls[d].said \subseteq DOMAIN ParsedUpTo[c]
             /\ \A s \in DOMAIN ParsedUpTo[c] :
                  \E d \in 1..c : s \in DOMAIN calls[d].said
                                  /\ ParsedUpTo[c][s] = calls[d].said[s]
           P == {c \in 0..N : Tells(c)}
<1>0. N \in Nat /\ DOMAIN calls = 1..N
  BY DEF FieldsTyped
<1>1. 0 \in P
  <2>1. ParsedUpTo[0] = <<>>
    BY <1>0, UpToUnfolds
  <2> QED
    BY <1>0, <2>1, NothingSaid
<1>2. ASSUME NEW c \in P, c < N PROVE c + 1 \in P
  <2>0. c \in Nat /\ c + 1 \in 0..N /\ c + 1 # 0 /\ c + 1 - 1 = c
    BY <1>0, <1>2
  <2> DEFINE said == calls[c + 1].said  before == ParsedUpTo[c]  after == ParsedUpTo[c + 1]
  <2>1. after = Updated(said, before)
    BY <2>0, UpToUnfolds
  <2>2. Tells(c)
    OBVIOUS
  <2>3. /\ DOMAIN after = DOMAIN said \cup DOMAIN before
        /\ \A s \in DOMAIN after : after[s] = IF s \in DOMAIN said THEN said[s] ELSE before[s]
    <3> HIDE DEF after, said, before
    <3> QED
      BY <2>1 DEF Updated
  <2>4. \A d \in 1..(c + 1) : d \in 1..c \/ d = c + 1
    BY <2>0
  <2>5. \A d \in 1..c : d \in 1..(c + 1)
    BY <2>0
  <2>6. Tells(c + 1)
    <3>1. \A d \in 1..(c + 1) : DOMAIN calls[d].said \subseteq DOMAIN after
      BY <2>2, <2>3, <2>4
    <3>2. ASSUME NEW s \in DOMAIN after
          PROVE  \E d \in 1..(c + 1) : s \in DOMAIN calls[d].said /\ after[s] = calls[d].said[s]
      <4>1. CASE s \in DOMAIN said
        <5>1. after[s] = said[s] /\ c + 1 \in 1..(c + 1)
          BY <2>0, <2>3, <4>1
        <5> HIDE DEF after
        <5> QED
          BY <4>1, <5>1
      <4>2. CASE s \notin DOMAIN said
        <5>1. s \in DOMAIN before /\ after[s] = before[s]
          BY <2>3, <4>2
        <5>2. PICK d \in 1..c : s \in DOMAIN calls[d].said /\ before[s] = calls[d].said[s]
          BY <2>2, <5>1
        <5> HIDE DEF after, before
        <5> QED
          BY <2>5, <5>1, <5>2
      <4> QED
        BY <4>1, <4>2
    <3> QED
      BY <3>1, <3>2
  <2> QED
    BY <2>0, <2>6
<1>3. Tells(N)
  <2> HIDE DEF Tells
  <2>1. P \in SUBSET (0..N)
    OBVIOUS
  <2>2. \A c \in P : c < N => c + 1 \in P
    BY <1>2
  <2> HIDE DEF P
  <2>3. P = 0..N
    BY <1>0, <1>1, <2>1, <2>2, Counting
  <2>4. N \in P
    BY <1>0, <2>3
  <2> QED
    BY <2>4 DEF P
<1>4. Parsed = ParsedUpTo[N]
  BY DEF Parsed
<1> QED
  BY <1>0, <1>3, <1>4

-----------------------------------------------------------------------------
(* A field as it is made of the replies.                                   *)
Made(k) ==
  IF PayloadsFor(k) = {} THEN EmptyField(k)
  ELSE LET p == CHOOSE p \in PayloadsFor(k) : TRUE
       IN IF ask.by = "text" THEN TextField(k, p) ELSE VisionField(k, p)

(* Lines are numbered, and on pages.                                       *)
LEMMA PaperFacts ==
  ASSUME FieldsTyped
  PROVE  /\ paper \in Seq([page : Nat, holds : SUBSET {"short", "long"}])
         /\ LineIds = 1..Len(paper) /\ Len(paper) \in Nat
         /\ \A id \in LineIds : PageOfLine(id) \in Nat
<1>1. paper \in Seq([page : Nat, holds : SUBSET {"short", "long"}])
  <2> DEFINE L == [page : Nat, holds : SUBSET {"short", "long"}]
  <2>1. Papers \subseteq Seq(L)
    BY ExtractionAssumption
  <2> HIDE DEF L
  <2>2. <<>> \in Seq(L)
    OBVIOUS
  <2>3. paper \in Seq(L)
    BY <2>1, <2>2 DEF FieldsTyped
  <2> QED
    BY <2>3 DEF L
<1>2. \A id \in LineIds : paper[id] \in [page : Nat, holds : SUBSET {"short", "long"}]
  <2> DEFINE L == [page : Nat, holds : SUBSET {"short", "long"}]
  <2>1. paper \in Seq(L)
    BY <1>1
  <2> HIDE DEF L
  <2>2. \A id \in DOMAIN paper : paper[id] \in L
    BY <2>1
  <2> QED
    BY <2>2 DEF L, LineIds
<1>3. LineIds = 1..Len(paper) /\ Len(paper) \in Nat
  BY <1>1 DEF LineIds
<1> QED
  BY <1>1, <1>2, <1>3 DEF PageOfLine

(* No two calls ask for the same key.                                      *)
LEMMA OneAsks ==
  ASSUME FieldsTyped, NEW c \in DOMAIN calls, NEW d \in DOMAIN calls,
         NEW k \in Asked(c), k \in Asked(d)
  PROVE  c = d /\ k \in Keys
<1>1. DOMAIN calls = 1..Len(calls) /\ Len(calls) \in Nat
  BY DEF FieldsTyped
<1>2. CASE Len(calls) = 1
  BY <1>1, <1>2 DEF Asked
<1>3. CASE Len(calls) # 1
  BY <1>1, <1>3 DEF Asked
<1> QED
  BY <1>2, <1>3

(* What is used for a key was replied for it.                              *)
LEMMA PayloadFacts ==
  ASSUME FieldsTyped, NEW k \in Keys, NEW p \in PayloadsFor(k)
  PROVE  /\ p \in Payloads
         /\ IF <<k, "exactly">> \in DOMAIN Parsed THEN p = Parsed[<<k, "exactly">>]
            ELSE <<k, "nearly">> \in DOMAIN Parsed /\ p = Parsed[<<k, "nearly">>]
<1>1. ASSUME NEW s \in DOMAIN Parsed PROVE Parsed[s] \in Payloads
  <2>1. PICK c \in DOMAIN calls : s \in DOMAIN calls[c].said /\ Parsed[s] = calls[c].said[s]
    BY ParsedFacts
  <2>2. calls[c].said \in Replies
    <3> DEFINE R == [status : {"none", "running", "ok", "failed"}, said : Replies]
    <3>0. calls \in Seq(R)
      BY DEF FieldsTyped
    <3> HIDE DEF R
    <3>1. calls[c] \in R
      BY <3>0
    <3> USE DEF R
    <3> QED
      BY <3>1
  <2> QED
    BY <2>1, <2>2, ReplyFacts
<1> QED
  BY <1>1 DEF PayloadsFor

(* A payload, part by part.                                                *)
LEMMA PayloadParts ==
  ASSUME NEW p \in Payloads
  PROVE  /\ p.value \in Values /\ p.page \in Nat /\ p.boxed \in BOOLEAN
         /\ p.sure \in BOOLEAN /\ p.lines \in Seq(Int)
<1>1. p \in [value : Values, page : Nat, boxed : BOOLEAN, sure : BOOLEAN, lines : Seq(Int)]
  BY ExtractionAssumption DEF Values
<1> QED
  BY <1>1

(* A field of lines.                                                       *)
LEMMA TextFieldFacts ==
  ASSUME FieldsTyped, NEW k \in Keys, NEW p \in Payloads
  PROVE  LET f == TextField(k, p) IN
         /\ f \in Field /\ f.value = p.value
         /\ f.box # {} => f.box = {id \in f.lines : PageOfLine(id) = f.page}
<1> DEFINE cited == {n \in DOMAIN p.lines : p.lines[n] \in LineIds}
           ids == {p.lines[n] : n \in cited}
           first == CHOOSE n \in cited : \A m \in cited : n <= m
           page == IF cited = {} THEN 0 ELSE PageOfLine(p.lines[first])
           box == IF page = 0 THEN {} ELSE SamePage(ids, page)
           review == p.value = "none" \/ ~p.sure
<1>1. ids \subseteq LineIds
  OBVIOUS
<1>2. page \in Nat
  <2>1. CASE cited = {}
    BY <2>1
  <2>2. CASE cited # {}
    <3>1. cited \in SUBSET Nat
      BY PayloadParts
    <3> HIDE DEF cited
    <3>2. first \in cited
      BY <2>2, <3>1, LeastExists
    <3>3. p.lines[first] \in LineIds
      BY <3>2 DEF cited
    <3>4. page = PageOfLine(p.lines[first])
      BY <2>2
    <3> QED
      BY <3>3, <3>4, PaperFacts
  <2> QED
    BY <2>1, <2>2
<1>3. box \in SUBSET LineIds /\ (box # {} => box = {id \in ids : PageOfLine(id) = page})
  BY <1>1 DEF SamePage
<1>4. review \in BOOLEAN /\ p.value \in Values
  BY PayloadParts
<1>5. TextField(k, p) = [key |-> k, value |-> p.value, page |-> page, lines |-> ids,
                         box |-> box, review |-> review]
  BY DEF TextField
<1> HIDE DEF cited, ids, page, box, review
<1>6. TextField(k, p) \in Field
  BY <1>1, <1>2, <1>3, <1>4, <1>5 DEF Field, Values
<1> QED
  BY <1>3, <1>5, <1>6

(* A field of a picture.                                                   *)
LEMMA VisionFieldFacts ==
  ASSUME NEW k \in Keys, NEW p \in Payloads
  PROVE  LET f == VisionField(k, p) IN
         f \in Field /\ f.value = p.value /\ f.box \in {{}, {0}}
<1> DEFINE box == IF p.boxed /\ p.page \in 1..PageCount /\ p.page <= MaxPages THEN {0} ELSE {}
           review == p.value = "none" \/ ~p.sure
<1>1. review \in BOOLEAN /\ p.value \in Values /\ p.page \in Nat
  BY PayloadParts
<1>2. box \in {{}, {0}}
  OBVIOUS
<1>3. VisionField(k, p) = [key |-> k, value |-> p.value, page |-> p.page, lines |-> {},
                           box |-> box, review |-> review]
  BY DEF VisionField
<1> HIDE DEF box, review
<1>4. VisionField(k, p) \in Field
  BY <1>1, <1>2, <1>3 DEF Field, Values
<1> QED
  BY <1>2, <1>3, <1>4

(* A field without a value.                                                *)
LEMMA EmptyFieldFacts ==
  ASSUME NEW k \in Keys
  PROVE  EmptyField(k) \in Field /\ EmptyField(k).value = "none" /\ EmptyField(k).box = {}
BY DEF EmptyField, Field

(* A field is made of what is used for its key, and its box on its page.   *)
LEMMA MadeFacts ==
  ASSUME FieldsTyped, NEW k \in Keys
  PROVE  /\ Made(k) \in Field
         /\ IF PayloadsFor(k) = {} THEN Made(k).value = "none"
            ELSE \E p \in PayloadsFor(k) : Made(k).value = p.value
         /\ Made(k).box # {} => Placed(Made(k))
         /\ ask.by = "qwen" => Made(k).box \in {{}, {0}}
<1>1. CASE PayloadsFor(k) = {}
  BY <1>1, EmptyFieldFacts DEF Made
<1>2. CASE PayloadsFor(k) # {}
  <2> DEFINE p == CHOOSE p \in PayloadsFor(k) : TRUE
  <2>1. p \in PayloadsFor(k) /\ p \in Payloads
    BY <1>2, PayloadFacts
  <2>2. Made(k) = IF ask.by = "text" THEN TextField(k, p) ELSE VisionField(k, p)
    BY <1>2 DEF Made
  <2> HIDE DEF p
  <2>3. CASE ask.by = "text"
    BY <1>2, <2>1, <2>2, <2>3, TextFieldFacts DEF Placed
  <2>4. CASE ask.by # "text"
    BY <1>2, <2>1, <2>2, <2>4, VisionFieldFacts DEF Placed
  <2> QED
    BY <2>3, <2>4
<1> QED
  BY <1>1, <1>2

(* The fields made are what the calls that asked for them replied.         *)
LEMMA MadeAsSaid ==
  ASSUME FieldsTyped,
         \A c \in DOMAIN calls : \A s \in DOMAIN calls[c].said : s[1] \in Asked(c),
         NEW c \in DOMAIN calls, NEW k \in Asked(c)
  PROVE  LET said == calls[c].said IN
         IF <<k, "exactly">> \in DOMAIN said
         THEN Made(k).value = said[<<k, "exactly">>].value
         ELSE Made(k).value \in
                {"none"} \cup {said[s].value : s \in DOMAIN said \cap {<<k, "nearly">>}}
<1> DEFINE said == calls[c].said
<1>1. k \in Keys
  BY OneAsks
<1>2. ASSUME NEW s \in DOMAIN Parsed, s[1] = k
      PROVE  s \in DOMAIN said /\ Parsed[s] = said[s]
  <2>1. PICK d \in DOMAIN calls : s \in DOMAIN calls[d].said /\ Parsed[s] = calls[d].said[s]
    BY ParsedFacts
  <2>2. k \in Asked(d)
    BY <1>2, <2>1
  <2>3. d = c
    BY <2>2, OneAsks
  <2> QED
    BY <2>1, <2>3
<1>3. \A s \in DOMAIN said : s \in DOMAIN Parsed
  BY ParsedFacts
<1> DEFINE e == <<k, "exactly">>  n == <<k, "nearly">>
<1>4. e[1] = k /\ n[1] = k
  OBVIOUS
<1>5. /\ e \in DOMAIN Parsed <=> e \in DOMAIN said
      /\ e \in DOMAIN Parsed => Parsed[e] = said[e]
      /\ n \in DOMAIN Parsed => n \in DOMAIN said /\ Parsed[n] = said[n]
  BY <1>2, <1>3, <1>4
<1>6. /\ PayloadsFor(k) = {} => Made(k).value = "none"
      /\ PayloadsFor(k) # {} => \E p \in PayloadsFor(k) : Made(k).value = p.value
  BY <1>1, MadeFacts
<1>7. e \in DOMAIN Parsed => PayloadsFor(k) = {Parsed[e]}
  BY DEF PayloadsFor
<1>8. e \notin DOMAIN Parsed =>
        \A p \in PayloadsFor(k) : n \in DOMAIN Parsed /\ p = Parsed[n]
  BY DEF PayloadsFor
<1> HIDE DEF e, n, said
<1>9. CASE e \in DOMAIN said
  BY <1>5, <1>6, <1>7, <1>9 DEF e, said
<1>10. CASE e \notin DOMAIN said
  <2>1. Made(k).value = "none" \/ (n \in DOMAIN said /\ Made(k).value = said[n].value)
    BY <1>5, <1>6, <1>8, <1>10
  <2>2. n \in DOMAIN said => said[n].value \in {said[s].value : s \in DOMAIN said \cap {n}}
    OBVIOUS
  <2>3. Made(k).value \in {"none"} \cup {said[s].value : s \in DOMAIN said \cap {n}}
    BY <2>1, <2>2
  <2> QED
    BY <1>10, <2>3 DEF e, n, said
<1> QED
  BY <1>9, <1>10

-----------------------------------------------------------------------------
(* The inductive invariant, action by action.                              *)
LEMMA FieldsInitInv == ExtractionInit => FieldsInv
<1> SUFFICES ASSUME ExtractionInit PROVE FieldsInv
  OBVIOUS
<1>1. /\ paper = <<>> /\ ask = NoAsk /\ calls = <<>> /\ collected = 0
      /\ fields = <<>> /\ drawn = {}
  BY DEF ExtractionInit
<1>2. DOMAIN fields = {} /\ Len(calls) = 0 /\ calls \in Seq([status : {"none", "running", "ok", "failed"}, said : Replies])
  BY <1>1
<1>3. NoAsk \in [pc : AskSteps, by : {"none", "text", "qwen", "gemini"},
                 vision : {"none", "qwen", "gemini"}, prefer : BOOLEAN, propose : BOOLEAN]
  BY DEF NoAsk, AskSteps
<1>4. FieldsTyped
  BY <1>1, <1>2, <1>3 DEF FieldsTyped
<1> QED
  BY <1>1, <1>2, <1>4 DEF FieldsInv, NoAsk

(* The number of calls a vision model takes.                               *)
LEMMA CallsTaken == ChunkCount \in Nat
<1>1. KeyCount \in Nat \ {0} /\ ChunkSize \in Nat \ {0}
  BY ExtractionAssumption
<1> QED
  BY <1>1 DEF ChunkCount

(* A step of the request alone.                                            *)
AskRecord ==
  [pc : AskSteps, by : {"none", "text", "qwen", "gemini"},
   vision : {"none", "qwen", "gemini"}, prefer : BOOLEAN, propose : BOOLEAN]
Calls == [status : {"none", "running", "ok", "failed"}, said : Replies]

LEMMA TypedParts ==
  FieldsTyped <=>
    /\ paper = <<>> \/ paper \in Papers
    /\ ask \in AskRecord
    /\ calls \in Seq(Calls)
    /\ collected \in 0..Len(calls)
    /\ \A k \in DOMAIN fields : fields[k] \in Field
    /\ drawn \subseteq {fields[k] : k \in DOMAIN fields}
BY DEF FieldsTyped, AskRecord, Calls

LEMMA GoesTo ==
  ASSUME ask \in AskRecord, NEW pc \in AskSteps, AskGoto(pc)
  PROVE  /\ ask' \in AskRecord /\ ask'.pc = pc /\ ask'.by = ask.by
         /\ ask'.propose = ask.propose
BY DEF AskGoto, AskRecord

LEMMA GiveRequestInv == FieldsInv /\ GiveRequest => FieldsInv'
<1> SUFFICES ASSUME FieldsInv, GiveRequest PROVE FieldsInv'
  OBVIOUS
<1>1. /\ paper' \in Papers /\ calls' = calls /\ collected' = collected
      /\ fields' = fields /\ drawn' = drawn /\ ask.pc = "none"
  BY DEF GiveRequest, AskAt
<1>2. ask' \in AskRecord /\ ask'.pc = "route"
  <2>1. NoAsk \in AskRecord
    BY DEF NoAsk, AskRecord, AskSteps
  <2> QED
    BY <2>1 DEF GiveRequest, AskRecord, AskSteps
<1>3. fields = <<>> /\ calls = <<>> /\ collected = 0 /\ drawn = {} /\ DOMAIN fields = {}
  BY <1>1 DEF FieldsInv
<1>4. FieldsTyped'
  BY <1>1, <1>2, <1>3, TypedParts DEF FieldsInv, FieldsTyped, AskRecord
<1> QED
  BY <1>1, <1>2, <1>3, <1>4 DEF FieldsInv

(* The calls that a chosen route makes, or the answer without any.         *)
LEMMA RouteInv ==
  ASSUME FieldsInv, ask.pc = "route", NEW by \in {"text", "qwen", "gemini"},
         CallModel(by) \/ NothingToRead(by), UNCHANGED <<paper, collected, drawn>>
  PROVE  FieldsInv'
<1>1. /\ fields = <<>> /\ calls = <<>> /\ collected = 0 /\ drawn = {} /\ DOMAIN fields = {}
      /\ paper' = paper /\ collected' = 0 /\ drawn' = {}
  BY DEF FieldsInv
<1>2. ask \in AskRecord /\ (paper = <<>> \/ paper \in Papers)
  BY TypedParts DEF FieldsInv
<1>3. CASE CallModel(by)
  <2>1. /\ ask' \in AskRecord /\ ask'.pc = "calls" /\ fields' = <<>>
    BY <1>1, <1>2, <1>3 DEF CallModel, AskRecord, AskSteps
  <2>2. calls' \in Seq(Calls)
    <3> DEFINE n == IF by = "qwen" /\ ~ask.propose THEN ChunkCount ELSE 1
    <3>1. n \in Nat /\ calls' = [c \in 1..n |-> NoCall]
      BY <1>3, CallsTaken DEF CallModel
    <3>2. NoCall \in Calls
      BY NothingSaid DEF NoCall, Calls
    <3> HIDE DEF n
    <3> QED
      BY <3>1, <3>2
  <2>3. 0 \in 0..Len(calls')
    BY <2>2
  <2>4. FieldsTyped'
    BY <1>1, <1>2, <2>1, <2>2, <2>3 DEF FieldsTyped, AskRecord, Calls
  <2> QED
    BY <1>1, <2>1, <2>4 DEF FieldsInv
<1>4. CASE NothingToRead(by)
  <2>1. /\ ask' \in AskRecord /\ calls' = <<>> /\ ask'.by = by /\ ask'.propose = ask.propose
        /\ ask'.pc = (IF ask.propose THEN "refused" ELSE "draw")
    BY <1>1, <1>2, <1>4 DEF NothingToRead, AskRecord, AskSteps
  <2>2. fields' = IF ask.propose THEN <<>> ELSE [k \in Keys |-> EmptyField(k)]
    BY <1>4 DEF NothingToRead, AllEmpty
  <2>3. \A k \in DOMAIN fields' : fields'[k] \in Field /\ fields'[k].box = {}
    BY <2>2, EmptyFieldFacts
  <2>4. Field' = Field
    BY <1>1 DEF Field, LineIds
  <2>5. calls' \in Seq(Calls) /\ Len(calls') = 0 /\ DOMAIN calls' = {}
    BY <2>1
  <2>6. FieldsTyped'
    BY <1>1, <1>2, <2>1, <2>3, <2>4, <2>5 DEF FieldsTyped, AskRecord, Calls
  <2>7. ~ask.propose => Whole'
    BY <2>2, <2>5 DEF Whole, Keys
  <2> QED
    BY <1>1, <2>1, <2>2, <2>3, <2>5, <2>6, <2>7 DEF FieldsInv
<1> QED
  BY <1>3, <1>4

(* A step that neither touches the fields nor the lines.                   *)
LEMMA CallsMove ==
  ASSUME FieldsInv, ask.pc \in {"calls", "broken", "route"}, ask' \in AskRecord,
         ask'.pc \in {"calls", "broken", "failed", "refused"}, calls' \in Seq(Calls),
         collected' \in 0..Len(calls'), UNCHANGED <<paper, fields, drawn>>,
         \A c \in 1..collected' : calls'[c].status = "ok"
  PROVE  FieldsInv'
<1>1. fields = <<>> /\ drawn = {} /\ DOMAIN fields = {}
  BY DEF FieldsInv
<1>2. FieldsTyped'
  BY <1>1 DEF FieldsInv, FieldsTyped, AskRecord, Calls
<1> QED
  BY <1>1, <1>2 DEF FieldsInv

LEMMA ChooseRouteInv == FieldsInv /\ ChooseRoute => FieldsInv'
<1> SUFFICES ASSUME FieldsInv, ChooseRoute PROVE FieldsInv'
  OBVIOUS
<1>1. /\ ask.pc = "route" /\ paper' = paper /\ collected' = collected /\ drawn' = drawn
      /\ ask.vision \in {"none", "qwen", "gemini"}
  BY TypedParts DEF ChooseRoute, AskAt, FieldsInv, AskRecord
<1>2. CASE (AskGoto("refused") \/ AskGoto("failed")) /\ UNCHANGED <<calls, fields>>
  <2>1. /\ ask \in AskRecord /\ calls \in Seq(Calls) /\ collected \in 0..Len(calls)
        /\ \A c \in 1..collected : calls[c].status = "ok"
    BY TypedParts DEF FieldsInv
  <2>2. ask' \in AskRecord /\ ask'.pc \in {"refused", "failed"}
    BY <1>2, <2>1, GoesTo DEF AskSteps
  <2> QED
    BY <1>1, <1>2, <2>1, <2>2, CallsMove
<1>3. CASE \E by \in {"text", "qwen", "gemini"} : CallModel(by) \/ NothingToRead(by)
  BY <1>1, <1>3, RouteInv
<1> QED
  BY <1>1, <1>2, <1>3 DEF ChooseRoute

(* What a reply may say: of one key at most, or of all that were asked.    *)
SaidOfOne == {<<>>} \cup (UNION {[{s} -> Payloads] : s \in Spelled})
SaidOfAll(c) == [{<<k, "exactly">> : k \in Asked(c)} -> Payloads]
SaidOf(c) == SaidOfOne \cup SaidOfAll(c)

(* The calls themselves.                                                   *)
LEMMA CallStepsInv ==
  FieldsInv /\ (CollectReply \/ RaiseFailure \/ \E c \in DOMAIN calls : StartCall(c) \/ ModelReplies(c))
    => FieldsInv'
<1> SUFFICES ASSUME FieldsInv, CollectReply \/ RaiseFailure
                      \/ \E c \in DOMAIN calls : StartCall(c) \/ ModelReplies(c)
             PROVE  FieldsInv'
  OBVIOUS
<1>1. /\ ask \in AskRecord /\ calls \in Seq(Calls) /\ collected \in 0..Len(calls)
      /\ Len(calls) \in Nat /\ DOMAIN calls = 1..Len(calls)
      /\ \A c \in 1..collected : calls[c].status = "ok"
  BY TypedParts DEF FieldsInv
<1>2. CASE CollectReply
  <2>1. /\ ask.pc = "calls" /\ calls' = calls /\ UNCHANGED <<paper, fields, drawn>>
        /\ collected + 1 \in DOMAIN calls
        /\ \/ calls[collected + 1].status = "ok" /\ collected' = collected + 1 /\ ask' = ask
           \/ AskGoto("broken") /\ collected' = collected
    BY <1>2 DEF CollectReply, AskAt
  <2>2. ask' \in AskRecord /\ ask'.pc \in {"calls", "broken"}
    BY <1>1, <2>1, GoesTo DEF AskSteps
  <2>3. collected' \in 0..Len(calls) /\ \A c \in 1..collected' : calls[c].status = "ok"
    <3>1. \A c \in 1..(collected + 1) : c \in 1..collected \/ c = collected + 1
      BY <1>1
    <3> QED
      BY <1>1, <2>1, <3>1
  <2> QED
    BY <1>1, <2>1, <2>2, <2>3, CallsMove
<1>3. CASE RaiseFailure
  <2>1. /\ ask.pc = "broken" /\ AskGoto("failed") /\ calls' = calls /\ collected' = collected
        /\ UNCHANGED <<paper, fields, drawn>>
    BY <1>3 DEF RaiseFailure, AskAt
  <2>2. ask' \in AskRecord /\ ask'.pc = "failed"
    BY <1>1, <2>1, GoesTo DEF AskSteps
  <2> QED
    BY <1>1, <2>1, <2>2, CallsMove
<1>4. ASSUME NEW c \in DOMAIN calls, StartCall(c) \/ ModelReplies(c) PROVE FieldsInv'
  <2>1. /\ ask.pc \in {"calls", "broken"} /\ ask' = ask /\ collected' = collected
        /\ UNCHANGED <<paper, fields, drawn>> /\ calls[c].status # "ok"
    BY <1>4 DEF StartCall, ModelReplies, AskAt
  <2>2. \E x \in Calls : calls' = [calls EXCEPT ![c] = x]
    <3>1. calls[c] \in Calls
      BY <1>1
    <3>2. CASE StartCall(c)
      <4>1. [calls[c] EXCEPT !.status = "running"] \in Calls
        BY <3>1 DEF Calls
      <4>2. calls' = [calls EXCEPT ![c] = [calls[c] EXCEPT !.status = "running"]]
        BY <3>2 DEF StartCall
      <4> QED
        BY <4>1, <4>2
    <3>3. CASE calls' = [calls EXCEPT ![c].status = "failed"]
      <4>1. [calls[c] EXCEPT !.status = "failed"] \in Calls
        BY <3>1 DEF Calls
      <4> QED
        BY <3>3, <4>1
    <3>4. ASSUME NEW said \in SaidOf(c),
                 calls' = [calls EXCEPT ![c] = [status |-> "ok", said |-> said]]
          PROVE  \E x \in Calls : calls' = [calls EXCEPT ![c] = x]
      <4>1. CASE said \in SaidOfOne
        <5>1. said \in Replies
          <6>1. CASE said = <<>>
            BY <6>1, NothingSaid
          <6>2. ASSUME NEW s \in Spelled, said \in [{s} -> Payloads] PROVE said \in Replies
            <7>1. {s} \in SUBSET Spelled
              OBVIOUS
            <7> QED
              BY <6>2, <7>1 DEF Replies
          <6> QED
            BY <4>1, <6>1, <6>2 DEF SaidOfOne
        <5>2. [status |-> "ok", said |-> said] \in Calls
          BY <5>1 DEF Calls
        <5> QED
          BY <3>4, <5>2
      <4>2. CASE said \in SaidOfAll(c)
        <5>0. {<<k, "exactly">> : k \in Asked(c)} \in SUBSET Spelled
          BY DEF Asked, Spelled
        <5>1. said \in Replies
          BY <4>2, <5>0 DEF Replies, SaidOfAll
        <5>2. [status |-> "ok", said |-> said] \in Calls
          BY <5>1 DEF Calls
        <5> QED
          BY <3>4, <5>2
      <4> QED
        BY <3>4, <4>1, <4>2 DEF SaidOf
    <3>5. ModelReplies(c) =>
            \/ calls' = [calls EXCEPT ![c].status = "failed"]
            \/ \E said \in SaidOf(c) :
                 calls' = [calls EXCEPT ![c] = [status |-> "ok", said |-> said]]
      BY Zenon DEF ModelReplies, SaidOf, SaidOfOne, SaidOfAll
    <3> QED
      BY <1>4, <3>2, <3>3, <3>4, <3>5
  <2>3. PICK x \in Calls : calls' = [calls EXCEPT ![c] = x]
    BY <2>2
  <2>4. calls' \in Seq(Calls) /\ Len(calls') = Len(calls)
    BY <1>1, <2>3
  <2>5. \A d \in 1..collected : calls'[d].status = "ok"
    BY <1>1, <2>1, <2>3
  <2> QED
    BY <1>1, <2>1, <2>4, <2>5, CallsMove
<1> QED
  BY <1>2, <1>3, <1>4

(* The fields are made of the replies.                                     *)
LEMMA BuildFieldsInv == FieldsInv /\ BuildFields => FieldsInv'
<1> SUFFICES ASSUME FieldsInv, BuildFields PROVE FieldsInv'
  OBVIOUS
<1>1. /\ ask \in AskRecord /\ calls \in Seq(Calls) /\ collected \in 0..Len(calls)
      /\ Len(calls) \in Nat /\ DOMAIN calls = 1..Len(calls) /\ FieldsTyped
      /\ \A c \in 1..collected : calls[c].status = "ok"
      /\ (paper = <<>> \/ paper \in Papers)
  BY TypedParts DEF FieldsInv
<1>2. /\ ask.pc = "calls" /\ collected = Len(calls) /\ UNCHANGED <<paper, calls, collected, drawn>>
      /\ drawn = {} /\ fields = <<>> /\ DOMAIN fields = {}
  BY DEF BuildFields, AskAt, FieldsInv
<1>3. CASE ask.propose
  <2>1. /\ fields' = fields
        /\ AskGoto("refused") \/ AskGoto("done")
    BY <1>3 DEF BuildFields
  <2>2. /\ ask' \in AskRecord /\ ask'.pc \in {"refused", "done"} /\ ask'.propose
    BY <1>1, <1>3, <2>1, GoesTo DEF AskSteps
  <2>3. FieldsTyped'
    BY <1>1, <1>2, <2>1, <2>2 DEF FieldsTyped, AskRecord, Calls
  <2> QED
    BY <1>1, <1>2, <2>1, <2>2, <2>3 DEF FieldsInv
<1>4. CASE ~ask.propose
  <2>1. /\ fields' = [k \in Keys |-> Made(k)]
        /\ AskGoto(IF ask.by = "qwen" THEN "ground" ELSE "draw")
    BY <1>4 DEF BuildFields, Made
  <2>2. /\ ask' \in AskRecord /\ ask'.pc = (IF ask.by = "qwen" THEN "ground" ELSE "draw")
        /\ ask'.by = ask.by /\ ask'.propose = ask.propose
    BY <1>1, <2>1, GoesTo DEF AskSteps
  <2>3. \A k \in Keys : fields'[k] = Made(k)
    BY <2>1
  <2>4. DOMAIN fields' = Keys
    BY <2>1
  <2>5. Field' = Field
    BY <1>2 DEF Field, LineIds
  <2>6. FieldsTyped'
    <3>1. \A k \in DOMAIN fields' : fields'[k] \in Field
      BY <1>1, <2>3, <2>4, MadeFacts
    <3> QED
      BY <1>1, <1>2, <2>2, <2>5, <3>1 DEF FieldsTyped, AskRecord, Calls
  <2>7. Whole'
    <3>1. \A c \in DOMAIN calls' : calls'[c].status = "ok"
      BY <1>1, <1>2
    <3>2. ASSUME \A c \in DOMAIN calls : \A s \in DOMAIN calls[c].said : s[1] \in Asked(c),
                 NEW c \in DOMAIN calls, NEW k \in Asked(c)
          PROVE  SaidBy(c, k)'
      <4>1. k \in Keys
        BY <1>1, <3>2, OneAsks
      <4>2. fields'[k] = Made(k) /\ calls'[c].said = calls[c].said
        BY <1>2, <2>3, <4>1
      <4> QED
        BY <1>1, <3>2, <4>2, MadeAsSaid DEF SaidBy
    <3>3. \A c : Asked(c)' = Asked(c)
      BY <1>2 DEF Asked
    <3> QED
      BY <1>2, <2>4, <3>1, <3>2, <3>3 DEF Whole, Keys
  <2>8. \A k \in Keys : /\ fields'[k].box # {} => Placed(fields[k])'
                        /\ ask.by = "qwen" => fields'[k].box \in {{}, {0}}
    <3> SUFFICES ASSUME NEW k \in Keys
                 PROVE  /\ fields'[k].box # {} => Placed(fields[k])'
                        /\ ask.by = "qwen" => fields'[k].box \in {{}, {0}}
      OBVIOUS
    <3>1. fields'[k] = Made(k)
      BY <2>3
    <3>2. Placed(fields[k])' <=> Placed(Made(k))
      BY <1>2, <2>2, <3>1 DEF Placed, LineIds, PageOfLine
    <3> QED
      BY <1>1, <3>1, <3>2, MadeFacts
  <2> QED
    BY <1>1, <1>2, <1>4, <2>2, <2>4, <2>6, <2>7, <2>8 DEF FieldsInv
<1> QED
  BY <1>3, <1>4

(* The lines that are found hold the value, and are on the field's page    *)
(* if that has any.                                                        *)
LEMMA MatchedFacts ==
  ASSUME FieldsTyped, NEW f \in Field, MatchedLines(f) # {}
  PROVE  /\ MatchedLines(f) \subseteq LineIds
         /\ \A id \in MatchedLines(f) : f.value \in paper[id].holds
         /\ (\E id \in LineIds : PageOfLine(id) = f.page) =>
              \A id \in MatchedLines(f) : PageOfLine(id) = f.page
<1> DEFINE on(p) == {id \in LineIds : PageOfLine(id) = p /\ f.value \in paper[id].holds}
           withLines == {PageOfLine(id) : id \in LineIds}
           fit == {p \in (IF f.page \in withLines THEN {f.page} ELSE withLines) :
                     Cardinality(on(p)) \in 1..MaxMatches}
           page == CHOOSE p \in fit : \A q \in fit : p <= q
<1>1. MatchedLines(f) = IF f.value # "long" \/ fit = {} THEN {} ELSE on(page)
  BY DEF MatchedLines
<1>2. fit # {} /\ MatchedLines(f) = on(page)
  BY <1>1
<1>3. page \in fit
  <2>1. fit \in SUBSET Nat
    <3>1. withLines \subseteq Nat /\ f.page \in Nat
      BY PaperFacts DEF Field
    <3> QED
      BY <3>1
  <2> HIDE DEF fit
  <2> QED
    BY <1>2, <2>1, LeastExists
<1>4. (\E id \in LineIds : PageOfLine(id) = f.page) => page = f.page
  <2>1. (\E id \in LineIds : PageOfLine(id) = f.page) => f.page \in withLines
    OBVIOUS
  <2>2. f.page \in withLines => fit \subseteq {f.page}
    OBVIOUS
  <2> HIDE DEF fit, withLines, page
  <2> QED
    BY <1>3, <2>1, <2>2
<1> HIDE DEF page
<1> QED
  BY <1>2, <1>4

(* A box is put around the lines with the value.                           *)
LEMMA GroundFieldsInv == FieldsInv /\ GroundFields => FieldsInv'
<1> SUFFICES ASSUME FieldsInv, GroundFields PROVE FieldsInv'
  OBVIOUS
<1>1. /\ ask \in AskRecord /\ calls \in Seq(Calls) /\ collected \in 0..Len(calls)
      /\ FieldsTyped /\ (paper = <<>> \/ paper \in Papers)
      /\ \A c \in 1..collected : calls[c].status = "ok"
  BY TypedParts DEF FieldsInv
<1>2. /\ ask.pc = "ground" /\ ask.by = "qwen" /\ ~ask.propose /\ Whole /\ drawn = {}
      /\ \A k \in DOMAIN fields : fields[k].box \in {{}, {0}} /\ fields[k] \in Field
      /\ UNCHANGED <<paper, calls, collected, drawn>> /\ AskGoto("draw")
  BY <1>1, TypedParts DEF GroundFields, AskAt, FieldsInv
<1>3. /\ ask' \in AskRecord /\ ask'.pc = "draw" /\ ask'.by = "qwen" /\ ~ask'.propose
  BY <1>1, <1>2, GoesTo DEF AskSteps
<1>4. /\ DOMAIN fields = Keys /\ DOMAIN fields' = Keys
      /\ \A k \in Keys : \/ fields'[k] = fields[k]
                         \/ /\ MatchedLines(fields[k]) # {}
                            /\ fields'[k] = [fields[k] EXCEPT !.box = MatchedLines(fields[k])]
  BY <1>2 DEF GroundFields, Whole
<1>5. Field' = Field
  BY <1>2 DEF Field, LineIds
<1>6. ASSUME NEW k \in Keys
      PROVE  /\ fields'[k] \in Field /\ fields'[k].value = fields[k].value
             /\ fields'[k].box # {} => Placed(fields[k])'
  <2>1. fields[k] \in Field /\ fields[k].box \in {{}, {0}}
    BY <1>2, <1>4
  <2>2. CASE fields'[k] = fields[k]
    BY <2>1, <2>2 DEF Placed
  <2>3. CASE /\ MatchedLines(fields[k]) # {}
             /\ fields'[k] = [fields[k] EXCEPT !.box = MatchedLines(fields[k])]
    <3> DEFINE box == MatchedLines(fields[k])
    <3>1. /\ box \subseteq LineIds /\ \A id \in box : fields[k].value \in paper[id].holds
          /\ (\E id \in LineIds : PageOfLine(id) = fields[k].page) =>
               \A id \in box : PageOfLine(id) = fields[k].page
      BY <1>1, <2>1, <2>3, MatchedFacts
    <3>2. fields'[k] = [fields[k] EXCEPT !.box = box]
      BY <2>3
    <3> HIDE DEF box
    <3>3. /\ fields'[k] \in Field /\ fields'[k].value = fields[k].value
          /\ fields'[k].page = fields[k].page /\ fields'[k].box = box
      BY <2>1, <3>1, <3>2 DEF Field
    <3>4. Placed(fields[k])'
      BY <1>2, <1>3, <3>1, <3>3 DEF Placed, LineIds, PageOfLine
    <3> QED
      BY <3>3, <3>4
  <2> QED
    BY <1>4, <2>2, <2>3
<1>7. FieldsTyped'
  BY <1>1, <1>2, <1>3, <1>4, <1>5, <1>6 DEF FieldsTyped, AskRecord, Calls
<1>8. Whole'
  <2>1. \A c : Asked(c)' = Asked(c)
    BY <1>2 DEF Asked
  <2>2. ASSUME NEW c \in DOMAIN calls, NEW k \in Asked(c), SaidBy(c, k) PROVE SaidBy(c, k)'
    <3>1. k \in Keys
      BY <1>1, <2>2, OneAsks
    <3> QED
      BY <1>2, <1>6, <2>2, <3>1 DEF SaidBy
  <2> QED
    BY <1>2, <1>4, <2>1, <2>2 DEF Whole, Keys
<1> QED
  BY <1>1, <1>2, <1>3, <1>4, <1>6, <1>7, <1>8 DEF FieldsInv

(* The boxes of some pages are drawn.                                      *)
LEMMA DrawEvidenceInv == FieldsInv /\ DrawEvidence => FieldsInv'
<1> SUFFICES ASSUME FieldsInv, DrawEvidence PROVE FieldsInv'
  OBVIOUS
<1>1. /\ ask \in AskRecord /\ calls \in Seq(Calls) /\ collected \in 0..Len(calls)
      /\ FieldsTyped /\ (paper = <<>> \/ paper \in Papers)
      /\ \A c \in 1..collected : calls[c].status = "ok"
      /\ \A k \in DOMAIN fields : fields[k] \in Field
  BY TypedParts DEF FieldsInv
<1>2. /\ ask.pc = "draw" /\ ~ask.propose /\ Whole
      /\ \A k \in DOMAIN fields : fields[k].box # {} => Placed(fields[k])
      /\ UNCHANGED <<paper, calls, collected, fields>> /\ AskGoto("done")
  BY DEF DrawEvidence, AskAt, FieldsInv
<1>3. /\ ask' \in AskRecord /\ ask'.pc = "done" /\ ask'.by = ask.by /\ ask'.propose = ask.propose
  BY <1>1, <1>2, GoesTo DEF AskSteps
<1>4. drawn' \subseteq {fields[k] : k \in DOMAIN fields} /\ \A f \in drawn' : f.box # {}
  BY <1>2 DEF DrawEvidence, Whole
<1>5. Field' = Field
  BY <1>2 DEF Field, LineIds
<1>6. FieldsTyped'
  BY <1>1, <1>2, <1>3, <1>4, <1>5 DEF FieldsTyped, AskRecord, Calls
<1>7. Whole'
  <2>1. \A c, k : Asked(c)' = Asked(c) /\ (SaidBy(c, k)' <=> SaidBy(c, k))
    BY <1>2 DEF Asked, SaidBy
  <2> QED
    BY <1>2, <2>1 DEF Whole, Keys
<1>8. \A k \in DOMAIN fields : Placed(fields[k])' <=> Placed(fields[k])
  BY <1>2, <1>3 DEF Placed, LineIds, PageOfLine
<1> QED
  BY <1>1, <1>2, <1>3, <1>4, <1>6, <1>7, <1>8 DEF FieldsInv

LEMMA FieldsNextInv == FieldsInv /\ [ExtractionNext]_extractionVars => FieldsInv'
<1> SUFFICES ASSUME FieldsInv, [ExtractionNext]_extractionVars PROVE FieldsInv'
  OBVIOUS
<1>1. CASE UNCHANGED extractionVars
  <2>1. /\ UNCHANGED <<paper, ask, calls, collected, fields, drawn>>
    BY <1>1 DEF extractionVars
  <2>2. Field' = Field
    BY <2>1 DEF Field, LineIds
  <2>3. \A k \in DOMAIN fields : Placed(fields[k])' <=> Placed(fields[k])
    BY <2>1 DEF Placed, LineIds, PageOfLine
  <2>4. Whole' <=> Whole
    BY <2>1 DEF Whole, SaidBy, Asked, Keys
  <2> QED
    BY <2>1, <2>2, <2>3, <2>4 DEF FieldsInv, FieldsTyped
<1> QED
  BY <1>1, GiveRequestInv, ChooseRouteInv, CallStepsInv, BuildFieldsInv, GroundFieldsInv,
     DrawEvidenceInv DEF ExtractionNext

(* Every reply that was collected is one that ended well, fields are what  *)
(* the calls that asked for them replied, with boxes on their page, once   *)
(* there are any; the types hold.                                          *)
THEOREM FieldsInvariant == ExtractionSpec => [](FieldsInv /\ ExtractionTypeOK)
<1>1. ASSUME FieldsInv PROVE ExtractionTypeOK
  <2>1. ask \in AskRecord /\ calls \in Seq(Calls)
    BY <1>1, TypedParts DEF FieldsInv
  <2>2. \A c \in DOMAIN calls : calls[c].status \in {"none", "running", "ok", "failed"}
    <3> HIDE DEF Calls
    <3>1. \A c \in DOMAIN calls : calls[c] \in Calls
      BY <2>1
    <3> QED
      BY <3>1 DEF Calls
  <2> QED
    BY <1>1, <2>1, <2>2 DEF FieldsInv, FieldsTyped, ExtractionTypeOK, AskRecord, AskSteps
<1> QED
  BY <1>1, FieldsInitInv, FieldsNextInv, PTL DEF ExtractionSpec

(* An answer is whole and its boxes lie where they were found, for all     *)
(* documents, schemas, routes and replies, however the calls overlap.      *)
THEOREM AnswersAreGrounded == ExtractionSpec => []FieldsAreGrounded
<1>1. ASSUME FieldsInv PROVE AnswerIsWhole
  BY <1>1 DEF FieldsInv, AnswerIsWhole, AskAt, Whole, SaidBy
<1>2. ASSUME FieldsInv PROVE BoxesOnTheirPage
  <2> SUFFICES ASSUME NEW f \in drawn PROVE Placed(f)
    BY DEF BoxesOnTheirPage, Placed
  <2>1. PICK k \in DOMAIN fields : f = fields[k]
    BY <1>2 DEF FieldsInv, FieldsTyped
  <2>2. ask.pc = "done" /\ f.box # {}
    BY <1>2 DEF FieldsInv
  <2> QED
    BY <1>2, <2>1, <2>2 DEF FieldsInv
<1> QED
  BY <1>1, <1>2, FieldsInvariant, PTL DEF FieldsAreGrounded

-----------------------------------------------------------------------------
(* The texts that the parsers read from files.                             *)

(* What a sum is, number by number.                                        *)
LEMMA SumsUnfold ==
  ASSUME NEW s \in Seq(Nat)
  PROVE  /\ SumsOf(s)[0] = 0
         /\ \A n \in 1..Len(s) : SumsOf(s)[n] = SumsOf(s)[n - 1] + s[n]
<1> DEFINE N == Len(s)
           Is(h, m) == h = [n \in 0..m |-> IF n = 0 THEN 0 ELSE h[n - 1] + s[n]]
           P == {m \in 0..N : \E h : Is(h, m)}
<1>0. N \in Nat
  OBVIOUS
<1>1. 0 \in P
  <2> DEFINE h == [n \in 0..0 |-> 0]
  <2>1. h = [n \in 0..0 |-> IF n = 0 THEN 0 ELSE h[n - 1] + s[n]]
    OBVIOUS
  <2>2. Is(h, 0)
    BY <2>1
  <2> HIDE DEF h, Is
  <2>3. \E g : Is(g, 0)
    BY <2>2
  <2> QED
    BY <1>0, <2>3
<1>2. ASSUME NEW m \in P, m < N PROVE m + 1 \in P
  <2>0. m \in Nat /\ m + 1 \in 0..N
    BY <1>0, <1>2
  <2>1. PICK h : Is(h, m)
    OBVIOUS
  <2> DEFINE k == [n \in 0..(m + 1) |-> IF n = m + 1 THEN h[m] + s[n] ELSE h[n]]
  <2>2. ASSUME NEW n \in 0..(m + 1) PROVE k[n] = IF n = 0 THEN 0 ELSE k[n - 1] + s[n]
    <3>1. CASE n = m + 1
      <4>1. k[n] = h[m] + s[n] /\ k[n - 1] = h[m] /\ n # 0
        BY <2>0, <3>1
      <4> HIDE DEF k
      <4> QED
        BY <4>1
    <3>2. CASE n \in 0..m
      <4>1. k[n] = h[n] /\ (n # 0 => k[n - 1] = h[n - 1])
        BY <2>0, <3>2
      <4>2. h[n] = IF n = 0 THEN 0 ELSE h[n - 1] + s[n]
        BY <2>1, <3>2
      <4> HIDE DEF k
      <4> QED
        BY <4>1, <4>2
    <3> QED
      BY <2>0, <3>1, <3>2
  <2>3. Is(k, m + 1)
    <3>1. k = [n \in 0..(m + 1) |-> k[n]]
      OBVIOUS
    <3> HIDE DEF k
    <3> QED
      BY <2>2, <3>1
  <2>4. \E g : Is(g, m + 1)
    <3> HIDE DEF k, Is
    <3> QED
      BY <2>3
  <2> QED
    BY <2>0, <2>4
<1>3. \E h : Is(h, N)
  <2> HIDE DEF Is
  <2>1. P \in SUBSET (0..N)
    OBVIOUS
  <2> HIDE DEF P
  <2>2. P = 0..N
    BY <1>0, <1>1, <1>2, <2>1, Counting
  <2>3. N \in P
    BY <1>0, <2>2
  <2> QED
    BY <2>3 DEF P
<1>4. SumsOf(s) = CHOOSE h : Is(h, N)
  BY DEF SumsOf
<1>5. Is(SumsOf(s), N)
  <2> HIDE DEF Is
  <2> QED
    BY <1>3, <1>4
<1>6. \A n \in 0..N : SumsOf(s)[n] = IF n = 0 THEN 0 ELSE SumsOf(s)[n - 1] + s[n]
  BY <1>5
<1> QED
  BY <1>0, <1>6

(* Sums grow.                                                              *)
LEMMA SumsGrow ==
  ASSUME NEW s \in Seq(Nat), NEW i \in 0..Len(s)
  PROVE  \A j \in i..Len(s) : SumsOf(s)[i] \in Nat /\ SumsOf(s)[j] \in Nat
                              /\ SumsOf(s)[i] <= SumsOf(s)[j]
<1> DEFINE N == Len(s)  f == SumsOf(s)
           P == {n \in 0..N : f[n] \in Nat /\ (n >= i => f[i] \in Nat /\ f[i] <= f[n])}
<1>0. N \in Nat /\ f[0] = 0 /\ \A n \in 1..N : f[n] = f[n - 1] + s[n] /\ s[n] \in Nat
  BY SumsUnfold
<1> HIDE DEF N, f
<1>1. 0 \in P
  BY <1>0 DEF N
<1>2. ASSUME NEW n \in P, n < N PROVE n + 1 \in P
  <2>1. n \in Nat /\ n + 1 \in 1..N /\ n + 1 - 1 = n
    BY <1>0, <1>2
  <2>2. f[n + 1] = f[n] + s[n + 1] /\ s[n + 1] \in Nat /\ f[n] \in Nat
    BY <1>0, <2>1
  <2>3. f[n + 1] \in Nat /\ f[n] <= f[n + 1]
    BY <2>2
  <2>4. n + 1 >= i => n >= i \/ n + 1 = i
    BY <2>1 DEF N
  <2>5. n >= i => f[i] \in Nat /\ f[i] <= f[n]
    OBVIOUS
  <2>6. n >= i => f[i] <= f[n + 1]
    BY <2>2, <2>3, <2>5
  <2> QED
    BY <1>0, <2>1, <2>3, <2>4, <2>5, <2>6
<1>3. P = 0..N
  <2>1. P \in SUBSET (0..N)
    OBVIOUS
  <2> HIDE DEF P
  <2> QED
    BY <1>0, <1>1, <1>2, <2>1, Counting
<1>4. \A j \in i..N : j \in P /\ j >= i
  BY <1>0, <1>3 DEF N
<1> QED
  BY <1>4 DEF N, f

Part == [page : Nat, length : Nat]

(* Items and a part, if it is not empty.                                   *)
With(items, part) == items \o (IF part.length > 0 THEN <<part>> ELSE <<>>)

(* What the items are, part by part.                                       *)
LEMMA ItemsUnfold ==
  ASSUME NEW s \in Seq(Part)
  PROVE  /\ ItemsUpTo(s)[0] = <<>>
         /\ \A n \in 1..Len(s) : ItemsUpTo(s)[n] = With(ItemsUpTo(s)[n - 1], s[n])
<1> DEFINE N == Len(s)
           Is(h, m) == h = [n \in 0..m |-> IF n = 0 THEN <<>> ELSE With(h[n - 1], s[n])]
           P == {m \in 0..N : \E h : Is(h, m)}
<1>0. N \in Nat
  OBVIOUS
<1>1. 0 \in P
  <2> DEFINE h == [n \in 0..0 |-> <<>>]
  <2>1. h = [n \in 0..0 |-> IF n = 0 THEN <<>> ELSE With(h[n - 1], s[n])]
    OBVIOUS
  <2>2. Is(h, 0)
    BY <2>1
  <2> HIDE DEF h, Is
  <2>3. \E g : Is(g, 0)
    BY <2>2
  <2> QED
    BY <1>0, <2>3
<1>2. ASSUME NEW m \in P, m < N PROVE m + 1 \in P
  <2>0. m \in Nat /\ m + 1 \in 0..N
    BY <1>0, <1>2
  <2>1. PICK h : Is(h, m)
    OBVIOUS
  <2> DEFINE k == [n \in 0..(m + 1) |-> IF n = m + 1 THEN With(h[m], s[n]) ELSE h[n]]
  <2>2. ASSUME NEW n \in 0..(m + 1) PROVE k[n] = IF n = 0 THEN <<>> ELSE With(k[n - 1], s[n])
    <3>1. CASE n = m + 1
      <4>1. k[n] = With(h[m], s[n]) /\ k[n - 1] = h[m] /\ n # 0
        BY <2>0, <3>1
      <4> HIDE DEF k
      <4> QED
        BY <4>1
    <3>2. CASE n \in 0..m
      <4>1. k[n] = h[n] /\ (n # 0 => k[n - 1] = h[n - 1])
        BY <2>0, <3>2
      <4>2. h[n] = IF n = 0 THEN <<>> ELSE With(h[n - 1], s[n])
        BY <2>1, <3>2
      <4> HIDE DEF k
      <4> QED
        BY <4>1, <4>2
    <3> QED
      BY <2>0, <3>1, <3>2
  <2>3. Is(k, m + 1)
    <3>1. k = [n \in 0..(m + 1) |-> k[n]]
      OBVIOUS
    <3> HIDE DEF k
    <3> QED
      BY <2>2, <3>1
  <2>4. \E g : Is(g, m + 1)
    <3> HIDE DEF k, Is
    <3> QED
      BY <2>3
  <2> QED
    BY <2>0, <2>4
<1>3. \E h : Is(h, N)
  <2> HIDE DEF Is
  <2>1. P \in SUBSET (0..N)
    OBVIOUS
  <2> HIDE DEF P
  <2>2. P = 0..N
    BY <1>0, <1>1, <1>2, <2>1, Counting
  <2>3. N \in P
    BY <1>0, <2>2
  <2> QED
    BY <2>3 DEF P
<1>4. ItemsUpTo(s) = CHOOSE h : Is(h, N)
  BY DEF ItemsUpTo, With
<1>5. Is(ItemsUpTo(s), N)
  <2> HIDE DEF Is
  <2> QED
    BY <1>3, <1>4
<1>6. \A n \in 0..N : ItemsUpTo(s)[n] = IF n = 0 THEN <<>> ELSE With(ItemsUpTo(s)[n - 1], s[n])
  BY <1>5
<1> DEFINE f == ItemsUpTo(s)  next(n) == With(f[n - 1], s[n])
<1>7. \A n \in 0..N : f[n] = IF n = 0 THEN <<>> ELSE next(n)
  BY <1>6
<1> HIDE DEF N, f, next
<1>8. f[0] = <<>> /\ \A n \in 1..N : f[n] = next(n)
  <2>1. 0 \in 0..N /\ \A n \in 1..N : n \in 0..N /\ n # 0
    BY <1>0
  <2> QED
    BY <1>7, <2>1
<1> QED
  BY <1>8 DEF N, f, next

(* The items are the parts that are not empty.                             *)
LEMMA ItemsAreParts ==
  ASSUME NEW s \in Seq(Part)
  PROVE  LET items == ItemsUpTo(s)[Len(s)] IN
         /\ items \in Seq(Part)
         /\ \A i \in DOMAIN items : \E n \in DOMAIN s : items[i] = s[n]
         /\ \A n \in DOMAIN s : s[n].length > 0 => \E i \in DOMAIN items : items[i] = s[n]
<1> DEFINE N == Len(s)  f == ItemsUpTo(s)
           Fine(m) ==
             /\ f[m] \in Seq(Part)
             /\ \A i \in DOMAIN f[m] : \E n \in 1..m : f[m][i] = s[n]
             /\ \A n \in 1..m : s[n].length > 0 => \E i \in DOMAIN f[m] : f[m][i] = s[n]
           P == {m \in 0..N : Fine(m)}
<1>0. /\ N \in Nat /\ DOMAIN s = 1..N /\ f[0] = <<>>
      /\ \A n \in 1..N : f[n] = With(f[n - 1], s[n])
      /\ \A n \in 1..N : s[n] \in Part
  <2>1. N \in Nat /\ DOMAIN s = 1..N /\ \A n \in 1..N : s[n] \in Part
    OBVIOUS
  <2>2. f[0] = <<>> /\ \A n \in 1..N : f[n] = With(f[n - 1], s[n])
    BY ItemsUnfold
  <2> HIDE DEF N, f
  <2> QED
    BY <2>1, <2>2
<1> HIDE DEF N, f
<1>1. 0 \in P
  <2>1. f[0] \in Seq(Part) /\ DOMAIN f[0] = {} /\ 1..0 = {} /\ 0 \in 0..N
    <3>1. f[0] = <<>>
      BY <1>0
    <3> QED
      BY <1>0, <3>1
  <2>2. Fine(0)
    BY <2>1, Zenon
  <2> HIDE DEF Fine
  <2> QED
    BY <2>1, <2>2
<1>2. ASSUME NEW m \in P, m < N PROVE m + 1 \in P
  <2>0. m \in Nat /\ m + 1 \in 1..N /\ m + 1 \in 0..N /\ m + 1 - 1 = m
    BY <1>0, <1>2
  <2> DEFINE old == f[m]  new == f[m + 1]  x == s[m + 1]
  <2> HIDE DEF old, new, x
  <2>1. new = With(old, x) /\ x \in Part
    <3>1. f[m + 1] = With(f[m + 1 - 1], s[m + 1]) /\ s[m + 1] \in Part
      BY <1>0, <2>0
    <3> QED
      BY <2>0, <3>1 DEF new, old, x
  <2>2. /\ old \in Seq(Part)
        /\ \A i \in DOMAIN old : \E n \in 1..m : old[i] = s[n]
        /\ \A n \in 1..m : s[n].length > 0 => \E i \in DOMAIN old : old[i] = s[n]
    BY DEF old
  <2>3. \A n \in 1..m : n \in 1..(m + 1)
    BY <2>0
  <2>4. \A n \in 1..(m + 1) : n \in 1..m \/ n = m + 1
    BY <2>0
  <2>5. CASE ~(x.length > 0)
    <3>1. new = old
      BY <2>1, <2>2, <2>5 DEF With
    <3>2. Fine(m + 1)
      BY <2>2, <2>3, <2>4, <2>5, <3>1 DEF new, x
    <3> QED
      BY <2>0, <3>2
  <2>6. CASE x.length > 0
    <3>1. new = Append(old, x)
      BY <2>1, <2>2, <2>6 DEF With
    <3>2. /\ new \in Seq(Part) /\ new[Len(old) + 1] = x /\ Len(old) + 1 \in DOMAIN new
          /\ \A i \in DOMAIN old : i \in DOMAIN new /\ new[i] = old[i]
          /\ \A i \in DOMAIN new : i \in DOMAIN old \/ i = Len(old) + 1
      BY <2>1, <2>2, <3>1
    <3>3. \A i \in DOMAIN new : \E n \in 1..(m + 1) : new[i] = s[n]
      <4>1. x = s[m + 1] /\ m + 1 \in 1..(m + 1)
        BY <2>0 DEF x
      <4>2. ASSUME NEW i \in DOMAIN new, i \in DOMAIN old PROVE \E n \in 1..(m + 1) : new[i] = s[n]
        <5>1. PICK n \in 1..m : old[i] = s[n]
          BY <2>2, <4>2
        <5> QED
          BY <2>3, <3>2, <4>2, <5>1
      <4>3. ASSUME NEW i \in DOMAIN new, i = Len(old) + 1 PROVE \E n \in 1..(m + 1) : new[i] = s[n]
        BY <3>2, <4>1, <4>3, Zenon
      <4> QED
        BY <3>2, <4>2, <4>3
    <3>4. \A n \in 1..(m + 1) : s[n].length > 0 => \E i \in DOMAIN new : new[i] = s[n]
      BY <2>2, <2>4, <3>2 DEF x
    <3>5. Fine(m + 1)
      BY <3>2, <3>3, <3>4 DEF new
    <3> QED
      BY <2>0, <3>5
  <2> QED
    BY <2>5, <2>6
<1>3. Fine(N)
  <2> HIDE DEF Fine
  <2>1. P \in SUBSET (0..N)
    OBVIOUS
  <2> HIDE DEF P
  <2>2. P = 0..N
    BY <1>0, <1>1, <1>2, <2>1, Counting
  <2>3. N \in P
    BY <1>0, <2>2
  <2> QED
    BY <2>3 DEF P
<1> QED
  BY <1>0, <1>3 DEF N, f

(* Where the parts of a text start tells where each character is.          *)
LEMMA StartsTell ==
  ASSUME NEW parts \in Seq(Part), NEW gap \in Nat, NEW i \in 1..Len(parts),
         NEW x \in 0..(parts[i].length - 1)
  PROVE  PageAtOffset(MapOf(parts, gap), Starts(parts, gap, i) + x) = parts[i].page
<1> DEFINE N == Len(parts)  s == LengthsOf(parts)  f == SumsOf(s)
           offset == Starts(parts, gap, i) + x
           map == MapOf(parts, gap)
           before == {j \in 1..Len(map) : map[j][1] <= offset}
<1>1. N \in Nat /\ s \in Seq(Nat) /\ Len(s) = N /\ \A j \in 1..N : s[j] = parts[j].length
  <2>1. \A j \in 1..N : parts[j] \in Part
    OBVIOUS
  <2>2. \A j \in 1..N : parts[j].length \in Nat
    BY <2>1 DEF Part
  <2>3. N \in Nat
    OBVIOUS
  <2> QED
    BY <2>2, <2>3 DEF LengthsOf
<1>2. /\ \A j \in 0..N : f[j] \in Nat
      /\ \A j \in 0..N : \A k \in j..N : f[j] <= f[k]
      /\ \A j \in 1..N : f[j] = f[j - 1] + parts[j].length
  <2>1. \A j \in 0..Len(s) : \A k \in j..Len(s) : f[j] \in Nat /\ f[j] <= f[k]
    BY <1>1, SumsGrow
  <2>2. \A j \in 1..Len(s) : f[j] = f[j - 1] + s[j]
    BY <1>1, SumsUnfold
  <2> HIDE DEF s, f, N
  <2>3. \A j \in 0..N : j \in j..N
    BY <1>1
  <2> QED
    BY <1>1, <2>1, <2>2, <2>3
<1>3. /\ Len(map) = N /\ \A j \in 1..N : map[j] = <<f[j - 1] + gap * (j - 1), parts[j].page>>
      /\ offset = f[i - 1] + gap * (i - 1) + x
  BY <1>1 DEF MapOf, Starts
<1>4. i \in 1..N /\ parts[i].length \in Nat /\ x \in Nat /\ x < parts[i].length
  <2>1. parts[i] \in Part
    OBVIOUS
  <2> QED
    BY <2>1 DEF Part
<1> HIDE DEF N, s, f, map, offset
<1>5. i \in before
  <2>1. i - 1 \in 0..N
    BY <1>1, <1>4
  <2>2. f[i - 1] \in Nat /\ gap * (i - 1) \in Int
    BY <1>2, <1>4, <2>1
  <2> QED
    BY <1>3, <1>4, <2>2
<1>6. ASSUME NEW j \in before PROVE j <= i
  <2>1. j \in 1..N /\ f[j - 1] + gap * (j - 1) <= f[i - 1] + gap * (i - 1) + x
    BY <1>3
  <2> SUFFICES ASSUME j > i PROVE FALSE
    BY <1>4, <2>1
  <2>2. j - 1 \in i..N /\ i \in 0..N /\ i - 1 \in 0..N /\ j - 1 \in 0..N
    BY <1>1, <1>4, <2>1
  <2>3. f[i] <= f[j - 1] /\ f[i] = f[i - 1] + parts[i].length
    BY <1>2, <1>4, <2>2
  <2>4. f[i - 1] \in Nat /\ f[j - 1] \in Nat /\ f[i] \in Nat
    BY <1>2, <2>2
  <2>5. gap * (i - 1) <= gap * (j - 1) /\ gap * (i - 1) \in Nat /\ gap * (j - 1) \in Nat
    <3> DEFINE a == i - 1  d == j - i
    <3>1. a \in Nat /\ d \in Nat /\ j - 1 = a + d
      BY <1>4, <2>1, <2>2
    <3> HIDE DEF a, d
    <3>2. gap * (a + d) = gap * a + gap * d /\ gap * a \in Nat /\ gap * d \in Nat
      BY <3>1
    <3> QED
      BY <3>1, <3>2 DEF a
  <2> DEFINE u == gap * (i - 1)  v == gap * (j - 1)
  <2>6. u \in Nat /\ v \in Nat /\ u <= v /\ f[j - 1] + v <= f[i - 1] + u + x
    BY <2>1, <2>5
  <2> DEFINE p == f[i - 1]  q == f[j - 1]  l == parts[i].length
  <2>7. p \in Nat /\ q \in Nat /\ l \in Nat /\ x \in Nat /\ x < l /\ p + l <= q /\ q + v <= p + u + x
    BY <1>4, <2>3, <2>4, <2>6
  <2> HIDE DEF u, v, p, q, l
  <2> QED
    BY <2>6, <2>7
<1>7. \A j \in before : j \in Int
  BY <1>1, <1>3
<1> HIDE DEF before
<1> DEFINE last == CHOOSE k \in before : \A j \in before : j <= k
<1>8. last = i
  <2>1. i \in before /\ \A j \in before : j <= i
    BY <1>5, <1>6
  <2>2. last \in before /\ \A j \in before : j <= last
    BY <2>1, Zenon
  <2> HIDE DEF last
  <2> QED
    BY <1>7, <2>1, <2>2
<1>9. PageAtOffset(map, offset) = map[last][2]
  BY DEF PageAtOffset, before
<1> HIDE DEF last
<1>10. map[i] = <<f[i - 1] + gap * (i - 1), parts[i].page>>
  BY <1>3, <1>4
<1>11. PageAtOffset(map, offset) = parts[i].page
  BY <1>8, <1>9, <1>10
<1> QED
  BY <1>11 DEF map, offset

-----------------------------------------------------------------------------
(* Pages that are numbered are parts.                                      *)
LEMMA NumberedAreParts ==
  ASSUME NEW n \in Nat, NEW lengths \in [1..n -> Nat]
  PROVE  /\ Numbered(lengths) \in Seq(Part) /\ Len(Numbered(lengths)) = n
         /\ \A i \in 1..n : Numbered(lengths)[i] = [page |-> i, length |-> lengths[i]]
<1>1. Numbered(lengths) = [i \in 1..n |-> [page |-> i, length |-> lengths[i]]]
  BY DEF Numbered
<1>2. \A i \in 1..n : [page |-> i, length |-> lengths[i]] \in Part
  BY DEF Part
<1> QED
  BY <1>1, <1>2

(* The pages of a file.                                                    *)
LEMMA PagesOfFile ==
  ASSUME NEW file \in SourceFiles
  PROVE  /\ file.pages \in Seq(PageText) /\ Len(file.pages) \in Nat
         /\ DOMAIN file.pages = 1..Len(file.pages)
         /\ \A p \in DOMAIN file.pages :
              /\ file.pages[p].layer \in Nat /\ file.pages[p].seen \in Nat
              /\ file.pages[p].box \in Box
<1>1. file.pages \in Seq(PageText)
  BY ParsersAssumption
<1>2. \A p \in DOMAIN file.pages : file.pages[p] \in PageText
  BY <1>1
<1> QED
  BY <1>1, <1>2 DEF PageText

ReadOf(page, ocr) == page.layer + (IF ocr THEN page.seen ELSE 0)

(* The items of a file are its pages that have text.                       *)
LEMMA ItemsAreTold ==
  ASSUME NEW file \in SourceFiles, NEW ocr \in BOOLEAN
  PROVE  /\ Items(file, ocr) \in Seq(Part)
         /\ \A i \in DOMAIN Items(file, ocr) : Items(file, ocr)[i].page \in DOMAIN file.pages
         /\ \A p \in DOMAIN file.pages : ReadOf(file.pages[p], ocr) > 0 =>
              \E i \in DOMAIN Items(file, ocr) :
                Items(file, ocr)[i] = [page |-> p, length |-> ReadOf(file.pages[p], ocr)]
<1> DEFINE N == Len(file.pages)
           lengths == [i \in DOMAIN file.pages |-> ReadOf(file.pages[i], ocr)]
           parts == Numbered(lengths)
           items == ItemsUpTo(parts)[Len(parts)]
<1>1. N \in Nat /\ DOMAIN file.pages = 1..N /\ lengths \in [1..N -> Nat]
  BY PagesOfFile DEF ReadOf
<1>2. /\ parts \in Seq(Part) /\ DOMAIN parts = 1..N
      /\ \A i \in 1..N : parts[i] = [page |-> i, length |-> ReadOf(file.pages[i], ocr)]
  <2>1. \A i \in 1..N : lengths[i] = ReadOf(file.pages[i], ocr)
    BY <1>1
  <2> HIDE DEF lengths, N
  <2> QED
    <3>1. /\ parts \in Seq(Part) /\ Len(parts) = N
          /\ \A i \in 1..N : parts[i] = [page |-> i, length |-> lengths[i]]
      BY <1>1, NumberedAreParts
    <3> HIDE DEF parts
    <3>2. DOMAIN parts = 1..N
      BY <3>1
    <3> QED
      BY <2>1, <3>1, <3>2
<1>3. Items(file, ocr) = items
  BY DEF Items, ReadOf
<1> HIDE DEF parts
<1>4. /\ items \in Seq(Part)
      /\ \A i \in DOMAIN items : \E n \in DOMAIN parts : items[i] = parts[n]
      /\ \A n \in DOMAIN parts : parts[n].length > 0 => \E i \in DOMAIN items : items[i] = parts[n]
  BY <1>2, ItemsAreParts
<1> HIDE DEF items, N
<1>5. \A i \in DOMAIN items : items[i].page \in DOMAIN file.pages
  BY <1>1, <1>2, <1>4
<1>6. ASSUME NEW p \in DOMAIN file.pages, ReadOf(file.pages[p], ocr) > 0
      PROVE  \E i \in DOMAIN items : items[i] = [page |-> p, length |-> ReadOf(file.pages[p], ocr)]
  BY <1>1, <1>2, <1>4, <1>6
<1> QED
  BY <1>3, <1>4, <1>5, <1>6

-----------------------------------------------------------------------------
Gap(text) == IF text.by \in {"digital", "layout"} THEN Joiner ELSE 0

(* A map that begins every part at its page tells all pages.               *)
LEMMA MapTells ==
  ASSUME NEW text, text.parts \in Seq(Part),
         text.exact => text.map = MapOf(text.parts, Gap(text))
  PROVE  PagesTold(text)
<1> SUFFICES ASSUME text.exact, NEW i \in 1..Len(text.parts),
                    NEW x \in 0..(text.parts[i].length - 1)
             PROVE  PageAtOffset(text.map, Starts(text.parts, Gap(text), i) + x)
                      = text.parts[i].page
  BY DEF PagesTold, Gap
<1>1. Gap(text) \in Nat
  BY DEF Gap, Joiner
<1> QED
  BY <1>1, StartsTell

(* What is Within the page stays.                                          *)
LEMMA WithinStays ==
  ASSUME NEW v \in 0..PageSize
  PROVE  Within(v) = v
BY ParsersAssumption DEF Within

(* A box on the page is the same from both corners.                        *)
LEMMA BoxFromBothCorners ==
  ASSUME NEW box \in Box, OnPage(box), NEW bottomLeft \in BOOLEAN
  PROVE  Normalized(IF bottomLeft THEN FromBottom(box) ELSE box, bottomLeft)
           = [x |-> box.left, y |-> box.top,
              w |-> box.right - box.left, h |-> box.bottom - box.top]
<1> DEFINE placed == IF bottomLeft THEN FromBottom(box) ELSE box
           l == box.left  r == box.right  t == box.top  b == box.bottom
<1>1. /\ l \in Int /\ r \in Int /\ t \in Int /\ b \in Int /\ PageSize \in Nat
      /\ 0 <= l /\ l < r /\ r <= PageSize /\ 0 <= t /\ t < b /\ b <= PageSize
  BY ParsersAssumption DEF Box, OnPage
<1>2. /\ placed.left = l /\ placed.right = r
      /\ (IF bottomLeft THEN PageSize - placed.top ELSE placed.top) = t
      /\ (IF bottomLeft THEN placed.top - placed.bottom ELSE placed.bottom - placed.top) = b - t
  <2>1. CASE bottomLeft
    <3>1. placed = [left |-> l, right |-> r, top |-> PageSize - t, bottom |-> PageSize - b]
      BY <2>1 DEF FromBottom, Box
    <3> HIDE DEF placed, l, r, t, b
    <3> QED
      BY <1>1, <2>1, <3>1
  <2>2. CASE ~bottomLeft
    BY <2>2
  <2> QED
    BY <2>1, <2>2
<1> HIDE DEF placed
<1>3. l \in 0..PageSize /\ t \in 0..PageSize /\ r - l \in 0..PageSize /\ b - t \in 0..PageSize
      /\ r - l # 0 /\ b - t # 0
  BY <1>1
<1>4. Within(l) = l /\ Within(t) = t /\ Within(r - l) = r - l /\ Within(b - t) = b - t
  BY <1>3, WithinStays
<1>5. Normalized(placed, bottomLeft)
        = LET c == [x |-> l, w |-> r - l, y |-> t, h |-> b - t]
          IN  IF c.w = 0 \/ c.h = 0 THEN NoBox ELSE c
  BY <1>2, <1>4 DEF Normalized
<1>6. Normalized(placed, bottomLeft) = [x |-> l, y |-> t, w |-> r - l, h |-> b - t]
  BY <1>3, <1>5
<1> QED
  BY <1>6 DEF placed

(* The text of a converter with the blocks there were before it failed.    *)
LEMMA BlocksAreDrawn ==
  ASSUME NEW file \in SourceFiles, NEW text,
         text.parts \in Seq(Part),
         \A i \in DOMAIN text.parts : text.parts[i].page \in DOMAIN file.pages,
         NEW bottomLeft \in BOOLEAN, NEW count \in {0, Len(text.parts)},
         NEW by, NEW parts, NEW map, NEW exact, text = Joined(by, parts, map, exact)
  PROVE  LET boxed == WithBlocks(text, file, bottomLeft, count) IN
         /\ boxed.by = by /\ boxed.parts = parts /\ boxed.map = map /\ boxed.exact = exact
         /\ BoxesDrawn(boxed, file.pages)
<1> DEFINE boxed == WithBlocks(text, file, bottomLeft, count)
           block(i) ==
             LET box == file.pages[text.parts[i].page].box
             IN  [page |-> text.parts[i].page,
                  box  |-> Normalized(IF bottomLeft THEN FromBottom(box) ELSE box, bottomLeft)]
           blocks == [i \in 1..count |-> block(i)]
<1>1. boxed = [by |-> by, parts |-> parts, map |-> map, exact |-> exact, blocks |-> blocks]
  <2>1. text = [by |-> by, parts |-> parts, map |-> map, exact |-> exact, blocks |-> <<>>]
    BY DEF Joined
  <2>2. boxed = [text EXCEPT !.blocks = blocks]
    BY DEF WithBlocks
  <2> HIDE DEF boxed, blocks
  <2> QED
    BY <2>1, <2>2
<1>2. count \in Nat /\ 1..count \subseteq DOMAIN text.parts
  OBVIOUS
<1>3. Len(blocks) = count /\ \A i \in 1..count : blocks[i] = block(i)
  BY <1>2
<1>4. ASSUME NEW i \in 1..count, OnPage(file.pages[block(i).page].box)
      PROVE  block(i).box = [x |-> file.pages[block(i).page].box.left,
                             y |-> file.pages[block(i).page].box.top,
                             w |-> file.pages[block(i).page].box.right
                                     - file.pages[block(i).page].box.left,
                             h |-> file.pages[block(i).page].box.bottom
                                     - file.pages[block(i).page].box.top]
  <2> DEFINE p == text.parts[i].page  box == file.pages[p].box
  <2>1. p \in DOMAIN file.pages
    BY <1>2
  <2>2. box \in Box
    BY <2>1, PagesOfFile
  <2>3. block(i).page = p
        /\ block(i).box = Normalized(IF bottomLeft THEN FromBottom(box) ELSE box, bottomLeft)
    OBVIOUS
  <2> HIDE DEF p, box, block
  <2>4. OnPage(box)
    BY <1>4, <2>3 DEF box
  <2>5. block(i).box = [x |-> box.left, y |-> box.top,
                        w |-> box.right - box.left, h |-> box.bottom - box.top]
    BY <2>2, <2>3, <2>4, BoxFromBothCorners
  <2> QED
    BY <2>3, <2>5 DEF box
<1> HIDE DEF block
<1>5. BoxesDrawn(boxed, file.pages)
  <2>1. boxed.blocks = blocks
    BY <1>1
  <2> HIDE DEF blocks, boxed
  <2> QED
    BY <1>3, <1>4, <2>1 DEF BoxesDrawn
<1> QED
  BY <1>1, <1>5


-----------------------------------------------------------------------------
(* What a text must say of its file.                                       *)
ScanIsRead(text, file) ==
  (text.by = "digital" /\ NeedsOcr(file)) =>
    \A p \in 1..Len(file.pages) :
      file.pages[p].seen > 0 =>
        \E i \in 1..Len(text.parts) :
          text.parts[i].page = p /\ text.parts[i].length >= file.pages[p].seen

TextTells(text, file) ==
  /\ text.by \in {"none"} \cup {Chain[n] : n \in DOMAIN Chain}
  /\ PagesTold(text)
  /\ BoxesDrawn(text, file.pages)
  /\ ScanIsRead(text, file)

LEMMA ParserNames ==
  {"none"} \cup {Chain[n] : n \in DOMAIN Chain} = {"none", "digital", "layout", "ocr", "fallback"}
<1>1. DOMAIN Chain = {1, 2, 3, 4}
  BY DEF Chain
<1>2. Chain[1] = "digital" /\ Chain[2] = "layout" /\ Chain[3] = "ocr" /\ Chain[4] = "fallback"
  BY DEF Chain
<1> HIDE DEF Chain
<1> QED
  BY <1>1, <1>2

(* A text that one has not got says nothing.                               *)
LEMMA NoTextTells ==
  ASSUME NEW file
  PROVE  TextTells(NoText, file)
<1>1. /\ NoText.by = "none" /\ NoText.parts = <<>> /\ NoText.map = <<>>
      /\ NoText.blocks = <<>>
  BY DEF NoText
<1>2. PagesTold(NoText)
  BY <1>1 DEF PagesTold
<1>3. BoxesDrawn(NoText, file.pages)
  BY <1>1 DEF BoxesDrawn
<1> QED
  BY <1>1, <1>2, <1>3, ParserNames DEF TextTells, ScanIsRead

(* A text without blocks.                                                  *)
LEMMA PlainTells ==
  ASSUME NEW file, NEW by \in {"layout", "ocr", "fallback"}, NEW parts \in Seq(Part),
         NEW map, NEW exact \in BOOLEAN,
         exact => map = MapOf(parts, IF by = "layout" THEN Joiner ELSE 0)
  PROVE  TextTells(Joined(by, parts, map, exact), file)
<1> DEFINE text == Joined(by, parts, map, exact)
<1>1. /\ text.by = by /\ text.parts = parts /\ text.map = map /\ text.exact = exact
      /\ text.blocks = <<>>
  BY DEF Joined
<1> HIDE DEF text
<1>2. PagesTold(text)
  <2>1. Gap(text) = IF by = "layout" THEN Joiner ELSE 0
    BY <1>1 DEF Gap
  <2> QED
    BY <1>1, <2>1, MapTells
<1>3. BoxesDrawn(text, file.pages)
  BY <1>1 DEF BoxesDrawn
<1> QED
  BY <1>1, <1>2, <1>3, ParserNames DEF TextTells, ScanIsRead, text

(* The texts of the parsers that draw no boxes.                            *)
LEMMA LayoutTells ==
  ASSUME NEW file \in SourceFiles, NEW told \in BOOLEAN
  PROVE  TextTells(Layout(file, told), file)
<1> DEFINE parts == Items(file, FALSE)
           map == IF told \/ parts = <<>> THEN MapOf(parts, Joiner) ELSE << <<0, 1>> >>
<1>1. parts \in Seq(Part)
  BY ItemsAreTold
<1>2. Layout(file, told) = Joined("layout", parts, map, told)
  BY DEF Layout
<1>3. told => map = MapOf(parts, Joiner)
  OBVIOUS
<1> HIDE DEF parts, map
<1> QED
  BY <1>1, <1>2, <1>3, PlainTells

LEMMA OcrTells ==
  ASSUME NEW file \in SourceFiles, NEW markers \in BOOLEAN
  PROVE  TextTells(Ocr(file, markers), file)
<1> DEFINE N == Len(file.pages)
           lengths == [i \in DOMAIN file.pages |->
             file.pages[i].layer + (IF markers /\ file.pages[i].image THEN 1 ELSE 0)]
           parts == Numbered(lengths)
<1>1. N \in Nat /\ lengths \in [1..N -> Nat]
  BY PagesOfFile
<1>2. parts \in Seq(Part)
  <2> HIDE DEF N, lengths
  <2> QED
    BY <1>1, NumberedAreParts
<1>3. Ocr(file, markers) = Joined("ocr", parts, MapOf(parts, 0), TRUE)
  BY DEF Ocr
<1> HIDE DEF parts
<1> QED
  BY <1>2, <1>3, PlainTells

LEMMA FallbackTells ==
  ASSUME NEW file \in SourceFiles
  PROVE  TextTells(Fallback(file), file)
<1> DEFINE N == Len(file.pages)
           deck == file.kind = "deck"
           lengths == [i \in DOMAIN file.pages |-> file.pages[i].layer + (IF deck THEN 1 ELSE 0)]
           parts == Numbered(lengths)
           map == IF deck THEN MapOf(parts, 0) ELSE <<>>
<1>1. N \in Nat /\ lengths \in [1..N -> Nat]
  BY PagesOfFile
<1>2. parts \in Seq(Part)
  <2> HIDE DEF N, lengths
  <2> QED
    BY <1>1, NumberedAreParts
<1>3. Fallback(file) = Joined("fallback", parts, map, deck)
  BY DEF Fallback
<1>4. (deck => map = MapOf(parts, 0)) /\ deck \in BOOLEAN
  OBVIOUS
<1> HIDE DEF parts, map, deck
<1> QED
  BY <1>2, <1>3, <1>4, PlainTells

(* The text of a converter, which reads scans with OCR.                    *)
LEMMA DigitalTells ==
  ASSUME NEW file \in SourceFiles, NEW ocr \in BOOLEAN, NeedsOcr(file) => ocr,
         NEW text \in {Digital(file, ocr), DigitalGuessed(file, ocr)},
         NEW bottomLeft \in BOOLEAN, NEW count \in {0, Len(text.parts)}
  PROVE  TextTells(WithBlocks(text, file, bottomLeft, count), file)
<1> DEFINE parts == Items(file, ocr)
           boxed == WithBlocks(text, file, bottomLeft, count)
<1>1. /\ parts \in Seq(Part)
      /\ \A i \in DOMAIN parts : parts[i].page \in DOMAIN file.pages
      /\ \A p \in DOMAIN file.pages : ReadOf(file.pages[p], ocr) > 0 =>
           \E i \in DOMAIN parts :
             parts[i] = [page |-> p, length |-> ReadOf(file.pages[p], ocr)]
  BY ItemsAreTold
<1>2. \E map, exact : /\ text = Joined("digital", parts, map, exact)
                      /\ exact => map = MapOf(parts, Joiner)
  <2>1. CASE text = Digital(file, ocr)
    <3> DEFINE counted == [i \in 1..Len(parts) |-> [parts[i] EXCEPT !.page = i]]
               exact == \A i \in 1..Len(parts) : parts[i].page = i
    <3>1. text = Joined("digital", parts, MapOf(counted, Joiner), exact)
      BY <2>1 DEF Digital
    <3>2. exact => counted = parts
      <4> HIDE DEF parts
      <4> SUFFICES ASSUME exact PROVE counted = parts
        OBVIOUS
      <4>1. \A i \in 1..Len(parts) : parts[i] \in Part /\ parts[i].page = i
        BY <1>1
      <4>2. \A i \in 1..Len(parts) : [parts[i] EXCEPT !.page = i] = parts[i]
        BY <4>1 DEF Part
      <4>3. counted = [i \in 1..Len(parts) |-> parts[i]]
        BY <4>2
      <4> HIDE DEF counted
      <4> QED
        BY <1>1, <4>3
    <3> HIDE DEF counted, exact, parts
    <3> QED
      BY <3>1, <3>2
  <2>2. CASE text = DigitalGuessed(file, ocr)
    <3>1. \E map : text = Joined("digital", parts, map, FALSE)
      BY <2>2 DEF DigitalGuessed
    <3> HIDE DEF parts
    <3> QED
      BY <3>1
  <2> QED
    BY <2>1, <2>2
<1> HIDE DEF parts
<1>3. PICK map, exact : /\ text = Joined("digital", parts, map, exact)
                        /\ exact => map = MapOf(parts, Joiner)
  BY <1>2
<1>4. text.parts = parts
  BY <1>3 DEF Joined
<1>5. /\ boxed.by = "digital" /\ boxed.parts = parts /\ boxed.map = map
      /\ boxed.exact = exact /\ BoxesDrawn(boxed, file.pages)
  BY <1>1, <1>3, <1>4, BlocksAreDrawn
<1> HIDE DEF boxed
<1>6. PagesTold(boxed)
  <2>1. Gap(boxed) = Joiner
    BY <1>5 DEF Gap
  <2> QED
    BY <1>1, <1>3, <1>5, <2>1, MapTells
<1>7. ScanIsRead(boxed, file)
  <2> SUFFICES ASSUME ocr, NEW p \in 1..Len(file.pages), file.pages[p].seen > 0
               PROVE  \E i \in 1..Len(parts) :
                        parts[i].page = p /\ parts[i].length >= file.pages[p].seen
    BY <1>5 DEF ScanIsRead
  <2>1. /\ p \in DOMAIN file.pages /\ file.pages[p].layer \in Nat /\ file.pages[p].seen \in Nat
    BY PagesOfFile
  <2>2. ReadOf(file.pages[p], ocr) = file.pages[p].layer + file.pages[p].seen
    BY DEF ReadOf
  <2>3. /\ ReadOf(file.pages[p], ocr) > 0
        /\ ReadOf(file.pages[p], ocr) >= file.pages[p].seen
    <3> DEFINE layer == file.pages[p].layer  seen == file.pages[p].seen
    <3>1. layer \in Nat /\ seen \in Nat /\ seen > 0
      BY <2>1
    <3> HIDE DEF layer, seen
    <3>2. layer + seen > 0 /\ layer + seen >= seen
      BY <3>1
    <3> QED
      BY <2>2, <3>2 DEF layer, seen
  <2>4. PICK i \in DOMAIN parts : parts[i] = [page |-> p, length |-> ReadOf(file.pages[p], ocr)]
    BY <1>1, <2>1, <2>3
  <2>5. parts[i].page = p /\ parts[i].length = ReadOf(file.pages[p], ocr)
    BY <2>4
  <2>6. i \in 1..Len(parts)
    BY <1>1
  <2> QED
    BY <2>3, <2>5, <2>6
<1> QED
  BY <1>5, <1>6, <1>7, ParserNames DEF TextTells, boxed


-----------------------------------------------------------------------------
(* The invariant: what a call knows of its file, and what it returned.     *)
ParseSteps == {"new", "choose", "ensure", "build", "convert", "failed", "done"}
ParseCalls == [pc : ParseSteps, file : SourceFiles \cup {NoFile}, at : 1..5, ocr : BOOLEAN,
          uses : BOOLEAN, tried : BOOLEAN, raised : BOOLEAN]

(* A call that still tries has a parser to try, one that needs OCR has     *)
(* asked for it, and its converter is the one it asked for.                *)
CallAgrees(call, text) ==
  /\ call \in ParseCalls
  /\ call.pc = "new" => call.at = 1
  /\ call.pc # "new" => call.file \in SourceFiles
  /\ call.pc \in {"choose", "ensure", "build", "convert"} => call.at \in 1..4
  /\ call.pc \in {"ensure", "build", "convert"} => (NeedsOcr(call.file) => call.ocr)
  /\ call.pc \in {"build", "convert"} => call.uses = call.ocr
  /\ call.pc # "done" => text = NoText
  /\ TextTells(text, call.file)

ParsersInv ==
  /\ libraries \subseteq {"digital", "layout"}
  /\ converters \subseteq BOOLEAN
  /\ parsing \in [Parsings -> ParseCalls]
  /\ parsed = [r \in Parsings |-> parsed[r]]
  /\ \A r \in Parsings : CallAgrees(parsing[r], parsed[r])

(* A call that goes on and leaves the others alone.                        *)
LEMMA GoesAgrees ==
  ASSUME ParsersInv, NEW r \in Parsings, NEW call, NEW text,
         Goes(r, call), CallAgrees(call, text),
         parsed' = [parsed EXCEPT ![r] = text],
         libraries' = libraries, converters' \subseteq BOOLEAN
  PROVE  ParsersInv'
<1>1. parsing' = [parsing EXCEPT ![r] = call] /\ call \in ParseCalls
  BY DEF Goes, CallAgrees
<1>2. parsing' \in [Parsings -> ParseCalls] /\ parsed' = [q \in Parsings |-> parsed'[q]]
  <2>1. parsing' \in [Parsings -> ParseCalls]
    BY <1>1 DEF ParsersInv
  <2>2. parsed = [q \in Parsings |-> parsed[q]]
    BY DEF ParsersInv
  <2>3. parsed' = [q \in Parsings |-> parsed'[q]]
    BY <2>2
  <2> QED
    BY <2>1, <2>3
<1>3. parsing'[r] = call /\ parsed'[r] = text
  BY <1>1 DEF ParsersInv
<1>4. \A q \in Parsings : q # r => parsing'[q] = parsing[q] /\ parsed'[q] = parsed[q]
  BY <1>1 DEF ParsersInv
<1>5. \A q \in Parsings : CallAgrees(parsing[q], parsed[q])
  BY DEF ParsersInv
<1>6. \A q \in Parsings : CallAgrees(parsing'[q], parsed'[q])
  BY <1>3, <1>4, <1>5
<1>7. libraries \subseteq {"digital", "layout"}
  BY DEF ParsersInv
<1> QED
  BY <1>2, <1>6, <1>7 DEF ParsersInv

(* ... without returning a text.                                           *)
LEMMA GoesOn ==
  ASSUME ParsersInv, NEW r \in Parsings, NEW call,
         Goes(r, call), CallAgrees(call, NoText), parsing[r].pc # "done",
         parsed' = parsed, libraries' = libraries, converters' \subseteq BOOLEAN
  PROVE  ParsersInv'
<1>1. parsed[r] = NoText /\ parsed = [q \in Parsings |-> parsed[q]]
  BY DEF ParsersInv, CallAgrees
<1>2. parsed' = [parsed EXCEPT ![r] = NoText]
  BY <1>1
<1> QED
  BY <1>2, GoesAgrees

LEMMA ChainLength == Len(Chain) = 4
BY DEF Chain

(* A call that gives up a parser.                                          *)
LEMMA NextParserAgrees ==
  ASSUME ParsersInv, NEW r \in Parsings, NEW raises \in BOOLEAN,
         parsing[r].pc \in {"choose", "ensure", "build", "convert"}, NextParser(r, raises),
         parsed' = parsed, libraries' = libraries, converters' \subseteq BOOLEAN
  PROVE  ParsersInv'
<1> DEFINE c == parsing[r]
           d == [c EXCEPT !.pc = IF c.at = Len(Chain) THEN "failed" ELSE "choose",
                          !.at = @ + 1, !.raised = @ \/ raises]
<1>1. c \in ParseCalls /\ c.file \in SourceFiles /\ c.at \in 1..4
  BY DEF ParsersInv, CallAgrees
<1>2. Goes(r, d)
  BY DEF NextParser
<1>3. CallAgrees(d, NoText)
  <2> HIDE DEF c
  <2>1. d.pc \in {"choose", "failed"} /\ (d.pc = "choose" => d.at \in 1..4) /\ d.file = c.file
    BY <1>1, ChainLength DEF ParseCalls
  <2>2. d \in ParseCalls
    <3> DEFINE raised == c.raised \/ raises
    <3>1. raised \in BOOLEAN
      OBVIOUS
    <3>2. d = [c EXCEPT !.pc = IF c.at = Len(Chain) THEN "failed" ELSE "choose",
                        !.at = @ + 1, !.raised = raised]
      BY <1>1 DEF ParseCalls
    <3> HIDE DEF raised
    <3>3. (IF c.at = Len(Chain) THEN "failed" ELSE "choose") \in ParseSteps
      BY DEF ParseSteps
    <3>4. c.at + 1 \in 1..5
      BY <1>1
    <3>5. [c EXCEPT !.pc = IF c.at = Len(Chain) THEN "failed" ELSE "choose",
                    !.at = @ + 1, !.raised = raised] \in ParseCalls
      BY <1>1, <3>1, <3>3, <3>4 DEF ParseCalls
    <3> HIDE DEF d
    <3> QED
      BY <3>2, <3>5
  <2> HIDE DEF d
  <2> QED
    BY <1>1, <2>1, <2>2, NoTextTells DEF CallAgrees
<1> HIDE DEF c, d
<1> QED
  BY <1>2, <1>3, GoesOn

(* A call that takes a text, or gives its parser up if it is blank.        *)
LEMMA TakesAgrees ==
  ASSUME ParsersInv, NEW r \in Parsings, NEW text,
         parsing[r].pc \in {"choose", "ensure", "build", "convert"}, Takes(r, text),
         TextTells(text, parsing[r].file), libraries' = libraries, converters' = converters
  PROVE  ParsersInv'
<1>1. converters' \subseteq BOOLEAN
  BY DEF ParsersInv
<1>2. CASE LengthOf(text.parts) = 0
  <2>1. NextParser(r, FALSE) /\ parsed' = parsed
    BY <1>2 DEF Takes
  <2> QED
    BY <1>1, <2>1, NextParserAgrees
<1>3. CASE LengthOf(text.parts) # 0
  <2> DEFINE c == parsing[r]  d == [c EXCEPT !.pc = "done"]
  <2>1. Goes(r, d) /\ parsed' = [parsed EXCEPT ![r] = text]
    BY <1>3 DEF Takes
  <2>2. c \in ParseCalls /\ c.file \in SourceFiles
    BY DEF ParsersInv, CallAgrees
  <2>3. d.pc = "done" /\ d.file = c.file /\ d \in ParseCalls
    BY <2>2 DEF ParseCalls, ParseSteps
  <2>4. CallAgrees(d, text)
    <3>1. TextTells(text, d.file)
      BY <2>3
    <3> HIDE DEF c, d
    <3> QED
      BY <2>2, <2>3, <3>1 DEF CallAgrees
  <2> HIDE DEF c, d
  <2> QED
    BY <1>1, <2>1, <2>4, GoesAgrees
<1> QED
  BY <1>2, <1>3

LEMMA ParsersInitial == ParsersInit => ParsersInv
<1> SUFFICES ASSUME ParsersInit PROVE ParsersInv
  OBVIOUS
<1>1. Idle \in ParseCalls /\ Idle.pc = "new" /\ Idle.at = 1
  BY DEF Idle, ParseCalls, ParseSteps
<1>2. CallAgrees(Idle, NoText)
  BY <1>1, NoTextTells DEF CallAgrees
<1>3. parsing = [r \in Parsings |-> Idle] /\ parsed = [r \in Parsings |-> NoText]
  BY DEF ParsersInit
<1>4. libraries \subseteq {"digital", "layout"} /\ converters = {}
  BY DEF ParsersInit
<1> QED
  BY <1>1, <1>2, <1>3, <1>4 DEF ParsersInv

LEMMA ParsersKept == ParsersInv /\ [ParsersNext]_parserVars => ParsersInv'
<1> SUFFICES ASSUME ParsersInv, [ParsersNext]_parserVars PROVE ParsersInv'
  OBVIOUS
<1> USE DEF Stands
<1>1. CASE UNCHANGED parserVars
  BY <1>1 DEF parserVars, ParsersInv
<1>2. ASSUME NEW r \in Parsings,
             \/ Begins(r) \/ Skips(r) \/ Probes(r) \/ EnsuresConverter(r) \/ Builds(r)
             \/ Converts(r) \/ ParsesLayout(r) \/ ParsesOcr(r) \/ ParsesPlain(r)
      PROVE  ParsersInv'
  <2> DEFINE c == parsing[r]
  <2>1. c \in ParseCalls /\ CallAgrees(c, parsed[r]) /\ converters \subseteq BOOLEAN
    BY DEF ParsersInv
  <2>2. CASE Begins(r)
    <3>1. PICK f \in SourceFiles : Goes(r, [c EXCEPT !.pc = "choose", !.file = f])
      BY <2>2 DEF Begins
    <3>2. c.pc = "new" /\ libraries' = libraries /\ converters' = converters /\ parsed' = parsed
      BY <2>2 DEF Begins
    <3>3. c.at = 1
      BY <2>1, <3>2 DEF CallAgrees
    <3> DEFINE d == [c EXCEPT !.pc = "choose", !.file = f]
    <3> HIDE DEF c
    <3>4. d.pc = "choose" /\ d.file = f /\ d.at = 1 /\ d \in ParseCalls
      BY <2>1, <3>3 DEF ParseCalls, ParseSteps
    <3> HIDE DEF d
    <3>5. CallAgrees(d, NoText)
      BY <3>4, NoTextTells DEF CallAgrees
    <3> QED
      BY <2>1, <3>1, <3>2, <3>5, GoesOn DEF c, d
  <2>3. CASE Skips(r)
    BY <2>1, <2>3, NextParserAgrees DEF Skips
  <2>4. CASE Probes(r)
    <3>1. PICK failing \in BOOLEAN :
            Goes(r, [c EXCEPT !.pc = "ensure", !.tried = TRUE,
                              !.ocr = failing \/ NeedsOcr(c.file)])
      BY <2>4 DEF Probes, File
    <3>2. c.pc = "choose" /\ libraries' = libraries /\ converters' = converters /\ parsed' = parsed
      BY <2>4 DEF Probes
    <3>3. c.at \in 1..4 /\ c.file \in SourceFiles
      BY <2>1, <3>2 DEF CallAgrees
    <3> DEFINE needs == NeedsOcr(c.file)
               d == [c EXCEPT !.pc = "ensure", !.tried = TRUE, !.ocr = failing \/ needs]
    <3>0. needs \in BOOLEAN
      BY DEF NeedsOcr
    <3>8. needs = NeedsOcr(c.file)
      OBVIOUS
    <3> HIDE DEF c, needs
    <3>4. d.pc = "ensure" /\ d.file = c.file /\ d.at = c.at /\ d.ocr = (failing \/ needs)
      BY <2>1 DEF ParseCalls
    <3>5. d \in ParseCalls
      BY <2>1, <3>0 DEF ParseCalls, ParseSteps
    <3> HIDE DEF d
    <3>6. NeedsOcr(d.file) => d.ocr
      BY <3>4, <3>8
    <3>7. CallAgrees(d, NoText)
      BY <3>3, <3>4, <3>5, <3>6, NoTextTells DEF CallAgrees
    <3> QED
      BY <2>1, <3>1, <3>2, <3>7, GoesOn DEF c, d, needs
  <2>5. CASE EnsuresConverter(r)
    <3>1. PICK mode \in {c.ocr} :
            Goes(r, [c EXCEPT !.pc = IF mode \in converters THEN "convert" ELSE "build",
                              !.uses = mode])
      BY <2>5 DEF EnsuresConverter, ConverterFor
    <3>2. c.pc = "ensure" /\ libraries' = libraries /\ converters' = converters /\ parsed' = parsed
      BY <2>5 DEF EnsuresConverter
    <3>3. c.at \in 1..4 /\ c.file \in SourceFiles /\ (NeedsOcr(c.file) => c.ocr)
      BY <2>1, <3>2 DEF CallAgrees
    <3> DEFINE d == [c EXCEPT !.pc = IF mode \in converters THEN "convert" ELSE "build",
                              !.uses = mode]
    <3> HIDE DEF c
    <3>4. /\ d.pc \in {"build", "convert"} /\ d.file = c.file /\ d.at = c.at /\ d.ocr = c.ocr
          /\ d.uses = d.ocr /\ d \in ParseCalls
      BY <2>1 DEF ParseCalls, ParseSteps
    <3> HIDE DEF d
    <3>5. CallAgrees(d, NoText)
      BY <3>3, <3>4, NoTextTells DEF CallAgrees
    <3> QED
      BY <2>1, <3>1, <3>2, <3>5, GoesOn DEF c, d
  <2>6. CASE Builds(r)
    <3>1. c.pc = "build" /\ libraries' = libraries /\ parsed' = parsed
      BY <2>6 DEF Builds
    <3>2. /\ c.at \in 1..4 /\ c.file \in SourceFiles /\ (NeedsOcr(c.file) => c.ocr)
          /\ c.uses = c.ocr
      BY <2>1, <3>1 DEF CallAgrees
    <3>3. CASE Goes(r, [c EXCEPT !.pc = "convert"]) /\ converters' = converters \cup {c.uses}
      <4> DEFINE d == [c EXCEPT !.pc = "convert"]
      <4>1. converters' \subseteq BOOLEAN
        BY <2>1, <3>3 DEF ParseCalls
      <4> HIDE DEF c
      <4>2. /\ d.pc = "convert" /\ d.file = c.file /\ d.at = c.at /\ d.ocr = c.ocr
            /\ d.uses = c.uses /\ d \in ParseCalls
        BY <2>1 DEF ParseCalls, ParseSteps
      <4> HIDE DEF d
      <4>3. CallAgrees(d, NoText)
        BY <3>2, <4>2, NoTextTells DEF CallAgrees
      <4> QED
        BY <2>1, <3>1, <3>3, <4>1, <4>3, GoesOn DEF c, d
    <3>4. CASE NextParser(r, FALSE) /\ converters' = converters
      BY <2>1, <3>1, <3>4, NextParserAgrees
    <3> QED
      BY <2>6, <3>3, <3>4 DEF Builds
  <2>7. CASE Converts(r)
    <3>1. c.pc = "convert" /\ libraries' = libraries /\ converters' = converters
      BY <2>7 DEF Converts
    <3>2. c.file \in SourceFiles /\ (NeedsOcr(c.file) => c.uses) /\ c.uses \in BOOLEAN
      BY <2>1, <3>1 DEF CallAgrees, ParseCalls
    <3>3. ASSUME NEW text \in {Digital(c.file, c.uses), DigitalGuessed(c.file, c.uses)},
                 NEW bottomLeft \in BOOLEAN, NEW count \in {0, Len(text.parts)},
                 Takes(r, WithBlocks(text, c.file, bottomLeft, count))
          PROVE  ParsersInv'
      <4>1. TextTells(WithBlocks(text, c.file, bottomLeft, count), c.file)
        BY <3>2, DigitalTells
      <4> QED
        BY <3>1, <3>3, <4>1, TakesAgrees
    <3>4. CASE NextParser(r, FALSE) /\ parsed' = parsed
      BY <2>1, <3>1, <3>4, NextParserAgrees
    <3> QED
      BY <2>7, <3>3, <3>4 DEF Converts, File
  <2>8. CASE ParsesLayout(r)
    <3>1. c.pc = "choose" /\ libraries' = libraries /\ converters' = converters
      BY <2>8 DEF ParsesLayout
    <3>2. c.file \in SourceFiles
      BY <2>1, <3>1 DEF CallAgrees
    <3>3. ASSUME NEW told \in BOOLEAN, Takes(r, Layout(c.file, told)) PROVE ParsersInv'
      BY <3>1, <3>2, <3>3, LayoutTells, TakesAgrees
    <3>4. CASE NextParser(r, FALSE) /\ parsed' = parsed
      BY <2>1, <3>1, <3>4, NextParserAgrees
    <3> QED
      BY <2>8, <3>3, <3>4 DEF ParsesLayout, File
  <2>9. CASE ParsesOcr(r)
    <3>1. c.pc = "choose" /\ libraries' = libraries /\ converters' = converters
      BY <2>9 DEF ParsesOcr
    <3>2. c.file \in SourceFiles
      BY <2>1, <3>1 DEF CallAgrees
    <3>3. ASSUME NEW markers \in BOOLEAN, Takes(r, Ocr(c.file, markers)) PROVE ParsersInv'
      BY <3>1, <3>2, <3>3, OcrTells, TakesAgrees
    <3>4. CASE NextParser(r, TRUE) /\ parsed' = parsed
      BY <2>1, <3>1, <3>4, NextParserAgrees
    <3> QED
      BY <2>9, <3>3, <3>4 DEF ParsesOcr, File
  <2>10. CASE ParsesPlain(r)
    <3>1. c.pc = "choose" /\ libraries' = libraries /\ converters' = converters
      BY <2>10 DEF ParsesPlain
    <3>2. c.file \in SourceFiles
      BY <2>1, <3>1 DEF CallAgrees
    <3>3. CASE Takes(r, Fallback(c.file))
      BY <3>1, <3>2, <3>3, FallbackTells, TakesAgrees
    <3>4. CASE NextParser(r, FALSE) /\ parsed' = parsed
      BY <2>1, <3>1, <3>4, NextParserAgrees
    <3> QED
      BY <2>10, <3>3, <3>4 DEF ParsesPlain, File
  <2> QED
    BY <1>2, <2>2, <2>3, <2>4, <2>5, <2>6, <2>7, <2>8, <2>9, <2>10
<1> QED
  BY <1>1, <1>2 DEF ParsersNext

LEMMA ParsersImplied == ParsersInv => ParsersTypeOK /\ FilesAreRead
<1> SUFFICES ASSUME ParsersInv PROVE ParsersTypeOK /\ FilesAreRead
  OBVIOUS
<1>1. ASSUME NEW r \in Parsings
      PROVE  /\ parsing[r].file \in SourceFiles \cup {NoFile}
             /\ parsing[r].at \in 1..(Len(Chain) + 1)
             /\ TextTells(parsed[r], parsing[r].file)
  <2>1. parsing[r] \in ParseCalls /\ CallAgrees(parsing[r], parsed[r])
    BY DEF ParsersInv
  <2>2. Len(Chain) + 1 = 5
    BY ChainLength
  <2> QED
    BY <2>1, <2>2 DEF CallAgrees, ParseCalls
<1>2. ParsersTypeOK
  BY <1>1 DEF ParsersTypeOK, TextTells, ParsersInv
<1>3. FilesAreRead
  BY <1>1 DEF FilesAreRead, TextIsLocated, ScansAreRead, TextTells, ScanIsRead, File
<1> QED
  BY <1>2, <1>3

(* A parsing has asked for OCR where its file needs it, converts with the  *)
(* mode it asked for, and returns a text that tells its file; the types    *)
(* hold (pdf_extractor.py).                                                *)
THEOREM ParsersInvariant == ParsersSpec => [](ParsersInv /\ ParsersTypeOK)
<1>1. ParsersInit => ParsersInv
  BY ParsersInitial
<1>2. ParsersInv /\ [ParsersNext]_parserVars => ParsersInv'
  BY ParsersKept
<1>3. ParsersInv => ParsersTypeOK
  BY ParsersImplied
<1> QED
  BY <1>1, <1>2, <1>3, PTL DEF ParsersSpec

(* Every character of a text has the page it is on where the parser knew   *)
(* it, blocks are where the text is, and no scan is read without OCR, for  *)
(* all files and whatever other calls build and cache (pdf_extractor.py).  *)
THEOREM AllFilesAreRead == ParsersSpec => []FilesAreRead
<1>1. ParsersInit => ParsersInv
  BY ParsersInitial
<1>2. ParsersInv /\ [ParsersNext]_parserVars => ParsersInv'
  BY ParsersKept
<1>3. ParsersInv => FilesAreRead
  BY ParsersImplied
<1> QED
  BY <1>1, <1>2, <1>3, PTL DEF ParsersSpec

-----------------------------------------------------------------------------
(* Sequences one after the other.                                          *)
Then(a, b) == a \o b

LEMMA FlatUnfold ==
  ASSUME NEW S, NEW s \in Seq(Seq(S))
  PROVE  /\ FlatUpTo(s)[0] = <<>>
         /\ \A n \in 1..Len(s) : FlatUpTo(s)[n] = Then(FlatUpTo(s)[n - 1], s[n])
         /\ \A n \in 0..Len(s) : FlatUpTo(s)[n] \in Seq(S)
<1> DEFINE N == Len(s)
           Is(h, m) == h = [n \in 0..m |-> IF n = 0 THEN <<>> ELSE Then(h[n - 1], s[n])]
           P == {m \in 0..N : \E h : Is(h, m)}
<1>0. N \in Nat
  OBVIOUS
<1>1. 0 \in P
  <2> DEFINE h == [n \in 0..0 |-> <<>>]
  <2>1. h = [n \in 0..0 |-> IF n = 0 THEN <<>> ELSE Then(h[n - 1], s[n])]
    OBVIOUS
  <2>2. Is(h, 0)
    BY <2>1
  <2> HIDE DEF h, Is
  <2>3. \E g : Is(g, 0)
    BY <2>2
  <2> QED
    BY <1>0, <2>3
<1>2. ASSUME NEW m \in P, m < N PROVE m + 1 \in P
  <2>0. m \in Nat /\ m + 1 \in 0..N
    BY <1>0, <1>2
  <2>1. PICK h : Is(h, m)
    OBVIOUS
  <2> DEFINE k == [n \in 0..(m + 1) |-> IF n = m + 1 THEN Then(h[m], s[n]) ELSE h[n]]
  <2>2. ASSUME NEW n \in 0..(m + 1) PROVE k[n] = IF n = 0 THEN <<>> ELSE Then(k[n - 1], s[n])
    <3>1. CASE n = m + 1
      <4>1. k[n] = Then(h[m], s[n]) /\ k[n - 1] = h[m] /\ n # 0
        BY <2>0, <3>1
      <4> HIDE DEF k
      <4> QED
        BY <4>1
    <3>2. CASE n \in 0..m
      <4>1. k[n] = h[n] /\ (n # 0 => k[n - 1] = h[n - 1])
        BY <2>0, <3>2
      <4>2. h[n] = IF n = 0 THEN <<>> ELSE Then(h[n - 1], s[n])
        BY <2>1, <3>2
      <4> HIDE DEF k
      <4> QED
        BY <4>1, <4>2
    <3> QED
      BY <2>0, <3>1, <3>2
  <2>3. Is(k, m + 1)
    <3>1. k = [n \in 0..(m + 1) |-> k[n]]
      OBVIOUS
    <3> HIDE DEF k
    <3> QED
      BY <2>2, <3>1
  <2>4. \E g : Is(g, m + 1)
    <3> HIDE DEF k, Is
    <3> QED
      BY <2>3
  <2> QED
    BY <2>0, <2>4
<1>3. \E h : Is(h, N)
  <2> HIDE DEF Is
  <2>1. P \in SUBSET (0..N)
    OBVIOUS
  <2> HIDE DEF P
  <2>2. P = 0..N
    BY <1>0, <1>1, <1>2, <2>1, Counting
  <2>3. N \in P
    BY <1>0, <2>2
  <2> QED
    BY <2>3 DEF P
<1>4. FlatUpTo(s) = CHOOSE h : Is(h, N)
  BY DEF FlatUpTo, Then
<1>5. Is(FlatUpTo(s), N)
  <2> HIDE DEF Is
  <2> QED
    BY <1>3, <1>4
<1>6. \A n \in 0..N : FlatUpTo(s)[n] = IF n = 0 THEN <<>> ELSE Then(FlatUpTo(s)[n - 1], s[n])
  BY <1>5
<1> DEFINE f == FlatUpTo(s)  next(n) == Then(f[n - 1], s[n])
<1>7. \A n \in 0..N : f[n] = IF n = 0 THEN <<>> ELSE next(n)
  BY <1>6
<1>s. \A n \in 1..N : s[n] \in Seq(S)
  OBVIOUS
<1> HIDE DEF N, f, next
<1>8. f[0] = <<>> /\ \A n \in 1..N : f[n] = next(n)
  <2>1. 0 \in 0..N /\ \A n \in 1..N : n \in 0..N /\ n # 0
    BY <1>0
  <2> QED
    BY <1>7, <2>1
<1>9. \A n \in 0..N : f[n] \in Seq(S)
  <2> DEFINE Q == {n \in 0..N : f[n] \in Seq(S)}
  <2>1. 0 \in Q
    <3>1. 0 \in 0..N /\ <<>> \in Seq(S)
      BY <1>0
    <3> QED
      BY <1>8, <3>1, Zenon
  <2>2. ASSUME NEW n \in Q, n < N PROVE n + 1 \in Q
    <3>1. n \in Nat /\ n + 1 \in 1..N /\ n + 1 \in 0..N /\ n + 1 - 1 = n
      BY <1>0, <2>2
    <3>2. f[n + 1] = next(n + 1)
      BY <1>8, <3>1
    <3>3. next(n + 1) = Then(f[n], s[n + 1])
      BY <3>1 DEF next
    <3>4. f[n] \in Seq(S) /\ s[n + 1] \in Seq(S)
      BY <1>s, <3>1
    <3>5. Then(f[n], s[n + 1]) \in Seq(S)
      BY <3>4 DEF Then
    <3> QED
      BY <3>1, <3>2, <3>3, <3>5
  <2>3. Q \in SUBSET (0..N)
    OBVIOUS
  <2> HIDE DEF Q
  <2>4. Q = 0..N
    BY <1>0, <2>1, <2>2, <2>3, Counting
  <2> QED
    BY <2>4 DEF Q
<1> QED
  BY <1>8, <1>9 DEF N, f, next

(* What is one after the other depends on the sequences alone.             *)
LEMMA FlatSame ==
  ASSUME NEW S, NEW a \in Seq(Seq(S)), NEW b \in Seq(Seq(S)), NEW M \in Nat,
         M <= Len(a), M <= Len(b), \A n \in 1..M : a[n] = b[n]
  PROVE  FlatUpTo(a)[M] = FlatUpTo(b)[M]
<1> DEFINE f == FlatUpTo(a)  g == FlatUpTo(b)  P == {n \in 0..M : f[n] = g[n]}
<1>1. /\ f[0] = <<>> /\ \A n \in 1..M : f[n] = Then(f[n - 1], a[n])
      /\ g[0] = <<>> /\ \A n \in 1..M : g[n] = Then(g[n - 1], b[n])
  <2>1. \A n \in 1..M : n \in 1..Len(a) /\ n \in 1..Len(b)
    OBVIOUS
  <2>2. f[0] = <<>> /\ \A n \in 1..Len(a) : f[n] = Then(f[n - 1], a[n])
    BY FlatUnfold
  <2>3. g[0] = <<>> /\ \A n \in 1..Len(b) : g[n] = Then(g[n - 1], b[n])
    BY FlatUnfold
  <2> HIDE DEF f, g
  <2> QED
    BY <2>1, <2>2, <2>3
<1> HIDE DEF f, g
<1>2. 0 \in P
  BY <1>1
<1>3. ASSUME NEW n \in P, n < M PROVE n + 1 \in P
  <2>1. n \in Nat /\ n + 1 \in 1..M /\ n + 1 \in 0..M /\ n + 1 - 1 = n /\ f[n] = g[n]
    BY <1>3
  <2>2. f[n + 1] = Then(f[n], a[n + 1]) /\ g[n + 1] = Then(g[n], b[n + 1])
    BY <1>1, <2>1
  <2>3. f[n + 1] = g[n + 1]
    BY <2>1, <2>2
  <2> QED
    BY <2>1, <2>3
<1>4. P = 0..M
  <2>1. P \in SUBSET (0..M)
    OBVIOUS
  <2> HIDE DEF P
  <2> QED
    BY <1>2, <1>3, <2>1, Counting
<1> QED
  BY <1>4 DEF f, g

LEMMA FlatTyped ==
  ASSUME NEW S, NEW s \in Seq(Seq(S))
  PROVE  Flat(s) \in Seq(S)
BY FlatUnfold DEF Flat

(* A sequence more.                                                        *)
LEMMA FlatAppend ==
  ASSUME NEW S, NEW s \in Seq(Seq(S)), NEW x \in Seq(S)
  PROVE  Flat(Append(s, x)) = Flat(s) \o x
<1> DEFINE t == Append(s, x)  M == Len(s)
<1>1. /\ t \in Seq(Seq(S)) /\ M \in Nat /\ Len(t) = M + 1 /\ t[M + 1] = x
      /\ \A n \in 1..M : t[n] = s[n]
  OBVIOUS
<1> HIDE DEF t, M
<1>2. M = Len(s)
  BY DEF M
<1>3. FlatUpTo(t)[M] = FlatUpTo(s)[M]
  <2>1. M <= Len(t) /\ M <= Len(s)
    BY <1>1, <1>2
  <2> QED
    BY <1>1, <2>1, FlatSame
<1>4. FlatUpTo(t)[M + 1] = Then(FlatUpTo(t)[M], x)
  <2>1. \A n \in 1..Len(t) : FlatUpTo(t)[n] = Then(FlatUpTo(t)[n - 1], t[n])
    BY <1>1, FlatUnfold
  <2>2. M + 1 \in 1..Len(t) /\ M + 1 - 1 = M
    BY <1>1
  <2> QED
    BY <1>1, <2>1, <2>2
<1> QED
  BY <1>1, <1>2, <1>3, <1>4 DEF Flat, Then, t

LEMMA ThenAssociates ==
  ASSUME NEW S, NEW a \in Seq(S), NEW b \in Seq(S), NEW c \in Seq(S)
  PROVE  Then(Then(a, b), c) = Then(a, Then(b, c))
BY ConcatAssociative DEF Then

(* The last sequence grows.                                                *)
LEMMA FlatExtend ==
  ASSUME NEW S, NEW s \in Seq(Seq(S)), s # <<>>, NEW x \in Seq(S), NEW t \in Seq(Seq(S)),
         Len(t) = Len(s), t[Len(s)] = s[Len(s)] \o x,
         \A n \in 1..(Len(s) - 1) : t[n] = s[n]
  PROVE  Flat(t) = Flat(s) \o x
<1> DEFINE N == Len(s)  M == N - 1
<1>1. N \in Nat /\ M \in Nat /\ N = M + 1 /\ N \in 1..N /\ Len(t) = N
  OBVIOUS
<1>2. FlatUpTo(t)[M] = FlatUpTo(s)[M]
  <2>1. \A n \in 1..M : t[n] = s[n]
    OBVIOUS
  <2>2. M <= Len(t) /\ M <= Len(s)
    BY <1>1
  <2> HIDE DEF M, N
  <2> QED
    BY <1>1, <2>1, <2>2, FlatSame
<1>3. /\ FlatUpTo(t)[N] = Then(FlatUpTo(t)[M], t[N]) /\ FlatUpTo(s)[N] = Then(FlatUpTo(s)[M], s[N])
      /\ FlatUpTo(s)[M] \in Seq(S)
  <2>1. \A n \in 1..Len(t) : FlatUpTo(t)[n] = Then(FlatUpTo(t)[n - 1], t[n])
    BY FlatUnfold
  <2>2. /\ \A n \in 1..Len(s) : FlatUpTo(s)[n] = Then(FlatUpTo(s)[n - 1], s[n])
        /\ \A n \in 0..Len(s) : FlatUpTo(s)[n] \in Seq(S)
    BY FlatUnfold
  <2>3. N \in 1..Len(t) /\ N \in 1..Len(s) /\ M \in 0..Len(s) /\ M = N - 1
    BY <1>1
  <2> HIDE DEF M, N
  <2> QED
    BY <2>1, <2>2, <2>3
<1>4. s[N] \in Seq(S) /\ t[N] = s[N] \o x
  BY <1>1
<1>5. Flat(t) = FlatUpTo(t)[N] /\ Flat(s) = FlatUpTo(s)[N]
  BY <1>1 DEF Flat
<1> HIDE DEF M, N
<1> DEFINE u == FlatUpTo(s)[M]  v == s[N]
<1>6. Flat(t) = Then(u, Then(v, x)) /\ Flat(s) = Then(u, v) /\ u \in Seq(S) /\ v \in Seq(S)
  BY <1>2, <1>3, <1>4, <1>5 DEF Then
<1> HIDE DEF u, v
<1>7. Then(Then(u, v), x) = Then(u, Then(v, x))
  <2>1. u \in Seq(S) /\ v \in Seq(S) /\ x \in Seq(S)
    BY <1>6
  <2> QED
    BY <2>1, ThenAssociates
<1>8. Flat(t) = Then(Flat(s), x)
  BY <1>6, <1>7
<1> QED
  BY <1>8 DEF Then

LEMMA FlatEmpty == Flat(<<>>) = <<>>
<1>1. <<>> \in Seq(Seq({})) /\ Len(<<>>) = 0
  OBVIOUS
<1> QED
  BY <1>1, FlatUnfold DEF Flat

(* The lines of some kinds.                                                *)
One(l, kinds) == IF l.kind \in kinds THEN <<l>> ELSE <<>>

LEMMA OnlyAppend ==
  ASSUME NEW S, NEW lines \in Seq(S), NEW l \in S, NEW kinds
  PROVE  /\ Only(<<>>, kinds) = <<>>
         /\ Only(lines, kinds) \in Seq(S)
         /\ Only(Append(lines, l), kinds) = Only(lines, kinds) \o One(l, kinds)
<1> DEFINE parts(s) == [i \in DOMAIN s |-> One(s[i], kinds)]
<1>1. \A s : Only(s, kinds) = Flat(parts(s))
  BY DEF Only, One
<1>2. \A k \in S : One(k, kinds) \in Seq(S)
  BY DEF One
<1>3. \A s \in Seq(S) : parts(s) \in Seq(Seq(S))
  <2> SUFFICES ASSUME NEW s \in Seq(S) PROVE parts(s) \in Seq(Seq(S))
    OBVIOUS
  <2>1. DOMAIN s = 1..Len(s) /\ Len(s) \in Nat /\ \A i \in 1..Len(s) : s[i] \in S
    OBVIOUS
  <2>2. \A i \in 1..Len(s) : One(s[i], kinds) \in Seq(S)
    BY <1>2, <2>1
  <2> QED
    BY <2>1, <2>2
<1>4. parts(<<>>) = <<>>
  OBVIOUS
<1>5. parts(Append(lines, l)) = Append(parts(lines), One(l, kinds))
  <2> DEFINE t == Append(lines, l)  N == Len(lines)
  <2>1. /\ N \in Nat /\ DOMAIN t = 1..(N + 1) /\ t[N + 1] = l /\ \A i \in 1..N : t[i] = lines[i]
        /\ DOMAIN lines = 1..N
    OBVIOUS
  <2> HIDE DEF t, N
  <2>2. parts(t) = [i \in 1..(N + 1) |-> One(t[i], kinds)]
        /\ parts(lines) = [i \in 1..N |-> One(lines[i], kinds)]
    BY <2>1
  <2>3. \A i \in 1..N : One(t[i], kinds) = One(lines[i], kinds)
    BY <2>1
  <2> DEFINE p == parts(t)  q == parts(lines)
  <2>4. /\ p = [i \in 1..(N + 1) |-> IF i = N + 1 THEN One(l, kinds) ELSE One(lines[i], kinds)]
        /\ q = [i \in 1..N |-> One(lines[i], kinds)]
    BY <2>1, <2>2, <2>3
  <2>5. Append(q, One(l, kinds))
          = [i \in 1..(N + 1) |-> IF i = N + 1 THEN One(l, kinds) ELSE One(lines[i], kinds)]
    <3> HIDE DEF p
    <3>0. q \in Seq(Seq(S))
      BY <1>3
    <3>1. q \in Seq(Seq(S)) /\ Len(q) = N
      BY <2>1, <2>4, <3>0
    <3>2. \A i \in 1..N : q[i] = One(lines[i], kinds)
      BY <2>4
    <3> HIDE DEF q
    <3> DEFINE x == One(l, kinds)  g(i) == One(lines[i], kinds)
    <3>3. \A i \in 1..N : q[i] = g(i)
      BY <3>2
    <3> HIDE DEF x, g
    <3>4. Append(q, x) = [i \in 1..(N + 1) |-> IF i = N + 1 THEN x ELSE g(i)]
      <4> DEFINE r == Append(q, x)
      <4>1. x \in Seq(S)
        BY <1>2 DEF x
      <4>2. /\ r \in Seq(Seq(S)) /\ Len(r) = N + 1 /\ r[N + 1] = x
            /\ \A i \in 1..N : r[i] = q[i]
        BY <2>1, <3>1, <4>1
      <4> HIDE DEF r
      <4>3. r = [i \in 1..(N + 1) |-> r[i]]
        BY <2>1, <4>2
      <4>4. \A i \in 1..(N + 1) : r[i] = IF i = N + 1 THEN x ELSE g(i)
        <5> SUFFICES ASSUME NEW i \in 1..(N + 1)
                     PROVE  r[i] = IF i = N + 1 THEN x ELSE g(i)
          OBVIOUS
        <5>1. CASE i = N + 1
          BY <4>2, <5>1
        <5>2. CASE i # N + 1
          <6>1. i \in 1..N
            BY <2>1, <5>2
          <6>2. r[i] = q[i] /\ q[i] = g(i)
            BY <3>3, <4>2, <6>1
          <6> QED
            BY <5>2, <6>2
        <5> QED
          BY <5>1, <5>2
      <4>5. r = [i \in 1..(N + 1) |-> IF i = N + 1 THEN x ELSE g(i)]
        BY <4>3, <4>4
      <4> QED
        BY <4>5 DEF r
    <3> QED
      BY <3>4 DEF x, g
  <2> QED
    BY <2>4, <2>5 DEF t
<1> HIDE DEF parts
<1>6. Only(<<>>, kinds) = <<>>
  BY <1>1, <1>4, FlatEmpty
<1>7. Only(lines, kinds) \in Seq(S)
  BY <1>1, <1>3, FlatTyped
<1>8. Only(Append(lines, l), kinds) = Only(lines, kinds) \o One(l, kinds)
  <2>1. Flat(Append(parts(lines), One(l, kinds))) = Flat(parts(lines)) \o One(l, kinds)
    BY <1>2, <1>3, FlatAppend
  <2> QED
    BY <1>1, <1>5, <2>1
<1> QED
  BY <1>6, <1>7, <1>8

LEMMA MarkdownLineFacts ==
  ASSUME NEW l \in LineSet
  PROVE  /\ l.kind \in {"heading", "text", "blank", "image"}
         /\ l.kind = "heading" => l.level \in 1..MaxLevel
<1>1. CASE \E k \in 1..MaxLevel : l = Heading(k)
  BY <1>1 DEF Heading
<1>2. CASE l \in {Text(1), Text(2), Blank, Image}
  BY <1>2 DEF Text, Blank, Image
<1> QED
  BY <1>1, <1>2 DEF LineSet

-----------------------------------------------------------------------------
(* Pages.  A document has no page map, or one of two pages.                *)
LEMMA PagesOfDocument ==
  ASSUME pageMap \in PageMaps, pageMap # <<>>
  PROVE  \E a \in 0..1, b \in 1..MaxLength :
           /\ a < b /\ Len(pageMap) = 2 /\ DOMAIN pageMap = {1, 2}
           /\ pageMap[1].at = a /\ pageMap[1].page = 1
           /\ pageMap[2].at = b /\ pageMap[2].page = 2
<1>1. PICK x \in PageStarts : pageMap = <<[at |-> x[1], page |-> 1], [at |-> x[2], page |-> 2]>>
  BY DEF PageMaps
<1>2. x[1] \in 0..1 /\ x[2] \in 1..MaxLength /\ x[1] < x[2]
  BY DEF PageStarts
<1> DEFINE a == x[1]  b == x[2]
<1>3. /\ Len(pageMap) = 2 /\ DOMAIN pageMap = {1, 2}
      /\ pageMap[1].at = a /\ pageMap[1].page = 1
      /\ pageMap[2].at = b /\ pageMap[2].page = 2
  BY <1>1
<1> HIDE DEF a, b
<1> QED
  BY <1>2, <1>3 DEF a, b

(* The page of an offset, in one and in the other way.                     *)
LEMMA PageOfOffset ==
  ASSUME pageMap \in PageMaps, NEW o \in Nat, NEW a \in 0..1, NEW b \in 1..MaxLength,
         a < b, DOMAIN pageMap = {1, 2}, pageMap # <<>>,
         pageMap[1].at = a, pageMap[1].page = 1, pageMap[2].at = b, pageMap[2].page = 2
  PROVE  /\ PageFor(o) = IF o < b THEN 1 ELSE 2
         /\ SegmentPage(o) = IF o < a THEN 0 ELSE IF o < b THEN 1 ELSE 2
<1> DEFINE last == CHOOSE k \in Begun(o) : \A m \in Begun(o) : m <= k
<1>1. 1 \in Begun(o) <=> a <= o
  BY DEF Begun
<1>2. 2 \in Begun(o) <=> b <= o
  BY DEF Begun
<1>3. Begun(o) \subseteq {1, 2}
  BY DEF Begun
<1>4. LastBegun(o) = pageMap[last].page
  BY DEF LastBegun
<1>0. MaxLength \in Nat /\ a \in Nat /\ b \in Nat
  BY SectionsAssumption
<1>5. CASE o < a
  <2>1. Begun(o) = {}
    BY <1>0, <1>1, <1>2, <1>3, <1>5
  <2> QED
    BY <1>0, <1>5, <2>1 DEF PageFor, SegmentPage
<1>6. CASE a <= o /\ o < b
  <2>1. Begun(o) = {1}
    BY <1>0, <1>1, <1>2, <1>3, <1>6
  <2>2. last = 1
    BY <2>1
  <2> QED
    BY <1>0, <1>4, <1>6, <2>1, <2>2 DEF PageFor, SegmentPage
<1>7. CASE b <= o
  <2>1. Begun(o) = {1, 2}
    BY <1>0, <1>1, <1>2, <1>3, <1>7
  <2>2. last = 2
    <3>1. 2 \in Begun(o) /\ \A m \in Begun(o) : m <= 2
      BY <2>1
    <3>2. last \in Begun(o) /\ \A m \in Begun(o) : m <= last
      BY <3>1, Zenon
    <3> HIDE DEF last
    <3> QED
      BY <2>1, <3>2
  <2> HIDE DEF last
  <2> QED
    BY <1>0, <1>4, <1>7, <2>1, <2>2 DEF PageFor, SegmentPage
<1> QED
  BY <1>0, <1>5, <1>6, <1>7

(* Without pages all is on page 0.                                         *)
LEMMA NoPages ==
  ASSUME pageMap = <<>>, NEW o
  PROVE  PageFor(o) = 0 /\ SegmentPage(o) = 0
BY DEF PageFor, SegmentPage, Begun

(* Pages do not go back, and the preview tells none or the same, as far as *)
(* no page begins between the two offsets.                                 *)
LEMMA PagesGrow ==
  ASSUME pageMap \in PageMaps, NEW o \in Nat, NEW q \in Nat, o <= q
  PROVE  PageFor(o) \in 0..2 /\ PageFor(q) \in 0..2 /\ PageFor(o) <= PageFor(q)
<1>1. CASE pageMap = <<>>
  BY <1>1, NoPages
<1>2. CASE pageMap # <<>>
  <2>1. PICK a \in 0..1, b \in 1..MaxLength :
          /\ a < b /\ DOMAIN pageMap = {1, 2}
          /\ pageMap[1].at = a /\ pageMap[1].page = 1
          /\ pageMap[2].at = b /\ pageMap[2].page = 2
    BY <1>2, PagesOfDocument
  <2>2. /\ PageFor(o) = IF o < b THEN 1 ELSE 2
        /\ PageFor(q) = IF q < b THEN 1 ELSE 2
    BY <1>2, <2>1, PageOfOffset
  <2>3. b \in Nat
    BY SectionsAssumption
  <2> QED
    BY <2>2, <2>3
<1> QED
  BY <1>1, <1>2

LEMMA PreviewAgrees ==
  ASSUME pageMap \in PageMaps, NEW o \in Nat
  PROVE  /\ SegmentPage(o) \in {0, PageFor(o)}
         /\ (\A m \in DOMAIN pageMap : pageMap[m].at # o + 1) => SegmentPage(o) \in {0, PageFor(o + 1)}
<1>1. CASE pageMap = <<>>
  BY <1>1, NoPages
<1>2. CASE pageMap # <<>>
  <2>1. PICK a \in 0..1, b \in 1..MaxLength :
          /\ a < b /\ DOMAIN pageMap = {1, 2}
          /\ pageMap[1].at = a /\ pageMap[1].page = 1
          /\ pageMap[2].at = b /\ pageMap[2].page = 2
    BY <1>2, PagesOfDocument
  <2>2. /\ PageFor(o) = IF o < b THEN 1 ELSE 2
        /\ SegmentPage(o) = IF o < a THEN 0 ELSE IF o < b THEN 1 ELSE 2
    BY <1>2, <2>1, PageOfOffset
  <2>3. PageFor(o + 1) = IF o + 1 < b THEN 1 ELSE 2
    <3>1. o + 1 \in Nat
      OBVIOUS
    <3> QED
      BY <1>2, <2>1, <3>1, PageOfOffset
  <2>4. b \in Nat /\ a \in Nat
    BY SectionsAssumption
  <2>5. (\A m \in DOMAIN pageMap : pageMap[m].at # o + 1) => b # o + 1
    BY <2>1
  <2>6. b # o + 1 => (o < b <=> o + 1 < b)
    BY <2>4
  <2> QED
    BY <2>2, <2>3, <2>4, <2>5, <2>6
<1> QED
  BY <1>1, <1>2

-----------------------------------------------------------------------------
(* The blocks of the preview.                                              *)
BlockShape == [start : Nat, first : Nat, lines : Seq(LineSet)]
Solid == {"heading", "text", "image"}

(* A block, of the first n lines: where it starts and where its lines do.  *)
BlockPlaced(b, n) ==
  /\ b.start <= n
  /\ b.lines = <<>> => b.start = n \/ (b.start = n - 1 /\ markdown[n].kind = "blank")
  /\ b.lines # <<>> =>
       /\ b.first + 1 \in 1..n /\ b.lines[1] = markdown[b.first + 1]
       /\ \/ b.first = b.start
          \/ b.first = b.start + 1 /\ markdown[b.start + 1].kind = "blank"

LinesOf(blocks) == [k \in DOMAIN blocks |-> blocks[k].lines]

BlocksTell(blocks, n) ==
  /\ blocks \in Seq(BlockShape) /\ blocks # <<>>
  /\ \A k \in DOMAIN blocks : blocks[k].lines # <<>> => BlockPlaced(blocks[k], n)
  /\ BlockPlaced(blocks[Len(blocks)], n)
  /\ Flat(LinesOf(blocks)) = Only(SubSeq(markdown, 1, n), Solid)

(* The blocks after a line.                                                *)
NextBlocks(before, n) ==
  LET open == before[Len(before)]
  IN IF markdown[n].kind # "blank"
     THEN [before EXCEPT ![Len(before)] =
             [start |-> open.start, lines |-> Append(open.lines, markdown[n]),
              first |-> IF open.lines = <<>> THEN n - 1 ELSE open.first]]
     ELSE IF open.start < n - 1 THEN Append(before, BlockFrom(n)) ELSE before

LEMMA BlocksUnfold ==
  ASSUME Len(markdown) \in Nat
  PROVE  /\ BlocksUpTo[0] = <<BlockFrom(0)>>
         /\ \A n \in 1..Len(markdown) : BlocksUpTo[n] = NextBlocks(BlocksUpTo[n - 1], n)
<1> DEFINE N == Len(markdown)
           Is(h, m) == h = [n \in 0..m |-> IF n = 0 THEN <<BlockFrom(0)>> ELSE NextBlocks(h[n - 1], n)]
           P == {m \in 0..N : \E h : Is(h, m)}
<1>0. N \in Nat
  OBVIOUS
<1>1. 0 \in P
  <2> DEFINE h == [n \in 0..0 |-> <<BlockFrom(0)>>]
  <2>1. h = [n \in 0..0 |-> IF n = 0 THEN <<BlockFrom(0)>> ELSE NextBlocks(h[n - 1], n)]
    OBVIOUS
  <2>2. Is(h, 0)
    BY <2>1
  <2> HIDE DEF h, Is
  <2>3. \E g : Is(g, 0)
    BY <2>2
  <2> QED
    BY <1>0, <2>3
<1>2. ASSUME NEW m \in P, m < N PROVE m + 1 \in P
  <2>0. m \in Nat /\ m + 1 \in 0..N
    BY <1>0, <1>2
  <2>1. PICK h : Is(h, m)
    OBVIOUS
  <2> DEFINE k == [n \in 0..(m + 1) |-> IF n = m + 1 THEN NextBlocks(h[m], n) ELSE h[n]]
  <2>2. ASSUME NEW n \in 0..(m + 1)
        PROVE  k[n] = IF n = 0 THEN <<BlockFrom(0)>> ELSE NextBlocks(k[n - 1], n)
    <3>1. CASE n = m + 1
      <4>1. k[n] = NextBlocks(h[m], n) /\ k[n - 1] = h[m] /\ n # 0
        BY <2>0, <3>1
      <4> HIDE DEF k
      <4> QED
        BY <4>1
    <3>2. CASE n \in 0..m
      <4>1. k[n] = h[n] /\ (n # 0 => k[n - 1] = h[n - 1])
        BY <2>0, <3>2
      <4>2. h[n] = IF n = 0 THEN <<BlockFrom(0)>> ELSE NextBlocks(h[n - 1], n)
        BY <2>1, <3>2
      <4> HIDE DEF k
      <4> QED
        BY <4>1, <4>2
    <3> QED
      BY <2>0, <3>1, <3>2
  <2>3. Is(k, m + 1)
    <3>1. k = [n \in 0..(m + 1) |-> k[n]]
      OBVIOUS
    <3> HIDE DEF k
    <3> QED
      BY <2>2, <3>1
  <2>4. \E g : Is(g, m + 1)
    <3> HIDE DEF k, Is
    <3> QED
      BY <2>3
  <2> QED
    BY <2>0, <2>4
<1>3. \E h : Is(h, N)
  <2> HIDE DEF Is
  <2>1. P \in SUBSET (0..N)
    OBVIOUS
  <2> HIDE DEF P
  <2>2. P = 0..N
    BY <1>0, <1>1, <1>2, <2>1, Counting
  <2>3. N \in P
    BY <1>0, <2>2
  <2> QED
    BY <2>3 DEF P
<1>4. BlocksUpTo = CHOOSE h : Is(h, N)
  BY DEF BlocksUpTo, NextBlocks
<1>5. Is(BlocksUpTo, N)
  <2> HIDE DEF Is
  <2> QED
    BY <1>3, <1>4
<1>6. \A n \in 0..N : BlocksUpTo[n] = IF n = 0 THEN <<BlockFrom(0)>>
                                              ELSE NextBlocks(BlocksUpTo[n - 1], n)
  BY <1>5
<1> HIDE DEF N
<1>7. 0 \in 0..N /\ \A n \in 1..N : n \in 0..N /\ n # 0
  BY <1>0
<1> QED
  BY <1>6, <1>7 DEF N

(* A line more.                                                            *)
LEMMA OnlyNext ==
  ASSUME markdown \in Seq(LineSet), NEW n \in 1..Len(markdown), NEW kinds
  PROVE  /\ SubSeq(markdown, 1, n - 1) \in Seq(LineSet) /\ markdown[n] \in LineSet
         /\ SubSeq(markdown, 1, n) = Append(SubSeq(markdown, 1, n - 1), markdown[n])
         /\ Only(SubSeq(markdown, 1, n), kinds)
              = Only(SubSeq(markdown, 1, n - 1), kinds) \o One(markdown[n], kinds)
<1>1. SubSeq(markdown, 1, n - 1) \in Seq(LineSet) /\ markdown[n] \in LineSet
  OBVIOUS
<1>2. SubSeq(markdown, 1, n) = Append(SubSeq(markdown, 1, n - 1), markdown[n])
  OBVIOUS
<1> DEFINE S == LineSet  a == SubSeq(markdown, 1, n - 1)  l == markdown[n]
<1>3. a \in Seq(S) /\ l \in S
  BY <1>1
<1> HIDE DEF S, a, l
<1>4. Only(Append(a, l), kinds) = Only(a, kinds) \o One(l, kinds)
  BY <1>3, OnlyAppend
<1> QED
  BY <1>1, <1>2, <1>4 DEF a, l

LEMMA LinesTyped ==
  ASSUME NEW blocks \in Seq(BlockShape)
  PROVE  /\ LinesOf(blocks) \in Seq(Seq(LineSet)) /\ Len(LinesOf(blocks)) = Len(blocks)
         /\ \A k \in 1..Len(blocks) : LinesOf(blocks)[k] = blocks[k].lines
<1>1. DOMAIN blocks = 1..Len(blocks) /\ Len(blocks) \in Nat
      /\ \A k \in 1..Len(blocks) : blocks[k] \in BlockShape
  OBVIOUS
<1>2. \A k \in 1..Len(blocks) : blocks[k].lines \in Seq(LineSet)
  BY <1>1 DEF BlockShape
<1>3. LinesOf(blocks) = [k \in 1..Len(blocks) |-> blocks[k].lines]
  BY <1>1 DEF LinesOf
<1> HIDE DEF LinesOf
<1> QED
  BY <1>1, <1>2, <1>3

(* A block keeps its place.                                                *)
LEMMA BlockStays ==
  ASSUME NEW b \in BlockShape, NEW n \in Nat, BlockPlaced(b, n), b.lines # <<>>
  PROVE  BlockPlaced(b, n + 1)
BY DEF BlockPlaced, BlockShape

(* ... and the blocks tell the lines after a further one.                  *)
LEMMA BlocksStep ==
  ASSUME markdown \in Seq(LineSet), NEW n \in 1..Len(markdown),
         NEW before, BlocksTell(before, n - 1)
  PROVE  BlocksTell(NextBlocks(before, n), n)
<1> DEFINE L == Len(before)  open == before[L]  line == markdown[n]
           after == NextBlocks(before, n)
           old == Only(SubSeq(markdown, 1, n - 1), Solid)
<1>0. n \in Nat /\ n - 1 \in Nat /\ n - 1 + 1 = n /\ line \in LineSet
  OBVIOUS
<1>1. /\ before \in Seq(BlockShape) /\ L \in Nat /\ L \in 1..L /\ open \in BlockShape
      /\ DOMAIN before = 1..L
      /\ BlockPlaced(open, n - 1) /\ Flat(LinesOf(before)) = old
      /\ \A k \in 1..L : before[k] \in BlockShape
      /\ \A k \in 1..L : before[k].lines # <<>> => BlockPlaced(before[k], n - 1)
  <2>1. before \in Seq(BlockShape) /\ before # <<>>
    BY DEF BlocksTell
  <2>2. L \in Nat /\ L \in 1..L /\ DOMAIN before = 1..L /\ \A k \in 1..L : before[k] \in BlockShape
    BY <2>1
  <2>3. /\ BlockPlaced(open, n - 1) /\ Flat(LinesOf(before)) = old
        /\ \A k \in DOMAIN before : before[k].lines # <<>> => BlockPlaced(before[k], n - 1)
    BY DEF BlocksTell
  <2> QED
    BY <2>1, <2>2, <2>3
<1>2. Only(SubSeq(markdown, 1, n), Solid) = old \o One(line, Solid)
  BY OnlyNext
<1>3. line.kind \in {"heading", "text", "blank", "image"}
  BY <1>0, MarkdownLineFacts
<1> DEFINE lines == LinesOf(before)
<1>4. /\ lines \in Seq(Seq(LineSet)) /\ Len(lines) = L
      /\ \A k \in 1..L : lines[k] = before[k].lines
  BY <1>1, LinesTyped
<1>5. \A k \in 1..L : before[k].lines # <<>> => BlockPlaced(before[k], n)
  <2> TAKE k \in 1..L
  <2> HAVE before[k].lines # <<>>
  <2>1. BlockPlaced(before[k], n - 1) /\ before[k] \in BlockShape
    BY <1>1
  <2>2. BlockPlaced(before[k], n - 1 + 1)
    BY <1>0, <2>1, BlockStays
  <2> QED
    BY <1>0, <2>2
<1>6. open.start \in Nat /\ open.first \in Nat /\ open.lines \in Seq(LineSet)
  BY <1>1 DEF BlockShape
<1> HIDE DEF L, open, line, old, lines, after
<1>7. CASE line.kind # "blank"
  <2> DEFINE first == IF open.lines = <<>> THEN n - 1 ELSE open.first
             grown == Append(open.lines, line)
             block == [start |-> open.start, lines |-> grown, first |-> first]
  <2>1. after = [before EXCEPT ![L] = block]
    BY <1>7 DEF after, NextBlocks, L, open, line
  <2>2. grown \in Seq(LineSet) /\ grown # <<>> /\ first \in Nat
    BY <1>0, <1>6
  <2>3. block \in BlockShape
    BY <1>6, <2>2 DEF BlockShape
  <2>4. /\ after \in Seq(BlockShape) /\ Len(after) = L /\ DOMAIN after = 1..L /\ after[L] = block
        /\ \A k \in 1..L : k # L => after[k] = before[k]
    <3> HIDE DEF block
    <3>1. Len(before) = L
      BY DEF L
    <3> QED
      BY <1>1, <2>1, <2>3, <3>1
  <2>5. BlockPlaced(block, n)
    <3>1. CASE open.lines = <<>>
      <4>1. grown[1] = line /\ first = n - 1
        BY <1>0, <3>1
      <4>2. open.start <= n - 1
            /\ (open.start = n - 1 \/ (open.start = n - 2 /\ markdown[n - 1].kind = "blank"))
        BY <1>0, <1>1, <3>1 DEF BlockPlaced
      <4>3. /\ block.start = open.start /\ block.first = n - 1 /\ block.lines = grown
        BY <4>1
      <4>4. markdown[n] = line
        BY DEF line
      <4>5. \/ n - 1 = open.start
            \/ n - 1 = open.start + 1 /\ markdown[open.start + 1].kind = "blank"
        <5>1. CASE open.start = n - 1
          BY <5>1
        <5>2. CASE open.start = n - 2 /\ markdown[n - 1].kind = "blank"
          <6>1. open.start + 1 = n - 1
            BY <1>0, <5>2
          <6> QED
            BY <5>2, <6>1
        <5> QED
          BY <4>2, <5>1, <5>2
      <4>6. open.start <= n /\ n - 1 + 1 \in 1..n
        BY <1>0, <1>6, <4>2
      <4> HIDE DEF block, grown, first
      <4> QED
        BY <1>0, <2>2, <4>1, <4>3, <4>4, <4>5, <4>6 DEF BlockPlaced
    <3>2. CASE open.lines # <<>>
      <4>1. grown[1] = open.lines[1] /\ first = open.first
        BY <1>0, <1>6, <3>2
      <4>2. /\ open.start <= n - 1 /\ open.first + 1 \in 1..(n - 1)
            /\ open.lines[1] = markdown[open.first + 1]
            /\ \/ open.first = open.start
               \/ open.first = open.start + 1 /\ markdown[open.start + 1].kind = "blank"
        BY <1>1, <3>2 DEF BlockPlaced
      <4>3. /\ block.start = open.start /\ block.first = open.first /\ block.lines = grown
        BY <4>1
      <4>4. open.start <= n /\ open.first + 1 \in 1..n
        BY <1>0, <1>6, <4>2
      <4> HIDE DEF block, grown, first
      <4> QED
        BY <2>2, <4>1, <4>2, <4>3, <4>4 DEF BlockPlaced
    <3> QED
      BY <3>1, <3>2
  <2>6. Flat(LinesOf(after)) = old \o <<line>>
    <3> DEFINE new == LinesOf(after)
    <3>1. /\ new \in Seq(Seq(LineSet)) /\ Len(new) = L
          /\ \A k \in 1..L : new[k] = after[k].lines
      BY <2>4, LinesTyped
    <3>2. new[L] = lines[L] \o <<line>>
      <4>1. block.lines = grown
        OBVIOUS
      <4>2. new[L] = grown
        BY <1>1, <2>4, <3>1, <4>1
      <4>3. lines[L] = open.lines
        BY <1>1, <1>4 DEF open
      <4>4. grown = open.lines \o <<line>>
        BY <1>0, <1>6
      <4> QED
        BY <4>2, <4>3, <4>4
    <3> HIDE DEF new
    <3>3. \A k \in 1..(L - 1) : new[k] = lines[k]
      <4> TAKE k \in 1..(L - 1)
      <4>1. k \in 1..L /\ k # L
        BY <1>1
      <4> QED
        BY <1>4, <2>4, <3>1, <4>1
    <3>4. lines # <<>> /\ <<line>> \in Seq(LineSet)
      BY <1>0, <1>1, <1>4
    <3>5. Flat(new) = Flat(lines) \o <<line>>
      <4> DEFINE S == LineSet  x == <<line>>
      <4>1. /\ lines \in Seq(Seq(S)) /\ lines # <<>> /\ x \in Seq(S) /\ new \in Seq(Seq(S))
            /\ Len(new) = Len(lines) /\ new[Len(lines)] = lines[Len(lines)] \o x
            /\ \A k \in 1..(Len(lines) - 1) : new[k] = lines[k]
        BY <1>4, <3>1, <3>2, <3>3, <3>4
      <4> HIDE DEF S, x
      <4>2. Flat(new) = Flat(lines) \o x
        BY <4>1, FlatExtend
      <4> QED
        BY <4>2 DEF x
    <3> QED
      BY <1>1, <3>5 DEF new, lines
  <2>7. One(line, Solid) = <<line>>
    BY <1>3, <1>7 DEF One, Solid
  <2> HIDE DEF block
  <2>8. \A k \in DOMAIN after : after[k].lines # <<>> => BlockPlaced(after[k], n)
    BY <1>5, <2>4, <2>5
  <2>9. after # <<>> /\ BlockPlaced(after[Len(after)], n)
    BY <1>1, <2>4, <2>5
  <2>10. Flat(LinesOf(after)) = Only(SubSeq(markdown, 1, n), Solid)
    BY <1>2, <2>6, <2>7
  <2> QED
    BY <2>4, <2>8, <2>9, <2>10 DEF BlocksTell, after
<1>8. CASE line.kind = "blank"
  <2>0. One(line, Solid) = <<>>
    BY <1>8 DEF One, Solid
  <2>1. Only(SubSeq(markdown, 1, n), Solid) = old
    <3>1. old \in Seq(LineSet)
      BY <1>0, OnlyNext, OnlyAppend DEF old
    <3>2. old \o <<>> = old
      BY <3>1
    <3> QED
      BY <1>2, <2>0, <3>2
  <2>2. CASE open.start < n - 1
    <3> DEFINE block == BlockFrom(n)
    <3>1. after = Append(before, block)
      BY <1>8, <2>2 DEF after, NextBlocks, L, open, line
    <3>2. block \in BlockShape /\ block.start = n /\ block.lines = <<>>
      BY <1>0 DEF BlockFrom, BlockShape
    <3> HIDE DEF block
    <3>3. /\ after \in Seq(BlockShape) /\ Len(after) = L + 1 /\ DOMAIN after = 1..(L + 1)
          /\ after[L + 1] = block /\ \A k \in 1..L : after[k] = before[k]
      <4>1. Len(before) = L
        BY DEF L
      <4> QED
        BY <1>1, <3>1, <3>2, <4>1
    <3>4. LinesOf(after) = Append(lines, <<>>)
      <4> DEFINE new == LinesOf(after)
      <4>1. /\ new \in Seq(Seq(LineSet)) /\ Len(new) = L + 1
            /\ \A k \in 1..(L + 1) : new[k] = after[k].lines
        BY <3>3, LinesTyped
      <4>2. new[L + 1] = <<>> /\ \A k \in 1..L : new[k] = lines[k]
        <5>1. L + 1 \in 1..(L + 1) /\ \A k \in 1..L : k \in 1..(L + 1)
          BY <1>1
        <5> QED
          BY <1>4, <3>2, <3>3, <4>1, <5>1
      <4> HIDE DEF new
      <4>3. Append(lines, <<>>) \in Seq(Seq(LineSet)) /\ Len(Append(lines, <<>>)) = L + 1
            /\ Append(lines, <<>>)[L + 1] = <<>>
            /\ \A k \in 1..L : Append(lines, <<>>)[k] = lines[k]
        <5>1. <<>> \in Seq(LineSet)
          OBVIOUS
        <5> QED
          BY <1>1, <1>4, <5>1, AppendProperties
      <4> DEFINE app == Append(lines, <<>>)
      <4> HIDE DEF app
      <4>4. \A k \in 1..(L + 1) : new[k] = app[k]
        <5>1. \A k \in 1..(L + 1) : k \in 1..L \/ k = L + 1
          BY <1>1
        <5> QED
          BY <4>2, <4>3, <5>1 DEF app
      <4>5. new = app
        BY <1>1, <4>1, <4>3, <4>4, SeqEqual DEF app
      <4> QED
        BY <4>5 DEF new, app
    <3>5. Flat(LinesOf(after)) = old
      <4>1. <<>> \in Seq(LineSet)
        OBVIOUS
      <4>2. Flat(Append(lines, <<>>)) = Flat(lines) \o <<>>
        BY <1>4, <4>1, FlatAppend
      <4>3. Flat(lines) \in Seq(LineSet)
        BY <1>4, FlatTyped
      <4>4. Flat(lines) \o <<>> = Flat(lines)
        BY <4>3
      <4> QED
        BY <1>1, <3>4, <4>2, <4>4 DEF lines
    <3>6. BlockPlaced(block, n)
      BY <1>0, <3>2 DEF BlockPlaced
    <3>7. \A k \in DOMAIN after : after[k].lines # <<>> => BlockPlaced(after[k], n)
      <4>1. \A k \in 1..(L + 1) : k \in 1..L \/ k = L + 1
        BY <1>1
      <4> QED
        BY <1>5, <3>3, <3>6, <4>1
    <3>8. after # <<>> /\ BlockPlaced(after[Len(after)], n)
      BY <1>1, <3>3, <3>6
    <3> QED
      BY <2>1, <3>3, <3>5, <3>7, <3>8 DEF BlocksTell, after
  <2>3. CASE ~(open.start < n - 1)
    <3>1. after = before
      BY <1>8, <2>3 DEF after, NextBlocks, L, open, line
    <3>2. open.lines = <<>>
      <4> SUFFICES ASSUME open.lines # <<>> PROVE FALSE
        OBVIOUS
      <4>1. /\ open.first + 1 \in 1..(n - 1)
            /\ open.first = open.start \/ open.first = open.start + 1
        BY <1>1 DEF BlockPlaced
      <4> QED
        BY <1>0, <1>6, <2>3, <4>1
    <3>3. open.start <= n - 1
      BY <1>1 DEF BlockPlaced
    <3>4. BlockPlaced(open, n)
      <4>1. open.start <= n /\ open.start = n - 1
        BY <1>0, <1>6, <2>3, <3>3
      <4> QED
        BY <1>8, <3>2, <4>1 DEF BlockPlaced, line
    <3> QED
      BY <1>1, <1>5, <2>1, <3>1, <3>4 DEF BlocksTell, after, L, open
  <2> QED
    BY <2>2, <2>3
<1> QED
  BY <1>7, <1>8

(* The blocks tell all lines.                                              *)
LEMMA BlocksTellAll ==
  ASSUME markdown \in Seq(LineSet)
  PROVE  BlocksTell(Blocks, Len(markdown))
<1> DEFINE N == Len(markdown)  f == BlocksUpTo
           P == {n \in 0..N : BlocksTell(f[n], n)}
<1>1. N \in Nat /\ f[0] = <<BlockFrom(0)>> /\ \A n \in 1..N : f[n] = NextBlocks(f[n - 1], n)
  <2>1. N \in Nat
    OBVIOUS
  <2> QED
    BY <2>1, BlocksUnfold
<1>2. 0 \in P
  <2> DEFINE block == BlockFrom(0)  blocks == <<block>>
  <2>1. block \in BlockShape /\ block.start = 0 /\ block.lines = <<>>
    BY DEF BlockFrom, BlockShape
  <2>2. BlockPlaced(block, 0)
    BY <2>1 DEF BlockPlaced
  <2> HIDE DEF block
  <2>3. blocks \in Seq(BlockShape) /\ Len(blocks) = 1 /\ DOMAIN blocks = {1} /\ blocks[1] = block
    BY <2>1
  <2>4. LinesOf(blocks) = Append(<<>>, <<>>)
    <3>1. LinesOf(blocks) = [k \in {1} |-> <<>>]
      BY <2>1, <2>3 DEF LinesOf
    <3>2. Append(<<>>, <<>>) = [k \in {1} |-> <<>>]
      OBVIOUS
    <3> QED
      BY <3>1, <3>2
  <2>5. Flat(LinesOf(blocks)) = <<>>
    <3>1. <<>> \in Seq(Seq(LineSet)) /\ <<>> \in Seq(LineSet)
      OBVIOUS
    <3>2. Flat(Append(<<>>, <<>>)) = Flat(<<>>) \o <<>>
      BY <3>1, FlatAppend
    <3>3. <<>> \o <<>> = <<>>
      OBVIOUS
    <3> QED
      BY <2>4, <3>2, <3>3, FlatEmpty
  <2>6. Only(SubSeq(markdown, 1, 0), Solid) = <<>>
    <3>1. SubSeq(markdown, 1, 0) = <<>>
      OBVIOUS
    <3>2. <<>> \in Seq(LineSet) /\ Text(1) \in LineSet
      BY DEF LineSet
    <3> QED
      BY <3>1, <3>2, OnlyAppend
  <2> HIDE DEF blocks
  <2>7. BlocksTell(blocks, 0)
    <3>1. blocks # <<>> /\ BlockPlaced(blocks[Len(blocks)], 0)
      BY <2>2, <2>3
    <3>2. \A k \in DOMAIN blocks : blocks[k].lines # <<>> => BlockPlaced(blocks[k], 0)
      BY <2>1, <2>3
    <3>3. Flat(LinesOf(blocks)) = Only(SubSeq(markdown, 1, 0), Solid)
      BY <2>5, <2>6
    <3>4. blocks \in Seq(BlockShape)
      BY <2>3
    <3> QED
      BY <3>1, <3>2, <3>3, <3>4 DEF BlocksTell
  <2>8. f[0] = blocks
    BY <1>1 DEF blocks, block
  <2> QED
    BY <1>1, <2>7, <2>8
<1>3. ASSUME NEW n \in P, n < N PROVE n + 1 \in P
  <2>1. n \in Nat /\ n + 1 \in 1..N /\ n + 1 \in 0..N /\ n + 1 - 1 = n
    BY <1>1, <1>3
  <2>2. f[n + 1] = NextBlocks(f[n], n + 1)
    BY <1>1, <2>1
  <2>3. BlocksTell(f[n], n + 1 - 1)
    BY <2>1
  <2> HIDE DEF f
  <2>4. BlocksTell(NextBlocks(f[n], n + 1), n + 1)
    BY <2>1, <2>3, BlocksStep
  <2> QED
    BY <2>1, <2>2, <2>4
<1> HIDE DEF f
<1>4. P = 0..N
  <2>1. P \in SUBSET (0..N)
    OBVIOUS
  <2> HIDE DEF P, N
  <2> QED
    BY <1>1, <1>2, <1>3, <2>1, Counting
<1>5. BlocksTell(f[N], N)
  BY <1>1, <1>4
<1> QED
  BY <1>5 DEF Blocks, f

-----------------------------------------------------------------------------
(* The headings that enclose the lines before offset n: those with a level *)
(* below that of each heading after them.                                  *)
HeadingAt(i) == markdown[i + 1].kind = "heading"
LevelAt(i) == markdown[i + 1].level
Encloses(i, n) ==
  HeadingAt(i) /\ \A j \in (i + 1)..(n - 1) : HeadingAt(j) => LevelAt(i) < LevelAt(j)
Enclosing(n) == {i \in 0..(n - 1) : Encloses(i, n)}

Entry == [level : 1..MaxLevel, line : Nat]
Piece == [level : 0..MaxLevel, start : Nat, path : Seq(Nat), body : Seq(LineSet), page : 0..2]

SecTyped ==
  /\ markdown \in Seq(LineSet) /\ Len(markdown) <= MaxLength /\ pageMap \in PageMaps
  /\ lineNo \in -1..Len(markdown)
  /\ headings \in Seq(Entry) /\ preamble \in Seq(LineSet) /\ sections \in Seq(Piece)
  /\ lineNo = -1 => headings = <<>> /\ preamble = <<>> /\ sections = <<>>

(* The stack holds the headings that enclose the next line, outermost      *)
(* first.                                                                  *)
LinesIn(stack) == {stack[k].line : k \in DOMAIN stack}
StackInv ==
  /\ \A k \in DOMAIN headings :
       headings[k].line \in 0..(lineNo - 1) /\ headings[k].level = LevelAt(headings[k].line)
  /\ \A k, m \in DOMAIN headings : k < m => headings[k].level < headings[m].level
  /\ LinesIn(headings) = Enclosing(lineNo)

(* The sections tell the texts read so far; before a heading they are kept.*)
Bodies(pieces) == [k \in DOMAIN pieces |-> pieces[k].body]
TextInv ==
  /\ headings = <<>> =>
       /\ sections = <<>> /\ preamble = SubSeq(markdown, 1, lineNo)
       /\ \A i \in 0..(lineNo - 1) : ~HeadingAt(i)
  /\ headings # <<>> =>
       /\ sections # <<>>
       /\ Flat(Bodies(sections)) = PlainText(SubSeq(markdown, 1, lineNo))

(* Each section has the page of its start and the path that encloses it,   *)
(* and each heading read has its section.                                  *)
PiecePlaced(s) ==
  /\ s.start < lineNo /\ s.page = PageFor(s.start)
  /\ s.level > 0 => {s.path[n] : n \in DOMAIN s.path} = Enclosing(s.start + 1)
PlacesInv ==
  /\ \A k \in DOMAIN sections : PiecePlaced(sections[k])
  /\ \A k, m \in DOMAIN sections : k < m => sections[k].start <= sections[m].start
  /\ {sections[k].start : k \in {n \in DOMAIN sections : sections[n].level > 0}}
       = {i \in 0..(lineNo - 1) : HeadingAt(i)}

SectionsInv == SecTyped /\ StackInv /\ TextInv /\ PlacesInv

-----------------------------------------------------------------------------
LEMMA SecInit == SectionsInit => SectionsInv
<1> SUFFICES ASSUME SectionsInit PROVE SectionsInv
  OBVIOUS
<1>1. /\ markdown = <<>> /\ pageMap = <<>> /\ lineNo = -1
      /\ headings = <<>> /\ preamble = <<>> /\ sections = <<>>
  BY DEF SectionsInit
<1>2. Len(markdown) = 0 /\ DOMAIN headings = {} /\ DOMAIN sections = {} /\ 0..(lineNo - 1) = {}
  BY <1>1
<1>3. SecTyped
  <2>1. markdown \in Seq(LineSet) /\ headings \in Seq(Entry) /\ preamble \in Seq(LineSet)
        /\ sections \in Seq(Piece)
    BY <1>1
  <2>2. pageMap \in PageMaps /\ Len(markdown) <= MaxLength /\ lineNo \in -1..Len(markdown)
    BY <1>1, <1>2, SectionsAssumption DEF PageMaps
  <2> QED
    BY <1>1, <2>1, <2>2 DEF SecTyped
<1>4. StackInv
  BY <1>2 DEF StackInv, LinesIn, Enclosing
<1>5. SubSeq(markdown, 1, lineNo) = <<>>
  BY <1>1
<1>6. TextInv
  BY <1>1, <1>2, <1>5 DEF TextInv
<1>7. PlacesInv
  BY <1>2 DEF PlacesInv
<1> QED
  BY <1>3, <1>4, <1>6, <1>7 DEF SectionsInv

(* A document is given.                                                    *)
LEMMA SecGiven == SectionsInv /\ GiveDocument => SectionsInv'
<1> SUFFICES ASSUME SectionsInv, GiveDocument PROVE SectionsInv'
  OBVIOUS
<1>1. headings' = <<>> /\ preamble' = <<>> /\ sections' = <<>> /\ lineNo' = 0
  BY DEF SectionsInv, SecTyped, GiveDocument
<1>2. PICK n \in 1..MaxLength : markdown' \in [1..n -> LineSet]
  BY DEF GiveDocument
<1>3. markdown' \in Seq(LineSet) /\ Len(markdown') = n /\ n \in Nat
  BY <1>2
<1>4. DOMAIN headings' = {} /\ DOMAIN sections' = {} /\ 0..(lineNo' - 1) = {}
  BY <1>1
<1>5. SecTyped'
  <2>1. headings' \in Seq(Entry) /\ preamble' \in Seq(LineSet) /\ sections' \in Seq(Piece)
    BY <1>1
  <2>2. Len(markdown') <= MaxLength /\ lineNo' \in -1..Len(markdown') /\ lineNo' # -1
    BY <1>1, <1>2, <1>3, SectionsAssumption
  <2>3. pageMap' \in PageMaps
    BY DEF GiveDocument
  <2> QED
    BY <1>3, <2>1, <2>2, <2>3 DEF SecTyped, PageMaps, PageStarts
<1>6. StackInv'
  BY <1>4 DEF StackInv, LinesIn, Enclosing
<1>7. SubSeq(markdown', 1, lineNo') = <<>>
  BY <1>1, <1>3
<1>8. TextInv'
  BY <1>1, <1>4, <1>7 DEF TextInv
<1>9. PlacesInv'
  BY <1>4 DEF PlacesInv
<1> QED
  BY <1>5, <1>6, <1>8, <1>9 DEF SectionsInv

(* What a line more does not change: the lines themselves and the headings *)
(* that enclose an earlier line.                                           *)
LEMMA Remains ==
  ASSUME UNCHANGED <<markdown, pageMap>>
  PROVE  /\ \A i : HeadingAt(i)' <=> HeadingAt(i)
         /\ \A i : LevelAt(i)' = LevelAt(i)
         /\ \A n : Enclosing(n)' = Enclosing(n)
         /\ \A o : PageFor(o)' = PageFor(o)
<1>1. (\A i : HeadingAt(i)' <=> HeadingAt(i)) /\ (\A i : LevelAt(i)' = LevelAt(i))
  BY DEF HeadingAt, LevelAt
<1>2. \A n : Enclosing(n)' = Enclosing(n)
  BY DEF Enclosing, Encloses, HeadingAt, LevelAt
<1>3. \A o : PageFor(o)' = PageFor(o)
  BY DEF PageFor, Begun, LastBegun
<1> QED
  BY <1>1, <1>2, <1>3

(* The stack that a heading leaves open: the headings of a smaller level.  *)
LEMMA OpenIsPrefix ==
  ASSUME NEW stack \in Seq(Entry), NEW level \in Nat,
         \A k, m \in DOMAIN stack : k < m => stack[k].level < stack[m].level
  PROVE  \E n \in 0..Len(stack) :
           /\ Open(stack, level) = SubSeq(stack, 1, n)
           /\ \A k \in 1..Len(stack) : k <= n <=> stack[k].level < level
<1> DEFINE N == Len(stack)
           kept == {n \in 0..N : n = 0 \/ stack[n].level < level}
           most == CHOOSE n \in kept : \A m \in kept : m <= n
           T == {N - n : n \in kept}
<1>1. N \in Nat /\ DOMAIN stack = 1..N /\ \A k \in 1..N : stack[k].level \in Nat
  <2>1. N \in Nat /\ DOMAIN stack = 1..N /\ \A k \in 1..N : stack[k] \in Entry
    OBVIOUS
  <2>2. MaxLevel \in Nat
    BY SectionsAssumption
  <2>3. \A e \in Entry : e.level \in Nat
    BY <2>2 DEF Entry
  <2> QED
    BY <2>1, <2>3
<1>2. T \in SUBSET Nat /\ N \in T
  <2>1. 0 \in kept /\ kept \in SUBSET (0..N) /\ N - 0 = N
    BY <1>1
  <2> HIDE DEF kept, N
  <2>2. \A n \in kept : N - n \in Nat
    BY <1>1, <2>1
  <2> QED
    BY <2>1, <2>2
<1>3. \E n \in kept : \A m \in kept : m <= n
  <2>1. PICK t \in T : \A u \in T : t <= u
    <3> HIDE DEF T
    <3>1. T # {}
      BY <1>2
    <3> QED
      BY <1>2, <3>1, LeastExists
  <2>2. PICK n \in kept : t = N - n
    OBVIOUS
  <2>3. \A m \in kept : N - m \in T
    OBVIOUS
  <2>4. \A m \in kept : m \in Nat
    OBVIOUS
  <2>5. \A m \in kept : t <= N - m
    BY <2>1, <2>3
  <2> HIDE DEF kept, T
  <2>6. \A m \in kept : m <= n
    BY <1>1, <2>2, <2>4, <2>5
  <2> QED
    BY <2>6
<1>4. most \in kept /\ \A m \in kept : m <= most
  <2> HIDE DEF kept
  <2> QED
    BY <1>3, Zenon
<1>5. Open(stack, level) = SubSeq(stack, 1, most)
  BY DEF Open
<1> HIDE DEF most
<1>6. most \in 0..N /\ (most = 0 \/ stack[most].level < level)
  BY <1>4
<1>7. \A k \in 1..N : k <= most <=> stack[k].level < level
  <2> TAKE k \in 1..N
  <2>1. CASE k <= most
    <3>1. most \in 1..N /\ stack[most].level < level
      BY <1>1, <1>6, <2>1
    <3>2. k = most \/ stack[k].level < stack[most].level
      BY <1>1, <2>1, <3>1
    <3> QED
      BY <1>1, <2>1, <3>1, <3>2
  <2>2. CASE ~(k <= most)
    <3>1. k \notin kept
      BY <1>4, <2>2
    <3> QED
      BY <1>1, <2>2, <3>1
  <2> QED
    BY <2>1, <2>2
<1> QED
  BY <1>5, <1>6, <1>7

(* A heading encloses the lines after it, and what is left open of the     *)
(* headings that enclose it.                                               *)
LEMMA EnclosingHeading ==
  ASSUME NEW n \in Nat, HeadingAt(n), \A i \in 0..n : HeadingAt(i) => LevelAt(i) \in Nat
  PROVE  Enclosing(n + 1) = {i \in Enclosing(n) : LevelAt(i) < LevelAt(n)} \cup {n}
<1>1. \A i \in Enclosing(n) : LevelAt(i) < LevelAt(n) => i \in Enclosing(n + 1)
  <2> SUFFICES ASSUME NEW i \in Enclosing(n), LevelAt(i) < LevelAt(n)
               PROVE  i \in Enclosing(n + 1)
    OBVIOUS
  <2>1. i \in 0..(n - 1) /\ Encloses(i, n)
    BY DEF Enclosing
  <2>2. \A j \in (i + 1)..n : j \in (i + 1)..(n - 1) \/ j = n
    BY <2>1
  <2>3. Encloses(i, n + 1)
    BY <2>1, <2>2 DEF Encloses
  <2> QED
    BY <2>1, <2>3 DEF Enclosing
<1>2. n \in Enclosing(n + 1)
  <2>1. n \in 0..(n + 1 - 1) /\ (n + 1)..(n + 1 - 1) = {}
    OBVIOUS
  <2> QED
    BY <2>1 DEF Enclosing, Encloses
<1>3. \A i \in Enclosing(n + 1) : i = n \/ (i \in Enclosing(n) /\ LevelAt(i) < LevelAt(n))
  <2> SUFFICES ASSUME NEW i \in Enclosing(n + 1), i # n
               PROVE  i \in Enclosing(n) /\ LevelAt(i) < LevelAt(n)
    OBVIOUS
  <2>1. i \in 0..n /\ Encloses(i, n + 1)
    BY DEF Enclosing
  <2>2. i \in 0..(n - 1) /\ n \in (i + 1)..(n + 1 - 1)
    BY <2>1
  <2>3. \A j \in (i + 1)..(n - 1) : j \in (i + 1)..(n + 1 - 1)
    BY <2>1
  <2>4. Encloses(i, n) /\ LevelAt(i) < LevelAt(n)
    BY <2>1, <2>2, <2>3 DEF Encloses
  <2> QED
    BY <2>2, <2>4 DEF Enclosing
<1> QED
  BY <1>1, <1>2, <1>3

LEMMA EnclosingLine ==
  ASSUME NEW n \in Nat, ~HeadingAt(n)
  PROVE  Enclosing(n + 1) = Enclosing(n)
<1>1. \A i \in 0..(n - 1) : i \in 0..(n + 1 - 1)
  OBVIOUS
<1>2. \A i \in 0..(n + 1 - 1) : i = n \/ i \in 0..(n - 1)
  OBVIOUS
<1>3. \A i \in 0..(n - 1) : Encloses(i, n) <=> Encloses(i, n + 1)
  <2> TAKE i \in 0..(n - 1)
  <2>1. \A j \in (i + 1)..(n + 1 - 1) : j \in (i + 1)..(n - 1) \/ j = n
    OBVIOUS
  <2>2. \A j \in (i + 1)..(n - 1) : j \in (i + 1)..(n + 1 - 1)
    OBVIOUS
  <2> QED
    BY <2>1, <2>2 DEF Encloses
<1>4. ~Encloses(n, n + 1)
  BY DEF Encloses
<1> QED
  BY <1>1, <1>2, <1>3, <1>4 DEF Enclosing

(* The line that a step reads.                                             *)
LEMMA LineRead ==
  ASSUME SecTyped, lineNo \in 0..(Len(markdown) - 1)
  PROVE  /\ lineNo \in Nat /\ lineNo + 1 \in 1..Len(markdown) /\ Current \in LineSet
         /\ Len(markdown) \in Nat /\ lineNo + 1 - 1 = lineNo /\ Current = markdown[lineNo + 1]
         /\ Current.kind = "heading" <=> HeadingAt(lineNo)
         /\ Current.level = LevelAt(lineNo)
         /\ Current.kind = "heading" => Current.level \in 1..MaxLevel
<1>1. markdown \in Seq(LineSet)
  BY DEF SecTyped
<1>2. lineNo \in Nat /\ lineNo + 1 \in 1..Len(markdown) /\ Len(markdown) \in Nat /\ lineNo + 1 - 1 = lineNo
  BY <1>1
<1>3. Current = markdown[lineNo + 1]
  BY DEF Current
<1>4. Current \in LineSet
  BY <1>1, <1>2, <1>3
<1>5. Current.kind = "heading" => Current.level \in 1..MaxLevel
  BY <1>4, MarkdownLineFacts
<1> QED
  BY <1>2, <1>3, <1>4, <1>5 DEF HeadingAt, LevelAt

LEMMA LevelsAreNumbers ==
  ASSUME SecTyped
  PROVE  \A i \in 0..(Len(markdown) - 1) : HeadingAt(i) => LevelAt(i) \in Nat
<1> SUFFICES ASSUME NEW i \in 0..(Len(markdown) - 1), HeadingAt(i) PROVE LevelAt(i) \in Nat
  OBVIOUS
<1>1. markdown \in Seq(LineSet)
  BY DEF SecTyped
<1>2. i + 1 \in 1..Len(markdown)
  BY <1>1
<1>3. markdown[i + 1] \in LineSet
  BY <1>1, <1>2
<1>4. LevelAt(i) \in 1..MaxLevel
  BY <1>3, MarkdownLineFacts DEF HeadingAt, LevelAt
<1> QED
  BY <1>4, SectionsAssumption

(* The stack after a heading.                                              *)
LEMMA StackAfterHeading ==
  ASSUME SecTyped, StackInv, lineNo \in 0..(Len(markdown) - 1), Current.kind = "heading",
         NEW stack,
         stack = Append(Open(headings, Current.level), [level |-> Current.level, line |-> lineNo])
  PROVE  /\ stack \in Seq(Entry) /\ stack # <<>>
         /\ \A k \in DOMAIN stack :
              stack[k].line \in 0..lineNo /\ stack[k].level = LevelAt(stack[k].line)
         /\ \A k, m \in DOMAIN stack : k < m => stack[k].level < stack[m].level
         /\ LinesIn(stack) = Enclosing(lineNo + 1)
<1> DEFINE level == Current.level  entry == [level |-> level, line |-> lineNo]  N == Len(headings)
<1>1. /\ lineNo \in Nat /\ level \in 1..MaxLevel /\ HeadingAt(lineNo) /\ level = LevelAt(lineNo)
  BY LineRead
<1>2. level \in Nat /\ entry \in Entry /\ entry.level = level /\ entry.line = lineNo
  BY <1>1, SectionsAssumption DEF Entry
<1>3. headings \in Seq(Entry) /\ N \in Nat /\ DOMAIN headings = 1..N
      /\ \A k \in 1..N : headings[k] \in Entry
  BY DEF SecTyped
<1>4. /\ \A k \in 1..N :
           headings[k].line \in 0..(lineNo - 1) /\ headings[k].level = LevelAt(headings[k].line)
      /\ \A k, m \in 1..N : k < m => headings[k].level < headings[m].level
      /\ LinesIn(headings) = Enclosing(lineNo)
  BY <1>3 DEF StackInv
<1> HIDE DEF level, N
<1>5. PICK n \in 0..N : /\ Open(headings, level) = SubSeq(headings, 1, n)
                        /\ \A k \in 1..N : k <= n <=> headings[k].level < level
  <2>1. \A k, m \in DOMAIN headings : k < m => headings[k].level < headings[m].level
    BY <1>3, <1>4
  <2> QED
    BY <1>2, <1>3, <2>1, OpenIsPrefix DEF N
<1> HIDE DEF entry
<1>6. stack = Append(SubSeq(headings, 1, n), entry)
  BY <1>5 DEF level, entry
<1>7. /\ stack \in Seq(Entry) /\ DOMAIN stack = 1..(n + 1) /\ stack[n + 1] = entry
      /\ \A k \in 1..n : k \in 1..N /\ stack[k] = headings[k]
  <2> DEFINE sub == SubSeq(headings, 1, n)
  <2>1. sub \in Seq(Entry) /\ Len(sub) = n /\ \A k \in 1..n : k \in 1..N /\ sub[k] = headings[k]
    BY <1>3, <1>5 DEF N
  <2> HIDE DEF sub
  <2>2. stack = Append(sub, entry)
    BY <1>6 DEF sub
  <2>3. /\ stack \in Seq(Entry) /\ Len(stack) = Len(sub) + 1 /\ stack[Len(sub) + 1] = entry
        /\ \A k \in 1..Len(sub) : stack[k] = sub[k]
    <3> DEFINE added == Append(sub, entry)
    <3>1. sub \in Seq(Entry) /\ entry \in Entry
      BY <1>2, <2>1
    <3>2. /\ added \in Seq(Entry) /\ Len(added) = Len(sub) + 1 /\ added[Len(sub) + 1] = entry
          /\ \A k \in 1..Len(sub) : added[k] = sub[k]
      BY <3>1, AppendProperties
    <3> QED
      BY <2>2, <3>2
  <2>4. DOMAIN stack = 1..(n + 1)
    BY <2>1, <2>3
  <2> QED
    BY <2>1, <2>3, <2>4
<1>8. n \in Nat /\ n + 1 \in 1..(n + 1) /\ \A k \in 1..(n + 1) : k \in 1..n \/ k = n + 1
  BY <1>3
<1>9. \A k \in 1..n : headings[k].level < level
  BY <1>5, <1>7
<1>10. stack # <<>>
  <2>1. n + 1 \in DOMAIN stack
    BY <1>7, <1>8
  <2> QED
    BY <2>1
<1>11. \A k \in DOMAIN stack :
         stack[k].line \in 0..lineNo /\ stack[k].level = LevelAt(stack[k].line)
  <2> SUFFICES ASSUME NEW k \in 1..(n + 1)
               PROVE  stack[k].line \in 0..lineNo /\ stack[k].level = LevelAt(stack[k].line)
    BY <1>7
  <2>1. CASE k = n + 1
    BY <1>1, <1>2, <1>7, <2>1
  <2>2. CASE k \in 1..n
    <3>1. stack[k].line \in 0..(lineNo - 1) /\ stack[k].level = LevelAt(stack[k].line)
      BY <1>4, <1>7, <2>2
    <3>2. \A x \in 0..(lineNo - 1) : x \in 0..lineNo
      BY <1>1
    <3> QED
      BY <3>1, <3>2
  <2> QED
    BY <1>8, <2>1, <2>2
<1>12. \A k, m \in DOMAIN stack : k < m => stack[k].level < stack[m].level
  <2> SUFFICES ASSUME NEW k \in 1..(n + 1), NEW m \in 1..(n + 1), k < m
               PROVE  stack[k].level < stack[m].level
    BY <1>7
  <2>1. k \in 1..n
    BY <1>8
  <2>2. CASE m = n + 1
    BY <1>2, <1>7, <1>9, <2>1, <2>2
  <2>3. CASE m \in 1..n
    BY <1>4, <1>7, <2>1, <2>3
  <2> QED
    BY <1>8, <2>2, <2>3
<1>13. LinesIn(stack) = Enclosing(lineNo + 1)
  <2>1. Enclosing(lineNo + 1) = {i \in Enclosing(lineNo) : LevelAt(i) < level} \cup {lineNo}
    <3>1. \A i \in 0..lineNo : HeadingAt(i) => LevelAt(i) \in Nat
      <4>1. \A i \in 0..lineNo : i \in 0..(Len(markdown) - 1)
        BY LineRead
      <4> QED
        BY <4>1, LevelsAreNumbers
    <3> QED
      BY <1>1, <3>1, EnclosingHeading
  <2>2. \A i \in LinesIn(stack) : i = lineNo \/ (i \in Enclosing(lineNo) /\ LevelAt(i) < level)
    <3> SUFFICES ASSUME NEW k \in 1..(n + 1)
                 PROVE  stack[k].line = lineNo
                          \/ (stack[k].line \in Enclosing(lineNo) /\ LevelAt(stack[k].line) < level)
      BY <1>7 DEF LinesIn
    <3>1. CASE k = n + 1
      BY <1>2, <1>7, <3>1
    <3>2. CASE k \in 1..n
      <4>1. stack[k] = headings[k] /\ k \in DOMAIN headings
        BY <1>3, <1>7, <3>2
      <4>2. headings[k].line \in LinesIn(headings)
        BY <4>1 DEF LinesIn
      <4> QED
        BY <1>3, <1>4, <1>9, <3>2, <4>1, <4>2
    <3> QED
      BY <1>8, <3>1, <3>2
  <2>3. lineNo \in LinesIn(stack)
    BY <1>2, <1>7, <1>8 DEF LinesIn
  <2>4. ASSUME NEW i \in Enclosing(lineNo), LevelAt(i) < level PROVE i \in LinesIn(stack)
    <3>1. PICK k \in 1..N : i = headings[k].line
      BY <1>3, <1>4 DEF LinesIn
    <3>2. k <= n
      BY <1>4, <1>5, <2>4, <3>1
    <3>3. k \in 1..n /\ k \in 1..(n + 1)
      BY <1>8, <3>1, <3>2
    <3>4. stack[k].line = i
      BY <1>7, <3>1, <3>3
    <3> QED
      BY <1>7, <3>3, <3>4 DEF LinesIn
  <2> QED
    BY <2>1, <2>2, <2>3, <2>4
<1> QED
  BY <1>7, <1>10, <1>11, <1>12, <1>13

LEMMA BodiesTyped ==
  ASSUME NEW pieces \in Seq(Piece)
  PROVE  /\ Bodies(pieces) \in Seq(Seq(LineSet)) /\ Len(Bodies(pieces)) = Len(pieces)
         /\ Len(pieces) \in Nat /\ DOMAIN pieces = 1..Len(pieces)
         /\ \A k \in 1..Len(pieces) : pieces[k] \in Piece /\ Bodies(pieces)[k] = pieces[k].body
<1>1. DOMAIN pieces = 1..Len(pieces) /\ Len(pieces) \in Nat
      /\ \A k \in 1..Len(pieces) : pieces[k] \in Piece
  OBVIOUS
<1>2. \A k \in 1..Len(pieces) : pieces[k].body \in Seq(LineSet)
  BY <1>1 DEF Piece
<1>3. Bodies(pieces) = [k \in 1..Len(pieces) |-> pieces[k].body]
  BY <1>1 DEF Bodies
<1> HIDE DEF Bodies
<1> QED
  BY <1>1, <1>2, <1>3

(* A further section without lines tells no more.                          *)
LEMMA PieceMore ==
  ASSUME NEW base \in Seq(Piece), NEW new \in Piece, new.body = <<>>
  PROVE  /\ Append(base, new) \in Seq(Piece) /\ base \o <<new>> = Append(base, new)
         /\ Len(Append(base, new)) = Len(base) + 1 /\ Append(base, new)[Len(base) + 1] = new
         /\ \A k \in 1..Len(base) : Append(base, new)[k] = base[k]
         /\ Flat(Bodies(Append(base, new))) = Flat(Bodies(base))
<1> DEFINE after == Append(base, new)  N == Len(base)
<1>1. /\ after \in Seq(Piece) /\ Len(after) = N + 1 /\ after[N + 1] = new
      /\ \A k \in 1..N : after[k] = base[k]
  BY AppendProperties
<1>2. base \o <<new>> = after
  OBVIOUS
<1> HIDE DEF after
<1> DEFINE a == Bodies(after)  b == Bodies(base)  c == Append(b, <<>>)
<1>3. /\ b \in Seq(Seq(LineSet)) /\ Len(b) = N /\ N \in Nat /\ \A k \in 1..N : b[k] = base[k].body
  BY BodiesTyped
<1>4. /\ a \in Seq(Seq(LineSet)) /\ Len(a) = N + 1 /\ \A k \in 1..(N + 1) : a[k] = after[k].body
  BY <1>1, BodiesTyped
<1> HIDE DEF a, b, N
<1>5. c \in Seq(Seq(LineSet)) /\ Len(c) = N + 1 /\ c[N + 1] = <<>> /\ \A k \in 1..N : c[k] = b[k]
  <2>1. <<>> \in Seq(LineSet)
    OBVIOUS
  <2> QED
    BY <1>3, <2>1, AppendProperties
<1> HIDE DEF c
<1>6. \A k \in 1..(N + 1) : a[k] = c[k]
  <2>1. \A k \in 1..(N + 1) : k \in 1..N \/ k = N + 1
    BY <1>3
  <2> QED
    BY <1>1, <1>3, <1>4, <1>5, <2>1
<1>7. a = c
  BY <1>3, <1>4, <1>5, <1>6, SeqEqual
<1>8. Flat(c) = Flat(b) \o <<>>
  <2>1. <<>> \in Seq(LineSet)
    OBVIOUS
  <2> QED
    BY <1>3, <2>1, FlatAppend DEF c
<1>9. Flat(b) \in Seq(LineSet)
  BY <1>3, FlatTyped
<1>10. Flat(a) = Flat(b)
  BY <1>7, <1>8, <1>9
<1> QED
  BY <1>1, <1>2, <1>10 DEF after, a, b, N

(* The texts that build_sections takes over as one section.                *)
LEMMA WholeText ==
  ASSUME NEW lines \in Seq(LineSet), pageMap \in PageMaps, NEW s,
         s = [TitleOnly(0) EXCEPT !.body = PlainText(lines)]
  PROVE  /\ s \in Piece /\ s.start = 0 /\ s.level = 0 /\ s.page = PageFor(0)
         /\ s.body = PlainText(lines) /\ PlainText(lines) \in Seq(LineSet)
         /\ <<s>> \in Seq(Piece) /\ Len(<<s>>) = 1 /\ DOMAIN <<s>> = {1} /\ <<s>>[1] = s
         /\ Flat(Bodies(<<s>>)) = PlainText(lines)
<1> DEFINE body == PlainText(lines)  page == PageFor(0)
<1>1. body \in Seq(LineSet)
  <2>1. Blank \in LineSet
    BY DEF LineSet
  <2> QED
    BY <2>1, OnlyAppend DEF PlainText
<1>2. page \in 0..2
  BY PagesGrow
<1> HIDE DEF body, page
<1>3. s = [level |-> 0, start |-> 0, path |-> <<>>, body |-> body, page |-> page]
  BY DEF TitleOnly, Section, body, page
<1>4. s \in Piece /\ s.start = 0 /\ s.level = 0 /\ s.page = page /\ s.body = body
  <2>1. <<>> \in Seq(Nat) /\ 0 \in 0..MaxLevel
    BY SectionsAssumption
  <2>2. s.start = 0 /\ s.level = 0 /\ s.page = page /\ s.body = body
    BY <1>3
  <2>3. [level |-> 0, start |-> 0, path |-> <<>>, body |-> body, page |-> page]
          \in [level : 0..MaxLevel, start : Nat, path : Seq(Nat), body : Seq(LineSet), page : 0..2]
    BY <1>1, <1>2, <2>1
  <2> QED
    BY <1>3, <2>2, <2>3 DEF Piece
<1>5. <<s>> \in Seq(Piece) /\ Len(<<s>>) = 1 /\ DOMAIN <<s>> = {1} /\ <<s>>[1] = s
  BY <1>4
<1>6. Flat(Bodies(<<s>>)) = body
  <2> DEFINE one == <<s>>  b == Bodies(one)  c == Append(<<>>, body)
  <2>1. one \in Seq(Piece) /\ Len(one) = 1 /\ one[1].body = body
    BY <1>4, <1>5
  <2> HIDE DEF one
  <2>2. b \in Seq(Seq(LineSet)) /\ Len(b) = 1 /\ b[1] = body
    <3>1. b \in Seq(Seq(LineSet)) /\ Len(b) = Len(one)
      BY <2>1, BodiesTyped
    <3>2. \A k \in 1..Len(one) : b[k] = one[k].body
      BY <2>1, BodiesTyped
    <3> HIDE DEF b
    <3>3. 1 \in 1..Len(one)
      BY <2>1
    <3> QED
      BY <2>1, <3>1, <3>2, <3>3
  <2>3. <<>> \in Seq(Seq(LineSet)) /\ Len(<<>>) = 0
    OBVIOUS
  <2>4. c \in Seq(Seq(LineSet)) /\ Len(c) = 1 /\ c[1] = body
    BY <1>1, <2>3, AppendProperties
  <2> HIDE DEF b, c
  <2>5. \A k \in 1..Len(b) : b[k] = c[k]
    BY <2>2, <2>4
  <2>6. b = c
    BY <2>2, <2>4, <2>5, SeqEqual
  <2>7. Flat(c) = <<>> \o body
    BY <1>1, <2>3, FlatAppend, FlatEmpty DEF c
  <2>8. <<>> \o body = body
    BY <1>1
  <2> QED
    BY <2>6, <2>7, <2>8 DEF b, one
<1> QED
  BY <1>1, <1>4, <1>5, <1>6 DEF body, page

(* The sections before a heading: of the preamble, or those there are.     *)
Before == IF headings = <<>> THEN EmitPreamble ELSE sections

LEMMA BeforeHeading ==
  ASSUME SectionsInv, lineNo \in 0..(Len(markdown) - 1)
  PROVE  /\ Before \in Seq(Piece)
         /\ Flat(Bodies(Before)) = PlainText(SubSeq(markdown, 1, lineNo))
         /\ \A k \in DOMAIN Before : PiecePlaced(Before[k])
         /\ \A k, m \in DOMAIN Before : k < m => Before[k].start <= Before[m].start
         /\ {Before[k].start : k \in {n \in DOMAIN Before : Before[n].level > 0}}
              = {i \in 0..(lineNo - 1) : HeadingAt(i)}
<1>1. CASE headings # <<>>
  <2>1. Before = sections
    BY <1>1 DEF Before
  <2>2. /\ Before \in Seq(Piece)
        /\ Flat(Bodies(Before)) = PlainText(SubSeq(markdown, 1, lineNo))
    BY <1>1, <2>1 DEF SectionsInv, SecTyped, TextInv
  <2> QED
    BY <2>1, <2>2 DEF SectionsInv, PlacesInv
<1>2. CASE headings = <<>>
  <2> DEFINE s == [TitleOnly(0) EXCEPT !.body = PlainText(preamble)]
  <2>1. preamble \in Seq(LineSet) /\ pageMap \in PageMaps /\ preamble = SubSeq(markdown, 1, lineNo)
        /\ \A i \in 0..(lineNo - 1) : ~HeadingAt(i)
    BY <1>2 DEF SectionsInv, SecTyped, TextInv
  <2>2. {i \in 0..(lineNo - 1) : HeadingAt(i)} = {}
    BY <2>1
  <2>3. CASE PlainText(preamble) = <<>>
    <3>1. Before = <<>>
      BY <1>2, <2>3 DEF Before, EmitPreamble
    <3>2. DOMAIN Before = {} /\ Before \in Seq(Piece)
      BY <3>1
    <3>3. Bodies(Before) = <<>>
      BY <3>1 DEF Bodies
    <3>4. Flat(Bodies(Before)) = <<>>
      BY <3>3, FlatEmpty
    <3> QED
      BY <2>1, <2>2, <2>3, <3>2, <3>4
  <2>4. CASE PlainText(preamble) # <<>>
    <3>1. Before = <<s>>
      BY <1>2, <2>4 DEF Before, EmitPreamble
    <3>2. /\ s.start = 0 /\ s.level = 0 /\ s.page = PageFor(0)
          /\ <<s>> \in Seq(Piece) /\ DOMAIN <<s>> = {1} /\ <<s>>[1] = s
          /\ Flat(Bodies(<<s>>)) = PlainText(preamble)
      BY <2>1, WholeText
    <3>3. lineNo > 0
      <4> SUFFICES ASSUME ~(lineNo > 0) PROVE FALSE
        OBVIOUS
      <4>0. lineNo = 0 /\ SubSeq(markdown, 1, 0) = <<>>
        OBVIOUS
      <4>1. preamble = <<>>
        BY <2>1, <4>0
      <4>2. PlainText(<<>>) = <<>>
        <5>1. <<>> \in Seq(LineSet) /\ Blank \in LineSet
          BY DEF LineSet
        <5> QED
          BY <5>1, OnlyAppend DEF PlainText
      <4> QED
        BY <2>4, <4>1, <4>2
    <3> HIDE DEF s
    <3>4. PiecePlaced(s)
      BY <3>2, <3>3 DEF PiecePlaced
    <3> DEFINE one == <<s>>
    <3>5. /\ DOMAIN one = {1} /\ one[1] = s /\ one \in Seq(Piece)
          /\ Flat(Bodies(one)) = PlainText(preamble) /\ Before = one
      BY <3>1, <3>2
    <3> HIDE DEF one
    <3>6. \A k \in DOMAIN one : PiecePlaced(one[k])
      BY <3>4, <3>5
    <3>7. \A k, m \in DOMAIN one : k < m => one[k].start <= one[m].start
      BY <3>5
    <3>8. {one[k].start : k \in {n \in DOMAIN one : one[n].level > 0}} = {}
      BY <3>2, <3>5
    <3> QED
      BY <2>1, <2>2, <3>5, <3>6, <3>7, <3>8
  <2> QED
    BY <2>3, <2>4
<1> QED
  BY <1>1, <1>2

(* A heading is read.                                                      *)
LEMMA SecHeading == SectionsInv /\ ReadHeading => SectionsInv'
<1> SUFFICES ASSUME SectionsInv, ReadHeading PROVE SectionsInv'
  OBVIOUS
<1> DEFINE level == Current.level
           stack == Append(Open(headings, level), [level |-> level, line |-> lineNo])
           path == [k \in DOMAIN stack |-> stack[k].line]
           new == Section(level, lineNo, path, PageFor(lineNo))
           after == Append(Before, new)
           N == Len(Before)
<1>1. /\ lineNo \in 0..(Len(markdown) - 1) /\ Current.kind = "heading"
      /\ headings' = stack /\ sections' = Before \o <<new>> /\ lineNo' = lineNo + 1
      /\ UNCHANGED <<markdown, pageMap, preamble>>
  BY DEF ReadHeading, Before
<1>2. SecTyped /\ StackInv /\ TextInv /\ PlacesInv
  BY DEF SectionsInv
<1>3. /\ lineNo \in Nat /\ lineNo + 1 \in 1..Len(markdown) /\ Current \in LineSet
      /\ lineNo + 1 - 1 = lineNo /\ Current = markdown[lineNo + 1]
      /\ HeadingAt(lineNo) /\ level = LevelAt(lineNo) /\ level \in 1..MaxLevel
  BY <1>1, <1>2, LineRead
<1>4. /\ stack \in Seq(Entry) /\ stack # <<>>
      /\ \A k \in DOMAIN stack : stack[k].line \in 0..lineNo /\ stack[k].level = LevelAt(stack[k].line)
      /\ \A k, m \in DOMAIN stack : k < m => stack[k].level < stack[m].level
      /\ LinesIn(stack) = Enclosing(lineNo + 1)
  BY <1>1, <1>2, StackAfterHeading
<1>5. /\ \A i : HeadingAt(i)' <=> HeadingAt(i)
      /\ \A i : LevelAt(i)' = LevelAt(i)
      /\ \A n : Enclosing(n)' = Enclosing(n)
      /\ \A o : PageFor(o)' = PageFor(o)
  BY <1>1, Remains
<1> HIDE DEF level, stack
<1>6. path \in Seq(Nat) /\ {path[n] : n \in DOMAIN path} = Enclosing(lineNo + 1)
  <2>1. DOMAIN stack = 1..Len(stack) /\ Len(stack) \in Nat
    BY <1>4
  <2>2. \A k \in 1..Len(stack) : stack[k].line \in Nat
    BY <1>3, <1>4, <2>1
  <2>3. path \in Seq(Nat) /\ DOMAIN path = DOMAIN stack
    BY <2>1, <2>2
  <2>4. \A k \in DOMAIN stack : path[k] = stack[k].line
    OBVIOUS
  <2> HIDE DEF path
  <2>5. {path[n] : n \in DOMAIN path} = LinesIn(stack)
    BY <2>3, <2>4 DEF LinesIn
  <2> QED
    BY <1>4, <2>3, <2>5
<1> HIDE DEF path
<1>7. /\ new \in Piece /\ new.body = <<>> /\ new.start = lineNo /\ new.level = level
      /\ new.page = PageFor(lineNo) /\ new.path = path
  <2> DEFINE page == PageFor(lineNo)
  <2>1. page \in 0..2
    BY <1>2, <1>3, PagesGrow DEF SecTyped
  <2>2. level \in 0..MaxLevel /\ <<>> \in Seq(LineSet)
    BY <1>3, SectionsAssumption
  <2> HIDE DEF page
  <2>3. new = [level |-> level, start |-> lineNo, path |-> path, body |-> <<>>, page |-> page]
    BY DEF Section, page
  <2> HIDE DEF new
  <2>4. /\ new.body = <<>> /\ new.start = lineNo /\ new.level = level
        /\ new.page = page /\ new.path = path
    BY <2>3
  <2>5. new \in [level : 0..MaxLevel, start : Nat, path : Seq(Nat), body : Seq(LineSet), page : 0..2]
    BY <1>3, <1>6, <2>1, <2>2, <2>3
  <2> QED
    BY <2>4, <2>5 DEF Piece, page
<1> HIDE DEF new
<1>8. /\ Before \in Seq(Piece)
      /\ Flat(Bodies(Before)) = PlainText(SubSeq(markdown, 1, lineNo))
      /\ \A k \in DOMAIN Before : PiecePlaced(Before[k])
      /\ \A k, m \in DOMAIN Before : k < m => Before[k].start <= Before[m].start
      /\ {Before[k].start : k \in {n \in DOMAIN Before : Before[n].level > 0}}
           = {i \in 0..(lineNo - 1) : HeadingAt(i)}
  BY <1>1, BeforeHeading
<1>9. /\ after \in Seq(Piece) /\ sections' = after /\ Len(after) = N + 1 /\ after[N + 1] = new
      /\ \A k \in 1..N : after[k] = Before[k]
      /\ Flat(Bodies(after)) = Flat(Bodies(Before))
  BY <1>1, <1>7, <1>8, PieceMore
<1>10. /\ N \in Nat /\ DOMAIN Before = 1..N /\ DOMAIN after = 1..(N + 1) /\ N + 1 \in 1..(N + 1)
       /\ \A k \in 1..(N + 1) : k \in 1..N \/ k = N + 1
       /\ \A k \in 1..N : k \in 1..(N + 1)
  BY <1>8, <1>9
<1> HIDE DEF after, N
<1>11. SecTyped'
  <2>1. markdown' \in Seq(LineSet) /\ Len(markdown') <= MaxLength /\ pageMap' \in PageMaps
    BY <1>1, <1>2 DEF SecTyped
  <2>2. lineNo' \in -1..Len(markdown') /\ lineNo' # -1
    BY <1>1, <1>2, <1>3 DEF SecTyped
  <2>3. headings' \in Seq(Entry) /\ preamble' \in Seq(LineSet) /\ sections' \in Seq(Piece)
    BY <1>1, <1>2, <1>4, <1>9 DEF SecTyped
  <2> QED
    BY <2>1, <2>2, <2>3 DEF SecTyped, PageMaps, PageStarts
<1>12. StackInv'
  BY <1>1, <1>3, <1>4, <1>5 DEF StackInv, LinesIn
<1>13. TextInv'
  <2>1. Only(SubSeq(markdown, 1, lineNo + 1), {"text"}) = PlainText(SubSeq(markdown, 1, lineNo)) \o <<>>
    <3>1. markdown \in Seq(LineSet)
      BY <1>2 DEF SecTyped
    <3>2. One(Current, {"text"}) = <<>>
      BY <1>1 DEF One
    <3> DEFINE n == lineNo + 1  kinds == {"text"}
    <3>3. n \in 1..Len(markdown) /\ n - 1 = lineNo /\ markdown[n] = Current
      BY <1>3
    <3> HIDE DEF n, kinds
    <3>4. Only(SubSeq(markdown, 1, n), kinds)
            = Only(SubSeq(markdown, 1, n - 1), kinds) \o One(markdown[n], kinds)
      BY <3>1, <3>3, OnlyNext
    <3> QED
      BY <3>2, <3>3, <3>4 DEF PlainText, n, kinds
  <2>2. PlainText(SubSeq(markdown, 1, lineNo)) \in Seq(LineSet)
    <3>1. Bodies(Before) \in Seq(Seq(LineSet))
      BY <1>8, BodiesTyped
    <3> QED
      BY <1>8, <3>1, FlatTyped
  <2>3. Flat(Bodies(after)) = PlainText(SubSeq(markdown, 1, lineNo + 1))
    BY <1>8, <1>9, <2>1, <2>2 DEF PlainText
  <2>4. Flat(Bodies(sections))' = PlainText(SubSeq(markdown, 1, lineNo))'
    BY <1>1, <1>9, <2>3 DEF Bodies, PlainText
  <2>5. after # <<>>
    BY <1>10
  <2> QED
    BY <1>1, <1>4, <1>9, <2>4, <2>5 DEF TextInv
<1>14. PlacesInv'
  <2> DEFINE Fits(q) ==
        /\ q.start < lineNo + 1 /\ q.page = PageFor(q.start)
        /\ q.level > 0 => {q.path[n] : n \in DOMAIN q.path} = Enclosing(q.start + 1)
  <2>1. \A k \in DOMAIN after : Fits(after[k])
    <3>1. Fits(new)
      BY <1>3, <1>6, <1>7
    <3>2. ASSUME NEW k \in 1..N PROVE Fits(Before[k])
      <4> DEFINE q == Before[k]
      <4>1. PiecePlaced(q) /\ q \in Piece
        BY <1>8, <1>10
      <4>2. q.start \in Nat
        BY <4>1 DEF Piece
      <4> HIDE DEF q
      <4>3. q.start < lineNo + 1
        BY <1>3, <4>1, <4>2 DEF PiecePlaced
      <4>4. Fits(q)
        BY <4>1, <4>3 DEF PiecePlaced
      <4> QED
        BY <4>4 DEF q
    <3> HIDE DEF Fits
    <3> QED
      BY <1>9, <1>10, <3>1, <3>2
  <2>2. \A k \in DOMAIN sections' : PiecePlaced(sections[k])'
    <3> SUFFICES ASSUME NEW k \in DOMAIN sections' PROVE PiecePlaced(sections[k])'
      OBVIOUS
    <3>1. Fits(sections'[k])
      <4> HIDE DEF Fits
      <4>1. sections' = after
        BY <1>9
      <4> QED
        BY <2>1, <4>1
    <3>2. markdown' = markdown /\ pageMap' = pageMap /\ lineNo' = lineNo + 1
      BY <1>1
    <3> QED
      BY <3>1, <3>2 DEF PiecePlaced, PageFor, Begun, LastBegun, Enclosing, Encloses, HeadingAt, LevelAt
  <2> HIDE DEF Fits
  <2>3. \A k, m \in DOMAIN after : k < m => after[k].start <= after[m].start
    <3> SUFFICES ASSUME NEW k \in 1..(N + 1), NEW m \in 1..(N + 1), k < m
                 PROVE  after[k].start <= after[m].start
      BY <1>10
    <3>1. k \in 1..N
      BY <1>10
    <3>2. Before[k] \in Piece /\ after[k] = Before[k] /\ PiecePlaced(Before[k])
      BY <1>8, <1>9, <1>10, <3>1
    <3>3. CASE m = N + 1
      <4>1. Before[k].start \in Nat /\ Before[k].start < lineNo
        BY <3>2 DEF Piece, PiecePlaced
      <4> QED
        BY <1>3, <1>7, <1>9, <3>2, <3>3, <4>1
    <3>4. CASE m \in 1..N
      BY <1>8, <1>9, <1>10, <3>1, <3>4
    <3> QED
      BY <1>10, <3>3, <3>4
  <2>4. {after[k].start : k \in {n \in DOMAIN after : after[n].level > 0}}
          = {i \in 0..(lineNo + 1 - 1) : HeadingAt(i)}
    <3> DEFINE starts == {Before[k].start : k \in {n \in DOMAIN Before : Before[n].level > 0}}
               all == {after[k].start : k \in {n \in DOMAIN after : after[n].level > 0}}
    <3>1. new.level > 0
      BY <1>3, <1>7, SectionsAssumption
    <3>2. \A x \in all : x = lineNo \/ x \in starts
      BY <1>7, <1>9, <1>10
    <3>3. lineNo \in all
      BY <1>7, <1>9, <1>10, <3>1
    <3>4. \A x \in starts : x \in all
      BY <1>9, <1>10
    <3>5. starts = {i \in 0..(lineNo - 1) : HeadingAt(i)}
      BY <1>8
    <3> HIDE DEF starts, all
    <3>6. \A i \in 0..(lineNo + 1 - 1) : i = lineNo \/ i \in 0..(lineNo - 1)
      BY <1>3
    <3>7. lineNo \in 0..(lineNo + 1 - 1) /\ \A i \in 0..(lineNo - 1) : i \in 0..(lineNo + 1 - 1)
      BY <1>3
    <3>8. all = {i \in 0..(lineNo + 1 - 1) : HeadingAt(i)}
      BY <1>3, <3>2, <3>3, <3>4, <3>5, <3>6, <3>7
    <3> QED
      BY <3>8 DEF all
  <2>5. {sections'[k].start : k \in {n \in DOMAIN sections' : sections'[n].level > 0}}
          = {i \in 0..(lineNo' - 1) : HeadingAt(i)'}
    <3>1. markdown' = markdown /\ sections' = after /\ lineNo' = lineNo + 1
      BY <1>1, <1>9
    <3> DEFINE A == {after[k].start : k \in {n \in DOMAIN after : after[n].level > 0}}
               B == {sections'[k].start : k \in {n \in DOMAIN sections' : sections'[n].level > 0}}
               C == 0..(lineNo + 1 - 1)
               D == 0..(lineNo' - 1)
    <3>2. A = B /\ C = D
      <4>1. C = D
        BY <1>3, <3>1
      <4>2. A = B
        BY <3>1, Zenon
      <4> QED
        BY <4>1, <4>2
    <3>3. A = {i \in C : HeadingAt(i)}
      BY <2>4
    <3> HIDE DEF A, B, C, D
    <3>4. \A i : HeadingAt(i) <=> markdown[i + 1].kind = "heading"
      BY DEF HeadingAt
    <3>5. \A i : i \in B <=> i \in D /\ markdown[i + 1].kind = "heading"
      BY <3>2, <3>3, <3>4
    <3>6. \A i : i \in B <=> i \in D /\ markdown'[i + 1].kind = "heading"
      BY <3>1, <3>5
    <3>7. B = {i \in D : markdown'[i + 1].kind = "heading"}
      BY <3>6
    <3> QED
      BY <3>7 DEF B, D, HeadingAt
  <2>6. \A k, m \in DOMAIN sections' : k < m => sections'[k].start <= sections'[m].start
    BY <1>9, <2>3
  <2> QED
    BY <2>2, <2>5, <2>6 DEF PlacesInv
<1> QED
  BY <1>11, <1>12, <1>13, <1>14 DEF SectionsInv

(* A line that is no heading, of the preamble or of the open section.      *)
LEMMA OneLine ==
  ASSUME NEW l \in LineSet
  PROVE  PlainText(<<l>>) = One(l, {"text"}) /\ One(l, {"text"}) \in Seq(LineSet)
<1> DEFINE kinds == {"text"}  none == <<>>
<1>1. none \in Seq(LineSet) /\ <<l>> = Append(none, l)
  OBVIOUS
<1>2. One(l, kinds) \in Seq(LineSet)
  BY DEF One
<1>z. Only(<<>>, kinds) = <<>>
  BY <1>1, OnlyAppend
<1> HIDE DEF kinds, none
<1>3. Only(none, kinds) = <<>> /\ Only(Append(none, l), kinds) = Only(none, kinds) \o One(l, kinds)
  <2>1. Only(Append(none, l), kinds) = Only(none, kinds) \o One(l, kinds)
    BY <1>1, OnlyAppend
  <2> QED
    BY <1>z, <2>1 DEF none
<1>4. <<>> \o One(l, kinds) = One(l, kinds)
  BY <1>2
<1> QED
  BY <1>1, <1>2, <1>3, <1>4 DEF PlainText, kinds

LEMMA SecLine == SectionsInv /\ ReadLine => SectionsInv'
<1> SUFFICES ASSUME SectionsInv, ReadLine PROVE SectionsInv'
  OBVIOUS
<1>1. /\ lineNo \in 0..(Len(markdown) - 1) /\ Current.kind # "heading"
      /\ lineNo' = lineNo + 1 /\ UNCHANGED <<markdown, pageMap, headings>>
  BY DEF ReadLine
<1>2. SecTyped /\ StackInv /\ TextInv /\ PlacesInv
  BY DEF SectionsInv
<1>3. /\ lineNo \in Nat /\ lineNo + 1 \in 1..Len(markdown) /\ Current \in LineSet
      /\ lineNo + 1 - 1 = lineNo /\ Current = markdown[lineNo + 1] /\ ~HeadingAt(lineNo)
      /\ markdown \in Seq(LineSet)
  <2>1. markdown \in Seq(LineSet)
    BY <1>2 DEF SecTyped
  <2> QED
    BY <1>1, <1>2, <2>1, LineRead
<1>4. /\ SubSeq(markdown, 1, lineNo + 1) = Append(SubSeq(markdown, 1, lineNo), Current)
      /\ PlainText(SubSeq(markdown, 1, lineNo + 1))
           = PlainText(SubSeq(markdown, 1, lineNo)) \o PlainText(<<Current>>)
  <2> DEFINE n == lineNo + 1  kinds == {"text"}
  <2>1. n \in 1..Len(markdown) /\ n - 1 = lineNo /\ markdown[n] = Current
    BY <1>3
  <2> HIDE DEF n, kinds
  <2>2. /\ SubSeq(markdown, 1, n) = Append(SubSeq(markdown, 1, n - 1), markdown[n])
        /\ Only(SubSeq(markdown, 1, n), kinds)
             = Only(SubSeq(markdown, 1, n - 1), kinds) \o One(markdown[n], kinds)
    BY <1>3, <2>1, OnlyNext
  <2>3. PlainText(<<Current>>) = One(Current, kinds)
    BY <1>3, OneLine DEF kinds
  <2> QED
    BY <2>1, <2>2, <2>3 DEF PlainText, n, kinds
<1>5. Enclosing(lineNo + 1) = Enclosing(lineNo)
  BY <1>3, EnclosingLine
<1>6. \A i : (i \in 0..lineNo /\ HeadingAt(i)) <=> (i \in 0..(lineNo - 1) /\ HeadingAt(i))
  <2>1. \A i : i \in 0..lineNo <=> (i \in 0..(lineNo - 1) \/ i = lineNo)
    BY <1>3
  <2> QED
    BY <1>3, <2>1
<1>7. StackInv'
  <2>1. \A k \in DOMAIN headings :
          headings[k].line \in 0..lineNo /\ headings[k].level = LevelAt(headings[k].line)
    <3>1. \A x \in 0..(lineNo - 1) : x \in 0..lineNo
      BY <1>3
    <3> QED
      BY <1>2, <3>1 DEF StackInv
  <2>2. LinesIn(headings) = Enclosing(lineNo + 1)
    BY <1>2, <1>5 DEF StackInv
  <2>3. \A k, m \in DOMAIN headings : k < m => headings[k].level < headings[m].level
    BY <1>2 DEF StackInv
  <2>4. markdown' = markdown /\ headings' = headings /\ lineNo' = lineNo + 1 /\ lineNo' - 1 = lineNo
    BY <1>1, <1>3
  <2>5. LinesIn(headings)' = Enclosing(lineNo)'
    BY <2>2, <2>4 DEF LinesIn, Enclosing, Encloses, HeadingAt, LevelAt
  <2>6. \A k \in DOMAIN headings' :
          headings'[k].line \in 0..(lineNo' - 1) /\ headings'[k].level = LevelAt(headings[k].line)'
    BY <2>1, <2>4 DEF LevelAt
  <2> QED
    BY <2>3, <2>4, <2>5, <2>6 DEF StackInv
<1>8. CASE headings = <<>>
  <2>1. preamble' = Append(preamble, Current) /\ sections' = sections
    BY <1>8 DEF ReadLine
  <2>2. sections = <<>> /\ preamble = SubSeq(markdown, 1, lineNo)
        /\ \A i \in 0..(lineNo - 1) : ~HeadingAt(i)
    BY <1>2, <1>8 DEF TextInv
  <2>3. SecTyped'
    <3>1. preamble' \in Seq(LineSet)
      BY <1>2, <1>3, <2>1 DEF SecTyped
    <3>2. lineNo' \in -1..Len(markdown') /\ lineNo' # -1
      BY <1>1, <1>3
    <3> QED
      BY <1>1, <1>2, <2>1, <3>1, <3>2 DEF SecTyped, PageMaps, PageStarts
  <2>4. TextInv'
    <3>1. preamble' = SubSeq(markdown', 1, lineNo')
      BY <1>1, <1>4, <2>1, <2>2
    <3>2. markdown' = markdown /\ lineNo' - 1 = lineNo
      BY <1>1, <1>3
    <3>3. \A i \in 0..lineNo : ~HeadingAt(i)
      BY <1>6, <2>2
    <3>4. \A i \in 0..(lineNo' - 1) : ~HeadingAt(i)'
      BY <3>2, <3>3 DEF HeadingAt
    <3> QED
      BY <1>1, <1>8, <2>1, <2>2, <3>1, <3>4 DEF TextInv
  <2>5. PlacesInv'
    <3>1. DOMAIN sections' = {}
      BY <2>1, <2>2
    <3>2. {i \in 0..(lineNo' - 1) : HeadingAt(i)'} = {}
      BY <1>1, <1>3, <1>6, <2>2 DEF HeadingAt
    <3> QED
      BY <3>1, <3>2 DEF PlacesInv
  <2> QED
    BY <1>7, <2>3, <2>4, <2>5 DEF SectionsInv
<1>9. CASE headings # <<>>
  <2> DEFINE N == Len(sections)  last == sections[N]  x == PlainText(<<Current>>)
             grown == [last EXCEPT !.body = @ \o x]
             after == [sections EXCEPT ![N] = grown]
  <2>1. preamble' = preamble /\ sections' = after
    BY <1>9 DEF ReadLine
  <2>2. sections # <<>> /\ Flat(Bodies(sections)) = PlainText(SubSeq(markdown, 1, lineNo))
    BY <1>2, <1>9 DEF TextInv
  <2>3. /\ sections \in Seq(Piece) /\ N \in Nat /\ N \in 1..N /\ DOMAIN sections = 1..N
        /\ \A k \in 1..N : sections[k] \in Piece
    BY <1>2, <2>2 DEF SecTyped
  <2>4. x \in Seq(LineSet)
    BY <1>3, OneLine
  <2> HIDE DEF x
  <2>5. last \in Piece
    BY <2>3
  <2> HIDE DEF last, N
  <2>6. /\ grown \in Piece /\ grown.body = last.body \o x /\ grown.start = last.start
        /\ grown.level = last.level /\ grown.page = last.page /\ grown.path = last.path
    <3>1. last.body \in Seq(LineSet) /\ last.body \o x \in Seq(LineSet)
      BY <2>4, <2>5 DEF Piece
    <3> DEFINE body == last.body \o x
    <3>2. grown = [last EXCEPT !.body = body]
      OBVIOUS
    <3>3. body \in Seq(LineSet)
      BY <3>1
    <3> HIDE DEF body
    <3>4. grown \in Piece
      BY <2>5, <3>2, <3>3 DEF Piece
    <3>5. /\ grown.body = body /\ grown.start = last.start
          /\ grown.level = last.level /\ grown.page = last.page /\ grown.path = last.path
      BY <2>5, <3>2 DEF Piece
    <3> QED
      BY <3>4, <3>5 DEF body
  <2> HIDE DEF grown
  <2>7. /\ after \in Seq(Piece) /\ Len(after) = N /\ DOMAIN after = 1..N /\ after[N] = grown
        /\ \A k \in 1..N : k # N => after[k] = sections[k]
    <3>1. Len(sections) = N
      BY DEF N
    <3> QED
      BY <2>3, <2>6, <3>1
  <2> HIDE DEF after
  <2>8. \A k \in 1..N : /\ after[k].start = sections[k].start /\ after[k].level = sections[k].level
                        /\ after[k].page = sections[k].page /\ after[k].path = sections[k].path
    BY <2>6, <2>7 DEF last
  <2>9. SecTyped'
    <3>1. lineNo' \in -1..Len(markdown') /\ lineNo' # -1
      BY <1>1, <1>3
    <3> QED
      BY <1>1, <1>2, <2>1, <2>7, <3>1 DEF SecTyped, PageMaps, PageStarts
  <2>10. Flat(Bodies(after)) = Flat(Bodies(sections)) \o x
    <3> DEFINE s == Bodies(sections)  t == Bodies(after)
    <3>1. s \in Seq(Seq(LineSet)) /\ Len(s) = N /\ \A k \in 1..N : s[k] = sections[k].body
      BY <2>3, BodiesTyped DEF N
    <3>2. t \in Seq(Seq(LineSet)) /\ Len(t) = N /\ \A k \in 1..N : t[k] = after[k].body
      BY <2>7, BodiesTyped
    <3> HIDE DEF s, t
    <3>3. t[N] = s[N] \o x
      BY <2>3, <2>6, <2>7, <3>1, <3>2 DEF last
    <3>4. \A k \in 1..(N - 1) : t[k] = s[k]
      <4>1. \A k \in 1..(N - 1) : k \in 1..N /\ k # N
        BY <2>3
      <4> QED
        BY <2>7, <3>1, <3>2, <4>1
    <3>5. s # <<>>
      BY <2>3, <3>1
    <3>6. /\ Len(t) = Len(s) /\ t[Len(s)] = s[Len(s)] \o x
          /\ \A k \in 1..(Len(s) - 1) : t[k] = s[k]
      BY <3>1, <3>2, <3>3, <3>4
    <3>7. s \in Seq(Seq(LineSet)) /\ t \in Seq(Seq(LineSet)) /\ x \in Seq(LineSet)
      BY <2>4, <3>1, <3>2
    <3> HIDE DEF x
    <3>8. Flat(t) = Flat(s) \o x
      BY <3>5, <3>6, <3>7, FlatExtend
    <3> QED
      BY <3>8 DEF s, t
  <2>11. TextInv'
    <3>1. Flat(Bodies(after)) = PlainText(SubSeq(markdown, 1, lineNo + 1))
      BY <1>4, <2>2, <2>10 DEF x
    <3>2. Flat(Bodies(sections))' = PlainText(SubSeq(markdown, 1, lineNo))'
      BY <1>1, <2>1, <3>1 DEF Bodies, PlainText
    <3>3. after # <<>>
      BY <2>3, <2>7
    <3> QED
      BY <1>1, <1>9, <2>1, <3>2, <3>3 DEF TextInv
  <2>12. PlacesInv'
    <3>0. markdown' = markdown /\ pageMap' = pageMap /\ sections' = after
          /\ lineNo' = lineNo + 1 /\ lineNo' - 1 = lineNo
      BY <1>1, <1>3, <2>1
    <3>1. \A k \in DOMAIN sections' : PiecePlaced(sections[k])'
      <4> SUFFICES ASSUME NEW k \in 1..N PROVE PiecePlaced(sections[k])'
        BY <2>1, <2>7
      <4>1. PiecePlaced(sections[k]) /\ sections[k].start \in Nat
        BY <1>2, <2>3 DEF PlacesInv, Piece
      <4>2. /\ sections'[k].start < lineNo' /\ sections'[k].page = PageFor(sections'[k].start)
            /\ sections'[k].level > 0 => {sections'[k].path[n] : n \in DOMAIN sections'[k].path}
                                           = Enclosing(sections'[k].start + 1)
        <5> DEFINE p == sections[k]  q == after[k]
        <5>1. /\ p.start < lineNo /\ p.page = PageFor(p.start) /\ p.start \in Nat
              /\ p.level > 0 => {p.path[n] : n \in DOMAIN p.path} = Enclosing(p.start + 1)
          BY <4>1 DEF PiecePlaced
        <5>2. q.start = p.start /\ q.level = p.level /\ q.page = p.page /\ q.path = p.path
          BY <2>8
        <5>3. sections'[k] = q
          BY <2>1
        <5> HIDE DEF p, q
        <5>4. q.start < lineNo'
          BY <1>1, <1>3, <5>1, <5>2
        <5> QED
          BY <5>1, <5>2, <5>3, <5>4
      <4> QED
        BY <3>0, <4>2 DEF PiecePlaced, PageFor, Begun, LastBegun, Enclosing, Encloses, HeadingAt, LevelAt
    <3>2. \A k, m \in DOMAIN sections' : k < m => sections'[k].start <= sections'[m].start
      BY <1>2, <2>1, <2>3, <2>7, <2>8 DEF PlacesInv
    <3>3. {sections'[k].start : k \in {n \in DOMAIN sections' : sections'[n].level > 0}}
            = {i \in 0..(lineNo' - 1) : HeadingAt(i)'}
      <4> DEFINE A == {sections[k].start : k \in {n \in DOMAIN sections : sections[n].level > 0}}
                 B == {after[k].start : k \in {n \in DOMAIN after : after[n].level > 0}}
                 C == {sections'[k].start : k \in {n \in DOMAIN sections' : sections'[n].level > 0}}
                 D == 0..(lineNo' - 1)
      <4>1. A = {i \in 0..(lineNo - 1) : HeadingAt(i)}
        BY <1>2 DEF PlacesInv
      <4>2. \A i : i \in A <=> i \in B
        BY <2>3, <2>7, <2>8
      <4>3. B = C
        BY <3>0, Zenon
      <4>4. D = 0..lineNo
        BY <3>0
      <4> HIDE DEF A, B, C, D
      <4>5. \A i : i \in C <=> i \in D /\ HeadingAt(i)
        BY <1>6, <4>1, <4>2, <4>3, <4>4
      <4>6. \A i : HeadingAt(i) <=> markdown'[i + 1].kind = "heading"
        BY <3>0 DEF HeadingAt
      <4>7. C = {i \in D : markdown'[i + 1].kind = "heading"}
        BY <4>5, <4>6
      <4> QED
        BY <4>7 DEF C, D, HeadingAt
    <3> QED
      BY <3>1, <3>2, <3>3 DEF PlacesInv
  <2> QED
    BY <1>7, <2>9, <2>11, <2>12 DEF SectionsInv
<1> QED
  BY <1>8, <1>9

-----------------------------------------------------------------------------
(* The sections tell the lines read so far, each with its place.           *)
THEOREM SectionsInvariant == SectionsSpec => [](SectionsInv /\ SectionsTypeOK)
<1>1. SectionsInit => SectionsInv
  BY SecInit
<1>2. SectionsInv /\ [SectionsNext]_sectionVars => SectionsInv'
  <2>1. CASE UNCHANGED sectionVars
    <3>0. UNCHANGED <<markdown, pageMap, lineNo, headings, preamble, sections>>
      BY <2>1 DEF sectionVars
    <3>1. SecTyped => SecTyped'
      BY <3>0 DEF SecTyped
    <3>2. StackInv => StackInv'
      BY <3>0 DEF StackInv, LinesIn, Enclosing, Encloses, HeadingAt, LevelAt
    <3>3. TextInv => TextInv'
      BY <3>0 DEF TextInv, Bodies, HeadingAt, PlainText
    <3>4. PlacesInv => PlacesInv'
      <4>1. ASSUME PlacesInv, NEW k \in DOMAIN sections PROVE PiecePlaced(sections[k])'
        <5>1. PiecePlaced(sections[k])
          BY <4>1 DEF PlacesInv
        <5> QED
          BY <3>0, <5>1 DEF PiecePlaced, PageFor, Begun, LastBegun, Enclosing, Encloses, HeadingAt,
             LevelAt
      <4> QED
        BY <3>0, <4>1 DEF PlacesInv, HeadingAt
    <3> QED
      BY <3>1, <3>2, <3>3, <3>4 DEF SectionsInv
  <2> QED
    BY <2>1, SecGiven, SecHeading, SecLine DEF SectionsNext
<1>3. SectionsInv => SectionsTypeOK
  <2> SUFFICES ASSUME SectionsInv PROVE SectionsTypeOK
    OBVIOUS
  <2>1. SecTyped
    BY DEF SectionsInv
  <2>2. lineNo \in -1..MaxLength
    BY <2>1, SectionsAssumption DEF SecTyped
  <2>3. \A k \in DOMAIN sections : sections[k] \in Piece
    BY <2>1 DEF SecTyped
  <2>4. \A k \in DOMAIN headings : headings[k] \in Entry
    BY <2>1 DEF SecTyped
  <2> QED
    BY <2>2, <2>3, <2>4 DEF SectionsTypeOK, Piece, Entry
<1> QED
  BY <1>1, <1>2, <1>3, PTL DEF SectionsSpec

(* When all lines are read: what the sections and the blocks tell.         *)
LEMMA AllRead ==
  ASSUME SectionsInv, Closed
  PROVE  /\ markdown \in Seq(LineSet) /\ pageMap \in PageMaps /\ Len(markdown) \in Nat
         /\ Built \in Seq(Piece)
         /\ Flat(Bodies(Built)) = PlainText(markdown)
         /\ \A k, m \in DOMAIN Built : m <= k => Built[m].page <= Built[k].page
         /\ sections # <<>> => Built = sections
         /\ sections = <<>> => Len(Built) = 1
<1>1. SecTyped /\ TextInv /\ PlacesInv /\ lineNo = Len(markdown)
  BY DEF SectionsInv, Closed
<1>2. markdown \in Seq(LineSet) /\ pageMap \in PageMaps /\ Len(markdown) \in Nat
  BY <1>1 DEF SecTyped
<1>3. SubSeq(markdown, 1, lineNo) = markdown
  BY <1>1, <1>2
<1>4. CASE sections # <<>>
  <2>1. Built = sections /\ sections \in Seq(Piece)
    BY <1>1, <1>4 DEF Built, SecTyped
  <2>2. Flat(Bodies(sections)) = PlainText(markdown)
    BY <1>1, <1>3, <1>4 DEF TextInv
  <2>3. \A k, m \in DOMAIN sections : m <= k => sections[m].page <= sections[k].page
    <3> SUFFICES ASSUME NEW k \in DOMAIN sections, NEW m \in DOMAIN sections, m <= k
                 PROVE  sections[m].page <= sections[k].page
      OBVIOUS
    <3>1. /\ sections[m].page = PageFor(sections[m].start)
          /\ sections[k].page = PageFor(sections[k].start)
      BY <1>1 DEF PlacesInv, PiecePlaced
    <3>2. sections[m].start \in Nat /\ sections[k].start \in Nat /\ k \in Nat /\ m \in Nat
      <4>1. sections[m] \in Piece /\ sections[k] \in Piece /\ k \in Nat /\ m \in Nat
        BY <2>1
      <4> QED
        BY <4>1 DEF Piece
    <3>3. sections[m].start <= sections[k].start
      <4>1. CASE m = k
        BY <3>2, <4>1
      <4>2. CASE m < k
        BY <1>1, <4>2 DEF PlacesInv
      <4> QED
        BY <3>2, <4>1, <4>2
    <3> QED
      BY <1>2, <3>1, <3>2, <3>3, PagesGrow
  <2> QED
    BY <1>2, <1>4, <2>1, <2>2, <2>3
<1>5. CASE sections = <<>>
  <2> DEFINE s == [TitleOnly(0) EXCEPT !.body = PlainText(markdown)]  one == <<s>>
  <2>1. Built = one
    BY <1>5 DEF Built
  <2>2. /\ s \in Piece /\ one \in Seq(Piece) /\ Len(one) = 1 /\ DOMAIN one = {1} /\ one[1] = s
        /\ Flat(Bodies(one)) = PlainText(markdown)
    BY <1>2, WholeText
  <2>3. s.page \in 0..2
    BY <2>2 DEF Piece
  <2> HIDE DEF s, one
  <2>4. \A k, m \in DOMAIN one : m <= k => one[m].page <= one[k].page
    BY <2>2, <2>3
  <2> QED
    BY <1>2, <1>5, <2>1, <2>2, <2>4
<1> QED
  BY <1>4, <1>5

LEMMA TextIsKept == SectionsInv => NoTextLost
<1> SUFFICES ASSUME SectionsInv, Closed
             PROVE  /\ Flat([k \in DOMAIN Built |-> Built[k].body]) = PlainText(markdown)
                    /\ BySections => {Built[k].start + 1 : k \in {n \in DOMAIN Built : Built[n].level > 0}}
                                       = HeadingLines
                    /\ ~BySections => Flat([k \in DOMAIN Blocks |-> Blocks[k].lines])
                                        = Only(markdown, {"heading", "text", "image"})
  BY DEF NoTextLost
<1>1. /\ markdown \in Seq(LineSet) /\ Len(markdown) \in Nat /\ Built \in Seq(Piece)
      /\ Flat(Bodies(Built)) = PlainText(markdown)
      /\ sections # <<>> => Built = sections
      /\ sections = <<>> => Len(Built) = 1
  BY AllRead
<1>2. Flat([k \in DOMAIN Built |-> Built[k].body]) = PlainText(markdown)
  BY <1>1 DEF Bodies
<1>3. ASSUME BySections
      PROVE  {Built[k].start + 1 : k \in {n \in DOMAIN Built : Built[n].level > 0}} = HeadingLines
  <2>0. Len(Built) > 1 /\ Len(Built) \in Nat
    BY <1>1, <1>3 DEF BySections
  <2>1. sections # <<>> /\ Built = sections
    <3> DEFINE n == Len(Built)
    <3>1. n \in Nat /\ n > 1
      BY <2>0
    <3>2. sections = <<>> => n = 1
      BY <1>1
    <3> HIDE DEF n
    <3>3. sections # <<>>
      BY <3>1, <3>2
    <3> QED
      BY <1>1, <3>3
  <2> DEFINE A == {sections[k].start : k \in {n \in DOMAIN sections : sections[n].level > 0}}
             B == {sections[k].start + 1 : k \in {n \in DOMAIN sections : sections[n].level > 0}}
  <2>2. A = {i \in 0..(Len(markdown) - 1) : HeadingAt(i)}
    BY DEF SectionsInv, PlacesInv, Closed
  <2>3. B = {i + 1 : i \in A}
    OBVIOUS
  <2> HIDE DEF A, B
  <2>4. \A x : x \in B <=> x \in DOMAIN markdown /\ markdown[x].kind = "heading"
    <3>1. DOMAIN markdown = 1..Len(markdown)
      BY <1>1
    <3>2. \A i \in 0..(Len(markdown) - 1) : i + 1 \in 1..Len(markdown)
      BY <1>1
    <3>3. \A x \in 1..Len(markdown) : x - 1 \in 0..(Len(markdown) - 1) /\ x - 1 + 1 = x
      BY <1>1
    <3>4. \A x \in B : x \in DOMAIN markdown /\ markdown[x].kind = "heading"
      BY <2>2, <2>3, <3>1, <3>2 DEF HeadingAt
    <3>5. \A x \in DOMAIN markdown : markdown[x].kind = "heading" => x \in B
      <4> SUFFICES ASSUME NEW x \in DOMAIN markdown, markdown[x].kind = "heading" PROVE x \in B
        OBVIOUS
      <4> DEFINE i == x - 1
      <4>1. i \in 0..(Len(markdown) - 1) /\ i + 1 = x
        BY <3>1, <3>3
      <4> HIDE DEF i
      <4>2. i \in A
        BY <2>2, <4>1 DEF HeadingAt
      <4> QED
        BY <2>3, <4>1, <4>2
    <3> QED
      BY <3>4, <3>5
  <2> QED
    BY <2>1, <2>4 DEF HeadingLines, B
<1>4. Flat([k \in DOMAIN Blocks |-> Blocks[k].lines]) = Only(markdown, {"heading", "text", "image"})
  <2>1. SubSeq(markdown, 1, Len(markdown)) = markdown
    BY <1>1
  <2>2. Flat(LinesOf(Blocks)) = Only(SubSeq(markdown, 1, Len(markdown)), Solid)
    BY <1>1, BlocksTellAll DEF BlocksTell
  <2> QED
    BY <2>1, <2>2 DEF LinesOf, Solid
<1> QED
  BY <1>2, <1>3, <1>4

(* A block has the page that its first line has alone.                     *)
LEMMA BlockHasPage ==
  ASSUME markdown \in Seq(LineSet), pageMap \in PageMaps, NEW b \in BlockShape,
         BlockPlaced(b, Len(markdown)), b.lines # <<>>,
         \A i \in DOMAIN markdown : markdown[i] = b.lines[1] => i = b.first + 1
  PROVE  \/ SegmentPage(b.start) \in {0, EstimatedPage(b.lines[1])}
         \/ /\ markdown[b.start + 1].kind = "blank" /\ b.first = b.start + 1
            /\ \E m \in DOMAIN pageMap : pageMap[m].at = b.first
<1> DEFINE t == b.lines[1]  places == {i \in DOMAIN markdown : markdown[i] = t}
           offsets == {x - 1 : x \in places}
           chosen == CHOOSE i \in offsets : \A j \in places : i <= j - 1
<1>1. /\ b.start \in Nat /\ b.first \in Nat /\ b.first + 1 \in DOMAIN markdown
      /\ t = markdown[b.first + 1]
      /\ b.first = b.start \/ (b.first = b.start + 1 /\ markdown[b.start + 1].kind = "blank")
  BY DEF BlockPlaced, BlockShape
<1>2. places = {b.first + 1}
  BY <1>1
<1>3. offsets = {b.first}
  <2>1. b.first + 1 - 1 = b.first
    BY <1>1
  <2> DEFINE p == b.first + 1
  <2>2. \A y : y \in offsets <=> \E x \in places : y = x - 1
    OBVIOUS
  <2> HIDE DEF places, offsets
  <2>p. places = {p} /\ p - 1 = b.first
    BY <1>1, <1>2
  <2> HIDE DEF p
  <2>3. \A y : y \in offsets <=> y = b.first
    BY <2>2, <2>p
  <2> QED
    BY <2>3
<1>4. EstimatedPage(t) = PageFor(chosen)
  BY <1>2 DEF EstimatedPage
<1> HIDE DEF places, offsets
<1>5. chosen = b.first
  <2>1. \E i \in offsets : \A j \in places : i <= j - 1
    BY <1>1, <1>2, <1>3
  <2>2. chosen \in offsets
    BY <2>1, Zenon
  <2> QED
    BY <1>3, <2>2
<1>6. EstimatedPage(t) = PageFor(b.first)
  BY <1>4, <1>5
<1>7. /\ SegmentPage(b.start) \in {0, PageFor(b.start)}
      /\ (\A m \in DOMAIN pageMap : pageMap[m].at # b.start + 1)
           => SegmentPage(b.start) \in {0, PageFor(b.start + 1)}
  BY <1>1, PreviewAgrees
<1> HIDE DEF t
<1>8. CASE b.first = b.start
  BY <1>6, <1>7, <1>8 DEF t
<1>9. CASE b.first = b.start + 1 /\ markdown[b.start + 1].kind = "blank"
  <2>1. CASE \E m \in DOMAIN pageMap : pageMap[m].at = b.first
    BY <1>9, <2>1
  <2>2. CASE \A m \in DOMAIN pageMap : pageMap[m].at # b.first
    BY <1>6, <1>7, <1>9, <2>2 DEF t
  <2> QED
    BY <2>1, <2>2
<1> QED
  BY <1>1, <1>8, <1>9

LEMMA PlacesAreRight == SectionsInv => PiecesPlaced
<1> SUFFICES ASSUME SectionsInv PROVE PiecesPlaced
  OBVIOUS
<1>1. SecTyped /\ PlacesInv
  BY DEF SectionsInv
<1>2. PathsEnclose
  <2> SUFFICES ASSUME NEW k \in DOMAIN sections, sections[k].level > 0
               PROVE  {sections[k].path[n] : n \in DOMAIN sections[k].path}
                        = {i \in 0..sections[k].start :
                             /\ markdown[i + 1].kind = "heading"
                             /\ \A j \in {j \in (i + 1)..sections[k].start :
                                            markdown[j + 1].kind = "heading"} :
                                  markdown[i + 1].level < markdown[j + 1].level}
    BY DEF PathsEnclose
  <2> DEFINE o == sections[k].start
  <2>1. {sections[k].path[n] : n \in DOMAIN sections[k].path} = Enclosing(o + 1)
    BY <1>1 DEF PlacesInv, PiecePlaced
  <2>2. o \in Nat
    <3>1. sections[k] \in Piece
      BY <1>1 DEF SecTyped
    <3> QED
      BY <3>1 DEF Piece
  <2> HIDE DEF o
  <2>3. 0..((o + 1) - 1) = 0..o /\ (o + 1) - 1 = o
    BY <2>2
  <2>4. \A i : Encloses(i, o + 1) <=>
                 /\ markdown[i + 1].kind = "heading"
                 /\ \A j \in {j \in (i + 1)..o : markdown[j + 1].kind = "heading"} :
                      markdown[i + 1].level < markdown[j + 1].level
    <3> TAKE i
    <3>1. \A j : j \in (i + 1)..((o + 1) - 1) <=> j \in (i + 1)..o
      BY <2>3
    <3>2. Encloses(i, o + 1) <=>
            /\ markdown[i + 1].kind = "heading"
            /\ \A j \in (i + 1)..((o + 1) - 1) :
                 markdown[j + 1].kind = "heading" => markdown[i + 1].level < markdown[j + 1].level
      BY DEF Encloses, HeadingAt, LevelAt
    <3> QED
      BY <3>1, <3>2
  <2>5. Enclosing(o + 1) = {i \in 0..o : Encloses(i, o + 1)}
    <3>1. \A i : i \in Enclosing(o + 1) <=> i \in 0..o /\ Encloses(i, o + 1)
      BY <2>3 DEF Enclosing
    <3> QED
      BY <3>1
  <2>6. {i \in 0..o : Encloses(i, o + 1)}
          = {i \in 0..o : /\ markdown[i + 1].kind = "heading"
                          /\ \A j \in {j \in (i + 1)..o : markdown[j + 1].kind = "heading"} :
                               markdown[i + 1].level < markdown[j + 1].level}
    BY <2>4
  <2> QED
    BY <2>1, <2>5, <2>6 DEF o
<1>3. ASSUME Closed
      PROVE  /\ \A k \in DOMAIN Built : \A m \in 1..k : Built[m].page <= Built[k].page
             /\ \A k \in DOMAIN Blocks :
                  LET b == Blocks[k] IN
                  /\ b.lines # <<>>
                  /\ \A i \in DOMAIN markdown : markdown[i] = b.lines[1] => i = b.first + 1
                  => \/ SegmentPage(b.start) \in {0, EstimatedPage(b.lines[1])}
                     \/ /\ markdown[b.start + 1].kind = "blank" /\ b.first = b.start + 1
                        /\ \E m \in DOMAIN pageMap : pageMap[m].at = b.first
  <2>1. /\ markdown \in Seq(LineSet) /\ pageMap \in PageMaps /\ Built \in Seq(Piece)
        /\ \A k, m \in DOMAIN Built : m <= k => Built[m].page <= Built[k].page
    BY <1>3, AllRead
  <2>2. \A k \in DOMAIN Built : \A m \in 1..k : Built[m].page <= Built[k].page
    <3>1. \A k \in DOMAIN Built : \A m \in 1..k : m \in DOMAIN Built /\ m <= k
      BY <2>1
    <3> QED
      BY <2>1, <3>1
  <2>3. Blocks \in Seq(BlockShape)
        /\ \A k \in DOMAIN Blocks : Blocks[k].lines # <<>> => BlockPlaced(Blocks[k], Len(markdown))
    BY <2>1, BlocksTellAll DEF BlocksTell
  <2>4. \A k \in DOMAIN Blocks : Blocks[k] \in BlockShape
    BY <2>3
  <2> QED
    BY <2>1, <2>2, <2>3, <2>4, BlockHasPage
<1> QED
  BY <1>2, <1>3 DEF PiecesPlaced

(* Cutting a document into sections or blocks loses, doubles and moves     *)
(* nothing, and each piece knows its place.                                *)
THEOREM DocumentsAreWhole == SectionsSpec => []DocumentIsWhole
<1>1. SectionsInv => DocumentIsWhole
  BY TextIsKept, PlacesAreRight DEF DocumentIsWhole
<1> QED
  BY <1>1, SectionsInvariant, PTL
=============================================================================
