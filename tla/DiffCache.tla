------------------------------ MODULE DiffCache ------------------------------
(***************************************************************************)
(* DiffService.diff_documents (services/diff_service.py), which several    *)
(* threads run at once on files that may be replaced meanwhile.  Two       *)
(* process-wide lru_caches keep the texts and the drawn pages of files     *)
(* under the mtime that was read when the comparison began.                *)
(***************************************************************************)
EXTENDS Integers

CONSTANTS Requests, MaxOverwrites   (* comparisons at a time; bound        *)

ASSUME DiffAssumption == MaxOverwrites \in Nat

VARIABLES
  diskVersion,  (* the content of a file, numbered by its overwrites, and  *)
                (*   so its st_mtime_ns                                    *)
  textCache,    (* _extract_with_blobs_cached                              *)
  pageCache,    (* render_page_previews_highlighted_cached                 *)
  diffs,        (* the comparisons                                         *)
  untouched     (* history: the files not overwritten since it began       *)

diffVars == <<diskVersion, textCache, pageCache, diffs, untouched>>

Sides == {1, 2}    (* file 1 is compared with file 2                       *)
NoDiff == [pc |-> "none", mtime |-> <<0, 0>>, text |-> <<0, 0>>, page |-> <<0, 0>>,
           marks |-> <<<<0, 0>>, <<0, 0>>>>]

DiffInit ==
  /\ diskVersion = <<1, 1>>
  /\ textCache = {} /\ pageCache = {}
  /\ diffs = [r \in Requests |-> NoDiff]
  /\ untouched = [r \in Requests |-> {}]

Replace(f) ==
  /\ diskVersion[1] + diskVersion[2] < MaxOverwrites + 2
  /\ diskVersion' = [diskVersion EXCEPT ![f] = @ + 1]
  /\ untouched' = [r \in Requests |-> untouched[r] \ {f}]
  /\ UNCHANGED <<textCache, pageCache, diffs>>

(* The user may see both documents; otherwise nothing is read.             *)
StartDiff(r) ==
  /\ diffs[r].pc \in {"none", "done"}
  /\ diffs' = [diffs EXCEPT ![r] = [NoDiff EXCEPT !.pc = "stat"]]
  /\ untouched' = [untouched EXCEPT ![r] = Sides]
  /\ UNCHANGED <<diskVersion, textCache, pageCache>>

(* path.stat() of both files, before either is read.                       *)
StatFile(r, f) ==
  /\ diffs[r].pc = "stat" /\ diffs[r].mtime[f] = 0
  /\ f = 2 => diffs[r].mtime[1] # 0
  /\ diffs' = [diffs EXCEPT ![r].mtime[f] = diskVersion[f],
                            ![r].pc = IF f = 2 THEN "text" ELSE @]
  /\ UNCHANGED <<diskVersion, textCache, pageCache, untouched>>

(* Fault: the path alone.                                                  *)
PathOnlyFault(f, mtime) == <<f, 0>>

CacheKey(f, mtime) == <<f, mtime>>

(* What a cached function may give: the entry with the key, or what it     *)
(* computes - because there is no entry, it was evicted, or another thread *)
(* is still computing it - and then keeps unless another was first.        *)
Cached(cache, key, computed) ==
  {[got |-> e.value, cache |-> cache] : e \in {x \in cache : x.key = key}}
  \cup {[got |-> computed, cache |-> c] :
          c \in {{x \in cache : x.key # key} \cup {[key |-> key, value |-> computed]}}
                \cup (IF \E x \in cache : x.key = key THEN {cache} ELSE {})}

ReadText(r, f) ==
  /\ diffs[r].pc = "text" /\ diffs[r].text[f] = 0
  /\ f = 2 => diffs[r].text[1] # 0
  /\ \E c \in Cached(textCache, CacheKey(f, diffs[r].mtime[f]), diskVersion[f]) :
       /\ textCache' = c.cache
       /\ diffs' = [diffs EXCEPT ![r].text[f] = c.got,
                                 ![r].pc = IF f = 2 THEN "page1" ELSE @]
  /\ UNCHANGED <<diskVersion, pageCache, untouched>>

PageKey(f, mtime, marks) == <<CacheKey(f, mtime), marks>>

(* The pages of a file with the changes marked that this comparison found. *)
(* A failure gives no pages (0), and is cached like them.                  *)
DrawPages(r, f) ==
  LET d == diffs[r] IN
  /\ d.pc = IF f = 1 THEN "page1" ELSE "page2"
  /\ \E shown \in {0, diskVersion[f]} :
     \E c \in Cached(pageCache, PageKey(f, d.mtime[f], d.text), <<shown, d.text>>) :
       /\ pageCache' = c.cache
       /\ diffs' = [diffs EXCEPT ![r].page[f] = c.got[1], ![r].marks[f] = c.got[2],
                                 ![r].pc = IF f = 1 THEN "page2" ELSE "done"]
  /\ UNCHANGED <<diskVersion, textCache, untouched>>

DiffNext ==
  \/ \E f \in Sides : Replace(f)
  \/ \E r \in Requests :
       StartDiff(r) \/ \E f \in Sides : StatFile(r, f) \/ ReadText(r, f) \/ DrawPages(r, f)

DiffSpec == DiffInit /\ [][DiffNext]_diffVars
-----------------------------------------------------------------------------
Versions == 0..(MaxOverwrites + 1)
Pair == Versions \X Versions

DiffTypeOK ==
  /\ diskVersion \in Pair
  /\ \A r \in Requests :
       /\ {diffs[r].mtime, diffs[r].text, diffs[r].page} \subseteq Pair
       /\ diffs[r].marks \in Pair \X Pair
       /\ diffs[r].pc \in {"none", "stat", "text", "page1", "page2", "done"}

(* A comparison of a file that nobody replaced meanwhile has its present   *)
(* text, and its pages unless drawing failed, marked for the two texts of  *)
(* this very comparison: whatever other comparisons left in the caches     *)
(* while files were being replaced under them.                             *)
DiffIsCurrent ==
  \A r \in Requests : diffs[r].pc = "done" =>
    \A f \in Sides :
      /\ f \in untouched[r] => /\ diffs[r].text[f] = diskVersion[f]
                               /\ diffs[r].page[f] \in {0, diskVersion[f]}
      /\ diffs[r].marks[f] = diffs[r].text
=============================================================================
