---------------------------- MODULE Browser_proofs ----------------------------
(***************************************************************************)
(* Proofs about the pages of the browser (PageRequests), for any number of *)
(* calls and of files, and about their composition with the chat in        *)
(* MCBrowser.                                                              *)
(***************************************************************************)
EXTENDS MCBrowser, ChatStore_proofs

Call == [page : Pages, input : 0..MaxChoices, flying : BOOLEAN, aborted : BOOLEAN]

PagesTyped ==
  /\ PagesTypeOK
  /\ Len(sends) <= MaxSends

-----------------------------------------------------------------------------
(* Changing the records of calls leaves a sequence of calls.               *)
LEMMA CallsChange ==
  ASSUME NEW s \in Seq(Call), NEW f \in [DOMAIN s -> Call]
  PROVE  f \in Seq(Call) /\ Len(f) = Len(s) /\ DOMAIN f = DOMAIN s
<1>1. DOMAIN s = 1..Len(s) /\ Len(s) \in Nat
  OBVIOUS
<1>2. f \in Seq(Call)
  BY <1>1, SeqDef
<1>3. DOMAIN f = 1..Len(f) /\ Len(f) \in Nat
  BY <1>2
<1> QED
  BY <1>1, <1>2, <1>3

(* The types hold when the pages are opened.                               *)
LEMMA PagesInitTyped == PagesInit => PagesTyped
<1> SUFFICES ASSUME PagesInit PROVE PagesTyped
  OBVIOUS
<1>1. AtRest \in View /\ 0 \in 0..MaxSends
  BY PagesAssumption DEF AtRest, View, PageStatus
<1>2. sends \in Seq(Call) /\ Len(sends) = 0
  BY DEF PagesInit
<1> QED
  BY <1>1, <1>2, PagesAssumption DEF PagesInit, PagesTyped, PagesTypeOK, Call

(* What a page shows after a step is a view.                               *)
LEMMA ShowingTyped ==
  ASSUME PagesTyped, NEW p \in Pages, NEW v \in View, Showing(p, v)
  PROVE  views' \in [Pages -> View] /\ persisted' \in [Persistent -> View]
BY DEF PagesTyped, PagesTypeOK, Showing

(* What a page restores from its storage has its type.                     *)
LEMMA RestoredTyped ==
  ASSUME PagesTyped, NEW p \in Pages PROVE Restored(p) \in View
<1>1. p \in Persistent => persisted[p] \in View
  BY DEF PagesTyped, PagesTypeOK
<1>2. AtRest \in View
  BY PagesAssumption DEF AtRest, View, PageStatus
<1> QED
  BY <1>1, <1>2 DEF Restored, View, PageStatus

(* Every step keeps the types of the pages.                                *)
LEMMA PagesNextTyped == PagesTyped /\ [PagesNext]_pageVars => PagesTyped'
<1> SUFFICES ASSUME PagesTyped, [PagesNext]_pageVars PROVE PagesTyped'
  OBVIOUS
<1> DEFINE ViewsTyped == views' \in [Pages -> View] /\ persisted' \in [Persistent -> View]
           CallsTyped == sends' \in Seq(Call) /\ Len(sends') <= MaxSends
           RestTyped == /\ active' \in [Pages -> 0..MaxSends]
                        /\ wanted' \in [Pages -> 0..MaxSends]
                        /\ paperHeld' \in 0..MaxChoices
<1>a. ASSUME ViewsTyped, CallsTyped, RestTyped PROVE PagesTyped'
  BY <1>a DEF PagesTyped, PagesTypeOK, Call
<1>b. /\ views \in [Pages -> View] /\ persisted \in [Persistent -> View]
      /\ sends \in Seq(Call) /\ Len(sends) <= MaxSends
      /\ active \in [Pages -> 0..MaxSends]
      /\ wanted \in [Pages -> 0..MaxSends]
      /\ paperHeld \in 0..MaxChoices
  BY DEF PagesTyped, PagesTypeOK, Call
<1>c. /\ DOMAIN sends = 1..Len(sends) /\ Len(sends) \in Nat
      /\ \A c \in DOMAIN sends : sends[c] \in Call /\ c \in 1..MaxSends
  BY <1>b, PagesAssumption
<1>d. AtRest \in View
  BY PagesAssumption DEF AtRest, View, PageStatus
<1>e. \A call \in DOMAIN sends : Landed(call) => CallsTyped
  <2> SUFFICES ASSUME NEW call \in DOMAIN sends, Landed(call) PROVE CallsTyped
    OBVIOUS
  <2>1. sends' \in [DOMAIN sends -> Call]
    BY <1>c DEF Landed, Call
  <2> QED
    BY <2>1, <1>b, CallsChange
<1>f. \A p \in Pages : Aborting(p) => CallsTyped
  <2> SUFFICES ASSUME NEW p \in Pages, Aborting(p) PROVE CallsTyped
    OBVIOUS
  <2>1. sends' \in [DOMAIN sends -> Call]
    BY <1>c DEF Aborting, Call
  <2> QED
    BY <2>1, <1>b, CallsChange
<1>g. \A call \in DOMAIN sends : sends[call].page \in Pages
  BY <1>c DEF Call
<1>h. 0 \in 0..MaxSends /\ 0 \in 0..MaxChoices /\ "diff" \in Pages /\ "extract" \in Pages
  BY PagesAssumption DEF Pages, Persistent, Stores
<1>1. CASE UNCHANGED pageVars
  BY <1>1, <1>a, <1>b DEF pageVars
<1>2. ASSUME NEW p \in Pages, SendCall(p) PROVE PagesTyped'
  <2>1. Len(sends) + 1 \in 0..MaxSends
    BY <1>2, <1>c, PagesAssumption DEF SendCall
  <2>2. [page |-> p, input |-> paperHeld, flying |-> TRUE, aborted |-> FALSE] \in Call
    BY <1>b DEF Call
  <2>3. CallsTyped
    BY <1>2, <1>b, <2>1, <2>2 DEF SendCall
  <2>4. [status |-> "loading", of |-> IF p = "search" THEN views[p].of ELSE 0] \in View
    BY <1>b, PagesAssumption DEF View, PageStatus
  <2>5. ViewsTyped
    BY <1>2, <2>4, ShowingTyped DEF SendCall
  <2> QED
    BY <1>2, <2>1, <2>3, <2>5, <1>a, <1>b DEF SendCall
<1>3. ASSUME NEW call \in DOMAIN sends, AnswerArrives(call) PROVE PagesTyped'
  <2>1. [status |-> "done", of |-> call] \in View
    BY <1>c DEF View, PageStatus
  <2>2. ViewsTyped
    BY <1>3, <2>1, <1>b, <1>g, ShowingTyped DEF AnswerArrives
  <2>3. RestTyped
    BY <1>3, <1>b, <1>g, <1>h DEF AnswerArrives, Dropped
  <2> QED
    BY <1>3, <2>2, <2>3, <1>a, <1>e DEF AnswerArrives
<1>4. ASSUME NEW call \in DOMAIN sends, CallFails(call) PROVE PagesTyped'
  <2>1. [views[sends[call].page] EXCEPT !.status = "error"] \in View
    BY <1>b, <1>g DEF View, PageStatus
  <2>2. ViewsTyped
    BY <1>4, <2>1, <1>b, <1>g, ShowingTyped DEF CallFails
  <2>3. RestTyped
    BY <1>4, <1>b, <1>g, <1>h DEF CallFails, Dropped
  <2> QED
    BY <1>4, <2>2, <2>3, <1>a, <1>e DEF CallFails
<1>5. CASE CancelDiff
  <2>1. [views["diff"] EXCEPT !.status = "idle"] \in View /\ "diff" \in Pages
    BY <1>b DEF View, PageStatus, Pages, Persistent, Stores
  <2>2. ViewsTyped
    BY <1>5, <2>1, <1>b, ShowingTyped DEF CancelDiff
  <2>3. RestTyped
    BY <1>5, <1>b, <1>h DEF CancelDiff
  <2> QED
    BY <1>5, <2>1, <2>2, <2>3, <1>a, <1>f DEF CancelDiff
<1>6. ASSUME NEW p \in Pages, Reset(p) PROVE PagesTyped'
  <2>1. ViewsTyped /\ RestTyped
    BY <1>6, <1>b, <1>d, PagesAssumption DEF Reset
  <2> QED
    BY <1>6, <2>1, <1>a, <1>f DEF Reset
<1>7. CASE PickFile \/ BackToForm
  <2>1. ViewsTyped
    BY <1>7, <1>b, <1>d DEF PickFile, BackToForm
  <2>2. RestTyped
    BY <1>7, <1>b, PagesAssumption DEF PickFile, BackToForm
  <2> QED
    BY <1>7, <2>1, <2>2, <1>a, <1>b DEF PickFile, BackToForm
<1>8. ASSUME NEW gone, Remounted(gone) PROVE PagesTyped'
  <2>1. ViewsTyped
    BY <1>8, <1>b, RestoredTyped DEF Remounted, Pages
  <2>2. RestTyped
    BY <1>8, <1>b, <1>h DEF Remounted
  <2>3. sends' \in [DOMAIN sends -> Call]
    BY <1>8, <1>c DEF Remounted, Call
  <2>4. CallsTyped
    BY <2>3, <1>b, CallsChange
  <2> QED
    BY <2>1, <2>2, <2>4, <1>a
<1> QED
  BY <1>1, <1>2, <1>3, <1>4, <1>5, <1>6, <1>7, <1>8 DEF PagesNext, LeavePage, ReloadTab

-----------------------------------------------------------------------------
(* What a page shows.                                                      *)

(* The active call of a page is the wanted one; a page that loads has an   *)
(* active call, in flight; and an entry of sessionStorage that says done   *)
(* holds what the page holds: an entry too large to be saved left there    *)
(* what was saved when the call began.                                     *)
ShownInv(p) ==
  /\ views[p].status = "done" => views[p].of = wanted[p]
  /\ persisted[p].status = "done" =>
       persisted[p].of = wanted[p] /\ persisted[p].of = views[p].of
  /\ active[p] # 0 => active[p] = wanted[p]
  /\ p \in Stores /\ active[p] # 0 => views[p].status = "loading"
  /\ views[p].status = "loading" =>
       /\ active[p] \in DOMAIN sends
       /\ sends[active[p]].page = p /\ sends[active[p]].flying /\ ~sends[active[p]].aborted

ShownAll == \A p \in Persistent : ShownInv(p)

(* The pages show nothing when they are opened.                            *)
LEMMA ShownInitInv == PagesInit => ShownAll
  BY DEF PagesInit, ShownAll, ShownInv, AtRest, Pages

(* A save that fails was for a view that had to grow.                      *)
LEMMA SavedOrGrown ==
  ASSUME PagesTyped, NEW p \in Persistent, NEW v \in View, Showing(p, v)
  PROVE  /\ views'[p] = v
         /\ \A q \in Persistent : q # p => views'[q] = views[q] /\ persisted'[q] = persisted[q]
         /\ \/ persisted'[p] = v
            \/ persisted'[p] = persisted[p] /\ v.of # persisted[p].of
BY DEF PagesTyped, PagesTypeOK, Showing, Pages

(* Every step leaves on each page the result of its last call.             *)
LEMMA ShownNextInv == PagesTyped /\ ShownAll /\ [PagesNext]_pageVars => ShownAll'
<1> SUFFICES ASSUME PagesTyped, ShownAll, [PagesNext]_pageVars PROVE ShownAll'
  OBVIOUS
<1>a. /\ views \in [Pages -> View] /\ persisted \in [Persistent -> View]
      /\ sends \in Seq(Call)
      /\ active \in [Pages -> 0..MaxSends]
      /\ wanted \in [Pages -> 0..MaxSends]
  BY DEF PagesTyped, PagesTypeOK, Call
<1>b. /\ DOMAIN sends = 1..Len(sends) /\ Len(sends) \in Nat
      /\ \A c \in DOMAIN sends : sends[c] \in Call /\ c \in 1..MaxSends /\ c # 0
  BY <1>a, PagesAssumption DEF PagesTyped
<1>c. Persistent \subseteq Pages /\ "extract" \notin Persistent /\ Stores \subseteq Persistent
      /\ "diff" \in Stores /\ "extract" \in Pages /\ Pages = Persistent \cup {"extract"}
  BY DEF Pages, Persistent, Stores
<1>d. \A p \in Persistent : ShownInv(p)
  BY DEF ShownAll
<1>1. CASE UNCHANGED pageVars
  BY <1>1, <1>d DEF pageVars, ShownAll, ShownInv
<1>2. ASSUME NEW p \in Pages, SendCall(p) PROVE ShownAll'
  <2> DEFINE call == Len(sends) + 1
             new == [page |-> p, input |-> paperHeld, flying |-> TRUE, aborted |-> FALSE]
  <2>1. /\ DOMAIN sends' = 1..call /\ sends'[call] = new
        /\ \A c \in DOMAIN sends : c \in DOMAIN sends' /\ sends'[c] = sends[c]
    BY <1>2, <1>a, <1>b DEF SendCall
  <2>2. /\ call # 0 /\ call \in DOMAIN sends'
        /\ \A q \in Pages : active'[q] = IF q = p THEN call ELSE active[q]
        /\ \A q \in Pages : wanted'[q] = IF q = p THEN call ELSE wanted[q]
    BY <1>2, <1>a, <1>b, <2>1 DEF SendCall
  <2>3. CASE p = "extract"
    <3>1. \A q \in Persistent : views'[q] = views[q] /\ persisted'[q] = persisted[q]
      BY <1>2, <1>a, <1>c, <2>3 DEF SendCall, Showing
    <3>2. ASSUME NEW q \in Persistent PROVE ShownInv(q)'
      <4>1. q # p /\ q \in Pages /\ ShownInv(q)
        BY <1>c, <1>d, <2>3
      <4>2. active'[q] = active[q] /\ wanted'[q] = wanted[q]
        BY <2>2, <4>1
      <4> QED
        BY <2>1, <3>1, <4>1, <4>2 DEF ShownInv
    <3> QED
      BY <3>2 DEF ShownAll
  <2>4. CASE p \in Persistent
    <3> DEFINE v == [status |-> "loading", of |-> IF p = "search" THEN views[p].of ELSE 0]
    <3>1. v \in View /\ v.status = "loading"
      BY <1>a, PagesAssumption DEF View, PageStatus
    <3>2. Showing(p, v)
      BY <1>2 DEF SendCall
    <3>3. persisted'[p].status # "done"
      <4>1. CASE p = "search"
        BY <1>d, <2>4, <3>1, <3>2, <4>1, SavedOrGrown DEF ShownInv
      <4>2. CASE p # "search"
        <5>1. v.of = 0
          BY <4>2
        <5>2. persisted' = [persisted EXCEPT ![p] = v]
          BY <2>4, <3>2, <5>1 DEF Showing
        <5> QED
          BY <1>a, <2>4, <3>1, <5>2
      <4> QED
        BY <4>1, <4>2
    <3>4. views'[p] = v
          /\ \A q \in Persistent : q # p => views'[q] = views[q] /\ persisted'[q] = persisted[q]
      BY <2>4, <3>1, <3>2, SavedOrGrown
    <3>5. ShownInv(p)'
      BY <1>c, <2>1, <2>2, <2>4, <3>1, <3>3, <3>4 DEF ShownInv
    <3>6. \A q \in Persistent : q # p => ShownInv(q)'
      BY <1>c, <1>d, <2>1, <2>2, <3>4 DEF ShownInv
    <3> QED
      BY <3>5, <3>6 DEF ShownAll
  <2> QED
    BY <1>c, <2>3, <2>4
<1>e. ASSUME NEW call \in DOMAIN sends, Landed(call)
      PROVE  /\ DOMAIN sends' = DOMAIN sends
             /\ \A c \in DOMAIN sends : c # call => sends'[c] = sends[c]
             /\ \A c \in DOMAIN sends : sends'[c].page = sends[c].page
                                        /\ sends'[c].aborted = sends[c].aborted
  BY <1>a, <1>b, <1>e DEF Landed, Call
<1>f. ASSUME NEW call \in DOMAIN sends, NEW p, Dropped(p, call)
      PROVE  \A q \in Pages : active'[q] = IF q = p /\ p \in Stores /\ active[p] = call
                                           THEN 0 ELSE active[q]
  BY <1>a, <1>c, <1>f DEF Dropped
<1>3. ASSUME NEW call \in DOMAIN sends, AnswerArrives(call) PROVE ShownAll'
  <2>0. PICK p \in Pages : p = sends[call].page
    BY <1>b DEF Call
  <2> DEFINE v == [status |-> "done", of |-> call]
  <2>1. Landed(call) /\ Dropped(p, call) /\ wanted' = wanted
    BY <1>3, <2>0 DEF AnswerArrives
  <2>2. ASSUME NEW q \in Persistent, q # p, views'[q] = views[q], persisted'[q] = persisted[q]
        PROVE  ShownInv(q)'
    <3>1. active'[q] = active[q] /\ wanted'[q] = wanted[q]
      BY <1>c, <1>f, <2>1, <2>2
    <3>2. views[q].status = "loading" => active[q] # call
      BY <1>d, <2>0, <2>2 DEF ShownInv
    <3> QED
      BY <1>d, <2>0, <1>e, <2>1, <2>2, <3>1, <3>2 DEF ShownInv
  <2>3. CASE p = "extract"
    <3>1. \A q \in Persistent : q # p /\ views'[q] = views[q] /\ persisted'[q] = persisted[q]
      BY <1>3, <2>0, <1>a, <1>c, <2>3 DEF AnswerArrives, IsCurrent, Showing
    <3> QED
      BY <2>2, <3>1 DEF ShownAll
  <2>4. CASE p \in Persistent /\ active[p] = call
    <3>1. v \in View /\ v.status = "done" /\ v.of = call
      BY <1>b DEF View, PageStatus
    <3>2. Showing(p, v)
      BY <1>3, <2>0, <2>4 DEF AnswerArrives, IsCurrent
    <3>3. wanted'[p] = call
      BY <1>b, <1>d, <2>1, <2>4 DEF ShownInv
    <3> HIDE DEF v
    <3>4. persisted'[p].status = "done" => persisted'[p].of = call
      BY <1>d, <2>0, <2>1, <2>4, <3>1, <3>2, <3>3, SavedOrGrown DEF ShownInv
    <3>5. p \in Stores => active'[p] = 0
      BY <1>c, <1>f, <2>1, <2>4
    <3>6. active'[p] \in {0, call}
      BY <1>c, <1>f, <2>1, <2>4
    <3>7. /\ views'[p] = v
          /\ \A q \in Persistent : q # p => views'[q] = views[q] /\ persisted'[q] = persisted[q]
          /\ \/ persisted'[p] = v
             \/ persisted'[p] = persisted[p] /\ v.of # persisted[p].of
      BY <2>4, <3>1, <3>2, SavedOrGrown
    <3>9. persisted'[p] = v \/ persisted'[p].status # "done"
      BY <1>d, <2>1, <3>1, <3>3, <3>7, <2>4 DEF ShownInv
    <3>8. ShownInv(p)'
      BY <2>4, <3>1, <3>3, <3>5, <3>6, <3>7, <3>9 DEF ShownInv
    <3> QED
      BY <2>2, <3>7, <3>8 DEF ShownAll
  <2>5. CASE p \in Persistent /\ active[p] # call
    <3>1. UNCHANGED <<views, persisted>>
      BY <1>3, <2>0, <1>c, <2>5 DEF AnswerArrives, IsCurrent
    <3>2. active'[p] = active[p]
      BY <1>c, <1>f, <2>1, <2>5
    <3>3. ShownInv(p)'
      BY <1>d, <2>0, <1>e, <2>1, <2>5, <3>1, <3>2 DEF ShownInv
    <3>4. \A q \in Persistent : views'[q] = views[q] /\ persisted'[q] = persisted[q]
      BY <3>1
    <3> QED
      BY <2>2, <3>3, <3>4 DEF ShownAll
  <2> QED
    BY <1>c, <2>1, <2>3, <2>4, <2>5
<1>4. ASSUME NEW call \in DOMAIN sends, CallFails(call) PROVE ShownAll'
  <2>0. PICK p \in Pages : p = sends[call].page
    BY <1>b DEF Call
  <2> DEFINE v == [views[p] EXCEPT !.status = "error"]
  <2>1. Landed(call) /\ Dropped(p, call) /\ wanted' = wanted
    BY <1>4, <2>0 DEF CallFails
  <2>2. ASSUME NEW q \in Persistent, q # p, views'[q] = views[q], persisted'[q] = persisted[q]
        PROVE  ShownInv(q)'
    <3>1. active'[q] = active[q] /\ wanted'[q] = wanted[q]
      BY <1>c, <1>f, <2>1, <2>2
    <3>2. views[q].status = "loading" => active[q] # call
      BY <1>d, <2>0, <2>2 DEF ShownInv
    <3> QED
      BY <1>d, <2>0, <1>e, <2>1, <2>2, <3>1, <3>2 DEF ShownInv
  <2>3. CASE p = "extract"
    <3>1. \A q \in Persistent : q # p /\ views'[q] = views[q] /\ persisted'[q] = persisted[q]
      BY <1>4, <2>0, <1>a, <1>c, <2>3 DEF CallFails, Showing
    <3> QED
      BY <2>2, <3>1 DEF ShownAll
  <2>4. CASE p \in Persistent /\ active[p] = call /\ ~sends[call].aborted
    <3>1. v \in View /\ v.status = "error" /\ v.of = views[p].of
      BY <1>a, <2>1 DEF View, PageStatus
    <3>2. Showing(p, v)
      BY <1>4, <2>0, <2>4 DEF CallFails, IsCurrent
    <3> HIDE DEF v
    <3>3. /\ views'[p] = v
          /\ \A q \in Persistent : q # p => views'[q] = views[q] /\ persisted'[q] = persisted[q]
          /\ \/ persisted'[p] = v
             \/ persisted'[p] = persisted[p] /\ v.of # persisted[p].of
      BY <2>4, <3>1, <3>2, SavedOrGrown
    <3>6. persisted'[p].status # "done"
      BY <1>d, <2>0, <2>4, <3>1, <3>3 DEF ShownInv
    <3>4. /\ p \in Stores => active'[p] = 0
          /\ active'[p] \in {0, active[p]}
      BY <1>c, <1>f, <2>1, <2>4
    <3>5. ShownInv(p)'
      BY <1>d, <2>0, <2>1, <2>4, <3>1, <3>3, <3>6, <3>4 DEF ShownInv
    <3> QED
      BY <2>2, <3>3, <3>5 DEF ShownAll
  <2>5. CASE p \in Persistent /\ active[p] = call /\ sends[call].aborted
    <3>1. UNCHANGED <<views, persisted>>
      BY <1>4, <2>0, <2>5 DEF CallFails
    <3>2. views[p].status # "loading"
      BY <1>d, <2>0, <2>5 DEF ShownInv
    <3>3. active'[p] \in {0, active[p]} /\ (p \in Stores => active'[p] = 0)
      BY <1>c, <1>f, <2>1, <2>5
    <3>4. ShownInv(p)'
      BY <1>d, <2>0, <2>1, <2>5, <3>1, <3>2, <3>3 DEF ShownInv
    <3>5. \A q \in Persistent : views'[q] = views[q] /\ persisted'[q] = persisted[q]
      BY <3>1
    <3> QED
      BY <2>2, <3>4, <3>5 DEF ShownAll
  <2>6. CASE p \in Persistent /\ active[p] # call
    <3>1. UNCHANGED <<views, persisted>>
      BY <1>4, <2>0, <1>c, <2>6 DEF CallFails, IsCurrent
    <3>2. active'[p] = active[p]
      BY <1>c, <1>f, <2>1, <2>6
    <3>3. ShownInv(p)'
      BY <1>d, <2>0, <1>e, <2>1, <2>6, <3>1, <3>2 DEF ShownInv
    <3>4. \A q \in Persistent : views'[q] = views[q] /\ persisted'[q] = persisted[q]
      BY <3>1
    <3> QED
      BY <2>2, <3>3, <3>4 DEF ShownAll
  <2> QED
    BY <1>c, <2>1, <2>3, <2>4, <2>5, <2>6
(* An abort reaches no call of another page.                               *)
<1>g. ASSUME NEW p \in Pages, Aborting(p)
      PROVE  /\ DOMAIN sends' = DOMAIN sends
             /\ \A c \in DOMAIN sends : /\ sends'[c].page = sends[c].page
                                        /\ sends'[c].flying = sends[c].flying
             /\ \A q \in Persistent : q # p /\ views[q].status = "loading" =>
                  ~sends'[active[q]].aborted
  <2>1. DOMAIN sends' = DOMAIN sends
        /\ \A c \in DOMAIN sends :
             sends'[c] = [sends[c] EXCEPT !.aborted = @ \/ (p \in Stores /\ c = active[p])]
    BY <1>g DEF Aborting
  <2>2. \A c \in DOMAIN sends : /\ sends'[c].page = sends[c].page
                                /\ sends'[c].flying = sends[c].flying
                                /\ c # active[p] => sends'[c].aborted = sends[c].aborted
    BY <1>b, <2>1 DEF Call
  <2>3. \A q \in Persistent : q # p /\ views[q].status = "loading" => active[q] # active[p] \/ p \notin Stores
    BY <1>b, <1>c, <1>d DEF ShownInv
  <2>4. p \notin Stores => \A c \in DOMAIN sends : sends'[c].aborted = sends[c].aborted
    BY <1>b, <2>1 DEF Call
  <2> QED
    BY <1>d, <2>1, <2>2, <2>3, <2>4 DEF ShownInv
<1>5. CASE CancelDiff
  <2>1. /\ Aborting("diff") /\ active["diff"] # 0
        /\ \A q \in Pages : active'[q] = IF q = "diff" THEN 0 ELSE active[q]
        /\ \A q \in Pages : wanted'[q] = IF q = "diff" THEN 0 ELSE wanted[q]
    BY <1>5, <1>a, <1>c DEF CancelDiff
  <2>2. views["diff"].status = "loading"
    BY <1>c, <1>d, <2>1 DEF ShownInv
  <2> DEFINE v == [views["diff"] EXCEPT !.status = "idle"]
  <2>3. v \in View /\ v.status = "idle" /\ v.of = views["diff"].of /\ Showing("diff", v)
    BY <1>5, <1>a, <1>c, <2>2 DEF CancelDiff, View, PageStatus
  <2>0. /\ views'["diff"] = v
        /\ \A q \in Persistent : q # "diff" => views'[q] = views[q] /\ persisted'[q] = persisted[q]
        /\ \/ persisted'["diff"] = v
           \/ persisted'["diff"] = persisted["diff"] /\ v.of # persisted["diff"].of
    BY <1>c, <2>3, SavedOrGrown
  <2>4. persisted'["diff"].status # "done"
    BY <1>c, <1>d, <2>0, <2>3 DEF ShownInv
  <2>5. ShownInv("diff")'
    BY <1>c, <2>1, <2>0, <2>3, <2>4 DEF ShownInv
  <2>6. ASSUME NEW q \in Persistent, q # "diff" PROVE ShownInv(q)'
    <3>1. views'[q] = views[q] /\ persisted'[q] = persisted[q]
      BY <1>c, <2>3, <2>6, SavedOrGrown
    <3> QED
      BY <1>c, <1>d, <1>g, <2>1, <2>6, <3>1 DEF ShownInv
  <2> QED
    BY <2>5, <2>6 DEF ShownAll
<1>6. ASSUME NEW p \in Pages, Reset(p) PROVE ShownAll'
  <2>1. /\ Aborting(p) /\ p \in Persistent
        /\ \A q \in Pages : active'[q] = IF q = p THEN 0 ELSE active[q]
        /\ \A q \in Pages : wanted'[q] = IF q = p THEN 0 ELSE wanted[q]
        /\ \A q \in Pages : views'[q] = IF q = p THEN AtRest ELSE views[q]
        /\ \A q \in Persistent : persisted'[q] = IF q = p THEN AtRest ELSE persisted[q]
    BY <1>6, <1>a, <1>c DEF Reset
  <2>2. ShownInv(p)'
    BY <2>1 DEF ShownInv, AtRest
  <2>3. ASSUME NEW q \in Persistent, q # p PROVE ShownInv(q)'
    BY <1>c, <1>d, <1>g, <2>1, <2>3 DEF ShownInv
  <2> QED
    BY <2>2, <2>3 DEF ShownAll
<1>7. CASE PickFile \/ BackToForm
  <2>1. /\ UNCHANGED <<active, persisted, sends>>
        /\ \A q \in Persistent : views'[q] = views[q] /\ wanted'[q] = wanted[q]
    BY <1>7, <1>a, <1>c DEF PickFile, BackToForm
  <2> QED
    BY <1>d, <2>1 DEF ShownAll, ShownInv
<1>8. ASSUME NEW gone \in SUBSET Pages, Remounted(gone) PROVE ShownAll'
  <2>1. ASSUME NEW q \in Persistent
        PROVE  /\ views'[q] = IF q \in gone THEN Restored(q) ELSE views[q]
               /\ persisted'[q] \in {persisted[q], Restored(q)}
               /\ q \notin gone => persisted'[q] = persisted[q]
               /\ active'[q] = IF q \in gone THEN 0 ELSE active[q]
               /\ wanted'[q] = wanted[q]
    BY <1>8, <1>a, <1>c DEF Remounted
  <2>2. ASSUME NEW q \in Persistent
        PROVE  /\ Restored(q).status # "loading" /\ Restored(q).of = persisted[q].of
               /\ Restored(q).status = "done" <=> persisted[q].status = "done"
    BY <1>a DEF Restored, View
  <2>3. /\ DOMAIN sends' = DOMAIN sends
        /\ \A c \in DOMAIN sends : /\ sends'[c].page = sends[c].page
                                   /\ sends'[c].aborted = sends[c].aborted
                                   /\ sends[c].page \notin gone => sends'[c].flying = sends[c].flying
    BY <1>8, <1>b DEF Remounted, Call
  <2>4. ASSUME NEW q \in Persistent, q \in gone PROVE ShownInv(q)'
    BY <1>c, <1>d, <2>1, <2>2, <2>4 DEF ShownInv
  <2>5. ASSUME NEW q \in Persistent, q \notin gone PROVE ShownInv(q)'
    BY <1>d, <2>1, <2>3, <2>5 DEF ShownInv
  <2> QED
    BY <2>4, <2>5 DEF ShownAll
<1> QED
  BY <1>1, <1>2, <1>3, <1>4, <1>5, <1>6, <1>7, <1>8 DEF PagesNext, LeavePage, ReloadTab

-----------------------------------------------------------------------------
(* The types, and that each page shows the result of its last call, hold   *)
(* in every state.                                                         *)
THEOREM PagesInductive == PagesSpec => [](PagesTyped /\ ShownAll)
<1>1. PagesInit => PagesTyped /\ ShownAll
  BY PagesInitTyped, ShownInitInv
<1>2. PagesTyped /\ ShownAll /\ [PagesNext]_pageVars => (PagesTyped /\ ShownAll)'
  BY PagesNextTyped, ShownNextInv
<1> QED
  BY <1>1, <1>2, PTL DEF PagesSpec

(* The comparison, parsing and search pages show and restore the result of *)
(* the last wanted call only, and wait only for an answer they will use    *)
(* (diffStore.ts, parseStore.ts, SearchPage.tsx).                          *)
THEOREM LatestIsShown == PagesSpec => []ShownIsLatest
<1>1. PagesTyped /\ ShownAll => ShownIsLatest
  <2> SUFFICES ASSUME PagesTyped, ShownAll PROVE ShownIsLatest
    OBVIOUS
  <2>1. \A p \in Persistent : persisted[p] \in View
    BY DEF PagesTyped, PagesTypeOK
  <2>2. \A p \in Persistent : Restored(p).status = "done" =>
          persisted[p].status = "done" /\ Restored(p).of = persisted[p].of
    BY <2>1 DEF Restored, View
  <2>3. ASSUME NEW p \in Persistent, NEW view \in {views[p], Restored(p)}, view.status = "done"
        PROVE  view.of = wanted[p]
    BY <2>2, <2>3 DEF ShownAll, ShownInv
  <2>4. ASSUME NEW p \in Persistent, views[p].status = "loading"
        PROVE  \E call \in DOMAIN sends : /\ sends[call].page = p /\ sends[call].flying
                                          /\ ~sends[call].aborted /\ IsCurrent(p, call)
    BY <2>4 DEF ShownAll, ShownInv, IsCurrent
  <2> QED
    BY <2>3, <2>4 DEF ShownIsLatest
<1> QED
  BY <1>1, PagesInductive, PTL

-----------------------------------------------------------------------------
(* The composition.                                                        *)

(* Every behaviour of the browser is one of the chat and one of the pages. *)
THEOREM BrowserImplementsParts == BrowserSpec => Spec /\ PagesSpec
<1>1. [BrowserNext]_<<part, vars, pageVars>> => [Next]_vars /\ [PagesNext]_pageVars
  BY DEF BrowserNext, ChatStep, PagesStep
<1> QED
  BY <1>1, PTL DEF BrowserSpec, BrowserInit, Spec, PagesSpec

(* The variables of the chat and of the pages keep their types while both  *)
(* are in use.                                                             *)
THEOREM BrowserTypeCorrect == BrowserSpec => []BrowserTypeOK
<1>1. TypeOK /\ PagesTyped => BrowserTypeOK
  BY DEF PagesTyped, BrowserTypeOK
<1> QED
  BY <1>1, BrowserImplementsParts, ChatTypeCorrect, PagesInductive, PTL
=============================================================================
