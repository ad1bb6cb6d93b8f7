---------------------------- MODULE PageRequests ----------------------------
(***************************************************************************)
(* The four browser pages that send one request at a time and show what    *)
(* comes back.  "diff" and "parse" keep their state in a singleton store   *)
(* outside the component (diffStore.ts, parseStore.ts), so a request goes  *)
(* on while another page is shown; "search" and "extract" keep it in the   *)
(* component and lose it when the page is left (SearchPage.tsx,            *)
(* ExtractionPanel.tsx).  All but "extract" also save it in                *)
(* sessionStorage.                                                         *)
(*                                                                         *)
(* A call is known by its number in calls.  An answer may arrive long      *)
(* after the user cancelled, reset, searched again, chose another file or  *)
(* reloaded the tab.                                                       *)
(***************************************************************************)
EXTENDS Integers, Sequences, FiniteSets

CONSTANTS
  MaxSends,     (* bound: calls sent in a behaviour                        *)
  MaxChoices    (* bound: times another file is put into the extraction    *)
                (*   page                                                  *)

ASSUME PagesAssumption == MaxSends \in Nat /\ MaxChoices \in Nat

VARIABLES
  views,        (* what a page's state says: its status, and the call      *)
                (*   whose result it holds, 0 for none                     *)
  active,       (* activeController, requestIdRef: a call, 0 for none      *)
  persisted,    (* the page's entry in sessionStorage                      *)
  paperHeld,    (* the number of the file the extraction page holds, or 0  *)
  sends,        (* the calls: page, input, in flight or not, aborted or not*)
  wanted        (* history: of a page the last call sent that was not      *)
                (*   cancelled, reset or left behind                       *)

pageVars == <<views, active, persisted, paperHeld, sends, wanted>>

Stores == {"diff", "parse"}
Persistent == Stores \cup {"search"}
Pages == Persistent \cup {"extract"}
AtRest == [status |-> "idle", of |-> 0]
PageStatus == {"idle", "loading", "done", "error"}
View == [status : PageStatus, of : 0..MaxSends]

PagesInit ==
  /\ views = [p \in Pages |-> AtRest]
  /\ active = [p \in Pages |-> 0]
  /\ persisted = [p \in Persistent |-> AtRest]
  /\ paperHeld = 0
  /\ sends = <<>>
  /\ wanted = [p \in Pages |-> 0]

-----------------------------------------------------------------------------
(* setState followed by persist().  A save that has to grow may exceed the *)
(* quota: savePersisted swallows the exception and the older entry stays.  *)
Showing(p, view) ==
  /\ views' = [views EXCEPT ![p] = view]
  /\ IF p \in Persistent
       THEN \/ persisted' = [persisted EXCEPT ![p] = view]
            \/ view.of \notin {0, persisted[p].of} /\ UNCHANGED persisted
       ELSE UNCHANGED persisted

(* AbortController.abort() on the page's active call, if there is one. *)
Aborting(p) ==
  sends' = [c \in DOMAIN sends |->
              [sends[c] EXCEPT !.aborted = @ \/ (p \in Stores /\ c = active[p])]]

(* The user starts a call: compare, parse, performSearch, handleRun.  All  *)
(* but the search page ignore this while a call runs.  The search keeps    *)
(* the older hits in its state until the new ones arrive.                  *)
SendCall(p) ==
  /\ Len(sends) < MaxSends
  /\ p = "search" \/ views[p].status # "loading"
  /\ p = "extract" => paperHeld # 0
  /\ LET call == Len(sends) + 1 IN
       /\ sends' = Append(sends, [page |-> p, input |-> paperHeld, flying |-> TRUE, aborted |-> FALSE])
       /\ active' = [active EXCEPT ![p] = call]
       /\ wanted' = [wanted EXCEPT ![p] = call]
       /\ Showing(p, [status |-> "loading", of |-> IF p = "search" THEN views[p].of ELSE 0])
  /\ UNCHANGED paperHeld

(* Fault: the stores and the search page use every answer.                *)
NoCheckFault(p, call) == TRUE

(* The test before an answer is used: activeController === controller, or  *)
(* requestId === requestIdRef.current.  The extraction panel makes none.   *)
IsCurrent(p, call) == p = "extract" \/ active[p] = call

Landed(call) == sends' = [sends EXCEPT ![call].flying = FALSE]

Dropped(p, call) ==    \* finally: if (activeController === controller) activeController = null
  active' = IF p \in Stores /\ active[p] = call THEN [active EXCEPT ![p] = 0] ELSE active

(* The answer of a call is taken.  An aborted call may have been answered  *)
(* before the abort reached it.                                            *)
AnswerArrives(call) ==
  LET p == sends[call].page IN
  /\ sends[call].flying
  /\ Landed(call)
  /\ Dropped(p, call)
  /\ IF IsCurrent(p, call)
       THEN Showing(p, [status |-> "done", of |-> call])
       ELSE UNCHANGED <<views, persisted>>
  /\ UNCHANGED <<paperHeld, wanted>>

(* The call is rejected: an error answer, no network, or the abort. *)
CallFails(call) ==
  LET p == sends[call].page IN
  /\ sends[call].flying
  /\ Landed(call)
  /\ Dropped(p, call)
  /\ IF ~sends[call].aborted /\ IsCurrent(p, call)
       THEN Showing(p, [views[p] EXCEPT !.status = "error"])
       ELSE UNCHANGED <<views, persisted>>
  /\ UNCHANGED <<paperHeld, wanted>>

-----------------------------------------------------------------------------
(* diffStore.cancel() *)
CancelDiff ==
  /\ active["diff"] # 0
  /\ Aborting("diff")
  /\ active' = [active EXCEPT !["diff"] = 0]
  /\ wanted' = [wanted EXCEPT !["diff"] = 0]
  /\ IF views["diff"].status = "loading"
       THEN Showing("diff", [views["diff"] EXCEPT !.status = "idle"])
       ELSE UNCHANGED <<views, persisted>>
  /\ UNCHANGED paperHeld

(* reset() of the stores and resetToInitial() of the search page, which    *)
(* has no controller: raising requestIdRef makes its call an older one.    *)
Reset(p) ==
  /\ p \in Persistent
  /\ Aborting(p)
  /\ active' = [active EXCEPT ![p] = 0]
  /\ views' = [views EXCEPT ![p] = AtRest]
  /\ persisted' = [persisted EXCEPT ![p] = AtRest]
  /\ wanted' = [wanted EXCEPT ![p] = 0]
  /\ UNCHANGED paperHeld

(* Another file is put into the extraction page: the panel stays mounted   *)
(* and its effect empties the result.  From no file, the panel mounts.     *)
PickFile ==
  /\ paperHeld < MaxChoices
  /\ paperHeld' = paperHeld + 1
  /\ views' = [views EXCEPT !["extract"] = AtRest]
  /\ wanted' = [wanted EXCEPT !["extract"] = 0]
  /\ UNCHANGED <<active, persisted, sends>>

BackToForm ==
  /\ views["extract"].of # 0
  /\ views' = [views EXCEPT !["extract"] = AtRest]
  /\ UNCHANGED <<active, persisted, paperHeld, sends, wanted>>

(* hydrate() and the initial state of SearchPage: a call that was running  *)
(* is taken for lost.                                                      *)
Restored(p) ==
  IF p \in Persistent
    THEN [persisted[p] EXCEPT !.status = IF @ = "loading" THEN "idle" ELSE @]
    ELSE AtRest

(* Pages in gone lose their state and come back; their calls reach nobody. *)
Remounted(gone) ==
  /\ paperHeld' = IF "extract" \in gone THEN 0 ELSE paperHeld
  /\ views' = [p \in Pages |-> IF p \in gone THEN Restored(p) ELSE views[p]]
  /\ persisted' = [p \in Persistent |->
                 IF p \in gone /\ p \notin Stores THEN Restored(p) ELSE persisted[p]]
  /\ active' = [p \in Pages |-> IF p \in gone THEN 0 ELSE active[p]]
  /\ sends' = [c \in DOMAIN sends |->
                 [sends[c] EXCEPT !.flying = @ /\ sends[c].page \notin gone]]
  /\ wanted' = [wanted EXCEPT !["extract"] = IF "extract" \in gone THEN 0 ELSE @]

(* Another page is opened and this one again, or the extraction page is    *)
(* sent back to its first screen, which unmounts the panel.                *)
LeavePage(p) == p \notin Stores /\ Remounted({p})

ReloadTab == Remounted(Pages)

PagesNext ==
  \/ \E p \in Pages : SendCall(p) \/ Reset(p) \/ LeavePage(p)
  \/ \E call \in DOMAIN sends : AnswerArrives(call) \/ CallFails(call)
  \/ CancelDiff \/ PickFile \/ BackToForm \/ ReloadTab

PagesSpec == PagesInit /\ [][PagesNext]_pageVars

-----------------------------------------------------------------------------
PagesTypeOK ==
  /\ views \in [Pages -> View]
  /\ persisted \in [Persistent -> View]
  /\ active \in [Pages -> 0..MaxSends]
  /\ wanted \in [Pages -> 0..MaxSends]
  /\ paperHeld \in 0..MaxChoices
  /\ sends \in Seq([page : Pages, input : 0..MaxChoices, flying : BOOLEAN, aborted : BOOLEAN])

(* A page that keeps its state over a change of page shows, and restores   *)
(* from sessionStorage, only the result of the last call its user sent and *)
(* did not call off, however late the older answers come and whichever     *)
(* save failed; and a page that says it is loading has a call in flight    *)
(* whose answer it will use (the race guards of diffStore.ts,              *)
(* parseStore.ts and SearchPage.tsx, and hydrate()).                       *)
ShownIsLatest ==
  /\ \A p \in Persistent : \A view \in {views[p], Restored(p)} :
       view.status = "done" => view.of = wanted[p]
  /\ \A p \in Persistent :
       views[p].status = "loading" =>
         \E call \in DOMAIN sends : /\ sends[call].page = p /\ sends[call].flying
                                    /\ ~sends[call].aborted /\ IsCurrent(p, call)

=============================================================================
