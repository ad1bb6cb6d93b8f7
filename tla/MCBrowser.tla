----------------------------- MODULE MCBrowser -----------------------------
(***************************************************************************)
(* The browser: the chat, whose tabs share saved sessions, and the pages   *)
(* of one tab that send a request at a time.  They share no state and no   *)
(* property speaks of both, so only one of them moves in a behaviour,      *)
(* which leaves the sum of their state spaces instead of the product.      *)
(***************************************************************************)
EXTENDS MCChatStore, PageRequests

VARIABLE part          \* the component that moves

BrowserTypeOK == TypeOK /\ PagesTypeOK

BrowserInit == part \in {"chat", "pages"} /\ Init /\ PagesInit

ChatStep ==
  /\ part = "chat" /\ Next
  /\ UNCHANGED <<part, pageVars>>

PagesStep ==
  /\ part = "pages" /\ PagesNext
  /\ UNCHANGED <<part, vars>>

BrowserNext == ChatStep \/ PagesStep

BrowserSpec == BrowserInit /\ [][BrowserNext]_<<part, vars, pageVars>>
=============================================================================
