---------------------------- MODULE MCChatStore ----------------------------
(* The small instances of ChatStore: tabs, questions and sessions are      *)
(* interchangeable, and no property names one of them.                     *)
EXTENDS ChatStore, TLC

Interchangeable ==
  Permutations(Tabs) \cup Permutations(Queries) \cup Permutations(Sessions)
=============================================================================
