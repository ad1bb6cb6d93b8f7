--------------------------- MODULE MCKnowledgeBase ---------------------------
(***************************************************************************)
(* An instance of KnowledgeBase: two contents of one and two chunks, one   *)
(* file name uploaded under two sources, the second time in decomposed     *)
(* form, and a file of the manifest that has no source_url.                *)
(***************************************************************************)
EXTENDS KnowledgeBase, TLC

CONSTANTS d1, d2, onedriveA, slackA, manual, urlA, urlDecomposed

MCSize == d1 :> 1 @@ d2 :> 2
MCItems == {onedriveA, slackA, manual}
MCFileOf == [i \in MCItems |-> i]
MCUrlOf == onedriveA :> urlA @@ slackA :> urlDecomposed @@ manual :> NoUrl
MCNfc == [u \in {urlA, urlDecomposed, NoUrl} |-> IF u = NoUrl THEN u ELSE urlA]
MCInitDisk == [f \in MCItems |-> IF f = manual THEN d1 ELSE NoDoc]
MCSymmetry == Permutations(Ingests) \cup Permutations(Deletes)
=============================================================================
