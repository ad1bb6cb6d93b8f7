------------------------- MODULE KnowledgeBase_proofs -------------------------
(***************************************************************************)
(* Proofs about KnowledgeBase, for any number of documents, items, ingests *)
(* and deletes, and any chunking.                                          *)
(***************************************************************************)
EXTENDS KnowledgeBase, TLAPS

-----------------------------------------------------------------------------
(* Chunk ids.                                                              *)

(* Chunk ids begin with their document.                                    *)
LEMMA ChunkIdFacts ==
  /\ \A c \in ChunkIds : c[1] \in Docs
  /\ \A d, e \in Docs : ChunksOf(d, e) \subseteq ChunkIds
  /\ \A d, e \in Docs : \A n \in 1..Size[e] : <<d, n>> \in ChunksOf(d, e)
  /\ \A d, e \in Docs : \A c \in ChunksOf(d, e) : c[1] = d
<1>1. ASSUME NEW c \in ChunkIds PROVE c[1] \in Docs
  <2>1. PICK d \in Docs, e \in Docs : c \in {d} \X (1..Size[e])
    BY DEF ChunkIds
  <2> QED
    BY <2>1
<1>2. ASSUME NEW d \in Docs, NEW e \in Docs PROVE ChunksOf(d, e) \subseteq ChunkIds
  <2> DEFINE S == {{a} \X (1..Size[b]) : a \in Docs, b \in Docs}
  <2>1. ChunksOf(d, e) \in S
    BY DEF ChunksOf
  <2> HIDE DEF S
  <2>2. ChunksOf(d, e) \subseteq UNION S
    BY <2>1
  <2> QED
    BY <2>2 DEF ChunkIds, S
<1>3. \A d, e \in Docs : \A n \in 1..Size[e] : <<d, n>> \in ChunksOf(d, e)
  BY DEF ChunksOf
<1>4. \A d, e \in Docs : \A c \in ChunksOf(d, e) : c[1] = d
  BY DEF ChunksOf
<1> QED
  BY <1>1, <1>2, <1>3, <1>4

-----------------------------------------------------------------------------
(* Type correctness, together with what each step of a call has found.     *)

(* The types and stages hold with empty stores.                            *)
LEMMA InitTypes == Init => TypeOK /\ StageInv
<1> SUFFICES ASSUME Init PROVE TypeOK /\ StageInv
  OBVIOUS
<1>1. TypeOK
  BY DiskAssumption DEF Init, TypeOK, Steps, Stages
<1>2. StageInv
  BY DEF Init, StageInv, Ingesting, Named, Deleting
<1> QED
  BY <1>1, <1>2

(* Every step keeps the types and the stages of the ingests.               *)
LEMMA NextTypes == TypeOK /\ StageInv /\ [Next]_vars => TypeOK' /\ StageInv'
<1> SUFFICES ASSUME TypeOK, StageInv, [Next]_vars PROVE TypeOK' /\ StageInv'
  OBVIOUS
<1> USE DocsAssumption, ItemsAssumption
    DEF Steps, Ingesting, Named, Stages, Deleting, stores, ingests, deletes,
        history, Goto
<1>1. ASSUME NEW w \in Ingests, Upload(w) PROVE TypeOK' /\ StageInv'
  <2>1. PICK i \in UploadItems, d \in Docs :
          /\ disk' = [disk EXCEPT ![FileOf[i]] = d]
          /\ item' = [item EXCEPT ![w] = i]
    BY <1>1 DEF Upload
  <2>2. i \in Items /\ step[w] = "new"
    BY <1>1 DEF Upload
  <2>3. \A f \in Files : disk[f] \in Docs => disk'[f] \in Docs
    BY <2>1 DEF TypeOK
  <2>4. TypeOK'
    BY <1>1, <2>1, <2>2 DEF Upload, TypeOK
  <2>5. \A v \in Ingests : step'[v] = "hash" => item'[v] = item[v] /\ step[v] = "hash"
    BY <1>1, <2>1 DEF Upload, TypeOK
  <2>6. StageInv'
    BY <1>1, <2>1, <2>2, <2>3, <2>5 DEF Upload, TypeOK, StageInv
  <2> QED
    BY <2>4, <2>6
<1>2. ASSUME NEW w \in Ingests, Submit(w) PROVE TypeOK' /\ StageInv'
  BY <1>2 DEF Submit, TypeOK, StageInv
<1>3. ASSUME NEW w \in Ingests, Extract(w) PROVE TypeOK' /\ StageInv'
  <2>1. disk[FileOf[item[w]]] \in Docs
    BY <1>3 DEF Extract, FileContent, StageInv, TypeOK
  <2> QED
    BY <1>3, <2>1 DEF Extract, FileContent, TypeOK, StageInv
<1>4. ASSUME NEW w \in Ingests, Hash(w) PROVE TypeOK' /\ StageInv'
  <2>1. disk[FileOf[item[w]]] \in Docs /\ Size[text[w]] \in Nat /\ next[w] = 1
    BY <1>4 DEF Hash, StageInv
  <2> QED
    BY <1>4, <2>1 DEF Hash, FileContent, TypeOK, StageInv
<1>5. ASSUME NEW w \in Ingests, IndexChunk(w) PROVE TypeOK' /\ StageInv'
  <2>1. /\ text[w] \in Docs /\ item[w] \in Items /\ Size[text[w]] \in Nat
        /\ next[w] <= Size[text[w]] /\ next[w] \in Nat \ {0}
    BY <1>5 DEF IndexChunk, StageInv, TypeOK
  <2>2. vector' \in [ChunkIds -> Chunk \cup {NoChunk}]
    BY <1>5, <2>1 DEF IndexChunk, Chunk, ChunkOf, TypeOK
  <2>3. TypeOK'
    BY <1>5, <2>1, <2>2 DEF IndexChunk, Wrote, TypeOK
  <2>4. StageInv'
    BY <1>5, <2>1 DEF IndexChunk, StageInv, TypeOK
  <2> QED
    BY <2>3, <2>4
<1>6. ASSUME NEW w \in Ingests, AddDocument(w) PROVE TypeOK' /\ StageInv'
  BY <1>6 DEF AddDocument, Wrote, TypeOK, StageInv
<1>7. ASSUME NEW w \in Ingests, AddChunks(w) PROVE TypeOK' /\ StageInv'
  BY <1>7 DEF AddChunks, WithChunks, Wrote, TypeOK, StageInv
<1>8. ASSUME NEW w \in Ingests, IndexFile(w) PROVE TypeOK' /\ StageInv'
  BY <1>8 DEF IndexFile, Wrote, TypeOK, StageInv
<1>9. ASSUME NEW w \in Ingests, FailIngest(w) PROVE TypeOK' /\ StageInv'
  BY <1>9 DEF FailIngest, TypeOK, StageInv
<1>10. ASSUME NEW x \in Deletes, FindDoc(x) PROVE TypeOK' /\ StageInv'
  <2>1. \A d \in Docs : FileDocUrl(d) \in Urls \cup {NoUrl}
    BY DEF FileDocUrl, TypeOK
  <2> QED
    BY <1>10, <2>1 DEF FindDoc, TypeOK, StageInv
<1>11. ASSUME NEW x \in Deletes, DeleteChunks(x) PROVE TypeOK' /\ StageInv'
  BY <1>11 DEF DeleteChunks, Took, TypeOK, StageInv
<1>12. ASSUME NEW x \in Deletes, DeleteGraph(x) PROVE TypeOK' /\ StageInv'
  BY <1>12 DEF DeleteGraph, Took, TypeOK, StageInv
<1>13. ASSUME NEW x \in Deletes, DeleteFile(x) PROVE TypeOK' /\ StageInv'
  BY <1>13 DEF DeleteFile, Took, TypeOK, StageInv
<1>14. ASSUME NEW x \in Deletes, FailDelete(x) PROVE TypeOK' /\ StageInv'
  BY <1>14 DEF FailDelete, TypeOK, StageInv
<1>15. CASE UNCHANGED vars
  BY <1>15 DEF vars, TypeOK, StageInv
<1> QED
  BY <1>1, <1>2, <1>3, <1>4, <1>5, <1>6, <1>7, <1>8, <1>9, <1>10, <1>11,
     <1>12, <1>13, <1>14, <1>15 DEF Next, IngestStep, DeleteStep

(* The stores and every call in progress keep their types, whatever fails. *)
THEOREM TypeCorrect == Spec => []TypeOK
<1>1. TypeOK /\ StageInv /\ [Next]_vars => (TypeOK /\ StageInv)'
  BY NextTypes
<1> QED
  BY InitTypes, <1>1, PTL DEF Spec

-----------------------------------------------------------------------------
(* What a step of one call leaves to the others.                           *)

(* What an ingest has indexed so far is what its stage says.               *)
LEMMA IndexedFacts ==
  ASSUME TypeOK, StageInv, NEW w \in Ingests, step[w] \in Named \cup {"ok"}
  PROVE  /\ doc[w] \in Docs /\ text[w] \in Docs /\ item[w] \in Items
         /\ ChunksOf(doc[w], text[w]) \subseteq ChunkIds
         /\ Indexed(w) \subseteq ChunksOf(doc[w], text[w])
         /\ step[w] # "vector" => Indexed(w) = ChunksOf(doc[w], text[w])
         /\ \A c \in ChunksOf(doc[w], text[w]) : c[1] = doc[w]
<1>1. /\ doc[w] \in Docs /\ text[w] \in Docs /\ item[w] \in Items
      /\ Size[text[w]] \in Nat /\ next[w] \in Nat \ {0}
      /\ step[w] = "vector" => next[w] <= Size[text[w]]
  BY DocsAssumption DEF StageInv, TypeOK, Named, Ingesting
<1>2. Indexed(w) \subseteq ChunksOf(doc[w], text[w])
  BY <1>1 DEF Indexed, ChunksOf
<1>3. step[w] # "vector" => Indexed(w) = ChunksOf(doc[w], text[w])
  BY DEF Indexed, ChunksOf
<1> QED
  BY <1>1, <1>2, <1>3, ChunkIdFacts

(* An ingest only ever adds, and only to the document it has hashed; if it *)
(* writes at all, the history of the others says so.                       *)
LEMMA IngestFrame ==
  ASSUME TypeOK, StageInv, NEW v \in Ingests, IngestStep(v)
  PROVE  /\ UNCHANGED <<robbed, deletes>>
         /\ \A w \in Ingests : w # v =>
              /\ step'[w] = step[w] /\ item'[w] = item[w] /\ text'[w] = text[w]
              /\ doc'[w] = doc[w] /\ next'[w] = next[w]
         /\ graphDocs \subseteq graphDocs'
         /\ \A c \in ChunkIds : /\ vector[c] # NoChunk => vector'[c] # NoChunk
                                /\ graphChunks[c] # NoItem => graphChunks'[c] # NoItem
         /\ \A d \in Docs : search[d] # NoItem => search'[d] # NoItem
         /\ \/ UNCHANGED <<stores, raced, rewritten>>
            \/ /\ doc[v] \in Docs
               /\ \A c \in ChunkIds : c[1] # doc[v] =>
                    vector'[c] = vector[c] /\ graphChunks'[c] = graphChunks[c]
               /\ \A d \in Docs : d # doc[v] =>
                    /\ search'[d] = search[d]
                    /\ d \in graphDocs' <=> d \in graphDocs
               /\ raced' = [w \in Ingests |-> raced[w] \/ (w # v /\ doc[w] = doc[v])]
               /\ rewritten' = [x \in Deletes |-> rewritten[x] \/ target[x] = doc[v]]
<1> USE DEF stores, deletes, history, Goto
<1>1. CASE Upload(v) \/ Submit(v) \/ Extract(v) \/ Hash(v) \/ FailIngest(v)
  BY <1>1 DEF Upload, Submit, Extract, Hash, FailIngest, TypeOK
<1>2. CASE IndexChunk(v) \/ AddDocument(v) \/ AddChunks(v) \/ IndexFile(v)
  <2>1. step[v] \in Named
    BY <1>2 DEF IndexChunk, AddDocument, AddChunks, IndexFile, Named
  <2>2. /\ doc[v] \in Docs /\ text[v] \in Docs /\ item[v] \in Items
        /\ item[v] # NoItem /\ ChunkOf(v) # NoChunk
        /\ \A c \in ChunksOf(doc[v], text[v]) : c[1] = doc[v]
    BY <2>1, IndexedFacts, DocsAssumption DEF ChunkOf, NoChunk
  <2>3. CASE IndexChunk(v)
    <3>1. \A c \in ChunkIds : vector'[c] = IF c = <<doc[v], next[v]>> THEN ChunkOf(v)
                                                                   ELSE vector[c]
      BY <2>3 DEF IndexChunk, TypeOK
    <3>2. \A c \in ChunkIds : c[1] # doc[v] => vector'[c] = vector[c]
      BY <3>1
    <3>3. \A c \in ChunkIds : vector[c] # NoChunk => vector'[c] # NoChunk
      BY <2>2, <3>1
    <3> QED
      BY <2>2, <2>3, <3>2, <3>3 DEF IndexChunk, Wrote, TypeOK
  <2>4. CASE AddDocument(v)
    BY <2>2, <2>4 DEF AddDocument, Wrote, TypeOK
  <2>5. CASE AddChunks(v)
    BY <2>2, <2>5 DEF AddChunks, WithChunks, Wrote, TypeOK
  <2>6. CASE IndexFile(v)
    BY <2>2, <2>6 DEF IndexFile, Wrote, TypeOK
  <2> QED
    BY <1>2, <2>3, <2>4, <2>5, <2>6
<1> QED
  BY <1>1, <1>2 DEF IngestStep

(* A delete only ever takes, and whoever it takes something from learns it.*)
LEMMA DeleteFrame ==
  ASSUME TypeOK, NEW x \in Deletes, DeleteStep(x)
  PROVE  /\ UNCHANGED <<disk, ingests, raced, rewritten>>
         /\ \A y \in Deletes : y # x =>
              stage'[y] = stage[y] /\ target'[y] = target[y] /\ url'[y] = url[y]
         /\ graphDocs' \subseteq graphDocs
         /\ \A c \in ChunkIds : /\ vector'[c] \in {vector[c], NoChunk}
                                /\ graphChunks'[c] \in {graphChunks[c], NoItem}
         /\ \A d \in Docs : search'[d] \in {search[d], NoItem}
         /\ \A w \in Ingests : ~robbed'[w] =>
              /\ ~robbed[w]
              /\ \A c \in ChunkIds : c[1] = doc[w] =>
                   vector'[c] = vector[c] /\ graphChunks'[c] = graphChunks[c]
              /\ doc[w] \in graphDocs => doc[w] \in graphDocs'
              /\ doc[w] \in Docs => search'[doc[w]] = search[doc[w]]
<1> USE DEF stores, ingests, history
<1>1. CASE FindDoc(x)
  BY <1>1 DEF FindDoc, TypeOK
<1>2. CASE DeleteChunks(x)
  BY <1>2 DEF DeleteChunks, Took, TypeOK
<1>3. CASE DeleteGraph(x)
  BY <1>3 DEF DeleteGraph, Took, TypeOK
<1>4. CASE DeleteFile(x)
  BY <1>4 DEF DeleteFile, Took, TypeOK
<1>5. CASE FailDelete(x)
  BY <1>5 DEF FailDelete, TypeOK
<1> QED
  BY <1>1, <1>2, <1>3, <1>4, <1>5 DEF DeleteStep

-----------------------------------------------------------------------------
(* What an ingest has put into the stores.                                 *)

(* A step of the ingest itself brings the stores to where it says it is.   *)
LEMMA OwnStep ==
  ASSUME TypeOK, StageInv, NEW v \in Ingests, IngestStep(v)
  PROVE  (Whole(v) => Whole(v)') /\ (Agree(v) => Agree(v)')
<1> USE DEF Named, Goto
<1>a. step \in [Ingests -> Steps] /\ doc \in [Ingests -> Docs \cup {NoDoc}]
      /\ next \in [Ingests -> Nat \ {0}]
  BY DEF TypeOK
<1>1. CASE Upload(v) \/ Submit(v) \/ Extract(v) \/ FailIngest(v)
  <2>1. step'[v] \in {"extract", "hash", "failed"}
    BY <1>1, <1>a DEF Upload, Submit, Extract, FailIngest
  <2> QED
    BY <2>1 DEF Whole, Agree
<1>2. CASE Hash(v)
  <2>1. step'[v] = (IF Size[text[v]] = 0 THEN "document" ELSE "vector")
        /\ next'[v] = 1 /\ text'[v] = text[v]
    BY <1>2, <1>a DEF Hash, StageInv
  <2>2. Indexed(v)' = {}
    BY <2>1 DEF Indexed
  <2> QED
    BY <2>1, <2>2 DEF Whole, Agree
<1>3. CASE IndexChunk(v)
  <2> DEFINE id == <<doc[v], next[v]>>
  <2>1. step[v] = "vector" /\ UNCHANGED <<doc, text, item>>
        /\ next'[v] = next[v] + 1
        /\ step'[v] = (IF next[v] = Size[text[v]] THEN "document" ELSE "vector")
    BY <1>3, <1>a DEF IndexChunk
  <2>2. next[v] \in Nat \ {0} /\ Size[text[v]] \in Nat /\ next[v] <= Size[text[v]]
    BY <2>1, <1>a, DocsAssumption DEF StageInv
  <2>3. Indexed(v) = {doc[v]} \X (1..(next[v] - 1))
    BY <2>1 DEF Indexed
  <2>4. Indexed(v)' = {doc[v]} \X (1..next[v])
    BY <2>1, <2>2 DEF Indexed
  <2>5. \A c \in Indexed(v)' : c = id \/ c \in Indexed(v)
    BY <2>2, <2>3, <2>4
  <2>6. /\ doc[v] \in Docs /\ text[v] \in Docs /\ item[v] \in Items
        /\ Indexed(v) \subseteq ChunkIds /\ id \in ChunkIds
    BY <2>1, <2>2, IndexedFacts, ChunkIdFacts
  <2>7. \A c \in ChunkIds : vector'[c] = IF c = id THEN ChunkOf(v) ELSE vector[c]
    BY <1>3 DEF IndexChunk, TypeOK
  <2>8. ChunkOf(v) # NoChunk /\ ChunkOf(v)' = ChunkOf(v)
    BY <2>1, <2>6, DocsAssumption DEF ChunkOf, NoChunk
  <2>9. Whole(v) => Whole(v)'
    BY <2>1, <2>5, <2>6, <2>7, <2>8 DEF Whole
  <2>10. Agree(v) => Agree(v)'
    BY <2>1, <2>5, <2>6, <2>7, <2>8 DEF Agree
  <2> QED
    BY <2>9, <2>10
<1>4. CASE AddDocument(v) \/ AddChunks(v) \/ IndexFile(v)
  <2>1. step[v] \in {"document", "chunks", "file"} /\ UNCHANGED <<doc, text, item, next, vector>>
    BY <1>4 DEF AddDocument, AddChunks, IndexFile
  <2>2. /\ doc[v] \in Docs /\ text[v] \in Docs /\ item[v] \in Items
        /\ ChunksOf(doc[v], text[v]) \subseteq ChunkIds
    BY <2>1, IndexedFacts
  <2>3. step'[v] # "vector"
    BY <1>4, <1>a DEF AddDocument, AddChunks, IndexFile
  <2>4. /\ Indexed(v)' = Indexed(v) /\ ChunksOf(doc[v], text[v])' = ChunksOf(doc[v], text[v])
        /\ ChunkOf(v)' = ChunkOf(v)
    BY <2>1, <2>3 DEF Indexed, ChunksOf, ChunkOf
  <2>5. CASE AddDocument(v)
    <3>1. step[v] = "document" /\ step'[v] = "chunks" /\ doc[v] \in graphDocs'
      BY <2>5, <1>a DEF AddDocument
    <3> QED
      BY <2>1, <2>4, <3>1 DEF Whole, Agree
  <2>6. CASE AddChunks(v)
    <3>1. step[v] = "chunks" /\ step'[v] = "file" /\ graphDocs \subseteq graphDocs'
      BY <2>6, <1>a DEF AddChunks
    <3>2. \A c \in ChunksOf(doc[v], text[v]) : graphChunks'[c] = item[v]
      BY <2>2, <2>6 DEF AddChunks, WithChunks
    <3> QED
      BY <2>1, <2>2, <2>4, <3>1, <3>2, DocsAssumption DEF Whole, Agree
  <2>7. CASE IndexFile(v)
    <3>1. /\ step[v] = "file" /\ step'[v] = "ok" /\ search'[doc[v]] = item[v]
          /\ UNCHANGED <<graphDocs, graphChunks>>
      BY <2>2, <2>7, <1>a DEF IndexFile, TypeOK
    <3> QED
      BY <2>1, <2>2, <2>4, <3>1, DocsAssumption DEF Whole, Agree
  <2> QED
    BY <1>4, <2>5, <2>6, <2>7
<1> QED
  BY <1>1, <1>2, <1>3, <1>4 DEF IngestStep

(* A step of one ingest leaves what another has stored whole and in        *)
(* agreement.                                                              *)
LEMMA OtherStep ==
  ASSUME TypeOK, StageInv, NEW v \in Ingests, IngestStep(v),
         NEW w \in Ingests, w # v
  PROVE  (Whole(w) => Whole(w)') /\ (Agree(w) /\ ~raced'[w] => Agree(w)')
<1>1. CASE step[w] \notin Named \cup {"ok"}
  <2>1. step'[w] = step[w]
    BY IngestFrame
  <2> QED
    BY <1>1, <2>1 DEF Whole, Agree, Named
<1>2. CASE step[w] \in Named \cup {"ok"}
  <2>1. /\ step'[w] = step[w] /\ item'[w] = item[w] /\ text'[w] = text[w]
        /\ doc'[w] = doc[w] /\ next'[w] = next[w]
    BY IngestFrame
  <2>2. /\ Indexed(w)' = Indexed(w) /\ ChunksOf(doc[w], text[w])' = ChunksOf(doc[w], text[w])
        /\ ChunkOf(w)' = ChunkOf(w)
    BY <2>1 DEF Indexed, ChunksOf, ChunkOf
  <2>3. /\ doc[w] \in Docs
        /\ ChunksOf(doc[w], text[w]) \subseteq ChunkIds
        /\ Indexed(w) \subseteq ChunksOf(doc[w], text[w])
        /\ \A c \in ChunksOf(doc[w], text[w]) : c[1] = doc[w]
    BY <1>2, IndexedFacts
  <2>4. Whole(w) => Whole(w)'
    BY <2>1, <2>2, <2>3, IngestFrame DEF Whole
  <2>5. ASSUME ~raced'[w]
        PROVE  /\ \A c \in ChunkIds : c[1] = doc[w] =>
                    vector'[c] = vector[c] /\ graphChunks'[c] = graphChunks[c]
               /\ search'[doc[w]] = search[doc[w]]
    <3>1. CASE UNCHANGED <<stores, raced, rewritten>>
      BY <3>1 DEF stores
    <3>2. CASE raced' = [u \in Ingests |-> raced[u] \/ (u # v /\ doc[u] = doc[v])]
      <4>1. raced'[w] = (raced[w] \/ (w # v /\ doc[w] = doc[v]))
        BY <3>2, Zenon
      <4>2. doc[w] # doc[v]
        BY <2>5, <4>1
      <4> QED
        BY <2>3, <4>2, IngestFrame DEF stores
    <3> QED
      BY <3>1, <3>2, IngestFrame
  <2>6. Agree(w) /\ ~raced'[w] => Agree(w)'
    BY <2>1, <2>2, <2>3, <2>5 DEF Agree
  <2> QED
    BY <2>4, <2>6
<1> QED
  BY <1>1, <1>2

(* A delete that took nothing from the document of w left it as it was.    *)
LEMMA TakingStep ==
  ASSUME TypeOK, StageInv, NEW x \in Deletes, DeleteStep(x),
         NEW w \in Ingests, ~robbed'[w]
  PROVE  (Whole(w) => Whole(w)') /\ (Agree(w) => Agree(w)')
<1>1. /\ UNCHANGED <<step, item, text, doc, next>>
      /\ \A c \in ChunkIds : c[1] = doc[w] =>
           vector'[c] = vector[c] /\ graphChunks'[c] = graphChunks[c]
      /\ doc[w] \in graphDocs => doc[w] \in graphDocs'
      /\ doc[w] \in Docs => search'[doc[w]] = search[doc[w]]
  BY DeleteFrame DEF ingests
<1>2. /\ Indexed(w)' = Indexed(w) /\ ChunksOf(doc[w], text[w])' = ChunksOf(doc[w], text[w])
      /\ ChunkOf(w)' = ChunkOf(w)
  BY <1>1 DEF Indexed, ChunksOf, ChunkOf
<1>3. CASE step[w] \notin Named \cup {"ok"}
  BY <1>1, <1>3 DEF Whole, Agree, Named
<1>4. CASE step[w] \in Named \cup {"ok"}
  <2>1. /\ doc[w] \in Docs
        /\ ChunksOf(doc[w], text[w]) \subseteq ChunkIds
        /\ Indexed(w) \subseteq ChunksOf(doc[w], text[w])
        /\ \A c \in ChunksOf(doc[w], text[w]) : c[1] = doc[w]
    BY <1>4, IndexedFacts
  <2> QED
    BY <1>1, <1>2, <2>1 DEF Whole, Agree
<1> QED
  BY <1>3, <1>4

(* Nothing is stored at the start.                                         *)
LEMMA StoredInit == Init => WholeInv /\ AgreeInv
BY DEF Init, WholeInv, AgreeInv, Whole, Agree, Named

(* Every step keeps the stores whole and in agreement.                     *)
LEMMA StoredNext ==
  TypeOK /\ StageInv /\ WholeInv /\ AgreeInv /\ [Next]_vars => WholeInv' /\ AgreeInv'
<1> SUFFICES ASSUME TypeOK, StageInv, WholeInv, AgreeInv, [Next]_vars
             PROVE  WholeInv' /\ AgreeInv'
  OBVIOUS
<1>1. ASSUME NEW v \in Ingests, IngestStep(v) PROVE WholeInv' /\ AgreeInv'
  <2>1. robbed' = robbed
    BY <1>1, IngestFrame
  <2>2. \A w \in Ingests : ~raced'[w] => ~raced[w]
    BY <1>1, IngestFrame
  <2>3. \A w \in Ingests : (Whole(w) => Whole(w)') /\ (Agree(w) /\ ~raced'[w] => Agree(w)')
    BY <1>1, OwnStep, OtherStep
  <2> QED
    BY <2>1, <2>2, <2>3 DEF WholeInv, AgreeInv
<1>2. ASSUME NEW x \in Deletes, DeleteStep(x) PROVE WholeInv' /\ AgreeInv'
  <2>1. raced' = raced /\ \A w \in Ingests : ~robbed'[w] => ~robbed[w]
    BY <1>2, DeleteFrame
  <2>2. \A w \in Ingests : ~robbed'[w] => (Whole(w) => Whole(w)') /\ (Agree(w) => Agree(w)')
    BY <1>2, TakingStep
  <2> QED
    BY <2>1, <2>2 DEF WholeInv, AgreeInv
<1>3. CASE UNCHANGED vars
  BY <1>3 DEF vars, stores, ingests, history, WholeInv, AgreeInv, Whole, Agree,
     Indexed, ChunksOf, ChunkOf
<1> QED
  BY <1>1, <1>2, <1>3 DEF Next

(* An acknowledged ingest is complete until a delete takes a part of it.   *)
THEOREM AckedWhole == Spec => []AckedStaysWhole
<1> DEFINE Inv == TypeOK /\ StageInv /\ WholeInv /\ AgreeInv
<1>1. Init => Inv
  BY InitTypes, StoredInit
<1>2. Inv /\ [Next]_vars => Inv'
  BY NextTypes, StoredNext
<1>3. ASSUME Inv PROVE AckedStaysWhole
  <2> SUFFICES ASSUME NEW w \in Ingests, step[w] = "ok", ~robbed[w]
               PROVE  /\ search[doc[w]] # NoItem
                      /\ doc[w] \in graphDocs
                      /\ \A c \in ChunksOf(doc[w], text[w]) :
                           vector[c] # NoChunk /\ graphChunks[c] # NoItem
    BY DEF AckedStaysWhole
  <2>1. Whole(w) /\ Indexed(w) = ChunksOf(doc[w], text[w])
    BY <1>3, IndexedFacts DEF WholeInv
  <2> QED
    BY <2>1 DEF Whole
<1> QED
  BY <1>1, <1>2, <1>3, PTL DEF Spec

(* If no other ingest wrote to its document, the stores show its metadata. *)
THEOREM StoresAgreeAlways == Spec => []StoresAgree
<1> DEFINE Inv == TypeOK /\ StageInv /\ WholeInv /\ AgreeInv
<1>1. Init => Inv
  BY InitTypes, StoredInit
<1>2. Inv /\ [Next]_vars => Inv'
  BY NextTypes, StoredNext
<1>3. ASSUME Inv PROVE StoresAgree
  <2> SUFFICES ASSUME NEW w \in Ingests, step[w] = "ok", ~robbed[w], ~raced[w]
               PROVE  /\ search[doc[w]] = item[w]
                      /\ \A c \in ChunksOf(doc[w], text[w]) :
                           vector[c] = ChunkOf(w) /\ graphChunks[c] = item[w]
    BY DEF StoresAgree
  <2>1. Agree(w) /\ Indexed(w) = ChunksOf(doc[w], text[w])
    BY <1>3, IndexedFacts DEF AgreeInv
  <2> QED
    BY <2>1 DEF Agree
<1> QED
  BY <1>1, <1>2, <1>3, PTL DEF Spec

-----------------------------------------------------------------------------
(* What a delete has cleared.                                              *)

(* Every step leaves the graph's chunks with their document.               *)
LEMMA GraphNext ==
  TypeOK /\ StageInv /\ GraphChunksHaveDocument /\ [Next]_vars => GraphChunksHaveDocument'
<1> SUFFICES ASSUME TypeOK, StageInv, GraphChunksHaveDocument, [Next]_vars,
                    NEW c \in ChunkIds, graphChunks'[c] # NoItem
             PROVE  c[1] \in graphDocs'
  BY DEF GraphChunksHaveDocument
<1>1. ASSUME NEW v \in Ingests, IngestStep(v) PROVE c[1] \in graphDocs'
  <2>1. CASE graphChunks'[c] = graphChunks[c]
    BY <1>1, <2>1, IngestFrame DEF GraphChunksHaveDocument
  <2>2. CASE AddChunks(v)
    <3>1. CASE c \in ChunksOf(doc[v], text[v])
      <4>1. doc[v] \in Docs /\ text[v] \in Docs /\ c[1] = doc[v]
        BY <2>2, <3>1, IndexedFacts DEF AddChunks, Named
      <4>2. Size[text[v]] # 0
        BY <3>1 DEF ChunksOf
      <4> QED
        BY <2>2, <4>1, <4>2 DEF AddChunks
    <3>2. CASE c \notin ChunksOf(doc[v], text[v])
      BY <2>1, <2>2, <3>2 DEF AddChunks, WithChunks
    <3> QED
      BY <3>1, <3>2
  <2>3. CASE ~AddChunks(v)
    <3>1. graphChunks' = graphChunks
      BY <1>1, <2>3 DEF IngestStep, Upload, Submit, Extract, Hash, IndexChunk,
         AddDocument, IndexFile, FailIngest, stores
    <3> QED
      BY <2>1, <3>1
  <2> QED
    BY <2>2, <2>3
<1>2. ASSUME NEW x \in Deletes, DeleteStep(x) PROVE c[1] \in graphDocs'
  <2>1. c[1] \in graphDocs
    BY <1>2, DeleteFrame DEF GraphChunksHaveDocument
  <2>2. CASE DeleteGraph(x)
    BY <2>1, <2>2 DEF DeleteGraph, GraphChunksHaveDocument
  <2>3. CASE ~DeleteGraph(x)
    BY <1>2, <2>1, <2>3 DEF DeleteStep, FindDoc, DeleteChunks, DeleteFile, FailDelete, stores
  <2> QED
    BY <2>2, <2>3
<1>3. CASE UNCHANGED vars
  BY <1>3 DEF vars, stores, GraphChunksHaveDocument
<1> QED
  BY <1>1, <1>2, <1>3 DEF Next

(* A step of an ingest leaves alone the documents of the deletes that do   *)
(* not learn of it.                                                        *)
LEMMA UnwrittenStep ==
  ASSUME TypeOK, StageInv, NEW v \in Ingests, IngestStep(v),
         NEW x \in Deletes, ~rewritten'[x], target[x] \in Docs
  PROVE  /\ ~rewritten[x]
         /\ \A c \in ChunkIds : c[1] = target[x] =>
              vector'[c] = vector[c] /\ graphChunks'[c] = graphChunks[c]
         /\ search'[target[x]] = search[target[x]]
         /\ target[x] \in graphDocs' <=> target[x] \in graphDocs
<1>1. CASE UNCHANGED <<stores, raced, rewritten>>
  BY <1>1 DEF stores
<1>2. CASE rewritten' = [y \in Deletes |-> rewritten[y] \/ target[y] = doc[v]]
  <2>1. rewritten'[x] = (rewritten[x] \/ target[x] = doc[v])
    BY <1>2, Zenon
  <2>2. ~rewritten[x] /\ target[x] # doc[v]
    BY <2>1
  <2> QED
    BY <2>2, IngestFrame DEF stores
<1> QED
  BY <1>1, <1>2, IngestFrame

(* Nothing is being deleted at the start.                                  *)
LEMMA DeleteInit == Init => GraphChunksHaveDocument /\ DeleteInv /\ HandleGoesLast
BY DEF Init, GraphChunksHaveDocument, DeleteInv, HandleGoesLast, Deleting

(* Every step keeps what a deletion has removed.                           *)
LEMMA DeleteNext ==
  TypeOK /\ StageInv /\ DeleteInv /\ [Next]_vars => DeleteInv'
<1> SUFFICES ASSUME TypeOK, StageInv, DeleteInv, [Next]_vars,
                    NEW x \in Deletes, ~rewritten'[x]
             PROVE  /\ stage'[x] \in {"graph", "file", "deleted"} => Untracked(x)'
                    /\ stage'[x] \in {"file", "deleted"} => target'[x] \notin graphDocs'
                    /\ /\ stage'[x] \in Deleting \cup {"deleted", "failed"}
                       /\ search'[target'[x]] # NoItem
                       => url'[x] = FileDocUrl(target[x])'
  BY DEF DeleteInv
<1> DEFINE Goal ==
      /\ stage'[x] \in {"graph", "file", "deleted"} => Untracked(x)'
      /\ stage'[x] \in {"file", "deleted"} => target'[x] \notin graphDocs'
      /\ /\ stage'[x] \in Deleting \cup {"deleted", "failed"}
         /\ search'[target'[x]] # NoItem
         => url'[x] = FileDocUrl(target[x])'
<1>1. ASSUME NEW v \in Ingests, IngestStep(v) PROVE Goal
  <2>1. stage' = stage /\ target' = target /\ url' = url
    BY <1>1, IngestFrame DEF deletes
  <2>2. CASE stage[x] \notin Deleting \cup {"deleted", "failed"}
    BY <2>1, <2>2 DEF Deleting
  <2>3. CASE stage[x] \in Deleting \cup {"deleted", "failed"}
    <3>1. target[x] \in Docs
      BY <2>3 DEF StageInv
    <3>2. /\ ~rewritten[x]
          /\ \A c \in ChunkIds : c[1] = target[x] => vector'[c] = vector[c]
          /\ search'[target[x]] = search[target[x]]
          /\ target[x] \in graphDocs' <=> target[x] \in graphDocs
      BY <1>1, <3>1, UnwrittenStep
    <3>3. Untracked(x) => Untracked(x)'
      BY <2>1, <3>2 DEF Untracked, WithUrl
    <3>4. FileDocUrl(target[x])' = FileDocUrl(target[x])
      BY <2>1, <3>2 DEF FileDocUrl
    <3> QED
      BY <2>1, <3>2, <3>3, <3>4 DEF DeleteInv
  <2> QED
    BY <2>2, <2>3
<1>2. ASSUME NEW z \in Deletes, DeleteStep(z), z # x PROVE Goal
  <2>1. /\ stage'[x] = stage[x] /\ target'[x] = target[x] /\ url'[x] = url[x]
        /\ ~rewritten[x] /\ graphDocs' \subseteq graphDocs
    BY <1>2, DeleteFrame
  <2>2. Untracked(x) => Untracked(x)'
    BY <1>2, <2>1, DeleteFrame DEF Untracked, WithUrl
  <2>3. ASSUME target[x] \in Docs, search'[target[x]] # NoItem
        PROVE  search[target[x]] # NoItem /\ FileDocUrl(target[x])' = FileDocUrl(target[x])
    BY <1>2, <2>1, <2>3, DeleteFrame DEF FileDocUrl
  <2>4. stage[x] \in Deleting \cup {"deleted", "failed"} => target[x] \in Docs
    BY DEF StageInv
  <2> QED
    BY <2>1, <2>2, <2>3, <2>4 DEF DeleteInv
<1>3. CASE FindDoc(x)
  <2>1. PICK d \in Docs :
          /\ target'[x] = d /\ url'[x] = FileDocUrl(d)
          /\ stage'[x] = IF search[d] = NoItem THEN "notFound"
                         ELSE IF FileDocUrl(d) = NoUrl THEN "graph" ELSE "vector"
    BY <1>3 DEF FindDoc, TypeOK
  <2>2. stage'[x] \in {"graph", "file", "deleted"} => url'[x] = NoUrl
    BY <2>1
  <2>3. FileDocUrl(target[x])' = FileDocUrl(d)
    BY <1>3, <2>1 DEF FindDoc, FileDocUrl, stores
  <2> QED
    BY <2>1, <2>2, <2>3 DEF Untracked
<1>4. CASE DeleteChunks(x) \/ DeleteGraph(x) \/ DeleteFile(x) \/ FailDelete(x)
  <2>1. /\ target' = target /\ url' = url /\ ~rewritten[x]
        /\ stage[x] \in Deleting /\ target[x] \in Docs
        /\ stage' = [stage EXCEPT ![x] = stage'[x]]
    BY <1>4 DEF DeleteChunks, DeleteGraph, DeleteFile, FailDelete, Took, TypeOK,
       Deleting, history, StageInv
  <2>2. CASE DeleteChunks(x)
    <3>1. stage'[x] = "graph" /\ search' = search
      BY <2>2 DEF DeleteChunks, TypeOK
    <3>2. Untracked(x)'
      BY <2>1, <2>2 DEF DeleteChunks, Untracked, WithUrl
    <3>3. FileDocUrl(target[x])' = FileDocUrl(target[x])
      BY <2>1, <3>1 DEF FileDocUrl
    <3> QED
      BY <2>1, <3>1, <3>2, <3>3 DEF DeleteInv
  <2>3. CASE DeleteGraph(x)
    <3>1. /\ stage[x] = "graph" /\ stage'[x] = "file" /\ UNCHANGED <<search, vector>>
          /\ target[x] \notin graphDocs'
      BY <2>3 DEF DeleteGraph, TypeOK
    <3>2. Untracked(x)' /\ FileDocUrl(target[x])' = FileDocUrl(target[x])
      BY <2>1, <3>1 DEF Untracked, WithUrl, FileDocUrl, DeleteInv
    <3> QED
      BY <2>1, <3>1, <3>2 DEF DeleteInv
  <2>4. CASE DeleteFile(x)
    <3>1. /\ stage[x] = "file" /\ UNCHANGED <<graphDocs, vector>>
          /\ search'[target[x]] = NoItem
      BY <2>1, <2>4 DEF DeleteFile, TypeOK
    <3>2. Untracked(x)'
      BY <2>1, <3>1 DEF Untracked, WithUrl, DeleteInv
    <3> QED
      BY <2>1, <3>1, <3>2 DEF DeleteInv
  <2>5. CASE FailDelete(x)
    <3>1. stage'[x] = "failed" /\ search' = search
      BY <2>5 DEF FailDelete, TypeOK, stores
    <3>2. FileDocUrl(target[x])' = FileDocUrl(target[x])
      BY <2>1, <3>1 DEF FileDocUrl
    <3> QED
      BY <2>1, <3>1, <3>2 DEF DeleteInv
  <2> QED
    BY <1>4, <2>2, <2>3, <2>4, <2>5
<1>5. CASE UNCHANGED vars
  BY <1>5 DEF vars, stores, deletes, history, DeleteInv, Untracked, WithUrl, FileDocUrl
<1> QED
  BY <1>1, <1>2, <1>3, <1>4, <1>5 DEF Next, DeleteStep

(* What is gone stays gone, whatever the deletes do.                       *)
LEMMA GoneStays ==
  ASSUME TypeOK, NEW z \in Deletes, DeleteStep(z), NEW x \in Deletes,
         target'[x] = target[x], url'[x] = url[x], Gone(x)
  PROVE  Gone(x)'
<1>1. target[x] \notin graphDocs'
  BY DeleteFrame DEF Gone
<1>2. ASSUME NEW c \in ChunkIds, c[1] = target[x]
      PROVE  graphChunks'[c] = NoItem /\ (url[x] # NoUrl => c \notin WithUrl(url[x])')
  BY <1>2, DeleteFrame DEF Gone, WithUrl
<1> QED
  BY <1>1, <1>2 DEF Gone, WithUrl

(* Every step of a deletion leaves the handle of the file until the rest   *)
(* is gone.                                                                *)
LEMMA HandleNext ==
  /\ TypeOK /\ StageInv /\ GraphChunksHaveDocument /\ DeleteInv /\ HandleGoesLast
  /\ [Next]_vars
  => HandleGoesLast'
<1> SUFFICES ASSUME TypeOK, StageInv, GraphChunksHaveDocument, DeleteInv, HandleGoesLast,
                    [Next]_vars, NEW x \in Deletes,
                    stage'[x] \in Deleting \cup {"deleted", "failed"},
                    search'[target'[x]] = NoItem,
                    \A y \in Deletes : target'[y] = target'[x] => ~rewritten'[y]
             PROVE  Gone(x)'
  BY DEF HandleGoesLast
<1>1. ASSUME NEW v \in Ingests, IngestStep(v) PROVE Gone(x)'
  <2>1. stage' = stage /\ target' = target /\ url' = url
    BY <1>1, IngestFrame DEF deletes
  <2>2. target[x] \in Docs
    BY <2>1 DEF StageInv
  <2>3. \A y \in Deletes : target[y] = target[x] => ~rewritten[y]
    BY <1>1, <2>1, <2>2, UnwrittenStep
  <2>4. /\ \A c \in ChunkIds : c[1] = target[x] =>
             vector'[c] = vector[c] /\ graphChunks'[c] = graphChunks[c]
        /\ search'[target[x]] = search[target[x]]
        /\ target[x] \in graphDocs' <=> target[x] \in graphDocs
    BY <1>1, <2>1, <2>2, UnwrittenStep
  <2>5. Gone(x)
    BY <2>1, <2>3, <2>4 DEF HandleGoesLast
  <2> QED
    BY <2>1, <2>4, <2>5 DEF Gone, WithUrl
<1>2. ASSUME NEW z \in Deletes, DeleteStep(z) PROVE Gone(x)'
  <2>1. rewritten' = rewritten
    BY <1>2, DeleteFrame
  <2>2. CASE FindDoc(x)
    <3>1. search'[target'[x]] # NoItem
      BY <2>2 DEF FindDoc, TypeOK, stores, Deleting
    <3> QED
      BY <3>1
  <2>3. CASE ~FindDoc(x)
    <3>1. /\ target'[x] = target[x] /\ url'[x] = url[x]
          /\ stage[x] \in Deleting \cup {"deleted", "failed"}
      <4>1. CASE z # x
        BY <1>2, <4>1, DeleteFrame
      <4>2. CASE z = x
        BY <1>2, <2>3, <4>2 DEF DeleteStep, DeleteChunks, DeleteGraph, DeleteFile,
           FailDelete, Deleting
      <4> QED
        BY <4>1, <4>2
    <3>2. target[x] \in Docs
      BY <3>1 DEF StageInv
    <3>3. \A y \in Deletes : target[y] = target[x] => ~rewritten[y]
      <4> SUFFICES ASSUME NEW y \in Deletes, target[y] = target[x]
                   PROVE  ~rewritten[y]
        OBVIOUS
      <4>1. CASE FindDoc(z) /\ y = z
        <5>1. target[y] = NoDoc
          BY <4>1 DEF FindDoc, StageInv
        <5> QED
          BY <3>2, <5>1, DocsAssumption
      <4>2. CASE ~(FindDoc(z) /\ y = z)
        <5>1. target'[y] = target[y]
          BY <1>2, <4>2, DeleteFrame DEF DeleteStep, DeleteChunks, DeleteGraph,
             DeleteFile, FailDelete
        <5> QED
          BY <2>1, <3>1, <5>1
      <4> QED
        BY <4>1, <4>2
    <3>4. CASE search[target[x]] = NoItem
      <4>1. Gone(x)
        BY <3>1, <3>3, <3>4 DEF HandleGoesLast
      <4> QED
        BY <1>2, <3>1, <4>1, GoneStays
    <3>5. CASE search[target[x]] # NoItem
      <4>1. DeleteFile(z)
        BY <1>2, <3>1, <3>5 DEF DeleteStep, FindDoc, DeleteChunks, DeleteGraph,
           FailDelete, stores
      <4>2. stage[z] = "file" /\ target[z] = target[x] /\ UNCHANGED <<vector, graphDocs, graphChunks>>
        BY <3>1, <3>2, <3>5, <4>1 DEF DeleteFile, TypeOK
      <4>3. ~rewritten[z] /\ ~rewritten[x]
        BY <3>3, <4>2
      <4>4. Untracked(z) /\ target[z] \notin graphDocs /\ url[z] = FileDocUrl(target[z])
        BY <3>5, <4>2, <4>3 DEF DeleteInv, Deleting
      <4>5. url[x] = FileDocUrl(target[x])
        BY <3>1, <3>5, <4>3 DEF DeleteInv
      <4>6. Gone(x)
        BY <4>2, <4>4, <4>5 DEF Gone, Untracked, GraphChunksHaveDocument
      <4> QED
        BY <1>2, <3>1, <4>6, GoneStays
    <3> QED
      BY <3>4, <3>5
  <2> QED
    BY <2>2, <2>3
<1>3. CASE UNCHANGED vars
  BY <1>3 DEF vars, stores, deletes, history, HandleGoesLast, Gone, WithUrl
<1> QED
  BY <1>1, <1>2, <1>3 DEF Next

-----------------------------------------------------------------------------
(* The invariant as a whole, and what it says of deletes.                  *)

(* The strengthened invariant holds in every state.                        *)
THEOREM Inductive == Spec => []IInv
<1>1. Init => IInv
  BY InitTypes, StoredInit, DeleteInit DEF IInv
<1>2. IInv /\ [Next]_vars => IInv'
  <2> SUFFICES ASSUME IInv, [Next]_vars PROVE IInv'
    OBVIOUS
  <2>1. /\ TypeOK /\ StageInv /\ GraphChunksHaveDocument
        /\ WholeInv /\ AgreeInv /\ DeleteInv /\ HandleGoesLast
    BY DEF IInv
  <2> QED
    BY <2>1, NextTypes, StoredNext, GraphNext, DeleteNext, HandleNext DEF IInv
<1> QED
  BY <1>1, <1>2, PTL DEF Spec

(* The FileDoc is the last thing that goes: deletes that overlap or fail   *)
(* never leave something of the document in the graph, or chunks under its *)
(* source_url, without the handle to delete it by.                         *)
THEOREM HandleLast == Spec => []HandleGoesLast
<1>1. IInv => HandleGoesLast
  BY DEF IInv
<1> QED
  BY <1>1, Inductive, PTL

(* No chunk node of the graph is ever without its document node.           *)
THEOREM ChunksHaveDocument == Spec => []GraphChunksHaveDocument
<1>1. IInv => GraphChunksHaveDocument
  BY DEF IInv
<1> QED
  BY <1>1, Inductive, PTL
=============================================================================
