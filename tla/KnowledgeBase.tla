---------------------------- MODULE KnowledgeBase ----------------------------
(***************************************************************************)
(* IngestionService (services/ingestion_service.py) over its three stores: *)
(* the vector store (chunks), the graph (documents and chunks) and the     *)
(* search index (one FileDoc per document).  No transaction spans them.    *)
(* The stores are the ones of an installation: PgVectorStore and           *)
(* PgSearchIndex, which commit every statement, and Neo4jGraphStore, which *)
(* commits every _run.                                                     *)
(*                                                                         *)
(* Several ingests and deletes run at once, in worker threads of the API   *)
(* or in the ingest script, and every step of one may fail and end it      *)
(* there.  A document is identified with its content: doc_id is its hash.  *)
(***************************************************************************)
EXTENDS Integers, FiniteSets

CONSTANTS
  Docs, NoDoc,       (* file contents, each its own doc_id                 *)
  Size,              (* Size[d]: how many chunks the content d yields      *)
  Items, NoItem,     (* IngestItems: the metadata of a file to ingest      *)
  Files, FileOf,     (* FileOf[i]: the path on disk, IngestItem.file_path  *)
  Urls, NoUrl,       (* source_url, NoUrl when it is None or empty         *)
  UrlOf,             (* UrlOf[i]: IngestItem.source_url                    *)
  Nfc,               (* Nfc[u]: u in Unicode normalisation form C          *)
  UploadItems,       (* the items that the upload route makes              *)
  InitDisk,          (* the files that lie under data/ from the start      *)
  Ingests, Deletes   (* the requests; each is made once                    *)

ASSUME DocsAssumption ==
  NoDoc \notin Docs /\ NoItem \notin Items /\ Size \in [Docs -> Nat]
ASSUME ItemsAssumption ==
  /\ FileOf \in [Items -> Files] /\ UploadItems \subseteq Items
  /\ UrlOf \in [Items -> Urls \cup {NoUrl}] /\ NoUrl \notin Urls
  /\ Nfc \in [Urls \cup {NoUrl} -> Urls \cup {NoUrl}]
ASSUME DiskAssumption == InitDisk \in [Files -> Docs \cup {NoDoc}]

VARIABLES
  disk,         (* the content of each file, NoDoc if there is none        *)
  vector,       (* chunk -> [text, item] as stored, NoChunk if absent      *)
  graphDocs,    (* the :Document nodes                                     *)
  graphChunks,  (* chunk -> the item of its :Chunk node, NoItem if absent  *)
  search,       (* doc_id -> the item of its FileDoc, NoItem if absent     *)
  step,         (* of each ingest_item call: the step it is at,            *)
  item,         (*   its IngestItem,                                       *)
  text,         (*   the content that was extracted,                       *)
  doc,          (*   doc_id, once hashed,                                  *)
  next,         (*   and the next chunk to index                           *)
  stage,        (* of each delete_document call: the step it is at,        *)
  target,       (*   doc_id                                                *)
  url,          (*   and the source_url its FileDoc gave                   *)
  robbed,       (* history: a delete took something of the document of     *)
                (* this ingest, since the ingest hashed it                 *)
  raced,        (* history: another ingest wrote to that document          *)
  rewritten     (* history: an ingest wrote to the document of this delete *)

stores == <<vector, graphDocs, graphChunks, search>>
ingests == <<step, item, text, doc, next>>
deletes == <<stage, target, url>>
history == <<robbed, raced, rewritten>>
vars == <<disk, stores, ingests, deletes, history>>

(* chunk_id = sha256(doc_id : locator).                                    *)
ChunkIds == UNION {{d} \X (1..Size[e]) : d \in Docs, e \in Docs}
ChunksOf(d, e) == {d} \X (1..Size[e])
Chunk == [text : Docs, item : Items]
NoChunk == [text |-> NoDoc, item |-> NoItem]
ChunkOf(w) == [text |-> text[w], item |-> item[w]]

Named == {"vector", "document", "chunks", "file"}
Ingesting == {"extract", "hash"} \cup Named
Steps == Ingesting \cup {"new", "ok", "failed"}
Deleting == {"vector", "graph", "file"}
Stages == Deleting \cup {"new", "deleted", "notFound", "failed"}

Init ==
  /\ disk = InitDisk
  /\ vector = [c \in ChunkIds |-> NoChunk]
  /\ graphDocs = {}
  /\ graphChunks = [c \in ChunkIds |-> NoItem]
  /\ search = [d \in Docs |-> NoItem]
  /\ step = [w \in Ingests |-> "new"]
  /\ item = [w \in Ingests |-> NoItem]
  /\ text = [w \in Ingests |-> NoDoc]
  /\ doc = [w \in Ingests |-> NoDoc]
  /\ next = [w \in Ingests |-> 1]
  /\ stage = [x \in Deletes |-> "new"]
  /\ target = [x \in Deletes |-> NoDoc]
  /\ url = [x \in Deletes |-> NoUrl]
  /\ robbed = [w \in Ingests |-> FALSE]
  /\ raced = [w \in Ingests |-> FALSE]
  /\ rewritten = [x \in Deletes |-> FALSE]

-----------------------------------------------------------------------------
(* History: what ingest w writes, or a delete takes, is news to the others.*)

Wrote(w) ==
  /\ raced' = [v \in Ingests |-> raced[v] \/ (v # w /\ doc[v] = doc[w])]
  /\ rewritten' = [x \in Deletes |-> rewritten[x] \/ target[x] = doc[w]]
  /\ UNCHANGED robbed

Took(docs) ==
  /\ robbed' = [w \in Ingests |-> robbed[w] \/ doc[w] \in docs]
  /\ UNCHANGED <<raced, rewritten>>

-----------------------------------------------------------------------------
(* An ingest.                                                              *)

Goto(w, s) == step' = [step EXCEPT ![w] = s]

(* ingest_upload writes data/<source>/<filename> over whatever is there    *)
(* and hands the item to the background task.                              *)
Upload(w) ==
  /\ step[w] = "new" /\ Goto(w, "extract")
  /\ \E i \in UploadItems, d \in Docs :
       /\ disk' = [disk EXCEPT ![FileOf[i]] = d]
       /\ item' = [item EXCEPT ![w] = i]
  /\ UNCHANGED <<stores, text, doc, next, deletes, history>>

(* POST /v1/ingest and the manifest name a file that is there already.     *)
Submit(w) ==
  /\ step[w] = "new" /\ Goto(w, "extract")
  /\ \E i \in Items : item' = [item EXCEPT ![w] = i]
  /\ UNCHANGED <<disk, stores, text, doc, next, deletes, history>>

FileContent(w) == disk[FileOf[item[w]]]

(* The extractor reads the file; the chunker cuts its text ...             *)
Extract(w) ==
  /\ step[w] = "extract" /\ Goto(w, "hash")
  /\ FileContent(w) # NoDoc
  /\ text' = [text EXCEPT ![w] = FileContent(w)]
  /\ UNCHANGED <<disk, stores, item, doc, next, deletes, history>>

(* ... and _content_hash reads the file again, to name the chunks.         *)
Hash(w) ==
  /\ step[w] = "hash"
  /\ Goto(w, IF Size[text[w]] = 0 THEN "document" ELSE "vector")
  /\ doc' = [doc EXCEPT ![w] = FileContent(w)]
  /\ UNCHANGED <<disk, stores, item, text, next, deletes, history>>

(* Fault: the loop over the chunks ends one short.                         *)
OneShortFault(w) ==
  /\ step[w] = "vector"
  /\ vector' = [vector EXCEPT ![<<doc[w], next[w]>>] = ChunkOf(w)]
  /\ next' = [next EXCEPT ![w] = next[w] + 1]
  /\ Goto(w, IF next[w] + 1 >= Size[text[w]] THEN "document" ELSE "vector")
  /\ Wrote(w)
  /\ UNCHANGED <<disk, graphDocs, graphChunks, search, item, text, doc, deletes>>

(* Fault: ON CONFLICT DO NOTHING.                                          *)
InsertOnlyFault(w) ==
  LET id == <<doc[w], next[w]>> IN
  /\ step[w] = "vector"
  /\ vector' = IF vector[id] # NoChunk THEN vector
               ELSE [vector EXCEPT ![id] = ChunkOf(w)]
  /\ next' = [next EXCEPT ![w] = next[w] + 1]
  /\ Goto(w, IF next[w] = Size[text[w]] THEN "document" ELSE "vector")
  /\ Wrote(w)
  /\ UNCHANGED <<disk, graphDocs, graphChunks, search, item, text, doc, deletes>>

(* vectorstore.index upserts the chunks one statement after the other.     *)
IndexChunk(w) ==
  /\ step[w] = "vector"
  /\ vector' = [vector EXCEPT ![<<doc[w], next[w]>>] = ChunkOf(w)]
  /\ next' = [next EXCEPT ![w] = next[w] + 1]
  /\ Goto(w, IF next[w] = Size[text[w]] THEN "document" ELSE "vector")
  /\ Wrote(w)
  /\ UNCHANGED <<disk, graphDocs, graphChunks, search, item, text, doc, deletes>>

AddDocument(w) ==
  /\ step[w] = "document" /\ Goto(w, "chunks")
  /\ graphDocs' = graphDocs \cup {doc[w]}
  /\ Wrote(w)
  /\ UNCHANGED <<disk, vector, graphChunks, search, item, text, doc, next, deletes>>

(* The chunks of w in the graph as the statement of add_chunks leaves them.*)
WithChunks(w) ==
  [c \in ChunkIds |-> IF c \in ChunksOf(doc[w], text[w]) THEN item[w]
                                                         ELSE graphChunks[c]]

(* Fault: add_chunks relies on the document add_document made.             *)
NoMergeFault(w) ==
  /\ step[w] = "chunks" /\ Goto(w, "file")
  /\ graphChunks' = WithChunks(w)
  /\ Wrote(w)
  /\ UNCHANGED <<disk, vector, graphDocs, search, item, text, doc, next, deletes>>

(* add_chunks: one statement, which MERGEs the document as well; without   *)
(* chunks it returns at once.                                              *)
AddChunks(w) ==
  /\ step[w] = "chunks" /\ Goto(w, "file")
  /\ graphDocs' = graphDocs \cup (IF Size[text[w]] = 0 THEN {} ELSE {doc[w]})
  /\ graphChunks' = WithChunks(w)
  /\ Wrote(w)
  /\ UNCHANGED <<disk, vector, search, item, text, doc, next, deletes>>

(* Fault: the FileDoc is stored under its path.                            *)
KeyedByPathFault(w) ==
  LET path == FileOf[item[w]] IN
  /\ step[w] = "file" /\ Goto(w, "ok")
  /\ search' = [k \in DOMAIN search \cup {path} |->
                  IF k = path THEN item[w] ELSE search[k]]
  /\ Wrote(w)
  /\ UNCHANGED <<disk, vector, graphDocs, graphChunks, item, text, doc, next, deletes>>

(* index_file comes last; the report says ok.                              *)
IndexFile(w) ==
  /\ step[w] = "file" /\ Goto(w, "ok")
  /\ search' = [search EXCEPT ![doc[w]] = item[w]]
  /\ Wrote(w)
  /\ UNCHANGED <<disk, vector, graphDocs, graphChunks, item, text, doc, next, deletes>>

(* Any step may raise, or the process die: what was written stays written. *)
FailIngest(w) ==
  /\ step[w] \in Ingesting /\ Goto(w, "failed")
  /\ UNCHANGED <<disk, stores, item, text, doc, next, deletes, history>>

-----------------------------------------------------------------------------
(* A delete.                                                               *)

(* The FileDoc tells whether the document exists and which source_url its  *)
(* chunks are expected to have; index_file stored it normalised.           *)
FileDocUrl(d) == IF search[d] = NoItem THEN NoUrl ELSE Nfc[UrlOf[search[d]]]

FindDoc(x) ==
  /\ stage[x] = "new"
  /\ \E d \in Docs :
       /\ target' = [target EXCEPT ![x] = d]
       /\ url' = [url EXCEPT ![x] = FileDocUrl(d)]
       /\ stage' = [stage EXCEPT ![x] = IF search[d] = NoItem THEN "notFound"
                                        ELSE IF FileDocUrl(d) = NoUrl THEN "graph"
                                        ELSE "vector"]
  /\ UNCHANGED <<disk, stores, ingests, history>>

(* delete_by_source_url: every chunk with that source_url, whoever's.      *)
WithUrl(u) == {c \in ChunkIds : vector[c] # NoChunk /\ UrlOf[vector[c].item] = u}

DeleteChunks(x) ==
  LET victims == WithUrl(url[x]) IN
  /\ stage[x] = "vector" /\ stage' = [stage EXCEPT ![x] = "graph"]
  /\ vector' = [c \in ChunkIds |-> IF c \in victims THEN NoChunk ELSE vector[c]]
  /\ Took({c[1] : c \in victims})
  /\ UNCHANGED <<disk, graphDocs, graphChunks, search, ingests, target, url>>

(* DETACH DELETE the document and the chunks that are PART_OF it, if there *)
(* is such a document.                                                     *)
DeleteGraph(x) ==
  LET d == target[x] IN
  /\ stage[x] = "graph" /\ stage' = [stage EXCEPT ![x] = "file"]
  /\ graphDocs' = graphDocs \ {d}
  /\ graphChunks' = [c \in ChunkIds |-> IF d \in graphDocs /\ c[1] = d THEN NoItem
                                                               ELSE graphChunks[c]]
  /\ Took({d})
  /\ UNCHANGED <<disk, vector, search, ingests, target, url>>

(* Fault: the FileDoc goes before the graph.                               *)
HandleFirstFault(x) ==
  LET d == target[x] IN
  /\ stage[x] \in {"graph", "file"}
  /\ stage' = [stage EXCEPT ![x] = IF stage[x] = "graph" THEN "graph" ELSE "deleted"]
  /\ search' = [search EXCEPT ![d] = NoItem]
  /\ Took({d})
  /\ UNCHANGED <<disk, vector, graphDocs, graphChunks, ingests, target, url>>

(* search_index.delete, whatever it reports.                               *)
DeleteFile(x) ==
  LET d == target[x] IN
  /\ stage[x] = "file" /\ stage' = [stage EXCEPT ![x] = "deleted"]
  /\ search' = [search EXCEPT ![d] = NoItem]
  /\ Took({d})
  /\ UNCHANGED <<disk, vector, graphDocs, graphChunks, ingests, target, url>>

FailDelete(x) ==
  /\ stage[x] \in Deleting /\ stage' = [stage EXCEPT ![x] = "failed"]
  /\ UNCHANGED <<disk, stores, ingests, target, url, history>>

-----------------------------------------------------------------------------
IngestStep(w) ==
  \/ Upload(w) \/ Submit(w) \/ Extract(w) \/ Hash(w) \/ IndexChunk(w)
  \/ AddDocument(w) \/ AddChunks(w) \/ IndexFile(w) \/ FailIngest(w)

DeleteStep(x) ==
  FindDoc(x) \/ DeleteChunks(x) \/ DeleteGraph(x) \/ DeleteFile(x) \/ FailDelete(x)

Next == (\E w \in Ingests : IngestStep(w)) \/ (\E x \in Deletes : DeleteStep(x))

Spec == Init /\ [][Next]_vars

-----------------------------------------------------------------------------
TypeOK ==
  /\ disk \in [Files -> Docs \cup {NoDoc}]
  /\ vector \in [ChunkIds -> Chunk \cup {NoChunk}]
  /\ graphDocs \subseteq Docs
  /\ graphChunks \in [ChunkIds -> Items \cup {NoItem}]
  /\ search \in [Docs -> Items \cup {NoItem}]
  /\ step \in [Ingests -> Steps]
  /\ item \in [Ingests -> Items \cup {NoItem}]
  /\ text \in [Ingests -> Docs \cup {NoDoc}]
  /\ doc \in [Ingests -> Docs \cup {NoDoc}]
  /\ next \in [Ingests -> Nat \ {0}]
  /\ stage \in [Deletes -> Stages]
  /\ target \in [Deletes -> Docs \cup {NoDoc}]
  /\ url \in [Deletes -> Urls \cup {NoUrl}]
  /\ robbed \in [Ingests -> BOOLEAN]
  /\ raced \in [Ingests -> BOOLEAN]
  /\ rewritten \in [Deletes -> BOOLEAN]

(* An ingest that was acknowledged stays complete in all three stores,     *)
(* whatever other ingests of the same or of other content start, overlap   *)
(* or fail half way, until a delete takes a part of it.                    *)
AckedStaysWhole ==
  \A w \in Ingests : step[w] = "ok" /\ ~robbed[w] =>
    /\ search[doc[w]] # NoItem
    /\ doc[w] \in graphDocs
    /\ \A c \in ChunksOf(doc[w], text[w]) :
         vector[c] # NoChunk /\ graphChunks[c] # NoItem

(* If no other ingest wrote to the document either, the three stores show  *)
(* the metadata of this item: access and source_url agree between a chunk, *)
(* its graph node and the FileDoc.                                         *)
StoresAgree ==
  \A w \in Ingests : step[w] = "ok" /\ ~robbed[w] /\ ~raced[w] =>
    /\ search[doc[w]] = item[w]
    /\ \A c \in ChunksOf(doc[w], text[w]) :
         vector[c] = ChunkOf(w) /\ graphChunks[c] = item[w]

(* The FileDoc is the handle by which an administrator deletes: it is the  *)
(* last thing a delete removes.  When it is gone, whether this delete ends *)
(* well, fails or meets another delete, nothing is left in the graph and   *)
(* no chunk under the source_url it gave (if it gave one), unless an       *)
(* ingest wrote to the document while one of its deletes was under way.    *)
Gone(x) ==
  /\ target[x] \notin graphDocs
  /\ \A c \in ChunkIds : c[1] = target[x] =>
       /\ graphChunks[c] = NoItem
       /\ url[x] # NoUrl => c \notin WithUrl(url[x])
HandleGoesLast ==
  \A x \in Deletes :
    /\ stage[x] \in Deleting \cup {"deleted", "failed"}
    /\ search[target[x]] = NoItem
    /\ \A y \in Deletes : target[y] = target[x] => ~rewritten[y]
    => Gone(x)

(* The graph is never left with chunks whose document node is missing.     *)
GraphChunksHaveDocument ==
  \A c \in ChunkIds : graphChunks[c] # NoItem => c[1] \in graphDocs

-----------------------------------------------------------------------------
(* The inductive invariant of the proofs, in parts.                        *)

(* What a call has found out at each step; the code never removes a file.  *)
StageInv ==
  /\ \A w \in Ingests :
       /\ step[w] \in Ingesting \cup {"ok"} => item[w] \in Items
       /\ step[w] \in Named \cup {"hash", "ok"} => text[w] \in Docs
       /\ step[w] = "hash" => disk[FileOf[item[w]]] \in Docs
       /\ step[w] \in Named \cup {"ok"} => doc[w] \in Docs
       /\ step[w] = "vector" => next[w] <= Size[text[w]]
       /\ step[w] \in {"new", "extract", "hash"} => next[w] = 1
  /\ \A x \in Deletes :
       /\ stage[x] \in Deleting \cup {"deleted", "failed"} => target[x] \in Docs
       /\ stage[x] = "vector" => url[x] # NoUrl
       /\ stage[x] = "new" => target[x] = NoDoc

(* The chunks that ingest w has upserted by now.                           *)
Indexed(w) == {doc[w]} \X (IF step[w] = "vector" THEN 1..(next[w] - 1)
                                                 ELSE 1..Size[text[w]])

(* Ingest w has put into the stores what its step implies ...              *)
Whole(w) ==
  /\ step[w] \in Named \cup {"ok"} => \A c \in Indexed(w) : vector[c] # NoChunk
  /\ step[w] \in {"chunks", "file", "ok"} => doc[w] \in graphDocs
  /\ step[w] \in {"file", "ok"} =>
       \A c \in ChunksOf(doc[w], text[w]) : graphChunks[c] # NoItem
  /\ step[w] = "ok" => search[doc[w]] # NoItem
WholeInv == \A w \in Ingests : ~robbed[w] => Whole(w)

(* ... and what it put there is still its own.                             *)
Agree(w) ==
  /\ step[w] \in Named \cup {"ok"} => \A c \in Indexed(w) : vector[c] = ChunkOf(w)
  /\ step[w] \in {"file", "ok"} =>
       \A c \in ChunksOf(doc[w], text[w]) : graphChunks[c] = item[w]
  /\ step[w] = "ok" => search[doc[w]] = item[w]
AgreeInv == \A w \in Ingests : ~robbed[w] /\ ~raced[w] => Agree(w)

(* Delete x has cleared what its stage implies, and the url it took is the *)
(* one that another delete of the document would take.                     *)
Untracked(x) ==
  \A c \in ChunkIds : c[1] = target[x] /\ url[x] # NoUrl => c \notin WithUrl(url[x])
DeleteInv ==
  \A x \in Deletes : ~rewritten[x] =>
    /\ stage[x] \in {"graph", "file", "deleted"} => Untracked(x)
    /\ stage[x] \in {"file", "deleted"} => target[x] \notin graphDocs
    /\ /\ stage[x] \in Deleting \cup {"deleted", "failed"}
       /\ search[target[x]] # NoItem
       => url[x] = FileDocUrl(target[x])

IInv == /\ TypeOK /\ StageInv /\ GraphChunksHaveDocument
        /\ WholeInv /\ AgreeInv /\ DeleteInv /\ HandleGoesLast

-----------------------------------------------------------------------------
(* What comments of the code say and the code does not do.                 *)

(* delete_document: the document is deleted from all three stores.         *)
DeletedEverywhere ==
  \A x \in Deletes : stage[x] = "deleted" /\ ~rewritten[x] =>
    \A c \in ChunkIds : c[1] = target[x] => vector[c] = NoChunk

(* vectorstore/base.py: deleting by source_url deletes by document, so no  *)
(* other document loses its chunks.                                        *)
DeletesOneDocument ==
  \A w \in Ingests :
    /\ step[w] = "ok"
    /\ \A x \in Deletes : target[x] # doc[w]
    => \A c \in ChunksOf(doc[w], text[w]) : vector[c] # NoChunk

(* ingest_upload: overwriting is safe, since the doc_id is the hash of the *)
(* content.                                                                *)
ChunksShowTheirContent ==
  \A c \in ChunkIds : vector[c] # NoChunk => vector[c].text = c[1]
=============================================================================
