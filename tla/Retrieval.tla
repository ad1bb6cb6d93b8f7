------------------------------ MODULE Retrieval ------------------------------
(***************************************************************************)
(* Reading the knowledge base: the hybrid search of services/              *)
(* search_service.py, the answers and citations that rag_service.py builds *)
(* from it, and the search for files.  A search reads the vector store,    *)
(* the search index and the graph one after the other while ingests and    *)
(* deletes change them, so what one store says need not hold in the next.  *)
(*                                                                         *)
(* Each document has one chunk.  Documents are numbered by similarity to   *)
(* the question; the lexical index ranks them the other way round, which   *)
(* is as far apart as two rankings can be.  A level is what `access` says; *)
(* 0 stands for an entry that is missing.                                  *)
(***************************************************************************)
EXTENDS Integers, FiniteSets

CONSTANTS
  DocCount,    (* documents                                                *)
  TopK,        (* top_k of a query                                         *)
  UserLevel,   (* the access level of the user who asks                    *)
  MaxWrites    (* bound: ingests and deletes                               *)

ASSUME RetrievalAssumption ==
  /\ DocCount \in Nat \ {0} /\ TopK \in Nat \ {0}
  /\ UserLevel \in 1..2 /\ MaxWrites \in Nat

VARIABLES
  chunkLevel,   (* vector store: `access` in the metadata of a chunk       *)
  graphLevel,   (* graph: `access` of the chunk's node                     *)
  fileLevel,    (* search index: `access` of the FileDoc                   *)
  sharedUrl,    (* the documents all have one source_url                   *)
  writer,       (* the ingest or delete under way                          *)
  writes,
  query,        (* the request being answered                              *)
  streamed,     (* the sources of the answer streamed last                 *)
  calm,         (* history: since the request began (citations: since the  *)
                (*   answer did) no store changed, no read failed and no   *)
                (*   choice was made where a LIMIT comes without an ORDER  *)
  agreed,       (* history: all that time index and vector store agreed    *)
  held          (* history: what the vector store held since it began      *)

corpus == <<chunkLevel, graphLevel, fileLevel, sharedUrl, writer, writes>>
retrievalVars == <<corpus, query, streamed, calm, agreed, held>>

SearchDocs == 1..DocCount
Levels == 0..2
Sources == {"local", "slack"}
Source(d) == IF d = 1 THEN "local" ELSE "slack"
Url(d) == IF sharedUrl THEN 0 ELSE d

NoSearch == [pc |-> "none", kind |-> "none", filter |-> Sources,
             primary |-> {}, lexical |-> {}, related |-> {}, found |-> {},
             files |-> {}, cited |-> {}]

RetrievalInit ==
  /\ chunkLevel = [d \in SearchDocs |-> 1]
  /\ graphLevel = [d \in SearchDocs |-> 1]
  /\ fileLevel = [d \in SearchDocs |-> 1]
  /\ sharedUrl = FALSE
  /\ writer = [pc |-> "none", doc |-> 0, level |-> 0]
  /\ writes = 0
  /\ query = NoSearch
  /\ streamed = {}
  /\ calm = FALSE /\ agreed = FALSE
  /\ held = {}
-----------------------------------------------------------------------------
(* The documents came from one place: the ingests gave them one url.       *)
ShareUrl ==
  /\ ~sharedUrl /\ writer.pc = "none" /\ query = NoSearch /\ writes = 0
  /\ sharedUrl' = TRUE /\ calm' = FALSE
  /\ UNCHANGED <<chunkLevel, graphLevel, fileLevel, writer, writes, query,
                 streamed, agreed, held>>

(* The writes of an ingest (level > 0) or a delete, in their order; each   *)
(* may be the last that succeeds.                                          *)
BeginWrite(d, l) ==
  /\ writer.pc = "none" /\ writes < MaxWrites
  /\ writer' = [pc |-> "vector", doc |-> d, level |-> l]
  /\ writes' = writes + 1
  /\ UNCHANGED <<chunkLevel, graphLevel, fileLevel, sharedUrl, query, streamed,
                 calm, agreed, held>>

Put(store) == [store EXCEPT ![writer.doc] = writer.level]
Entries(store) == {<<d, store[d]>> : d \in {x \in SearchDocs : store[x] > 0}}

Write ==
  /\ writer.pc # "none"
  /\ \/ /\ writer.pc = "vector"
        /\ chunkLevel' = Put(chunkLevel)
        /\ writer' = [writer EXCEPT !.pc = "graph"]
        /\ UNCHANGED <<graphLevel, fileLevel>>
     \/ /\ writer.pc = "graph"
        /\ graphLevel' = Put(graphLevel)
        /\ writer' = [writer EXCEPT !.pc = "index"]
        /\ UNCHANGED <<chunkLevel, fileLevel>>
     \/ /\ writer.pc = "index"
        /\ fileLevel' = Put(fileLevel)
        /\ writer' = [writer EXCEPT !.pc = "none"]
        /\ UNCHANGED <<chunkLevel, graphLevel>>
     \/ /\ writer' = [writer EXCEPT !.pc = "none"]
        /\ UNCHANGED <<chunkLevel, graphLevel, fileLevel>>
  /\ calm' = FALSE
  /\ agreed' = (agreed /\ fileLevel' = chunkLevel')
  /\ held' = held \cup Entries(chunkLevel')
  /\ UNCHANGED <<sharedUrl, writes, query, streamed>>

-----------------------------------------------------------------------------
Visible(level) == level \in 1..UserLevel

(* The first k in the order of similarity, and in that of the index.       *)
Nearest(S, k) == {d \in S : Cardinality({e \in S : e < d}) < k}
BestMatch(S, k) == {d \in S : Cardinality({e \in S : e > d}) < k}

(* _build_where: the level and the source filter.  The user's disabled     *)
(* sources are left out: no route hands them to the search.                *)
Where(filter) == {d \in SearchDocs : Visible(chunkLevel[d]) /\ Source(d) \in filter}

(* search() of the index.                                                  *)
Matching(filter) == {d \in SearchDocs : Visible(fileLevel[d]) /\ Source(d) \in filter}

In(pc) == query.pc = pc

(* Fault: the citations take over the filter of the search page.           *)
FilteredFault(kind, filter) == kind = "rag" => filter = Sources

(* Only the search for files has a filter of sources.                      *)
MayAsk(kind, filter) == kind # "files" => filter = Sources

(* A request: rag, the citations for the answer that was streamed last, or *)
(* files with a filter.                                                    *)
Ask(kind, filter) ==
  /\ In("none")
  /\ MayAsk(kind, filter)
  /\ query' = [NoSearch EXCEPT
       !.pc = IF kind = "files" THEN "lexical" ELSE "vector",
       !.kind = kind, !.filter = filter]
  /\ calm' = (kind = "rag" \/ (kind = "citations" /\ calm))
  /\ agreed' = (fileLevel = chunkLevel)
  /\ held' = Entries(chunkLevel)
  /\ UNCHANGED <<corpus, streamed>>

(* The chunks nearest to the question that the filter lets through.  In    *)
(* search_files a failing embedding or query leaves the lexical hits.      *)
QueryVector ==
  LET near == Nearest(Where(query.filter), TopK) IN
  /\ In("vector")
  /\ \/ query' = [query EXCEPT
          !.pc = IF query.kind = "files" THEN "resolve" ELSE "lexical",
          !.primary = near, !.found = {<<d, chunkLevel[d]>> : d \in near}]
     \/ /\ query.kind = "files"
        /\ query' = [query EXCEPT !.pc = "resolve"]
  /\ UNCHANGED <<corpus, streamed, calm, agreed, held>>

(* The lexical index.  search() goes on without it when it fails,          *)
(* search_files does not.                                                  *)
QueryLexical ==
  LET best == BestMatch(Matching(query.filter), TopK) IN
  /\ In("lexical")
  /\ \/ /\ query' = IF query.kind = "files"
                     THEN [query EXCEPT !.pc = "vector", !.lexical = best,
                             !.files = {<<d, fileLevel[d]>> : d \in best}]
                     ELSE [query EXCEPT !.pc = "related", !.lexical = best]
        /\ UNCHANGED calm
     \/ /\ query' = IF query.kind = "files" THEN NoSearch
                     ELSE [query EXCEPT !.pc = "related"]
        /\ calm' = FALSE
  /\ UNCHANGED <<corpus, streamed, agreed, held>>

(* related(): up to top_k other chunks whose node the user may see (all    *)
(* count as connected here), in no order.                                  *)
Related ==
  LET nodes == {d \in SearchDocs \ query.primary : Visible(graphLevel[d])}
  IN /\ In("related")
     /\ \E picked \in SUBSET nodes :
          /\ IF Cardinality(nodes) <= TopK THEN picked = nodes
                                           ELSE Cardinality(picked) = TopK
          /\ calm' = (calm /\ picked = nodes)
          /\ query' = [query EXCEPT !.pc = "get", !.related = picked]
     /\ UNCHANGED <<corpus, streamed, agreed, held>>

(* Their metadata from the vector store; a chunk deleted since is missing. *)
GetRelated ==
  /\ In("get")
  /\ query' = [query EXCEPT !.pc = "fetch",
       !.found = @ \cup {x \in Entries(chunkLevel) : x[1] \in query.related}]
  /\ UNCHANGED <<corpus, streamed, calm, agreed, held>>

(* For each url that the lexical index alone found, one chunk that has it  *)
(* and that the user may see.  A failing query finds none.                 *)
FetchLexicalOnly ==
  LET urls == {Url(d) : d \in query.lexical} \ {Url(x[1]) : x \in query.found}
      there == {x \in Entries(chunkLevel) : Url(x[1]) \in urls /\ Visible(x[2])}
  IN /\ In("fetch")
     /\ \E chosen \in SUBSET there :
          /\ \A x, y \in chosen : Url(x[1]) = Url(y[1]) => x = y
          /\ calm' = (calm /\ chosen = there)
          /\ query' = [query EXCEPT !.pc = "rank", !.found = @ \cup chosen]
     /\ UNCHANGED <<corpus, streamed, agreed, held>>

(* Fault: the stores have filtered already.                                *)
NoGuardFault(filter, x) == TRUE

(* is_visible_to and the source filter, once more, on the metadata that    *)
(* was read.                                                               *)
Passes(filter, x) == Visible(x[2]) /\ Source(x[1]) \in filter

Rank ==
  /\ In("rank")
  /\ query' = [query EXCEPT !.pc = "context",
                  !.found = {x \in @ : Passes(query.filter, x)}]
  /\ UNCHANGED <<corpus, streamed, calm, agreed, held>>

-----------------------------------------------------------------------------
(* get_by_source_url: some FileDoc with that url.                          *)
FilesAt(u) == {x \in Entries(fileLevel) : Url(x[1]) = u}

(* can_access in get_file_by_source_url.                                   *)
MayLink(file) == Visible(file[2])

(* _build_context links a hit to the file that its url leads to, and to    *)
(* the chunk itself if there is none or the user may not see it.           *)
Cite(x) ==
  /\ In("context") /\ x \in query.found
  /\ \E link \in {f \in FilesAt(Url(x[1])) : MayLink(f)} \cup
                 (IF \A f \in FilesAt(Url(x[1])) : MayLink(f)
                     /\ FilesAt(Url(x[1])) # {} THEN {} ELSE {<<0, 0>>}) :
       query' = [query EXCEPT !.found = @ \ {x},
                                !.cited = @ \cup {[hit |-> x, link |-> link]}]
  /\ UNCHANGED <<corpus, streamed, calm, agreed, held>>

CitedDocs == {c.hit[1] : c \in query.cited}

(* search_files: the file that the url of a chunk leads to, unless it is   *)
(* among the hits.                                                         *)
ResolveFile(x) ==
  /\ In("resolve") /\ x \in query.found
  /\ \/ \E f \in FilesAt(Url(x[1])) :
          query' = [query EXCEPT !.found = @ \ {x},
             !.files = IF \E g \in @ : g[1] = f[1] THEN @ ELSE @ \cup {f}]
     \/ /\ FilesAt(Url(x[1])) = {}
        /\ query' = [query EXCEPT !.found = @ \ {x}]
  /\ UNCHANGED <<corpus, streamed, calm, agreed, held>>

(* The answer is out; the browser then asks for the citations of one that  *)
(* was streamed.                                                           *)
Answer ==
  /\ query.pc \in {"context", "resolve"} /\ query.found = {}
  /\ query' = NoSearch
  /\ streamed' = IF query.kind = "rag" THEN CitedDocs ELSE streamed
  /\ UNCHANGED <<corpus, calm, agreed, held>>

RetrievalNext ==
  \/ \E d \in SearchDocs, l \in Levels : BeginWrite(d, l)
  \/ Write \/ ShareUrl
  \/ \E kind \in {"rag", "citations", "files"}, filter \in {{"local"}, Sources} :
       Ask(kind, filter)
  \/ QueryVector \/ QueryLexical \/ Related \/ GetRelated \/ FetchLexicalOnly
  \/ Rank \/ Answer
  \/ \E x \in query.found : Cite(x) \/ ResolveFile(x)

RetrievalSpec == RetrievalInit /\ [][RetrievalNext]_retrievalVars
-----------------------------------------------------------------------------
Hits == SearchDocs \X Levels

RetrievalTypeOK ==
  /\ {chunkLevel, graphLevel, fileLevel} \subseteq [SearchDocs -> Levels]
  /\ {sharedUrl, calm, agreed} \subseteq BOOLEAN
  /\ writer \in [pc : {"none", "vector", "graph", "index"},
                 doc : 0..DocCount, level : Levels]
  /\ writes \in 0..MaxWrites
  /\ query.kind \in {"none", "rag", "citations", "files"}
  /\ UNION {query.primary, query.lexical, query.related, streamed} \subseteq SearchDocs
  /\ query.found \subseteq Hits /\ query.files \subseteq Hits
  /\ held \subseteq Hits

(* Every source of an answer is one that its user could see in the vector  *)
(* store while it was looked up, however the graph and the index lag       *)
(* behind, whichever of the reads fail and whatever is written meanwhile.  *)
HitsWereVisible ==
  In("context") =>
    \A x \in query.found \cup {c.hit : c \in query.cited} :
       Visible(x[2]) /\ x \in held

(* Every file that an answer names is one that its user may see, although  *)
(* the url of a visible chunk may lead to another file or to an entry that *)
(* the ingest has not rewritten yet.  For the hits of a file search, which *)
(* does not check the files it finds through chunks, only if no files      *)
(* share a url and the index agrees with the vector store; they then pass  *)
(* its source filter, too.                                                 *)
FilesWereVisible ==
  /\ \A c \in query.cited : c.link[1] = 0 \/ Visible(c.link[2])
  /\ agreed /\ ~sharedUrl =>
       \A f \in query.files : Visible(f[2]) /\ Source(f[1]) \in query.filter

(* The citations that are looked up after a streamed answer are the        *)
(* sources of that answer as long as nothing was written, no read failed   *)
(* and no limit had to choose.                                             *)
CitationsMatchAnswer ==
  In("context") /\ query.found = {} /\ query.kind = "citations" /\ calm =>
    CitedDocs = streamed

(* No answer, citation or file hit shows what its user may not see.        *)
ResultsWereVisible == HitsWereVisible /\ FilesWereVisible
=============================================================================
