---------------------------- MODULE Stores_proofs ----------------------------
(***************************************************************************)
(* Proofs about what the server keeps, and their composition in MCStores:  *)
(* the access guard of search, answers, citations and the search for files *)
(* (Retrieval), for every number of documents, every limit and both levels *)
(* a user may have; the database sessions of requests (RequestSessions),   *)
(* for any emails, documents and requests; and the agreement of the two    *)
(* builds of the stores (StoreBackends), for any documents and metadata.   *)
(***************************************************************************)
EXTENDS MCStores, KnowledgeBase_proofs

-----------------------------------------------------------------------------
(* Type correctness.                                                       *)
QueryPc == {"none", "vector", "lexical", "related", "get", "fetch", "rank", "context", "resolve"}
Citation == [hit : Hits, link : (0..DocCount) \X Levels]
Query ==
  [pc : QueryPc, kind : {"none", "rag", "citations", "files"}, filter : SUBSET Sources,
   primary : SUBSET SearchDocs, lexical : SUBSET SearchDocs, related : SUBSET SearchDocs,
   found : SUBSET Hits, files : SUBSET Hits, cited : SUBSET Citation]

RetrievalTyped ==
  /\ RetrievalTypeOK
  /\ query \in Query
  /\ writer.pc # "none" => writer.doc \in SearchDocs

(* What the stores hold are hits; rankings and filters only choose.        *)
LEMMA StoresGiveHits ==
  ASSUME NEW store \in [SearchDocs -> Levels]
  PROVE  Entries(store) \subseteq Hits
BY DEF Entries, Hits

(* A ranking takes some of what it is given.                               *)
LEMMA RankingsChoose ==
  ASSUME NEW S, NEW k
  PROVE  Nearest(S, k) \subseteq S /\ BestMatch(S, k) \subseteq S
BY DEF Nearest, BestMatch

(* The types hold before the first search.                                 *)
LEMMA RetrievalInitTyped == RetrievalInit => RetrievalTyped
<1> SUFFICES ASSUME RetrievalInit PROVE RetrievalTyped
  OBVIOUS
<1>1. NoSearch \in Query
  BY DEF NoSearch, Query, QueryPc
<1>2. query \in Query /\ query.kind = "none" /\ query.primary = {} /\ query.lexical = {}
      /\ query.related = {} /\ query.found = {} /\ query.files = {}
  BY <1>1 DEF RetrievalInit, NoSearch
<1>3. writer \in [pc : {"none", "vector", "graph", "index"}, doc : 0..DocCount, level : Levels]
      /\ writer.pc = "none"
  BY RetrievalAssumption DEF RetrievalInit, Levels
<1>4. chunkLevel \in [SearchDocs -> Levels] /\ graphLevel \in [SearchDocs -> Levels]
      /\ fileLevel \in [SearchDocs -> Levels]
  BY DEF RetrievalInit, Levels
<1>5. sharedUrl = FALSE /\ calm = FALSE /\ agreed = FALSE /\ writes = 0 /\ streamed = {} /\ held = {}
  BY DEF RetrievalInit
<1>6. writes \in 0..MaxWrites
  BY <1>5, RetrievalAssumption
<1> QED
  BY <1>2, <1>3, <1>4, <1>5, <1>6 DEF RetrievalTyped, RetrievalTypeOK

(* Every step keeps the types.                                             *)
LEMMA RetrievalNextTyped ==
  RetrievalTyped /\ [RetrievalNext]_retrievalVars => RetrievalTyped'
<1> SUFFICES ASSUME RetrievalTyped, [RetrievalNext]_retrievalVars PROVE RetrievalTyped'
  OBVIOUS
<1> DEFINE StoresTyped ==
             /\ chunkLevel' \in [SearchDocs -> Levels]
             /\ graphLevel' \in [SearchDocs -> Levels]
             /\ fileLevel' \in [SearchDocs -> Levels]
             /\ sharedUrl' \in BOOLEAN
             /\ writer' \in [pc : {"none", "vector", "graph", "index"},
                             doc : 0..DocCount, level : Levels]
             /\ writer'.pc # "none" => writer'.doc \in SearchDocs
             /\ writes' \in 0..MaxWrites
           ReaderTyped ==
             /\ query' \in Query
             /\ streamed' \subseteq SearchDocs
             /\ calm' \in BOOLEAN /\ agreed' \in BOOLEAN
             /\ held' \subseteq Hits
<1>a. ASSUME StoresTyped, ReaderTyped PROVE RetrievalTyped'
  BY <1>a DEF RetrievalTyped, RetrievalTypeOK, Query
<1>b. /\ chunkLevel \in [SearchDocs -> Levels]
      /\ graphLevel \in [SearchDocs -> Levels]
      /\ fileLevel \in [SearchDocs -> Levels]
      /\ sharedUrl \in BOOLEAN
      /\ writer \in [pc : {"none", "vector", "graph", "index"},
                     doc : 0..DocCount, level : Levels]
      /\ writer.pc # "none" => writer.doc \in SearchDocs
      /\ writes \in 0..MaxWrites
  BY DEF RetrievalTyped, RetrievalTypeOK
<1>c. /\ query \in Query
      /\ streamed \subseteq SearchDocs
      /\ calm \in BOOLEAN /\ agreed \in BOOLEAN
      /\ held \subseteq Hits
  BY DEF RetrievalTyped, RetrievalTypeOK
<1>d. NoSearch \in Query
  BY DEF NoSearch, Query, QueryPc
<1>e. UNCHANGED corpus => StoresTyped
  BY <1>b DEF corpus
<1>f. Entries(chunkLevel) \subseteq Hits /\ Entries(fileLevel) \subseteq Hits
  BY <1>b, StoresGiveHits
<1>1. CASE UNCHANGED retrievalVars
  BY <1>1, <1>a, <1>b, <1>c DEF retrievalVars, corpus
<1>2. ASSUME NEW d \in SearchDocs, NEW l \in Levels, BeginWrite(d, l) PROVE RetrievalTyped'
  <2>1. StoresTyped
    BY <1>2, <1>b, RetrievalAssumption DEF BeginWrite, SearchDocs
  <2> QED
    BY <1>2, <2>1, <1>a, <1>c DEF BeginWrite
<1>3. CASE Write
  <2>1. \A store \in [SearchDocs -> Levels] :
          writer.pc # "none" => Put(store) \in [SearchDocs -> Levels]
    BY <1>b DEF Put
  <2>2. StoresTyped
    BY <1>3, <2>1, <1>b DEF Write
  <2>3. Entries(chunkLevel') \subseteq Hits
    BY <2>2, StoresGiveHits
  <2> QED
    BY <1>3, <2>2, <2>3, <1>a, <1>c DEF Write
<1>4. CASE ShareUrl
  BY <1>4, <1>a, <1>b, <1>c DEF ShareUrl
<1>5. ASSUME NEW kind \in {"rag", "citations", "files"}, NEW filter \in {{"local"}, Sources},
             Ask(kind, filter)
      PROVE  RetrievalTyped'
  <2>1. query' \in Query
    BY <1>5 DEF Ask, NoSearch, Query, QueryPc, Sources
  <2> QED
    BY <1>5, <2>1, <1>a, <1>c, <1>e, <1>f DEF Ask
<1>6. CASE QueryVector
  <2> DEFINE near == Nearest(Where(query.filter), TopK)
  <2>1. near \subseteq SearchDocs
    BY RankingsChoose DEF Where
  <2>2. {<<d, chunkLevel[d]>> : d \in near} \subseteq Hits
    BY <2>1, <1>b DEF Hits
  <2>3. query' \in Query
    BY <1>6, <2>1, <2>2, <1>c DEF QueryVector, Query, QueryPc
  <2> QED
    BY <1>6, <2>3, <1>a, <1>c, <1>e DEF QueryVector
<1>7. CASE QueryLexical
  <2> DEFINE best == BestMatch(Matching(query.filter), TopK)
  <2>1. best \subseteq SearchDocs
    BY RankingsChoose DEF Matching
  <2>2. {<<d, fileLevel[d]>> : d \in best} \subseteq Hits
    BY <2>1, <1>b DEF Hits
  <2>3. query' \in Query
    <3>1. \/ query' = [query EXCEPT !.pc = "vector", !.lexical = best,
                          !.files = {<<d, fileLevel[d]>> : d \in best}]
          \/ query' = [query EXCEPT !.pc = "related", !.lexical = best]
          \/ query' = NoSearch
          \/ query' = [query EXCEPT !.pc = "related"]
      BY <1>7 DEF QueryLexical
    <3>2. [query EXCEPT !.pc = "vector", !.lexical = best,
                        !.files = {<<d, fileLevel[d]>> : d \in best}] \in Query
      BY <2>1, <2>2, <1>c DEF Query, QueryPc
    <3>3. /\ [query EXCEPT !.pc = "related", !.lexical = best] \in Query
          /\ [query EXCEPT !.pc = "related"] \in Query
      BY <2>1, <1>c DEF Query, QueryPc
    <3> QED
      BY <3>1, <3>2, <3>3, <1>d
  <2> QED
    BY <1>7, <2>3, <1>a, <1>c, <1>e DEF QueryLexical
<1>8. CASE Related
  <2>1. PICK picked \in SUBSET SearchDocs :
          /\ \E nodes : calm' = (calm /\ picked = nodes)
          /\ query' = [query EXCEPT !.pc = "get", !.related = picked]
    BY <1>8 DEF Related
  <2>2. query' \in Query /\ calm' \in BOOLEAN
    BY <2>1, <1>c DEF Query, QueryPc
  <2> QED
    BY <1>8, <2>2, <1>a, <1>c, <1>e DEF Related
<1>9. CASE GetRelated
  <2>1. query' \in Query
    BY <1>9, <1>c, <1>f DEF GetRelated, Query, QueryPc
  <2> QED
    BY <1>9, <2>1, <1>a, <1>c, <1>e DEF GetRelated
<1>10. CASE FetchLexicalOnly
  <2>1. PICK chosen \in SUBSET Entries(chunkLevel) :
          /\ \E there : calm' = (calm /\ chosen = there)
          /\ query' = [query EXCEPT !.pc = "rank", !.found = @ \cup chosen]
    BY <1>10 DEF FetchLexicalOnly
  <2>2. query' \in Query /\ calm' \in BOOLEAN
    BY <2>1, <1>c, <1>f DEF Query, QueryPc
  <2> QED
    BY <1>10, <2>2, <1>a, <1>c, <1>e DEF FetchLexicalOnly
<1>11. CASE Rank
  <2>1. query' \in Query
    BY <1>11, <1>c DEF Rank, Query, QueryPc
  <2> QED
    BY <1>11, <2>1, <1>a, <1>c, <1>e DEF Rank
<1>12. ASSUME NEW x \in query.found, Cite(x) PROVE RetrievalTyped'
  <2>1. PICK link \in FilesAt(Url(x[1])) \cup {<<0, 0>>} :
          query' = [query EXCEPT !.found = @ \ {x},
                                 !.cited = @ \cup {[hit |-> x, link |-> link]}]
    BY <1>12 DEF Cite
  <2>2. link \in (0..DocCount) \X Levels
    BY <1>f, RetrievalAssumption DEF FilesAt, Hits, SearchDocs, Levels
  <2>3. [hit |-> x, link |-> link] \in Citation
    BY <2>2, <1>c DEF Citation, Query
  <2>4. query' \in Query
    BY <2>1, <2>3, <1>c DEF Query
  <2> QED
    BY <1>12, <2>4, <1>a, <1>c, <1>e DEF Cite
<1>13. ASSUME NEW x \in query.found, ResolveFile(x) PROVE RetrievalTyped'
  <2>1. query' \in Query
    <3>1. \A S \in SUBSET Hits : [query EXCEPT !.found = query.found \ {x}, !.files = S] \in Query
      BY <1>c DEF Query
    <3>2. [query EXCEPT !.found = query.found \ {x}] \in Query
      BY <1>c DEF Query
    <3>3. query.files \subseteq Hits /\ \A f \in FilesAt(Url(x[1])) : query.files \cup {f} \subseteq Hits
      BY <1>c, <1>f DEF Query, FilesAt
    <3> QED
      BY <1>13, <3>1, <3>2, <3>3 DEF ResolveFile
  <2> QED
    BY <1>13, <2>1, <1>a, <1>c, <1>e DEF ResolveFile
<1>14. CASE Answer
  <2>1. CitedDocs \subseteq SearchDocs
    BY <1>c DEF CitedDocs, Query, Citation, Hits
  <2> QED
    BY <1>14, <2>1, <1>a, <1>c, <1>d, <1>e DEF Answer
<1> QED
  BY <1>1, <1>2, <1>3, <1>4, <1>5, <1>6, <1>7, <1>8, <1>9, <1>10, <1>11, <1>12, <1>13,
     <1>14 DEF RetrievalNext

-----------------------------------------------------------------------------
(* The access guard.                                                       *)

(* What is found is in the vector store or was since the request began;    *)
(* after the guard it is visible, and so is what is cited.                 *)
GuardInv ==
  /\ query.pc # "none" => Entries(chunkLevel) \subseteq held /\ query.found \subseteq held
  /\ query.pc # "context" => query.cited = {}
  /\ query.pc = "context" => \A x \in query.found : Visible(x[2])
  /\ \A c \in query.cited :
       /\ c.hit \in held /\ Visible(c.hit[2])
       /\ c.link[1] = 0 \/ Visible(c.link[2])

(* As long as index and vector store agree and a url leads to one file,    *)
(* the file of a visible chunk is that chunk's.                            *)
Shows(x) == Visible(x[2]) /\ Source(x[1]) \in query.filter
FilesInv ==
  /\ query.pc = "none" => query.files = {}
  /\ agreed /\ ~sharedUrl /\ query.pc # "none" =>
       /\ fileLevel = chunkLevel
       /\ \A f \in query.files : Shows(f)
       /\ query.kind = "files" /\ query.pc \in {"lexical", "vector"} => query.found = {}
       /\ query.pc = "resolve" =>
            \A x \in query.found : x \in Entries(chunkLevel) /\ Shows(x)

(* Nothing is found before the first search.                               *)
LEMMA GuardInitInv == RetrievalInit => GuardInv /\ FilesInv
  BY DEF RetrievalInit, GuardInv, FilesInv, NoSearch

(* The chunks nearest to the question have passed the filter.              *)
LEMMA NearAreVisible ==
  ASSUME NEW filter, NEW k, NEW d \in Nearest(Where(filter), k)
  PROVE  /\ <<d, chunkLevel[d]>> \in Entries(chunkLevel)
         /\ Visible(chunkLevel[d]) /\ Source(d) \in filter
<1>1. d \in Where(filter)
  BY RankingsChoose
<1>2. d \in SearchDocs /\ Visible(chunkLevel[d]) /\ Source(d) \in filter
  BY <1>1 DEF Where
<1>3. chunkLevel[d] > 0
  BY <1>2, RetrievalAssumption DEF Visible
<1> QED
  BY <1>2, <1>3 DEF Entries

(* Every step keeps what is found within what the user may see.            *)
LEMMA GuardNextInv ==
  RetrievalTyped /\ GuardInv /\ [RetrievalNext]_retrievalVars => GuardInv'
<1> SUFFICES ASSUME RetrievalTyped, GuardInv, [RetrievalNext]_retrievalVars PROVE GuardInv'
  OBVIOUS
<1> USE DEF GuardInv, In
<1>a. query \in Query
  BY DEF RetrievalTyped
<1>1. CASE UNCHANGED retrievalVars
  BY <1>1 DEF retrievalVars, corpus
<1>2. ASSUME NEW d \in SearchDocs, NEW l \in Levels, BeginWrite(d, l) PROVE GuardInv'
  BY <1>2 DEF BeginWrite
<1>3. CASE Write
  BY <1>3 DEF Write
<1>4. CASE ShareUrl
  BY <1>4 DEF ShareUrl
<1>5. ASSUME NEW kind, NEW filter, Ask(kind, filter) PROVE GuardInv'
  <2>1. query'.found = {} /\ query'.cited = {} /\ query'.pc # "context"
    BY <1>5 DEF Ask, NoSearch
  <2>2. held' = Entries(chunkLevel')
    BY <1>5 DEF Ask, corpus
  <2> QED
    BY <2>1, <2>2
<1>6. CASE QueryVector
  <2> DEFINE near == Nearest(Where(query.filter), TopK)
  <2>1. {<<d, chunkLevel[d]>> : d \in near} \subseteq held
    BY <1>6, NearAreVisible DEF QueryVector
  <2>2. query'.found \in {query.found, {<<d, chunkLevel[d]>> : d \in near}}
    BY <1>6, <1>a DEF QueryVector, Query
  <2>3. query'.cited = query.cited /\ query'.pc # "context"
    BY <1>6, <1>a DEF QueryVector, Query
  <2> QED
    BY <1>6, <2>1, <2>2, <2>3 DEF QueryVector, corpus
<1>7. CASE QueryLexical
  <2>1. query'.found \in {query.found, {}} /\ query'.cited = {} /\ query'.pc # "context"
    <3>1. PICK best, files :
            \/ query' = [query EXCEPT !.pc = "vector", !.lexical = best, !.files = files]
            \/ query' = [query EXCEPT !.pc = "related", !.lexical = best]
            \/ query' = NoSearch
            \/ query' = [query EXCEPT !.pc = "related"]
      BY <1>7 DEF QueryLexical
    <3>2. query.cited = {}
      BY <1>7 DEF QueryLexical
    <3>3. query' = NoSearch => query'.found = {} /\ query'.cited = {} /\ query'.pc = "none"
      BY DEF NoSearch
    <3>4. query' # NoSearch => query'.found = query.found /\ query'.cited = query.cited
                               /\ query'.pc \in {"vector", "related"}
      BY <3>1, <1>a DEF Query
    <3> QED
      BY <3>2, <3>3, <3>4
  <2> QED
    BY <1>7, <2>1 DEF QueryLexical, corpus
<1>8. CASE Related
  <2>1. query'.found = query.found /\ query'.cited = query.cited /\ query'.pc = "get"
    BY <1>8, <1>a DEF Related, Query
  <2> QED
    BY <1>8, <2>1 DEF Related, corpus
<1>9. CASE GetRelated
  <2>1. /\ query'.found \subseteq query.found \cup Entries(chunkLevel)
        /\ query'.cited = query.cited /\ query'.pc = "fetch"
    BY <1>9, <1>a DEF GetRelated, Query
  <2> QED
    BY <1>9, <2>1 DEF GetRelated, corpus
<1>10. CASE FetchLexicalOnly
  <2>1. PICK chosen \in SUBSET Entries(chunkLevel) :
          query' = [query EXCEPT !.pc = "rank", !.found = @ \cup chosen]
    BY <1>10 DEF FetchLexicalOnly
  <2>2. /\ query'.found = query.found \cup chosen
        /\ query'.cited = query.cited /\ query'.pc = "rank"
    BY <2>1, <1>a DEF Query
  <2> QED
    BY <1>10, <2>2 DEF FetchLexicalOnly, corpus
<1>11. CASE Rank
  <2>1. /\ query'.found = {x \in query.found : Passes(query.filter, x)}
        /\ query'.cited = query.cited /\ query'.pc = "context"
    BY <1>11, <1>a DEF Rank, Query
  <2> QED
    BY <1>11, <2>1 DEF Rank, corpus, Passes
<1>12. ASSUME NEW x \in query.found, Cite(x) PROVE GuardInv'
  <2>1. PICK link : /\ link = <<0, 0>> \/ MayLink(link)
                    /\ query' = [query EXCEPT !.found = @ \ {x},
                                   !.cited = @ \cup {[hit |-> x, link |-> link]}]
    BY <1>12 DEF Cite
  <2>2. /\ query'.found = query.found \ {x} /\ query'.pc = "context"
        /\ query'.cited = query.cited \cup {[hit |-> x, link |-> link]}
    BY <1>12, <2>1, <1>a DEF Cite, Query
  <2>3. x \in held /\ Visible(x[2])
    BY <1>12 DEF Cite
  <2>4. link[1] = 0 \/ Visible(link[2])
    BY <2>1 DEF MayLink
  <2> QED
    BY <1>12, <2>2, <2>3, <2>4 DEF Cite, corpus
<1>13. ASSUME NEW x \in query.found, ResolveFile(x) PROVE GuardInv'
  <2>1. /\ query'.found = query.found \ {x} /\ query'.pc = "resolve"
        /\ query'.cited = query.cited
    BY <1>13, <1>a DEF ResolveFile, Query
  <2> QED
    BY <1>13, <2>1 DEF ResolveFile, corpus
<1>14. CASE Answer
  BY <1>14 DEF Answer, NoSearch
<1> QED
  BY <1>1, <1>2, <1>3, <1>4, <1>5, <1>6, <1>7, <1>8, <1>9, <1>10, <1>11, <1>12, <1>13,
     <1>14 DEF RetrievalNext

(* Every step keeps the files that are shown within what the user may see. *)
LEMMA FilesNextInv ==
  /\ RetrievalTyped /\ GuardInv /\ FilesInv /\ [RetrievalNext]_retrievalVars
  => FilesInv'
<1> SUFFICES ASSUME RetrievalTyped, GuardInv, FilesInv, [RetrievalNext]_retrievalVars
             PROVE  FilesInv'
  OBVIOUS
<1> USE DEF FilesInv, In
<1>a. query \in Query
  BY DEF RetrievalTyped
<1>b. \A x : Shows(x) /\ query'.filter = query.filter => Shows(x)'
  BY DEF Shows, Visible, Source
<1>c. ASSUME UNCHANGED corpus, UNCHANGED agreed PROVE Entries(chunkLevel) = Entries(chunkLevel')
  BY <1>c DEF corpus
<1>1. CASE UNCHANGED retrievalVars
  BY <1>1, <1>b DEF retrievalVars, corpus
<1>2. ASSUME NEW d \in SearchDocs, NEW l \in Levels, BeginWrite(d, l) PROVE FilesInv'
  BY <1>2, <1>b DEF BeginWrite
<1>3. CASE Write
  <2>1. query' = query /\ sharedUrl' = sharedUrl
    BY <1>3 DEF Write
  <2>2. ASSUME agreed', ~sharedUrl, query.pc # "none"
        PROVE  agreed /\ chunkLevel' = chunkLevel /\ fileLevel' = chunkLevel'
    <3>1. agreed /\ fileLevel' = chunkLevel' /\ fileLevel = chunkLevel
      BY <1>3, <2>2 DEF Write
    <3>2. chunkLevel' = chunkLevel \/ fileLevel' = fileLevel
      BY <1>3 DEF Write
    <3> QED
      BY <3>1, <3>2
  <2> QED
    BY <2>1, <2>2, <1>b
<1>4. CASE ShareUrl
  BY <1>4 DEF ShareUrl, NoSearch
<1>5. ASSUME NEW kind \in {"rag", "citations", "files"}, NEW filter, Ask(kind, filter)
      PROVE  FilesInv'
  <2>1. query'.found = {} /\ query'.files = {} /\ query'.pc \in {"lexical", "vector"}
    BY <1>5 DEF Ask, NoSearch
  <2>2. agreed' => fileLevel' = chunkLevel'
    BY <1>5 DEF Ask, corpus
  <2> QED
    BY <2>1, <2>2
<1>6. CASE QueryVector
  <2> DEFINE near == {<<d, chunkLevel[d]>> : d \in Nearest(Where(query.filter), TopK)}
  <2>1. \A x \in near : x \in Entries(chunkLevel) /\ Shows(x)
    BY NearAreVisible DEF Shows
  <2>2. /\ query'.filter = query.filter /\ query'.files = query.files
        /\ query'.kind = query.kind
        /\ query'.pc = IF query.kind = "files" THEN "resolve" ELSE "lexical"
        /\ query'.found \in {query.found, near}
    BY <1>6, <1>a DEF QueryVector, Query
  <2>3. UNCHANGED <<corpus, agreed>>
    BY <1>6 DEF QueryVector
  <2>4. query.pc = "vector"
    BY <1>6 DEF QueryVector
  <2> QED
    BY <2>1, <2>2, <2>3, <2>4, <1>b, <1>c DEF corpus
<1>7. CASE QueryLexical
  <2> DEFINE best == BestMatch(Matching(query.filter), TopK)
             files == {<<d, fileLevel[d]>> : d \in best}
  <2>1. \A f \in files : Shows(f)
    <3>1. best \subseteq Matching(query.filter)
      BY RankingsChoose
    <3>2. \A d \in best : Visible(fileLevel[d]) /\ Source(d) \in query.filter
      BY <3>1 DEF Matching
    <3>3. ASSUME NEW d \in best PROVE Shows(<<d, fileLevel[d]>>)
      BY <3>2 DEF Shows
    <3> QED
      BY <3>3
  <2>2. \/ query' = [query EXCEPT !.pc = "vector", !.lexical = best, !.files = files]
        \/ query.kind # "files" /\ query' = [query EXCEPT !.pc = "related", !.lexical = best]
        \/ query' = NoSearch
        \/ query.kind # "files" /\ query' = [query EXCEPT !.pc = "related"]
    BY <1>7 DEF QueryLexical
  <2>3. UNCHANGED <<corpus, agreed>> /\ query.pc = "lexical"
    BY <1>7 DEF QueryLexical
  <2>4. CASE query' = [query EXCEPT !.pc = "vector", !.lexical = best, !.files = files]
    <3>1. /\ query'.filter = query.filter /\ query'.files = files /\ query'.pc = "vector"
          /\ query'.found = query.found /\ query'.kind = query.kind
      BY <2>4, <1>a DEF Query
    <3> QED
      BY <2>1, <2>3, <3>1, <1>b DEF corpus
  <2>5. CASE query' = NoSearch
    BY <2>5 DEF NoSearch
  <2>6. CASE \/ query' = [query EXCEPT !.pc = "related", !.lexical = best]
             \/ query' = [query EXCEPT !.pc = "related"]
    <3>1. /\ query'.filter = query.filter /\ query'.files = query.files
          /\ query'.pc = "related"
      BY <2>6, <1>a DEF Query
    <3> QED
      BY <2>3, <3>1, <1>b DEF corpus
  <2> QED
    BY <2>2, <2>4, <2>5, <2>6
<1>8. CASE Related \/ GetRelated \/ FetchLexicalOnly \/ Rank
  <2>1. /\ query'.filter = query.filter /\ query'.files = query.files
        /\ query'.pc \in {"get", "fetch", "rank", "context"} /\ query.pc # "none"
    BY <1>8, <1>a DEF Related, GetRelated, FetchLexicalOnly, Rank, Query
  <2>2. UNCHANGED <<corpus, agreed>>
    BY <1>8 DEF Related, GetRelated, FetchLexicalOnly, Rank
  <2> QED
    BY <2>1, <2>2, <1>b DEF corpus
<1>9. ASSUME NEW x \in query.found, Cite(x) PROVE FilesInv'
  <2>1. query'.filter = query.filter /\ query'.files = query.files /\ query'.pc = "context"
        /\ query.pc # "none"
    BY <1>9, <1>a DEF Cite, Query
  <2>2. UNCHANGED <<corpus, agreed>>
    BY <1>9 DEF Cite
  <2> QED
    BY <2>1, <2>2, <1>b DEF corpus
<1>10. ASSUME NEW x \in query.found, ResolveFile(x) PROVE FilesInv'
  <2>1. UNCHANGED <<corpus, agreed>> /\ query.pc = "resolve"
    BY <1>10 DEF ResolveFile
  <2>2. /\ query'.filter = query.filter /\ query'.pc = "resolve"
        /\ query'.found = query.found \ {x} /\ query'.kind = query.kind
    BY <1>10, <1>a DEF ResolveFile, Query
  <2>3. query'.files = query.files
        \/ \E f \in FilesAt(Url(x[1])) : query'.files = query.files \cup {f}
    BY <1>10, <1>a DEF ResolveFile, Query
  <2>4. ASSUME agreed, ~sharedUrl PROVE \A f \in FilesAt(Url(x[1])) : f = x
    <3>1. x \in Entries(chunkLevel) /\ fileLevel = chunkLevel
      BY <2>1, <2>4
    <3>2. ASSUME NEW f \in FilesAt(Url(x[1])) PROVE f = x
      <4>1. f \in Entries(chunkLevel) /\ f[1] = x[1]
        BY <2>4, <3>1 DEF FilesAt, Url
      <4> QED
        BY <3>1, <4>1 DEF Entries
    <3> QED
      BY <3>2
  <2> QED
    BY <2>1, <2>2, <2>3, <2>4, <1>b, <1>c DEF corpus
<1>11. CASE Answer
  BY <1>11 DEF Answer, NoSearch
<1> QED
  BY <1>1, <1>2, <1>3, <1>4, <1>5, <1>6, <1>7, <1>8, <1>9, <1>10, <1>11 DEF RetrievalNext

-----------------------------------------------------------------------------
(* The types and the guard of every result hold in every state.            *)
THEOREM RetrievalInductive == RetrievalSpec => [](RetrievalTyped /\ GuardInv /\ FilesInv)
<1>1. RetrievalInit => RetrievalTyped /\ GuardInv /\ FilesInv
  BY RetrievalInitTyped, GuardInitInv
<1>2. RetrievalTyped /\ GuardInv /\ FilesInv /\ [RetrievalNext]_retrievalVars
      => (RetrievalTyped /\ GuardInv /\ FilesInv)'
  BY RetrievalNextTyped, GuardNextInv, FilesNextInv
<1> QED
  BY <1>1, <1>2, PTL DEF RetrievalSpec

(* No answer, citation or file hit shows what its user may not see,        *)
(* however ingests and deletes interleave with the reads of a search       *)
(* (search_service.py, rag_service.py).                                    *)
THEOREM GuardHolds == RetrievalSpec => []ResultsWereVisible
<1>1. GuardInv => HitsWereVisible
  BY DEF GuardInv, HitsWereVisible, In
<1>2. GuardInv /\ FilesInv => FilesWereVisible
  BY DEF GuardInv, FilesInv, FilesWereVisible, Shows
<1>3. GuardInv /\ FilesInv => ResultsWereVisible
  BY <1>1, <1>2 DEF ResultsWereVisible
<1> QED
  BY <1>3, RetrievalInductive, PTL

-----------------------------------------------------------------------------
(* Answers and citations.                                                  *)

(* What each read of a search gives when the stores stay as they are.      *)
TheNearest == Nearest(Where(Sources), TopK)
TheBest == BestMatch(Matching(Sources), TopK)
TheRelated == {d \in SearchDocs \ TheNearest : Visible(graphLevel[d])}
NearestFound == {<<d, chunkLevel[d]>> : d \in TheNearest}
RelatedFound == NearestFound \cup {x \in Entries(chunkLevel) : x[1] \in TheRelated}
UrlsLeft == {Url(d) : d \in TheBest} \ {Url(x[1]) : x \in RelatedFound}
AllFound ==
  RelatedFound \cup {x \in Entries(chunkLevel) : Url(x[1]) \in UrlsLeft /\ Visible(x[2])}
GoodFound == {x \in AllFound : Passes(Sources, x)}
TheSources == {x[1] : x \in GoodFound}

(* In calm, a search has read just that, and the last streamed answer has  *)
(* the sources which it gives.                                             *)
CalmInv ==
  calm =>
    /\ query.kind # "files"
    /\ query.pc # "none" => query.filter = Sources /\ query.kind \in {"rag", "citations"}
    /\ query.pc = "lexical" => query.primary = TheNearest /\ query.found = NearestFound
    /\ query.pc = "related" => /\ query.primary = TheNearest /\ query.found = NearestFound
                               /\ query.lexical = TheBest
    /\ query.pc = "get" => /\ query.found = NearestFound /\ query.lexical = TheBest
                           /\ query.related = TheRelated
    /\ query.pc = "fetch" => query.found = RelatedFound /\ query.lexical = TheBest
    /\ query.pc = "rank" => query.found = AllFound
    /\ query.pc = "context" => {x[1] : x \in query.found} \cup CitedDocs = TheSources
    /\ query.pc # "resolve"
    /\ query.pc = "none" \/ query.kind = "citations" => streamed = TheSources

(* No answer was given before the first search.                            *)
LEMMA CalmInitInv == RetrievalInit => CalmInv
  BY DEF RetrievalInit, CalmInv

(* Every step keeps, in calm, the sources of an answer those of its        *)
(* citations.                                                              *)
LEMMA CalmNextInv ==
  /\ RetrievalTyped /\ GuardInv /\ CalmInv /\ [RetrievalNext]_retrievalVars
  => CalmInv'
<1> SUFFICES ASSUME RetrievalTyped, GuardInv, CalmInv, [RetrievalNext]_retrievalVars,
                    calm'
             PROVE  CalmInv'
  BY DEF CalmInv
<1> USE DEF In
<1>a. query \in Query /\ calm \in BOOLEAN
  BY DEF RetrievalTyped, RetrievalTypeOK
<1>b. ASSUME UNCHANGED corpus
      PROVE  /\ TheNearest' = TheNearest /\ TheBest' = TheBest /\ TheRelated' = TheRelated
             /\ NearestFound' = NearestFound /\ RelatedFound' = RelatedFound
             /\ AllFound' = AllFound /\ TheSources' = TheSources
  BY <1>b DEF corpus, TheNearest, TheBest, TheRelated, NearestFound, RelatedFound, AllFound,
          TheSources, GoodFound, UrlsLeft, Where, Matching, Entries, Nearest, BestMatch,
          Visible, Source, Url, Passes
<1>1. CASE UNCHANGED retrievalVars
  BY <1>1, <1>b DEF retrievalVars, CalmInv, CitedDocs
<1>2. ASSUME NEW d \in SearchDocs, NEW l \in Levels, BeginWrite(d, l) PROVE CalmInv'
  <2>1. /\ UNCHANGED <<chunkLevel, graphLevel, fileLevel, sharedUrl>>
        /\ UNCHANGED <<query, streamed, calm>>
    BY <1>2 DEF BeginWrite
  <2>2. /\ TheNearest' = TheNearest /\ TheBest' = TheBest /\ TheRelated' = TheRelated
        /\ NearestFound' = NearestFound /\ RelatedFound' = RelatedFound
        /\ AllFound' = AllFound /\ TheSources' = TheSources
    BY <2>1 DEF TheNearest, TheBest, TheRelated, NearestFound, RelatedFound, AllFound,
          TheSources, GoodFound, UrlsLeft, Where, Matching, Entries, Nearest, BestMatch,
          Visible, Source, Url, Passes
  <2> QED
    BY <2>1, <2>2 DEF CalmInv, CitedDocs
<1>3. CASE Write \/ ShareUrl
  BY <1>3 DEF Write, ShareUrl
<1>4. ASSUME NEW kind \in {"rag", "citations", "files"}, NEW filter, Ask(kind, filter)
      PROVE  CalmInv'
  <2>1. kind = "rag" \/ (kind = "citations" /\ calm)
    BY <1>4 DEF Ask
  <2>2. filter = Sources
    BY <1>4, <2>1 DEF Ask, MayAsk
  <2>3. query'.pc = "vector" /\ query'.kind = kind /\ query'.filter = Sources
    BY <1>4, <2>1, <2>2 DEF Ask, NoSearch
  <2>4. kind = "citations" => streamed' = TheSources'
    BY <1>4, <2>1, <1>b DEF Ask, CalmInv
  <2> QED
    BY <2>1, <2>3, <2>4 DEF CalmInv
<1>5. CASE QueryVector
  <2>1. UNCHANGED <<corpus, streamed, calm>> /\ query.pc = "vector"
    BY <1>5 DEF QueryVector
  <2>2. query.filter = Sources /\ query.kind \in {"rag", "citations"}
    BY <2>1 DEF CalmInv
  <2>3. query' = [query EXCEPT !.pc = "lexical", !.primary = TheNearest, !.found = NearestFound]
    BY <1>5, <2>2 DEF QueryVector, TheNearest, NearestFound
  <2>4. /\ query'.pc = "lexical" /\ query'.primary = TheNearest /\ query'.found = NearestFound
        /\ query'.filter = query.filter /\ query'.kind = query.kind
    BY <2>3, <1>a DEF Query
  <2> QED
    BY <2>1, <2>2, <2>4, <1>b DEF CalmInv
<1>6. CASE QueryLexical
  <2>1. UNCHANGED <<corpus, streamed, calm>> /\ query.pc = "lexical"
    BY <1>6 DEF QueryLexical
  <2>2. query.filter = Sources /\ query.kind \in {"rag", "citations"}
    BY <2>1 DEF CalmInv
  <2>3. query' = [query EXCEPT !.pc = "related", !.lexical = TheBest]
    BY <1>6, <2>2 DEF QueryLexical, TheBest
  <2>4. /\ query'.pc = "related" /\ query'.primary = query.primary /\ query'.found = query.found
        /\ query'.lexical = TheBest
        /\ query'.filter = query.filter /\ query'.kind = query.kind
    BY <2>3, <1>a DEF Query
  <2> QED
    BY <2>1, <2>2, <2>4, <1>b DEF CalmInv
<1>7. CASE Related
  <2>1. UNCHANGED <<corpus, streamed>> /\ query.pc = "related"
    BY <1>7 DEF Related
  <2>2. PICK picked : /\ calm' = (calm /\ picked = {d \in SearchDocs \ query.primary :
                                                       Visible(graphLevel[d])})
                      /\ query' = [query EXCEPT !.pc = "get", !.related = picked]
    BY <1>7 DEF Related
  <2>3. calm /\ picked = {d \in SearchDocs \ query.primary : Visible(graphLevel[d])}
    BY <2>2
  <2>4. picked = TheRelated
    BY <2>1, <2>3 DEF CalmInv, TheRelated
  <2>5. /\ query'.pc = "get" /\ query'.related = TheRelated /\ query'.found = query.found
        /\ query'.lexical = query.lexical
        /\ query'.filter = query.filter /\ query'.kind = query.kind
    BY <2>2, <2>4, <1>a DEF Query
  <2> QED
    BY <2>1, <2>3, <2>5, <1>b DEF CalmInv
<1>8. CASE GetRelated
  <2>1. UNCHANGED <<corpus, streamed, calm>> /\ query.pc = "get"
    BY <1>8 DEF GetRelated
  <2>2. /\ query'.pc = "fetch" /\ query'.lexical = query.lexical
        /\ query'.found = query.found \cup {x \in Entries(chunkLevel) : x[1] \in query.related}
        /\ query'.filter = query.filter /\ query'.kind = query.kind
    BY <1>8, <1>a DEF GetRelated, Query
  <2>3. query'.found = RelatedFound /\ query'.lexical = TheBest
    BY <2>1, <2>2 DEF CalmInv, RelatedFound
  <2> QED
    BY <2>1, <2>2, <2>3, <1>b DEF CalmInv
<1>9. CASE FetchLexicalOnly
  <2> DEFINE urls == {Url(d) : d \in query.lexical} \ {Url(x[1]) : x \in query.found}
             there == {x \in Entries(chunkLevel) : Url(x[1]) \in urls /\ Visible(x[2])}
  <2>1. UNCHANGED <<corpus, streamed>> /\ query.pc = "fetch"
    BY <1>9 DEF FetchLexicalOnly
  <2>2. PICK chosen : /\ calm' = (calm /\ chosen = there)
                      /\ query' = [query EXCEPT !.pc = "rank", !.found = @ \cup chosen]
    BY <1>9 DEF FetchLexicalOnly
  <2>3. calm /\ chosen = there
    BY <2>2
  <2>4. query.found \cup chosen = AllFound
    BY <2>1, <2>3 DEF CalmInv, AllFound, UrlsLeft
  <2>5. /\ query'.pc = "rank" /\ query'.found = AllFound
        /\ query'.filter = query.filter /\ query'.kind = query.kind
    BY <2>2, <2>4, <1>a DEF Query
  <2> QED
    BY <2>1, <2>3, <2>5, <1>b DEF CalmInv
<1>10. CASE Rank
  <2>1. UNCHANGED <<corpus, streamed, calm>> /\ query.pc = "rank"
    BY <1>10 DEF Rank
  <2>2. query.filter = Sources /\ query.found = AllFound /\ query.cited = {}
    BY <2>1 DEF CalmInv, GuardInv
  <2>3. /\ query'.pc = "context" /\ query'.found = {x \in query.found : Passes(query.filter, x)}
        /\ query'.cited = query.cited
        /\ query'.filter = query.filter /\ query'.kind = query.kind
    BY <1>10, <1>a DEF Rank, Query
  <2>4. query'.found = GoodFound /\ CitedDocs' = {}
    BY <2>2, <2>3 DEF GoodFound, CitedDocs
  <2> QED
    BY <2>1, <2>3, <2>4, <1>b DEF CalmInv, TheSources
<1>11. ASSUME NEW x \in query.found, Cite(x) PROVE CalmInv'
  <2>1. UNCHANGED <<corpus, streamed, calm>> /\ query.pc = "context"
    BY <1>11 DEF Cite
  <2>2. PICK link : query' = [query EXCEPT !.found = @ \ {x},
                                 !.cited = @ \cup {[hit |-> x, link |-> link]}]
    BY <1>11 DEF Cite
  <2>3. /\ query'.pc = "context" /\ query'.found = query.found \ {x}
        /\ query'.cited = query.cited \cup {[hit |-> x, link |-> link]}
        /\ query'.filter = query.filter /\ query'.kind = query.kind
    BY <2>1, <2>2, <1>a DEF Query
  <2>4. CitedDocs' = CitedDocs \cup {x[1]}
    <3>1. [hit |-> x, link |-> link].hit = x
      OBVIOUS
    <3>2. \A y : y \in CitedDocs' <=> \E c \in query.cited \cup {[hit |-> x, link |-> link]} : y = c.hit[1]
      BY <2>3 DEF CitedDocs
    <3>3. \A y : y \in CitedDocs' <=> y \in CitedDocs \/ y = x[1]
      BY <3>1, <3>2 DEF CitedDocs
    <3> QED
      BY <3>3
  <2>5. {y[1] : y \in query'.found} \cup CitedDocs' = {y[1] : y \in query.found} \cup CitedDocs
    BY <2>3, <2>4
  <2> QED
    BY <2>1, <2>3, <2>5, <1>b DEF CalmInv
<1>12. ASSUME NEW x \in query.found, ResolveFile(x) PROVE CalmInv'
  BY <1>12 DEF ResolveFile, CalmInv
<1>13. CASE Answer
  <2>1. UNCHANGED <<corpus, calm>> /\ query' = NoSearch
    BY <1>13 DEF Answer
  <2>2. query.pc = "context" /\ query.found = {} /\ query.kind \in {"rag", "citations"}
    BY <1>13, <2>1 DEF Answer, CalmInv
  <2>3. CitedDocs = TheSources
    BY <2>1, <2>2 DEF CalmInv
  <2>4. streamed' = TheSources
    BY <1>13, <2>1, <2>2, <2>3 DEF Answer, CalmInv
  <2> QED
    BY <2>1, <2>4, <1>b DEF CalmInv, NoSearch
<1> QED
  BY <1>1, <1>2, <1>3, <1>4, <1>5, <1>6, <1>7, <1>8, <1>9, <1>10, <1>11, <1>12, <1>13
  DEF RetrievalNext

(* The citations that are looked up after a streamed answer are its        *)
(* sources, if nothing was written, no read failed and no limit chose      *)
(* (rag_service.py retrieves twice).                                       *)
THEOREM CitationsMatch == RetrievalSpec => []CitationsMatchAnswer
<1>1. RetrievalInit => CalmInv
  BY CalmInitInv
<1>2. RetrievalTyped /\ GuardInv /\ CalmInv /\ [RetrievalNext]_retrievalVars => CalmInv'
  BY CalmNextInv
<1>3. CalmInv => CitationsMatchAnswer
  BY DEF CalmInv, CitationsMatchAnswer, In
<1> QED
  BY <1>1, <1>2, <1>3, RetrievalInductive, PTL DEF RetrievalSpec

-----------------------------------------------------------------------------
(* Database sessions.                                                      *)

Pcs == {"none", "open", "work", "flushed", "export", "answered", "closed"}
Session ==
  [pc : Pcs, kind : Kinds \cup {"none"}, email : Emails \cup {"master", "none"},
   doc : DocIds \cup {"none"}, read : SUBSET Row, version : -1..MaxRequests,
   answer : {"none", "ok", "error"}, kept : BOOLEAN]
Result == [by : Requesters, doc : DocIds \cup {"none"}, version : -1..MaxRequests]

SessionsTyped ==
  /\ accounts \subseteq Row /\ schema \in -1..MaxRequests /\ results \subseteq Result
  /\ exported \in [DocIds -> 0..MaxRequests]
  /\ sessions \in [Requesters -> Session] /\ lastRequest \in 0..MaxRequests

Extraction == {"run", "jsonl"}
Account == {"add", "seed"}
Locking == {"flushed", "export", "answered"}

(* A version of the schema is the first one, or that of a request whose    *)
(* transaction was committed.                                              *)
Existed(v) == v = 0 \/ (v \in Requesters /\ sessions[v].kept)

(* A request, by itself.                                                   *)
RequestInv(r) ==
  LET s == sessions[r] IN
  /\ r > lastRequest => s = NoSession
  /\ s.pc = "none" => s = NoSession
  /\ s.pc # "none" => s.kind \in Kinds /\ s.email \in Emails \cup {"master"} /\ s.doc \in DocIds
  /\ s.kept => s.pc = "closed" /\ s.answer = "ok"
  /\ s.pc = "answered" => s.answer = "ok"
  /\ s.pc = "export" => s.kind \in {"run", "correct"}
  /\ s.kind \in Extraction => Existed(s.version)
  /\ s.kept /\ s.kind \in Extraction => \E x \in results : x.by = r /\ x.doc = s.doc

(* A flushed account has the only row, or none yet, of its email.          *)
LockInv ==
  \A r \in Requesters : sessions[r].pc \in Locking /\ sessions[r].kind \in Account =>
    /\ \A a \in accounts : a.email # sessions[r].email
    /\ \A q \in Requesters \ {r} :
         sessions[q].pc \in Locking /\ sessions[q].kind \in Account =>
           sessions[q].email # sessions[r].email

(* What is committed stems from requests that were committed.              *)
RowsInv ==
  /\ \A a, b \in accounts : a.email = b.email => a = b
  /\ \A a \in accounts : sessions[a.by].kept
  /\ \A x \in results : x.doc \in DocIds /\ sessions[x.by].kept /\ Existed(x.version)
  /\ schema = -1 \/ Existed(schema)
  /\ \A d \in DocIds : exported[d] # 0 => sessions[exported[d]].kind \in {"run", "correct"}

SessionsInv == SessionsTyped /\ LockInv /\ RowsInv /\ \A r \in Requesters : RequestInv(r)

(* Nothing is stored before the first request.                             *)
LEMMA SessionsInitInv == SessionsInit => SessionsInv
<1> SUFFICES ASSUME SessionsInit PROVE SessionsInv
  OBVIOUS
<1>1. NoSession \in Session
  BY SessionsAssumption DEF NoSession, Session, Pcs
<1>2. SessionsTyped
  BY <1>1, SessionsAssumption DEF SessionsInit, SessionsTyped
<1>3. \A r \in Requesters : RequestInv(r)
  BY SessionsAssumption DEF SessionsInit, RequestInv, NoSession, Extraction, Kinds
<1> QED
  BY <1>2, <1>3 DEF SessionsInit, SessionsInv, LockInv, RowsInv, NoSession, Locking, Existed

(* A step that commits nothing and moves one request on, whose transaction *)
(* was not committed, keeps what is committed and the locks of the others. *)
LEMMA MoveInv ==
  ASSUME SessionsInv, NEW r \in Requesters, NEW s \in Session, Set(r, s),
         ~sessions[r].kept, ~s.kept, UNCHANGED <<committed, lastRequest>>,
         sessions[r].pc # "none", s.pc # "none",
         s.kind = sessions[r].kind, s.email = sessions[r].email, s.doc = sessions[r].doc,
         s.pc = "answered" => s.answer = "ok",
         s.pc = "export" => s.kind \in {"run", "correct"},
         s.kind \in Extraction => Existed(s.version),
         \/ exported' = exported
         \/ s.kind \in {"run", "correct"} /\ \E d \in DocIds : exported' = [exported EXCEPT ![d] = r],
         s.pc \in Locking /\ s.kind \in Account =>
           \/ sessions[r].pc \in Locking
           \/ /\ \A a \in accounts : a.email # s.email
              /\ \A q \in Requesters \ {r} :
                   sessions[q].pc \in Locking /\ sessions[q].kind \in Account =>
                     sessions[q].email # s.email
  PROVE  SessionsInv'
<1>a. /\ sessions \in [Requesters -> Session] /\ sessions' = [sessions EXCEPT ![r] = s]
      /\ accounts' = accounts /\ schema' = schema /\ results' = results
      /\ lastRequest' = lastRequest /\ lastRequest \in 0..MaxRequests
      /\ accounts \subseteq Row /\ results \subseteq Result
      /\ exported \in [DocIds -> 0..MaxRequests]
  BY DEF SessionsInv, SessionsTyped, Set, committed
<1>b. sessions'[r] = s /\ \A q \in Requesters \ {r} : sessions'[q] = sessions[q]
  BY <1>a
<1>c. \A q \in Requesters : sessions'[q].kept = sessions[q].kept
  <2>1. s.kept \in BOOLEAN /\ sessions[r].kept \in BOOLEAN
    BY <1>a DEF Session
  <2>2. s.kept = sessions[r].kept
    BY <2>1
  <2> QED
    BY <1>b, <2>2
<1>d. \A v : Existed(v) => Existed(v)'
  BY <1>c DEF Existed
<1>1. SessionsTyped'
  BY <1>a, SessionsAssumption DEF SessionsInv, SessionsTyped, Requesters
<1>2. LockInv'
  BY <1>a, <1>b DEF SessionsInv, LockInv
<1>3. RowsInv'
  <2>1. \A q \in Requesters : sessions'[q].kind = sessions[q].kind
    BY <1>b
  <2>2. \A d \in DocIds : exported'[d] # 0 => sessions'[exported'[d]].kind \in {"run", "correct"}
    BY <1>a, <2>1 DEF SessionsInv, RowsInv, Requesters
  <2>3. \A a \in accounts : a.by \in Requesters
    BY <1>a DEF Row
  <2>4. \A x \in results : x.by \in Requesters
    BY <1>a DEF Result
  <2> QED
    BY <1>a, <1>c, <1>d, <2>2, <2>3, <2>4 DEF SessionsInv, RowsInv
<1>4. ASSUME NEW q \in Requesters PROVE RequestInv(q)'
  <2>1. CASE q = r
    <3>1. RequestInv(r)
      BY DEF SessionsInv
    <3>2. r <= lastRequest
      BY <1>a, <3>1 DEF RequestInv, NoSession, Requesters
    <3> QED
      BY <1>a, <1>b, <1>d, <2>1, <3>1, <3>2 DEF RequestInv, Requesters
  <2>2. CASE q # r
    BY <1>a, <1>b, <1>d, <2>2 DEF SessionsInv, RequestInv
  <2> QED
    BY <2>1, <2>2
<1> QED
  BY <1>1, <1>2, <1>3, <1>4 DEF SessionsInv

(* A refused request writes nothing.                                       *)
LEMMA RefuseInv ==
  ASSUME SessionsInv, NEW r \in Requesters, sessions[r].pc \in {"open", "work", "flushed"},
         NEW a \in {"ok", "error"}, Set(r, [sessions[r] EXCEPT !.pc = "closed", !.answer = a]),
         UNCHANGED <<committed, exported, lastRequest>>
  PROVE  SessionsInv'
<1> DEFINE s == [sessions[r] EXCEPT !.pc = "closed", !.answer = a]
<1>1. sessions[r] \in Session /\ RequestInv(r)
  BY DEF SessionsInv, SessionsTyped
<1>2. /\ s \in Session /\ s.pc = "closed" /\ s.kept = sessions[r].kept
      /\ s.kind = sessions[r].kind /\ s.email = sessions[r].email /\ s.doc = sessions[r].doc
      /\ s.version = sessions[r].version
  BY <1>1 DEF Session, Pcs
<1>3. ~sessions[r].kept /\ (sessions[r].kind \in Extraction => Existed(sessions[r].version))
  BY <1>1 DEF RequestInv
<1>4. Set(r, s)
  OBVIOUS
<1> HIDE DEF s
<1> QED
  BY <1>2, <1>3, <1>4, MoveInv DEF Locking

(* A request is opened under a number nobody used.                         *)
LEMMA OpenInv ==
  ASSUME SessionsInv, NEW kind \in Kinds, NEW e \in Emails \cup {"master"}, NEW d \in DocIds,
         OpenSession(kind, e, d)
  PROVE  SessionsInv'
<1> DEFINE r == lastRequest + 1
           s == [NoSession EXCEPT !.pc = "open", !.kind = kind, !.email = e, !.doc = d]
<1>a. /\ sessions \in [Requesters -> Session] /\ lastRequest \in 0..MaxRequests
      /\ accounts \subseteq Row /\ results \subseteq Result /\ exported \in [DocIds -> 0..MaxRequests]
      /\ schema \in -1..MaxRequests
  BY DEF SessionsInv, SessionsTyped
<1>b. /\ r \in Requesters /\ lastRequest' = r /\ sessions' = [sessions EXCEPT ![r] = s]
      /\ accounts' = accounts /\ schema' = schema /\ results' = results /\ exported' = exported
  BY <1>a, SessionsAssumption DEF OpenSession, Set, committed, Requesters
<1>c. /\ s \in Session /\ s.pc = "open" /\ s.kind = kind /\ s.email = e /\ s.doc = d
      /\ s.version = 0 /\ s.kept = FALSE
  <2>1. NoSession \in Session /\ NoSession.version = 0 /\ NoSession.kept = FALSE
    BY SessionsAssumption DEF NoSession, Session, Pcs
  <2> QED
    BY <2>1 DEF Session, Pcs
<1>d. r > lastRequest /\ sessions[r] = NoSession
  BY <1>a, <1>b DEF SessionsInv, RequestInv
<1>e. sessions[r].kept = FALSE /\ sessions[r].kind = "none"
  BY <1>d DEF NoSession
<1> HIDE DEF s
<1>f. sessions'[r] = s /\ \A q \in Requesters \ {r} : sessions'[q] = sessions[q]
  BY <1>a, <1>b
<1>g. \A q \in Requesters : sessions'[q].kept = sessions[q].kept
  BY <1>c, <1>e, <1>f
<1>h. \A v : Existed(v) => Existed(v)'
  BY <1>g DEF Existed
<1>1. SessionsTyped'
  BY <1>a, <1>b, <1>c DEF SessionsTyped, Requesters
<1>2. LockInv'
  BY <1>b, <1>c, <1>f DEF SessionsInv, LockInv, Locking
<1>3. RowsInv'
  <2>1. \A x \in accounts : x.by \in Requesters
    BY <1>a DEF Row
  <2>2. \A x \in results : x.by \in Requesters
    BY <1>a DEF Result
  <2>3. \A x \in DocIds : exported[x] # 0 => exported[x] \in Requesters /\ exported[x] # r
    BY <1>a, <1>e DEF SessionsInv, RowsInv, Requesters
  <2> QED
    BY <1>a, <1>b, <1>f, <1>g, <1>h, <2>1, <2>2, <2>3 DEF SessionsInv, RowsInv
<1>4. ASSUME NEW q \in Requesters PROVE RequestInv(q)'
  <2>1. CASE q = r
    <3>1. Existed(s.version)'
      BY <1>c DEF Existed
    <3>2. sessions'[q] = s /\ ~(q > lastRequest')
      BY <1>a, <1>b, <1>f, <2>1
    <3>3. s.pc = "open" /\ s.kept = FALSE /\ kind \in Kinds /\ e \in Emails \cup {"master"}
          /\ d \in DocIds /\ s.kind = kind /\ s.email = e /\ s.doc = d
      BY <1>c
    <3> QED
      BY <3>1, <3>2, <3>3 DEF RequestInv
  <2>2. CASE q # r
    <3>1. q > lastRequest' => q > lastRequest
      BY <1>a, <1>b, <2>2 DEF Requesters
    <3> QED
      BY <1>b, <1>f, <1>h, <2>2, <3>1 DEF SessionsInv, RequestInv
  <2> QED
    BY <2>1, <2>2
<1> QED
  BY <1>1, <1>2, <1>3, <1>4 DEF SessionsInv

(* Reading before writing keeps the versions that existed.                 *)
LEMMA ReadInv ==
  ASSUME SessionsInv, NEW r \in Requesters, ReadRows(r) PROVE SessionsInv'
<1>a. sessions[r] \in Session /\ RequestInv(r) /\ sessions[r].pc = "open" /\ lastRequest' = lastRequest
      /\ accounts \subseteq Row /\ schema \in -1..MaxRequests
  BY DEF SessionsInv, SessionsTyped, ReadRows, Is
<1> DEFINE pc == IF sessions[r].kind = "correct" THEN "export" ELSE "work"
           read == IF sessions[r].kind = "remove" THEN RowsOf(sessions[r].email) ELSE {}
           s == [sessions[r] EXCEPT !.pc = pc, !.version = schema, !.read = read]
<1>1. \/ \E a \in {"ok", "error"} : Refuse(r, a)
      \/ /\ Set(r, s) /\ UNCHANGED <<committed, exported>>
         /\ ~(sessions[r].kind \in Extraction /\ schema = -1)
  BY DEF ReadRows, Extraction, OfKind
<1>2. ASSUME NEW a \in {"ok", "error"}, Refuse(r, a) PROVE SessionsInv'
  BY <1>a, <1>2, RefuseInv DEF Refuse
<1>3. ASSUME Set(r, s), UNCHANGED <<committed, exported>>,
             ~(sessions[r].kind \in Extraction /\ schema = -1)
      PROVE  SessionsInv'
  <2>1. pc \in {"work", "export"} /\ read \subseteq Row
    BY <1>a DEF RowsOf
  <2>2. /\ s \in Session /\ s.pc = pc /\ s.kept = sessions[r].kept
        /\ s.kind = sessions[r].kind /\ s.email = sessions[r].email /\ s.doc = sessions[r].doc
        /\ s.version = schema
    <3> HIDE DEF pc, read
    <3> QED
      BY <1>a, <2>1 DEF Session, Pcs
  <2>3. sessions[r].kind \in Extraction => Existed(schema)
    BY <1>3 DEF SessionsInv, RowsInv
  <2>4. ~sessions[r].kept
    BY <1>a DEF RequestInv
  <2>5. s.pc = "export" <=> s.kind = "correct"
    BY <2>2
  <2>6. s.pc # "answered" /\ s.pc # "none" /\ (s.pc \in Locking => s.pc = "export")
    BY <2>1, <2>2 DEF Locking
  <2> HIDE DEF s, pc, read
  <2> QED
    BY <1>3, <1>a, <2>2, <2>3, <2>4, <2>5, <2>6, MoveInv DEF Account
<1> HIDE DEF s
<1> QED
  BY <1>1, <1>2, <1>3

(* A flush takes the lock of its email, or is refused.                     *)
LEMMA FlushInv ==
  ASSUME SessionsInv, NEW r \in Requesters, Flush(r) PROVE SessionsInv'
<1>a. sessions[r] \in Session /\ RequestInv(r) /\ sessions[r].pc = "work" /\ lastRequest' = lastRequest
  BY DEF SessionsInv, SessionsTyped, Flush, Is
<1> DEFINE pc == IF sessions[r].kind = "run" THEN "export" ELSE "flushed"
           s == [sessions[r] EXCEPT !.pc = pc]
<1>1. \/ \E a \in {"ok", "error"} : Refuse(r, a)
      \/ /\ Set(r, s) /\ UNCHANGED <<committed, exported>> /\ Unlocked(r)
         /\ sessions[r].kind \in Account => RowsOf(sessions[r].email) = {}
  BY DEF Flush, Account, OfKind
<1>2. ASSUME NEW a \in {"ok", "error"}, Refuse(r, a) PROVE SessionsInv'
  BY <1>a, <1>2, RefuseInv DEF Refuse
<1>3. ASSUME Set(r, s), UNCHANGED <<committed, exported>>, Unlocked(r),
             sessions[r].kind \in Account => RowsOf(sessions[r].email) = {}
      PROVE  SessionsInv'
  <2>1. pc \in {"flushed", "export"} /\ (pc = "export" <=> sessions[r].kind = "run")
    OBVIOUS
  <2>2. /\ s \in Session /\ s.pc = pc /\ s.kept = sessions[r].kept
        /\ s.kind = sessions[r].kind /\ s.email = sessions[r].email /\ s.doc = sessions[r].doc
        /\ s.version = sessions[r].version
    <3> HIDE DEF pc
    <3> QED
      BY <1>a, <2>1 DEF Session, Pcs
  <2>3. ~sessions[r].kept /\ (sessions[r].kind \in Extraction => Existed(sessions[r].version))
    BY <1>a DEF RequestInv
  <2>4. ASSUME sessions[r].kind \in Account
        PROVE  /\ \A a \in accounts : a.email # sessions[r].email
               /\ \A q \in Requesters \ {r} :
                    sessions[q].pc \in Locking /\ sessions[q].kind \in Account =>
                      sessions[q].email # sessions[r].email
    BY <1>3, <2>4 DEF RowsOf, Unlocked, Locking, Account, OfKind
  <2> HIDE DEF s, pc
  <2> QED
    BY <1>3, <1>a, <2>1, <2>2, <2>3, <2>4, MoveInv
<1> HIDE DEF s
<1> QED
  BY <1>1, <1>2, <1>3

(* The exported file stems from an extraction or a correction.             *)
LEMMA ExportInv ==
  ASSUME SessionsInv, NEW r \in Requesters, WriteExport(r) PROVE SessionsInv'
<1>a. /\ sessions[r] \in Session /\ RequestInv(r) /\ sessions[r].pc = "export"
      /\ UNCHANGED <<committed, lastRequest>>
  BY DEF SessionsInv, SessionsTyped, WriteExport, Is
<1>b. /\ ~sessions[r].kept /\ sessions[r].kind \in {"run", "correct"} /\ sessions[r].doc \in DocIds
      /\ sessions[r].kind \in Extraction => Existed(sessions[r].version)
  BY <1>a DEF RequestInv
<1>1. PICK s : /\ s \in {[sessions[r] EXCEPT !.pc = "closed", !.answer = "ok"],
                         [sessions[r] EXCEPT !.pc = "flushed"]}
               /\ Set(r, s)
  BY DEF WriteExport
<1>2. /\ s \in Session /\ s.pc \in {"closed", "flushed"} /\ s.kept = sessions[r].kept
      /\ s.kind = sessions[r].kind /\ s.email = sessions[r].email /\ s.doc = sessions[r].doc
      /\ s.version = sessions[r].version
  BY <1>a, <1>1 DEF Session, Pcs
<1>3. exported' = exported \/ \E d \in DocIds : exported' = [exported EXCEPT ![d] = r]
  BY <1>b DEF WriteExport
<1>4. sessions[r].kind \notin Account
  BY <1>b DEF Account
<1> QED
  BY <1>a, <1>b, <1>1, <1>2, <1>3, <1>4, MoveInv

(* The answer goes out before the commit.                                  *)
LEMMA AnswerInv ==
  ASSUME SessionsInv, NEW r \in Requesters, SendAnswer(r) PROVE SessionsInv'
<1> DEFINE s == [sessions[r] EXCEPT !.pc = "answered", !.answer = "ok"]
<1>a. /\ sessions[r] \in Session /\ RequestInv(r) /\ sessions[r].pc = "flushed"
      /\ UNCHANGED <<committed, exported, lastRequest>> /\ Set(r, s)
  BY DEF SessionsInv, SessionsTyped, SendAnswer, Is
<1>b. /\ ~sessions[r].kept
      /\ sessions[r].kind \in Extraction => Existed(sessions[r].version)
  BY <1>a DEF RequestInv
<1>2. /\ s \in Session /\ s.pc = "answered" /\ s.answer = "ok" /\ s.kept = sessions[r].kept
      /\ s.kind = sessions[r].kind /\ s.email = sessions[r].email /\ s.doc = sessions[r].doc
      /\ s.version = sessions[r].version
  BY <1>a DEF Session, Pcs
<1>3. sessions[r].pc \in Locking
  BY <1>a DEF Locking
<1> HIDE DEF s
<1> QED
  BY <1>a, <1>b, <1>2, <1>3, MoveInv

(* The commit adds the rows of its request, under its locks.               *)
LEMMA CommitInv ==
  ASSUME SessionsInv, NEW r \in Requesters, Apply(r), sessions[r].pc = "answered",
         Set(r, [sessions[r] EXCEPT !.pc = "closed", !.kept = TRUE]),
         UNCHANGED <<exported, lastRequest>>
  PROVE  SessionsInv'
<1> DEFINE s == [sessions[r] EXCEPT !.pc = "closed", !.kept = TRUE]
<1>a. /\ sessions \in [Requesters -> Session] /\ lastRequest \in 0..MaxRequests
      /\ accounts \subseteq Row /\ results \subseteq Result /\ exported \in [DocIds -> 0..MaxRequests]
      /\ schema \in -1..MaxRequests /\ sessions[r] \in Session /\ RequestInv(r)
  BY DEF SessionsInv, SessionsTyped
<1>b. /\ sessions' = [sessions EXCEPT ![r] = s] /\ exported' = exported /\ lastRequest' = lastRequest
  BY DEF Set
<1>c. /\ s \in Session /\ s.pc = "closed" /\ s.kept = TRUE /\ s.answer = sessions[r].answer
      /\ s.kind = sessions[r].kind /\ s.email = sessions[r].email /\ s.doc = sessions[r].doc
      /\ s.version = sessions[r].version
  BY <1>a DEF Session, Pcs
<1>d. /\ sessions[r].answer = "ok" /\ r <= lastRequest /\ sessions[r].doc \in DocIds
      /\ sessions[r].email \in Emails \cup {"master"}
      /\ sessions[r].kind \in Extraction => Existed(sessions[r].version)
  BY <1>a DEF RequestInv, NoSession, Requesters
<1> HIDE DEF s
<1>e. sessions'[r] = s /\ \A q \in Requesters \ {r} : sessions'[q] = sessions[q]
  BY <1>a, <1>b
<1>f. sessions'[r].kept /\ \A q \in Requesters : sessions[q].kept => sessions'[q].kept
  BY <1>c, <1>e
<1>g. \A v : Existed(v) => Existed(v)'
  BY <1>f DEF Existed
<1>h. \A q \in Requesters : sessions'[q].kind = sessions[q].kind /\ sessions'[q].doc = sessions[q].doc
  BY <1>c, <1>e
<1>1. /\ accounts' = IF sessions[r].kind \in Account
                     THEN accounts \cup {[email |-> sessions[r].email, by |-> r]}
                     ELSE accounts \ sessions[r].read
      /\ schema' \in {schema, r, -1}
      /\ results' = IF sessions[r].kind \in Extraction
                    THEN results \cup {[by |-> r, doc |-> sessions[r].doc,
                                        version |-> sessions[r].version]}
                    ELSE results
  BY DEF Apply, OfKind, Account, Extraction
<1>2. ASSUME NEW a \in accounts', a \notin accounts
      PROVE  /\ sessions[r].kind \in Account /\ a.email = sessions[r].email /\ a.by = r
             /\ a \in Row
             /\ a = [email |-> sessions[r].email, by |-> r]
  BY <1>1, <1>2, <1>d DEF Row
<1>3. ASSUME NEW x \in results', x \notin results
      PROVE  /\ sessions[r].kind \in Extraction /\ x.by = r /\ x.doc = sessions[r].doc
             /\ x.version = sessions[r].version /\ x \in Result
  BY <1>1, <1>3, <1>a, <1>d DEF Result, Session
<1>4. SessionsTyped'
  <2>1. schema' \in -1..MaxRequests
    BY <1>1, <1>a, SessionsAssumption DEF Requesters
  <2>2. accounts' \subseteq Row /\ results' \subseteq Result
    BY <1>2, <1>3, <1>a
  <2> QED
    BY <2>1, <2>2, <1>a, <1>b, <1>c DEF SessionsTyped
<1>5. LockInv'
  <2>1. ASSUME NEW q \in Requesters, sessions'[q].pc \in Locking, sessions'[q].kind \in Account
        PROVE  q # r /\ sessions[q].pc \in Locking /\ sessions[q].kind \in Account
               /\ sessions'[q].email = sessions[q].email
    BY <1>c, <1>e, <2>1 DEF Locking
  <2>2. ASSUME NEW q \in Requesters, sessions'[q].pc \in Locking, sessions'[q].kind \in Account,
               NEW a \in accounts'
        PROVE  a.email # sessions'[q].email
    <3>1. CASE a \in accounts
      BY <2>1, <2>2, <3>1 DEF SessionsInv, LockInv
    <3>2. CASE a \notin accounts
      <4>1. sessions[r].pc \in Locking
        BY DEF Locking
      <4> QED
        BY <1>2, <2>1, <2>2, <3>2, <4>1 DEF SessionsInv, LockInv
    <3> QED
      BY <3>1, <3>2
  <2>3. ASSUME NEW q \in Requesters, sessions'[q].pc \in Locking, sessions'[q].kind \in Account,
               NEW p \in Requesters \ {q}, sessions'[p].pc \in Locking, sessions'[p].kind \in Account
        PROVE  sessions'[p].email # sessions'[q].email
    BY <2>1, <2>3 DEF SessionsInv, LockInv
  <2> QED
    BY <2>2, <2>3 DEF LockInv
<1>6. RowsInv'
  <2>1. ASSUME NEW a \in accounts', NEW b \in accounts', a.email = b.email PROVE a = b
    <3>1. CASE a \in accounts /\ b \in accounts
      BY <2>1, <3>1 DEF SessionsInv, RowsInv
    <3>2. sessions[r].kind \in Account => \A c \in accounts : c.email # sessions[r].email
      BY DEF SessionsInv, LockInv, Locking
    <3> QED
      BY <1>2, <2>1, <3>1, <3>2
  <2>2. ASSUME NEW a \in accounts' PROVE sessions'[a.by].kept
    <3>1. CASE a \in accounts
      <4>1. a.by \in Requesters /\ sessions[a.by].kept
        BY <1>a, <3>1 DEF SessionsInv, RowsInv, Row
      <4> QED
        BY <1>f, <4>1
    <3>2. CASE a \notin accounts
      BY <1>2, <1>f, <3>2
    <3> QED
      BY <3>1, <3>2
  <2>3. ASSUME NEW x \in results'
        PROVE  x.doc \in DocIds /\ sessions'[x.by].kept /\ Existed(x.version)'
    <3>1. CASE x \in results
      <4>1. x.by \in Requesters /\ sessions[x.by].kept /\ Existed(x.version) /\ x.doc \in DocIds
        BY <1>a, <3>1 DEF SessionsInv, RowsInv, Result
      <4> QED
        BY <1>f, <1>g, <4>1
    <3>2. CASE x \notin results
      <4>1. x.by = r /\ x.doc \in DocIds /\ Existed(x.version)
        BY <1>3, <1>d, <3>2
      <4> QED
        BY <1>f, <1>g, <4>1
    <3> QED
      BY <3>1, <3>2
  <2>4. schema' = -1 \/ Existed(schema)'
    <3>1. CASE schema' = schema
      BY <1>g, <3>1 DEF SessionsInv, RowsInv, Existed
    <3>2. CASE schema' = r
      BY <1>f, <3>2 DEF Existed
    <3> QED
      BY <1>1, <3>1, <3>2
  <2>5. \A d \in DocIds : exported'[d] # 0 => sessions'[exported'[d]].kind \in {"run", "correct"}
    BY <1>a, <1>b, <1>h DEF SessionsInv, RowsInv, Requesters
  <2> QED
    BY <2>1, <2>2, <2>3, <2>4, <2>5 DEF RowsInv, Existed
<1>7. ASSUME NEW q \in Requesters PROVE RequestInv(q)'
  <2>a. results \subseteq results'
    BY <1>1
  <2>1. CASE q = r
    <3>1. sessions[r].kind \in Extraction => \E x \in results' : x.by = r /\ x.doc = sessions[r].doc
      <4> DEFINE x == [by |-> r, doc |-> sessions[r].doc, version |-> sessions[r].version]
      <4>1. x.by = r /\ x.doc = sessions[r].doc
        OBVIOUS
      <4>2. sessions[r].kind \in Extraction => x \in results'
        BY <1>1
      <4> HIDE DEF x
      <4> QED
        BY <4>1, <4>2
    <3>2. PICK v : v = sessions[r].version
      OBVIOUS
    <3>3. sessions[r].kind \in Extraction => v = 0 \/ (v \in Requesters /\ sessions'[v].kept)
      BY <1>d, <1>f, <3>2 DEF Existed
    <3>4. sessions'[r].version = v
      BY <1>c, <1>e, <3>2
    <3>5. /\ ~(r > lastRequest') /\ sessions'[r].pc = "closed" /\ sessions'[r].answer = "ok"
          /\ sessions'[r].kind \in Kinds /\ sessions'[r].email \in Emails \cup {"master"}
          /\ sessions'[r].doc = sessions[r].doc /\ sessions[r].doc \in DocIds
      BY <1>a, <1>b, <1>c, <1>d, <1>e, SessionsAssumption DEF RequestInv, Requesters
    <3> QED
      <4>1. sessions'[r].kind \in Extraction =>
              v = 0 \/ (v \in Requesters /\ sessions'[v].kept)
        BY <1>h, <3>3
      <4>2. sessions'[r].kind \in Extraction =>
              \E x \in results' : x.by = r /\ x.doc = sessions'[r].doc
        BY <1>h, <3>1
      <4> QED
        BY <1>d, <2>1, <3>4, <3>5, <4>1, <4>2 DEF RequestInv, Existed
  <2>2. CASE q # r
    BY <1>b, <1>e, <1>g, <2>a, <2>2 DEF SessionsInv, RequestInv
  <2> QED
    BY <2>1, <2>2
<1> QED
  BY <1>4, <1>5, <1>6, <1>7 DEF SessionsInv

(* When the server stops, what is not committed is gone.                   *)
LEMMA CrashInv == ASSUME SessionsInv, ServerCrash PROVE SessionsInv'
<1>a. /\ sessions \in [Requesters -> Session] /\ lastRequest \in 0..MaxRequests
      /\ accounts \subseteq Row /\ results \subseteq Result /\ exported \in [DocIds -> 0..MaxRequests]
  BY DEF SessionsInv, SessionsTyped
<1>b. /\ sessions' = [r \in Requesters |->
           IF sessions[r].pc = "none" THEN NoSession ELSE [sessions[r] EXCEPT !.pc = "closed"]]
      /\ accounts' = accounts /\ schema' = schema /\ results' = results
      /\ exported' = exported /\ lastRequest' = lastRequest
  BY DEF ServerCrash, committed
<1>c. ASSUME NEW r \in Requesters, sessions[r].pc # "none"
      PROVE  /\ sessions'[r] \in Session /\ sessions'[r].pc = "closed"
             /\ sessions'[r].kept = sessions[r].kept /\ sessions'[r].kind = sessions[r].kind
             /\ sessions'[r].email = sessions[r].email /\ sessions'[r].doc = sessions[r].doc
             /\ sessions'[r].version = sessions[r].version /\ sessions'[r].answer = sessions[r].answer
  <2>1. sessions'[r] = [sessions[r] EXCEPT !.pc = "closed"] /\ sessions[r] \in Session
    BY <1>a, <1>b, <1>c
  <2> QED
    BY <2>1 DEF Session, Pcs
<1>d. ASSUME NEW r \in Requesters, sessions[r].pc = "none"
      PROVE  sessions'[r] = NoSession /\ sessions[r].kept = FALSE
  <2>1. sessions'[r] = NoSession
    BY <1>b, <1>d
  <2>2. sessions[r].kept \in BOOLEAN /\ ~sessions[r].kept
    BY <1>a, <1>d DEF SessionsInv, RequestInv, Session
  <2> QED
    BY <2>1, <2>2
<1>e. /\ NoSession \in Session /\ NoSession.kept = FALSE /\ NoSession.pc = "none"
      /\ NoSession.kind = "none"
  BY SessionsAssumption DEF NoSession, Session, Pcs
<1>f. \A r \in Requesters : sessions'[r].kept = sessions[r].kept
  BY <1>c, <1>d, <1>e
<1>g. \A v : Existed(v) => Existed(v)'
  BY <1>f DEF Existed
<1>1. SessionsTyped'
  <2>1. \A r \in Requesters : sessions'[r] \in Session
    BY <1>c, <1>d, <1>e
  <2>2. sessions' = [r \in Requesters |-> sessions'[r]]
    BY <1>b
  <2>3. sessions' \in [Requesters -> Session]
    BY <2>1, <2>2
  <2> QED
    BY <1>b, <2>3 DEF SessionsInv, SessionsTyped
<1>2. LockInv'
  <2>1. \A r \in Requesters : sessions'[r].pc \notin Locking
    BY <1>c, <1>d, <1>e DEF Locking
  <2> QED
    BY <2>1 DEF LockInv
<1>3. RowsInv'
  <2>1. \A x \in accounts : x.by \in Requesters
    BY <1>a DEF Row
  <2>2. \A x \in results : x.by \in Requesters
    BY <1>a DEF Result
  <2>3. ASSUME NEW d \in DocIds, exported'[d] # 0
        PROVE  sessions'[exported'[d]].kind \in {"run", "correct"}
    <3>1. exported[d] \in Requesters /\ sessions[exported[d]].kind \in {"run", "correct"}
      BY <1>a, <1>b, <2>3 DEF SessionsInv, RowsInv, Requesters
    <3>2. sessions[exported[d]].pc # "none"
      BY <1>b, <1>d, <1>e, <3>1 DEF SessionsInv, RequestInv
    <3> QED
      BY <1>b, <1>c, <3>1, <3>2
  <2> QED
    BY <1>b, <1>f, <1>g, <2>1, <2>2, <2>3 DEF SessionsInv, RowsInv
<1>4. ASSUME NEW q \in Requesters PROVE RequestInv(q)'
  <2>1. CASE sessions[q].pc = "none"
    BY <1>d, <1>e, <2>1 DEF RequestInv, Extraction
  <2>2. CASE sessions[q].pc # "none"
    <3>1. RequestInv(q)
      BY DEF SessionsInv
    <3>2. q <= lastRequest
      BY <1>a, <1>e, <2>2, <3>1 DEF RequestInv, Requesters
    <3> QED
      BY <1>a, <1>b, <1>c, <1>g, <2>2, <3>1, <3>2 DEF RequestInv, Requesters
  <2> QED
    BY <2>1, <2>2
<1> QED
  BY <1>1, <1>2, <1>3, <1>4 DEF SessionsInv

(* Every step keeps answers and rows in agreement.                         *)
LEMMA SessionsNextInv == SessionsInv /\ [SessionsNext]_sessionVars => SessionsInv'
<1> SUFFICES ASSUME SessionsInv, [SessionsNext]_sessionVars PROVE SessionsInv'
  OBVIOUS
<1>1. CASE UNCHANGED sessionVars
  BY <1>1 DEF sessionVars, SessionsInv, SessionsTyped, LockInv, RowsInv, RequestInv, Existed
<1>2. ASSUME NEW r \in Requesters, RaiseAfterFlush(r) PROVE SessionsInv'
  BY <1>2, RefuseInv DEF RaiseAfterFlush, RollBack, Is
<1>3. ASSUME NEW r \in Requesters, CommitSession(r) PROVE SessionsInv'
  <2>1. CASE Apply(r) /\ Set(r, [sessions[r] EXCEPT !.pc = "closed", !.kept = TRUE])
    BY <1>3, <2>1, CommitInv DEF CommitSession, Is
  <2>2. CASE UNCHANGED committed /\ Set(r, [sessions[r] EXCEPT !.pc = "closed"])
    <3> DEFINE s == [sessions[r] EXCEPT !.pc = "closed"]
    <3>a. sessions[r] \in Session /\ RequestInv(r) /\ sessions[r].pc = "answered"
          /\ UNCHANGED <<committed, exported, lastRequest>> /\ Set(r, s)
      BY <1>3, <2>2 DEF SessionsInv, SessionsTyped, CommitSession, Is
    <3>b. /\ ~sessions[r].kept
          /\ sessions[r].kind \in Extraction => Existed(sessions[r].version)
      BY <3>a DEF RequestInv
    <3>1. /\ s \in Session /\ s.pc = "closed" /\ s.kept = sessions[r].kept
          /\ s.kind = sessions[r].kind /\ s.email = sessions[r].email /\ s.doc = sessions[r].doc
          /\ s.version = sessions[r].version
      BY <3>a DEF Session, Pcs
    <3> HIDE DEF s
    <3> QED
      BY <3>a, <3>b, <3>1, MoveInv DEF Locking
  <2> QED
    BY <1>3, <2>1, <2>2 DEF CommitSession
<1> QED
  BY <1>1, <1>2, <1>3, OpenInv, ReadInv, FlushInv, ExportInv, AnswerInv, CrashInv DEF SessionsNext

-----------------------------------------------------------------------------
(* Locks, rows and the answers of the requests agree in every state.       *)
THEOREM SessionsInductive == SessionsSpec => []SessionsInv
<1>1. SessionsInit => SessionsInv
  BY SessionsInitInv
<1>2. SessionsInv /\ [SessionsNext]_sessionVars => SessionsInv'
  BY SessionsNextInv
<1> QED
  BY <1>1, <1>2, PTL DEF SessionsSpec

(* One row stands for an email, nothing that is committed stems from a     *)
(* request that was answered with an error, results that were committed    *)
(* are there with a schema that existed, and an exported file is one of    *)
(* the results unless it was corrected by hand (or the commit failed).     *)
THEOREM RowsAgreeWithAnswers == SessionsSpec => []AnswersHold
<1>1. SessionsInv => AnswersHold
  <2> SUFFICES ASSUME SessionsInv PROVE AnswersHold
    OBVIOUS
  <2>a. \A r \in Requesters : sessions[r].kept => sessions[r].answer = "ok"
    BY DEF SessionsInv, RequestInv
  <2>b. accounts \subseteq Row /\ results \subseteq Result /\ exported \in [DocIds -> 0..MaxRequests]
    BY DEF SessionsInv, SessionsTyped
  <2>1. ASSUME NEW r \in Writers PROVE sessions[r].answer = "ok" /\ sessions[r].kept
    <3>1. r \in Requesters /\ sessions[r].kept
      BY <2>b DEF Writers, SessionsInv, RowsInv, Existed, Row, Result
    <3> QED
      BY <2>a, <3>1
  <2>2. ASSUME NEW r \in Requesters, sessions[r].kept, OfKind(r, {"run", "jsonl"})
        PROVE  \E x \in results : x.by = r /\ x.doc = sessions[r].doc
    BY <2>2 DEF SessionsInv, RequestInv, OfKind, Extraction
  <2>3. \A x \in results : x.version = 0 \/ sessions[x.version].kept
    BY DEF SessionsInv, RowsInv, Existed
  <2>4. ASSUME NEW d \in DocIds, exported[d] # 0
        PROVE  LET w == sessions[exported[d]] IN
               w.kind = "correct" \/ ~w.kept \/ \E x \in results : x.by = exported[d]
    <3>1. exported[d] \in Requesters /\ sessions[exported[d]].kind \in {"run", "correct"}
      BY <2>b, <2>4 DEF SessionsInv, RowsInv, Requesters
    <3> QED
      BY <3>1 DEF SessionsInv, RequestInv, Extraction
  <2> QED
    BY <2>1, <2>2, <2>3, <2>4 DEF AnswersHold, SessionsInv, RowsInv
<1> QED
  BY <1>1, SessionsInductive, PTL

-----------------------------------------------------------------------------
(* The two builds of the stores.                                           *)

(* As long as no document changed its author while it was there, the edges *)
(* and the sets of a user's documents both say who is the author.          *)
AuthorsAgree ==
  moved = {} =>
    /\ \A u \in Authors, d \in StoredDocs : <<u, d>> \in authored <=> docAuthor[d] = u
    /\ \A u \in Authors, d \in StoredDocs : d \in userDocs[u] <=> docAuthor[d] = u

BackendsInv == BackendsTypeOK /\ AuthorsAgree

(* What metadata an ingest brings.                                         *)
LEMMA MetaFacts ==
  ASSUME NEW m \in StoredMetas
  PROVE  /\ m.author \in Authors \cup {Nobody} /\ m.dept \in {"dev", Nobody}
         /\ m.access \in 1..2 /\ m.at \in -1..5 /\ m # NoMeta
         /\ m.type \in {"PDF", "pdf", Nobody} /\ m.source \in {"local", "slack"}
<1>1. m \in [author : Authors \cup {Nobody}, dept : {"dev", Nobody},
             source : {"local", "slack"}, access : 1..2,
             type : {"PDF", "pdf", Nobody}, at : -1..Now]
  BY StoreBackendsAssumption
<1>2. NoMeta.access = 0
  BY DEF NoMeta
<1> QED
  BY <1>1, <1>2 DEF Now

(* The stores are empty at the start.                                      *)
LEMMA BackendsInitInv == BackendsInit => BackendsInv
<1> SUFFICES ASSUME BackendsInit PROVE BackendsInv
  OBVIOUS
<1>1. BackendsTypeOK
  BY StoreBackendsAssumption DEF BackendsInit, BackendsTypeOK
<1>2. AuthorsAgree
  BY DEF BackendsInit, AuthorsAgree, Authors, Nobody
<1> QED
  BY <1>1, <1>2 DEF BackendsInv

(* The first half of an ingest, which names the author.                    *)
LEMMA AddsDocumentInv ==
  ASSUME BackendsInv, NEW d \in StoredDocs, NEW m \in StoredMetas, AddsDocument(d, m)
  PROVE  BackendsInv'
<1>1. /\ m.author \in Authors \cup {Nobody} /\ m.dept \in {"dev", Nobody}
      /\ Nobody \notin Authors
  BY MetaFacts DEF Authors, Nobody
<1>2. BackendsTypeOK
  BY DEF BackendsInv
<1>3. BackendsTypeOK'
  <2>1. storeCalls' \in 0..MaxStoreCalls
    BY <1>2, StoreBackendsAssumption DEF BackendsTypeOK, AddsDocument, Counted
  <2>2. opened' \in [StoredDocs -> StoredMetas \cup {NoMeta}]
    BY <1>2 DEF BackendsTypeOK, AddsDocument
  <2>3. docAuthor' \in [StoredDocs -> Authors \cup {Nobody}]
    BY <1>1, <1>2 DEF BackendsTypeOK, AddsDocument
  <2>4. authored' \subseteq Authors \X StoredDocs
    BY <1>1, <1>2 DEF BackendsTypeOK, AddsDocument, Edge
  <2>5. dept' \in [Authors -> {"dev", Nobody}] /\ userDocs' \in [Authors -> SUBSET StoredDocs]
    BY <1>1, <1>2 DEF BackendsTypeOK, AddsDocument
  <2>6. moved' \subseteq StoredDocs /\ stored' = stored
    BY <1>2 DEF BackendsTypeOK, AddsDocument
  <2> QED
    BY <1>2, <2>1, <2>2, <2>3, <2>4, <2>5, <2>6 DEF BackendsTypeOK
<1>4. AuthorsAgree'
  <2>1. SUFFICES ASSUME moved' = {}, NEW u \in Authors, NEW e \in StoredDocs
        PROVE  /\ <<u, e>> \in authored' <=> docAuthor'[e] = u
               /\ e \in userDocs'[u] <=> docAuthor'[e] = u
    BY DEF AuthorsAgree
  <2>2. moved = {} /\ \A v \in Authors \ {m.author} : <<v, d>> \notin authored
    BY <2>1 DEF AddsDocument
  <2>3. /\ <<u, e>> \in authored <=> docAuthor[e] = u
        /\ e \in userDocs[u] <=> docAuthor[e] = u
    BY <2>2 DEF BackendsInv, AuthorsAgree
  <2>4. docAuthor' = [docAuthor EXCEPT ![d] = m.author] /\ authored' = authored \cup Edge(m, d)
    BY DEF AddsDocument
  <2>5. docAuthor'[e] = IF e = d THEN m.author ELSE docAuthor[e]
    BY <1>2, <2>4 DEF BackendsTypeOK
  <2>6. <<u, e>> \in authored' <=> <<u, e>> \in authored \/ (u = m.author /\ e = d)
    BY <1>1, <2>4 DEF Edge
  <2>7. e \in userDocs'[u] <=> e \in userDocs[u] \/ (u = m.author /\ e = d)
    <3>1. CASE m.author = Nobody
      BY <1>1, <3>1 DEF AddsDocument
    <3>2. CASE m.author # Nobody
      <4>1. userDocs' = [userDocs EXCEPT ![m.author] = @ \cup {d}]
        BY <3>2 DEF AddsDocument
      <4> QED
        BY <4>1, <1>1, <1>2, <3>2 DEF BackendsTypeOK
    <3> QED
      BY <3>1, <3>2
  <2>8. e = d /\ u # m.author => docAuthor[e] # u
    BY <2>2, <2>3
  <2> QED
    BY <2>3, <2>5, <2>6, <2>7, <2>8
<1> QED
  BY <1>3, <1>4 DEF BackendsInv

(* The second half, or a failure in place of it.                           *)
LEMMA AddsChunksInv ==
  ASSUME BackendsInv, NEW d \in StoredDocs, AddsChunks(d) \/ IngestStops(d)
  PROVE  BackendsInv'
<1>1. BackendsTypeOK'
  BY DEF BackendsInv, BackendsTypeOK, AddsChunks, IngestStops
<1>2. AuthorsAgree'
  BY DEF BackendsInv, AuthorsAgree, AddsChunks, IngestStops
<1> QED
  BY <1>1, <1>2 DEF BackendsInv

(* A delete takes the document from its author in both.                    *)
LEMMA DeletesDocumentInv ==
  ASSUME BackendsInv, NEW d \in StoredDocs, DeletesDocument(d)
  PROVE  BackendsInv'
<1>1. BackendsTypeOK /\ Nobody \notin Authors
  BY DEF BackendsInv, Authors, Nobody
<1>2. userDocs' = [u \in Authors |-> IF u = docAuthor[d] THEN userDocs[u] \ {d} ELSE userDocs[u]]
  BY DEF DeletesDocument, Discarded
<1>3. BackendsTypeOK'
  <2>1. storeCalls' \in 0..MaxStoreCalls
    BY <1>1, StoreBackendsAssumption DEF BackendsTypeOK, DeletesDocument, Counted
  <2>2. userDocs' \in [Authors -> SUBSET StoredDocs]
    BY <1>1, <1>2 DEF BackendsTypeOK
  <2>3. authored' \subseteq Authors \X StoredDocs /\ stored' \in [StoredDocs -> StoredMetas \cup {NoMeta}]
    BY <1>1 DEF BackendsTypeOK, DeletesDocument
  <2>4. docAuthor' \in [StoredDocs -> Authors \cup {Nobody}]
    BY <1>1 DEF BackendsTypeOK, DeletesDocument
  <2> QED
    BY <1>1, <2>1, <2>2, <2>3, <2>4 DEF BackendsTypeOK, DeletesDocument
<1>4. AuthorsAgree'
  <2>1. SUFFICES ASSUME moved = {}, NEW u \in Authors, NEW e \in StoredDocs
        PROVE  /\ <<u, e>> \in authored' <=> docAuthor'[e] = u
               /\ e \in userDocs'[u] <=> docAuthor'[e] = u
    BY DEF AuthorsAgree, DeletesDocument
  <2>2. /\ <<u, e>> \in authored <=> docAuthor[e] = u
        /\ e \in userDocs[u] <=> docAuthor[e] = u
    BY <2>1 DEF BackendsInv, AuthorsAgree
  <2>3. docAuthor'[e] = IF e = d THEN Nobody ELSE docAuthor[e]
    BY <1>1 DEF BackendsTypeOK, DeletesDocument
  <2>4. <<u, e>> \in authored' <=> <<u, e>> \in authored /\ e # d
    BY DEF DeletesDocument
  <2>5. e \in userDocs'[u] <=> e \in userDocs[u] /\ ~(e = d /\ u = docAuthor[d])
    BY <1>2
  <2> QED
    BY <1>1, <2>2, <2>3, <2>4, <2>5
<1> QED
  BY <1>3, <1>4 DEF BackendsInv

(* Every step of the two builds keeps the invariant.                       *)
LEMMA BackendsNextInv == BackendsInv /\ [BackendsNext]_backendVars => BackendsInv'
<1> SUFFICES ASSUME BackendsInv, [BackendsNext]_backendVars PROVE BackendsInv'
  OBVIOUS
<1>1. CASE UNCHANGED backendVars
  BY <1>1 DEF backendVars, BackendsInv, BackendsTypeOK, AuthorsAgree
<1>2. CASE BackendsNext
  BY <1>2, AddsDocumentInv, AddsChunksInv, DeletesDocumentInv DEF BackendsNext
<1> QED
  BY <1>1, <1>2

(* Both graphs name the same authors of what a search hit, and so the same *)
(* neighbours.                                                             *)
LEMMA GraphsDo == BackendsInv => GraphsAgree
<1> SUFFICES ASSUME BackendsInv, moved = {}, NEW seeds \in SUBSET Held, NEW level \in 1..2
             PROVE  MemoryRelated(seeds, level) = ServerRelated(seeds, level)
  BY DEF GraphsAgree
<1> DEFINE memory == {docAuthor[s] : s \in seeds} \ {Nobody}
           server == {u \in Authors : \E s \in seeds : <<u, s>> \in authored}
           close == server \cup {u \in Authors : dept[u] \in Departments(server)}
<1>1. /\ \A u \in Authors, d \in StoredDocs : <<u, d>> \in authored <=> docAuthor[d] = u
      /\ \A u \in Authors, d \in StoredDocs : d \in userDocs[u] <=> docAuthor[d] = u
      /\ \A d \in StoredDocs : docAuthor[d] \in Authors \cup {Nobody}
      /\ Nobody \notin Authors
  BY DEF BackendsInv, BackendsTypeOK, AuthorsAgree, Authors, Nobody
<1>2. seeds \subseteq StoredDocs /\ Held \subseteq StoredDocs
  BY DEF Held
<1>3. memory = server
  <2>1. ASSUME NEW u \in memory PROVE u \in server
    BY <2>1, <1>1, <1>2
  <2>2. ASSUME NEW u \in server PROVE u \in memory
    <3>1. PICK s \in seeds : <<u, s>> \in authored
      BY <2>2
    <3>2. u \in Authors /\ docAuthor[s] = u
      BY <2>2, <3>1, <1>1, <1>2
    <3>3. u # Nobody
      BY <3>2, <1>1
    <3> QED
      BY <3>2, <3>3
  <2>3. memory \subseteq server /\ server \subseteq memory
    BY <2>1, <2>2
  <2> HIDE DEF memory, server
  <2> QED
    BY <2>3
<1>4. close \subseteq Authors
  OBVIOUS
<1>5. \A d \in Held : (\E u \in close : d \in userDocs[u]) <=> (\E u \in close : <<u, d>> \in authored)
  BY <1>1, <1>2, <1>4
<1>6. MemoryRelated(seeds, level) =
        {d \in Held : /\ stored[d].access <= level
                      /\ Alike(seeds, d) \/ \E u \in close : d \in userDocs[u]}
  BY <1>3 DEF MemoryRelated
<1>7. ServerRelated(seeds, level) =
        {d \in Held : /\ stored[d].access <= level
                      /\ Alike(seeds, d) \/ \E u \in close : <<u, d>> \in authored}
  BY DEF ServerRelated
<1> HIDE DEF close
<1> QED
  BY <1>5, <1>6, <1>7

(* One condition: the server passes no more, and drops only what has no    *)
(* value for a field that must not have one.                               *)
LEMMA ConditionsDo ==
  ASSUME NEW m \in StoredMetas, NEW c \in Conditions
  PROVE  /\ SqlMeets(m, c) => MemoryMeets(m, c)
         /\ MemoryMeets(m, c) /\ ~SqlMeets(m, c) => Negated(c) /\ Missing(m, c)
<1>1. CASE ~Missing(m, c)
  BY <1>1 DEF SqlMeets, MemoryMeets
<1>2. CASE Missing(m, c)
  <2>1. c.field # "access"
    BY <1>2 DEF Missing
  <2>2. c.op \in {"eq", "ne", "in", "nin"}
    BY <2>1 DEF Conditions, Cond
  <2>3. c.values = {} => (Meets(m, c) <=> Negated(c))
    BY <2>2 DEF Meets, Negated
  <2> QED
    BY <1>2, <2>3 DEF SqlMeets, MemoryMeets
<1> QED
  BY <1>1, <1>2

(* And so it is for two conditions that are joined.                        *)
LEMMA FiltersDo == BackendsInv => FiltersAgree
<1> SUFFICES ASSUME BackendsInv, NEW d \in Held, NEW joined \in {"and", "or"},
                    NEW c1 \in Conditions, NEW c2 \in Conditions
             PROVE  LET m == stored[d]
                        cs == {c1, c2}
                        sql == SqlPasses(m, joined, cs)
                        mem == MemoryPasses(m, joined, cs)
                    IN  /\ sql => mem
                        /\ mem /\ ~sql => \E c \in cs : Negated(c) /\ Missing(m, c)
  BY DEF FiltersAgree
<1>1. stored[d] \in StoredMetas
  BY DEF BackendsInv, BackendsTypeOK, Held
<1>2. \A c \in {c1, c2} :
        /\ SqlMeets(stored[d], c) => MemoryMeets(stored[d], c)
        /\ MemoryMeets(stored[d], c) /\ ~SqlMeets(stored[d], c) =>
             Negated(c) /\ Missing(stored[d], c)
  BY <1>1, ConditionsDo
<1> QED
  BY <1>2 DEF SqlPasses, MemoryPasses

(* The filters of the search for files.                                    *)
LEMMA IndexesDo == BackendsInv => IndexesAgree
<1> SUFFICES ASSUME BackendsInv, NEW d \in Held, NEW f \in FileFilters
             PROVE  LET m == stored[d] IN
                    /\ SqlFinds(m, f) => MemoryFinds(m, f)
                    /\ MemoryFinds(m, f) /\ ~SqlFinds(m, f) =>
                         \/ f.type # m.type /\ Upper(f.type) = Upper(m.type)
                         \/ Given(f.days) /\ (Given(f.from) \/ Given(f.to))
                         \/ Given(f.to) /\ m.at = EndOfDay(f.to)
  BY DEF IndexesAgree
<1> DEFINE m == stored[d]
<1>1. m \in StoredMetas
  BY DEF BackendsInv, BackendsTypeOK, Held
<1>2. m.at \in Int /\ f.to \in Int
  BY <1>1, MetaFacts DEF FileFilters, NoFilter
<1> HIDE DEF m
<1>3. Until(m, Midnight(f.to)) => Until(m, EndOfDay(f.to))
  BY <1>2 DEF Until, Midnight, EndOfDay
<1>4. Until(m, EndOfDay(f.to)) /\ ~Until(m, Midnight(f.to)) => m.at = EndOfDay(f.to)
  BY <1>2 DEF Until, Midnight, EndOfDay
<1>5. SqlFinds(m, f) => MemoryFinds(m, f)
  BY <1>3 DEF SqlFinds, MemoryFinds
<1>6. MemoryFinds(m, f) /\ ~SqlFinds(m, f) =>
        \/ f.type # m.type /\ Upper(f.type) = Upper(m.type)
        \/ Given(f.days) /\ (Given(f.from) \/ Given(f.to))
        \/ Given(f.to) /\ m.at = EndOfDay(f.to)
  BY <1>4 DEF SqlFinds, MemoryFinds
<1> QED
  BY <1>5, <1>6 DEF m

(* The types, and that edges and sets of documents name the same author,   *)
(* hold in every state.                                                    *)
THEOREM BackendsInductive == BackendsSpec => []BackendsInv
BY BackendsInitInv, BackendsNextInv, PTL DEF BackendsSpec

(* The stores in memory answer what the servers answer, but for what       *)
(* BackendsAgree names: graphs, metadata filters and file filters          *)
(* (adapters/graph, adapters/vectorstore, adapters/searchindex).           *)
THEOREM BackendsDoAgree == BackendsSpec => []BackendsAgree
<1>1. BackendsInv => BackendsAgree
  BY GraphsDo, FiltersDo, IndexesDo DEF BackendsAgree
<1> QED
  BY <1>1, BackendsInductive, PTL

-----------------------------------------------------------------------------
(* The composition.                                                        *)
(* A step of the whole is a step of each part, or leaves the part alone.   *)
LEMMA StoresSteps ==
  [StoresNext]_<<part, vars, retrievalVars, sessionVars, backendVars>> =>
    /\ [Next]_vars /\ [RetrievalNext]_retrievalVars
    /\ [SessionsNext]_sessionVars /\ [BackendsNext]_backendVars
BY DEF StoresNext, IngestionStep, RetrievalStep, SessionsStep, BackendsStep

(* So every behaviour of the whole is one of each of its parts, and what   *)
(* is proved of a part holds in the composition.                           *)
THEOREM StoresImplementParts ==
  StoresSpec => Spec /\ RetrievalSpec /\ SessionsSpec /\ BackendsSpec
BY StoresSteps, PTL DEF StoresSpec, StoresInit, Spec, RetrievalSpec, SessionsSpec, BackendsSpec

(* The variables of the readers, of the sessions and of both builds keep   *)
(* their types while the parts run.                                        *)
THEOREM ReadersTypeCorrect == StoresSpec => []ReadersTypeOK
<1>1. RetrievalTyped /\ SessionsInv /\ BackendsInv => ReadersTypeOK
  <2>1. RetrievalTyped => RetrievalTypeOK
    BY DEF RetrievalTyped
  <2>2. ASSUME SessionsInv PROVE SessionsTypeOK
    <3>1. /\ accounts \subseteq Row /\ schema \in -1..MaxRequests /\ results \subseteq Result
          /\ exported \in [DocIds -> 0..MaxRequests]
          /\ sessions \in [Requesters -> Session] /\ lastRequest \in 0..MaxRequests
      BY <2>2 DEF SessionsInv, SessionsTyped
    <3>2. \A x \in results : x.doc \in DocIds /\ x.by \in Requesters
      BY <2>2, <3>1 DEF SessionsInv, RowsInv, Result
    <3>3. \A r \in Requesters :
            sessions[r].pc \in Pcs /\ sessions[r].answer \in {"none", "ok", "error"}
      BY <3>1 DEF Session
    <3> QED
      BY <3>1, <3>2, <3>3 DEF SessionsTypeOK, Pcs
  <2>3. BackendsInv => BackendsTypeOK
    BY DEF BackendsInv
  <2> QED
    BY <2>1, <2>2, <2>3 DEF ReadersTypeOK
<1> QED
  BY <1>1, StoresImplementParts, RetrievalInductive, SessionsInductive,
     BackendsInductive, PTL
=============================================================================
