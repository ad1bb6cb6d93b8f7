--------------------------- MODULE StoreBackends ---------------------------
(***************************************************************************)
(* The stores exist twice: in memory, for development and the tests, and   *)
(* on the servers, Neo4j and PostgreSQL.  This module makes the same calls *)
(* to both and compares what they answer: the neighbours of a chunk in the *)
(* graph (adapters/graph), the chunks that a metadata filter passes        *)
(* (adapters/vectorstore, _pg_where.py) and the files that the filters of  *)
(* the search page pass (adapters/searchindex).                            *)
(*                                                                         *)
(* Upserts and deletes by key are the same in both, so what both store of  *)
(* a document's chunks and file is one variable, and so are departments.   *)
(* The engines that rank (cosine, full text) are left out: a comparison is *)
(* of sets, before any limit.                                              *)
(***************************************************************************)
EXTENDS Integers, FiniteSets

CONSTANTS
  StoredDocs,     (* documents                                             *)
  StoredMetas,    (* the metadata that ingests give them                   *)
  MaxStoreCalls   (* bound: ingests and deletes                            *)

Authors == {"kim", "lee"}
Nobody == "none"        (* author, department or type that is not given    *)
Now == 5                (* instants are half days: 2n is midnight of day n *)

ASSUME StoreBackendsAssumption ==
  /\ MaxStoreCalls \in Nat
  /\ StoredMetas \subseteq
       [author : Authors \cup {Nobody}, dept : {"dev", Nobody},
        source : {"local", "slack"}, access : 1..2,
        type : {"PDF", "pdf", Nobody}, at : -1..Now]   \* at = -1: none

VARIABLES
  opened,     (* an ingest: the metadata between add_document, add_chunks  *)
  stored,     (* chunks, their vectors and the file of a document          *)
  dept,       (* _users, and (:User).department                            *)
  docAuthor,  (* memory: _doc_author                                       *)
  userDocs,   (* memory: _user_docs                                        *)
  authored,   (* Neo4j: the edges (:User)-[:AUTHORED]->(:Document)         *)
  storeCalls,
  moved       (* history: documents ingested again under another author    *)

backendVars == <<opened, stored, dept, docAuthor, userDocs, authored, storeCalls,
                 moved>>

NoMeta == [author |-> Nobody, dept |-> Nobody, source |-> Nobody, access |-> 0,
           type |-> Nobody, at |-> -1]

BackendsTypeOK ==
  /\ opened \in [StoredDocs -> StoredMetas \cup {NoMeta}]
  /\ stored \in [StoredDocs -> StoredMetas \cup {NoMeta}]
  /\ dept \in [Authors -> {"dev", Nobody}]
  /\ docAuthor \in [StoredDocs -> Authors \cup {Nobody}]
  /\ userDocs \in [Authors -> SUBSET StoredDocs]
  /\ authored \subseteq Authors \X StoredDocs
  /\ storeCalls \in 0..MaxStoreCalls
  /\ moved \subseteq StoredDocs

BackendsInit ==
  /\ opened = [d \in StoredDocs |-> NoMeta]
  /\ stored = [d \in StoredDocs |-> NoMeta]
  /\ dept = [u \in Authors |-> Nobody]
  /\ docAuthor = [d \in StoredDocs |-> Nobody]
  /\ userDocs = [u \in Authors |-> {}]
  /\ authored = {}
  /\ storeCalls = 0
  /\ moved = {}

-----------------------------------------------------------------------------
Counted == storeCalls < MaxStoreCalls /\ storeCalls' = storeCalls + 1

(* Fault: a document without an author is the user None's.                 *)
NobodysEdgeFault(m, d) == {<<m.author, d>>}

Edge(m, d) == IF m.author = Nobody THEN {} ELSE {<<m.author, d>>}

(* add_document: MERGE keeps the edge of an earlier author, and so does    *)
(* _user_docs, but _doc_author only knows the latest.                      *)
AddsDocument(d, m) ==
  /\ Counted /\ opened[d] = NoMeta
  /\ opened' = [opened EXCEPT ![d] = m]
  /\ docAuthor' = [docAuthor EXCEPT ![d] = m.author]
  /\ authored' = authored \cup Edge(m, d)
  /\ IF m.author = Nobody
       THEN UNCHANGED <<dept, userDocs>>
       ELSE /\ dept' = [dept EXCEPT ![m.author] = m.dept]
            /\ userDocs' = [userDocs EXCEPT ![m.author] = @ \cup {d}]
  /\ moved' = moved \cup (IF \E u \in Authors \ {m.author} : <<u, d>> \in authored
                            THEN {d} ELSE {})
  /\ UNCHANGED stored

(* add_chunks, and index and index_file around it.                         *)
AddsChunks(d) ==
  /\ opened[d] # NoMeta
  /\ stored' = [stored EXCEPT ![d] = opened[d]]
  /\ opened' = [opened EXCEPT ![d] = NoMeta]
  /\ UNCHANGED <<dept, docAuthor, userDocs, authored, storeCalls, moved>>

(* The ingest fails between the two.                                       *)
IngestStops(d) ==
  /\ opened[d] # NoMeta
  /\ opened' = [opened EXCEPT ![d] = NoMeta]
  /\ UNCHANGED <<stored, dept, docAuthor, userDocs, authored, storeCalls, moved>>

(* Fault: delete forgets the chunks and the author, not _user_docs.        *)
NotDiscardedFault(d) == userDocs

(* Memory: the document leaves the set of its latest author.               *)
Discarded(d) ==
  [u \in Authors |-> IF u = docAuthor[d] THEN userDocs[u] \ {d} ELSE userDocs[u]]

(* delete.  Neo4j: DETACH DELETE, every edge of the document goes.         *)
DeletesDocument(d) ==
  /\ Counted
  /\ stored' = [stored EXCEPT ![d] = NoMeta]
  /\ userDocs' = Discarded(d)
  /\ docAuthor' = [docAuthor EXCEPT ![d] = Nobody]
  /\ authored' = {e \in authored : e[2] # d}
  /\ UNCHANGED <<opened, dept, moved>>

BackendsNext ==
  \E d \in StoredDocs :
    \/ \E m \in StoredMetas : AddsDocument(d, m)
    \/ AddsChunks(d) \/ IngestStops(d) \/ DeletesDocument(d)

BackendsSpec == BackendsInit /\ [][BackendsNext]_backendVars

-----------------------------------------------------------------------------
(* related(): the chunks connected to those of seeds, a set of documents   *)
(* that the search hit.  Its own chunks aside, what one chunk of a         *)
(* document is connected to, all are.                                      *)
Held == {d \in StoredDocs : stored[d] # NoMeta}
Alike(seeds, d) ==      \* PART_OF, source and author of the chunks
  \/ d \in seeds
  \/ \E s \in seeds : \/ stored[s].source = stored[d].source
                      \/ /\ stored[s].author = stored[d].author
                         /\ stored[d].author # Nobody

Departments(users) == {dept[u] : u \in users} \ {Nobody}

MemoryRelated(seeds, level) ==
  LET users == {docAuthor[s] : s \in seeds} \ {Nobody}
      close == users \cup {u \in Authors : dept[u] \in Departments(users)}
  IN  {d \in Held : /\ stored[d].access <= level
                    /\ Alike(seeds, d) \/ \E u \in close : d \in userDocs[u]}

ServerRelated(seeds, level) ==
  LET users == {u \in Authors : \E s \in seeds : <<u, s>> \in authored}
      close == users \cup {u \in Authors : dept[u] \in Departments(users)}
  IN  {d \in Held : /\ stored[d].access <= level
                    /\ Alike(seeds, d) \/ \E u \in close : <<u, d>> \in authored}

(* As long as no document changed its author while it was there, both      *)
(* graphs give the same neighbours, through every re-ingest, half ingest   *)
(* and delete (graph/memory_store.py, graph/neo4j_store.py: the one is to  *)
(* stand in for the other).                                                *)
GraphsAgree ==
  moved = {} => \A seeds \in SUBSET Held, level \in 1..2 :
                  MemoryRelated(seeds, level) = ServerRelated(seeds, level)

-----------------------------------------------------------------------------
(* The dialect of where: conditions, joined by $and or $or.  A field that  *)
(* is None is not in the metadata (chunk_to_meta).                         *)
Cond(f, op, values) == [field |-> f, op |-> op, values |-> values]
Conditions ==
  {Cond("source", "ne", {"local"}), Cond("author", "eq", {"kim"}),
   Cond("author", "nin", {"kim"}), Cond("author", "nin", {}),
   Cond("author", "in", {}), [field |-> "access", op |-> "lte", level |-> 1]}
Negated(c) == c.op \in {"ne", "nin"}
Missing(m, c) == c.field # "access" /\ m[c.field] = Nobody

Meets(m, c) ==
  IF c.op = "lte" THEN m.access <= c.level
                  ELSE (m[c.field] \in c.values) # Negated(c)

(* _match_field, _compare: a missing field has the value None.             *)
MemoryMeets(m, c) == IF Missing(m, c) THEN Negated(c) ELSE Meets(m, c)

(* _field_clause, _in_clause: of a missing field SQL says NULL, which no   *)
(* NOT turns into TRUE - but nothing is = ANY of an empty list.            *)
SqlMeets(m, c) ==
  IF Missing(m, c) /\ c.values # {} THEN FALSE ELSE Meets(m, c)

MemoryPasses(m, joined, cs) ==
  IF joined = "and" THEN \A c \in cs : MemoryMeets(m, c)
                    ELSE \E c \in cs : MemoryMeets(m, c)

(* _clause.                                                                *)
SqlPasses(m, joined, cs) ==
  IF joined = "and" THEN \A c \in cs : SqlMeets(m, c)
                    ELSE \E c \in cs : SqlMeets(m, c)

(* A filter passes on the server what it passes in memory, except that the *)
(* server drops what has no value for a field under $ne or $nin, and it    *)
(* never passes more: the access level that every search puts in its where *)
(* holds whatever it is joined with (adapters/vectorstore, _pg_where.py).  *)
FiltersAgree ==
  \A d \in Held, joined \in {"and", "or"}, c1 \in Conditions, c2 \in Conditions :
    LET m == stored[d]
        cs == {c1, c2}
        sql == SqlPasses(m, joined, cs)
        mem == MemoryPasses(m, joined, cs)
    IN  /\ sql => mem
        /\ mem /\ ~sql => \E c \in cs : Negated(c) /\ Missing(m, c)

-----------------------------------------------------------------------------
(* The filters of the search for files.  A date is the number of a day; a  *)
(* field that is not given is NoFilter.                                    *)
NoFilter == -1
FileFilters ==
  [access : 1..2, source : {"local", Nobody}, type : {"pdf", Nobody},
   days : {NoFilter, 1}, from : {NoFilter, 1}, to : {NoFilter, 1}]

Midnight(day) == 2 * day
EndOfDay(day) == 2 * day + 1
Upper(type) == IF type = "pdf" THEN "PDF" ELSE type
Given(x) == x # NoFilter
Since(m, instant) == m.at # -1 /\ m.at >= instant
Until(m, instant) == m.at # -1 /\ m.at <= instant

(* InMemorySearchIndex.search: days_window comes before a range of dates,  *)
(* and the day date_to belongs to the range.                               *)
MemoryFinds(m, f) ==
  /\ m.access <= f.access
  /\ f.source # Nobody => m.source = f.source
  /\ f.type # Nobody => Upper(m.type) = Upper(f.type)
  /\ Given(f.days) => Since(m, Now - 2 * f.days)
  /\ Given(f.from) /\ ~Given(f.days) => Since(m, Midnight(f.from))
  /\ Given(f.to) /\ ~Given(f.days) => Until(m, EndOfDay(f.to))

(* build_search_sql: every filter that is given, and ingested_at <= date   *)
(* is its midnight.                                                        *)
SqlFinds(m, f) ==
  /\ m.access <= f.access
  /\ f.source # Nobody => m.source = f.source
  /\ f.type # Nobody => m.type = f.type
  /\ Given(f.days) => Since(m, Now - 2 * f.days)
  /\ Given(f.from) => Since(m, Midnight(f.from))
  /\ Given(f.to) => Until(m, Midnight(f.to))

(* The server never finds a file that memory filters out, and it misses    *)
(* one only for three reasons: a type in another case, a window together   *)
(* with a range, and the last day of a range (adapters/searchindex).       *)
IndexesAgree ==
  \A d \in Held, f \in FileFilters :
    LET m == stored[d] IN
    /\ SqlFinds(m, f) => MemoryFinds(m, f)
    /\ MemoryFinds(m, f) /\ ~SqlFinds(m, f) =>
         \/ f.type # m.type /\ Upper(f.type) = Upper(m.type)
         \/ Given(f.days) /\ (Given(f.from) \/ Given(f.to))
         \/ Given(f.to) /\ m.at = EndOfDay(f.to)

(* The stores in memory stand in for the servers, but for what is named    *)
(* in the three parts.                                                     *)
BackendsAgree == GraphsAgree /\ FiltersAgree /\ IndexesAgree
=============================================================================
