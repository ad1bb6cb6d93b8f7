# A formal model of the knowledge management system

This directory holds TLA+ modules that model the program of this repository
(`src/kms`, a FastAPI service that ingests documents into three stores,
searches them and answers questions about them, with a React front end in
`frontend/`), the configurations with which TLC checks them on small instances,
and proofs that TLAPS checks for every value of the constants.
`PROJECT.json` is the index: components, runs, the lines each definition
translates, hazards, divergences between code and comments, theorems.

    tlc -workers 2 -config IngestJobs.cfg IngestJobs
    tlapm IngestJobs_proofs.tla

## 1. The system

| part | state | operations | talks to |
|---|---|---|---|
| Ingest job store (`services/ingest_jobs.py`) | `_jobs`, `_order`, a lock | `create`, `get`, `set_running`, `set_done`, `set_error` | upload and status routes |
| Upload and status routes (`api/v1/ingest.py`) | files under `data/`, background tasks | `ingest_upload`, `_run_ingest_job`, `ingest_job_status` | job store, ingestion service |
| Polling browser (`frontend/src/api/client.ts`) | the job it polls, a deadline | `ingestUpload` | the routes |
| Ingestion service (`services/ingestion_service.py`) | none of its own | `ingest_item`, `ingest_items`, `ingest_manifest`, `delete_document` | extractors, the three stores |
| Vector store (`adapters/vectorstore`) | chunks with text, metadata, embedding | `index`, `query`, `get`, `delete_by_source_url` | PostgreSQL |
| Graph store (`adapters/graph`) | documents, chunks, users, edges | `add_document`, `add_chunks`, `delete`, `related` | Neo4j |
| Search index (`adapters/searchindex`) | one FileDoc per document | `index_file`, `get`, `get_by_source_url`, `delete`, `search` | PostgreSQL |
| Search and RAG (`services/search_service.py`, `rag_service.py`) | none | `search`, `search_files`, `answer`, `stream_answer`, `citations` | all stores, LLM |
| Files API (`api/v1/files.py`) | the disk | `get_file`, `delete_file` | search, ingestion |
| Composition and health (`api/app.py`, `factory.py`, `services/health.py`, `document_registry.py`) | the assembled services, the table of files | assembly at the first request, health report, `resolve` | every store, the servers |
| Parsers (`adapters/ingestion/extract`) | two Docling converters | `extract` with its chain of four parsers | the disk |
| Sections and chunks (`adapters/ingestion/structure.py`, `chunk`) | none | `build_sections`, pages of pieces | parsers |
| Page rendering (`services/_page_render.py`) | temporary files, a LibreOffice profile, a cache | conversions, drawing, marks | `soffice`, the disk |
| Accounts (`services/account_service.py`, `auth_service.py`) | account table, signed tokens | add, list and delete members, login, seed of the master | PostgreSQL |
| Field extraction (`services/extraction_service.py`, `adapters/extraction`, `api/v1/extract.py`) | schemas, results, export files | schemas, run, results, export | PostgreSQL, disk, LLM or VLM |
| LLM clients and records of them (`adapters/llm`, `adapters/observability`) | usage of a call, a run of MLflow | `generate`, `stream`, `log_ocr_run` | the inference server, Langfuse, MLflow |
| Reranker (`adapters/reranker/qwen3_reranker.py`) | a model that is loaded late | `score` | search |
| OCR evaluation (`eval/ocr_eval.py`, `scripts/eval_ocr.py`) | rates and counts | read, extract, measure | the vision model, MLflow |
| Parse, export, diff (`api/v1/parse.py`, `services/diff_service.py`) | export files, caches by (path, mtime) | parse, export, diff | disk |
| Chat store and sessions (`frontend/src/lib/chatStore.ts`, `chatSessions.ts`) | turns, the stream being read, a turn counter; saved sessions in localStorage | send, stop, new chat, select, delete, hydrate | RAG routes, local and session storage, other tabs |
| Diff, parse, search and extraction pages (`frontend/src/lib`, `pages`) | one request and its result, sessionStorage | compare, parse, search, extract, cancel, reset | API |
| Step executor (`scripts/execute.py`) | `phases/*/index.json`, result files, git | run, retry, commit, finalise | an agent process, git |

What is hard about it:

- **Threads.** Coroutines run on one event loop, but plain `def` handlers and
  `ingest_item` run in a pool of worker threads. A lock protects the job store;
  nothing protects its objects once they have left it.  The services, the
  reranker's model and the converters are made by whichever threads come first,
  without a lock.
- **Late answers.** The browser lets requests overlap: what comes back may be
  for a file, a session or a question that is no longer on the screen.
- **Commit after the answer.** The SQL transaction of a request ends after its
  response was sent; a file it exported belongs to no transaction.
- **Best effort.** Previews, traces, lexical search and cleanup may fail; the
  answer is to survive that, and nothing is to be left behind.
- **Crashes of a long run.** The step executor keeps its progress in files and
  two commits per step, between which it may be killed.
- **No transactions.** A document lives in three stores and on the disk. Every
  ingest and every delete is a sequence of autocommitted statements which other
  calls interleave with and which may stop anywhere.
- **Identity.** `doc_id` is the hash of a file's content, `source_url` is made
  from its name, the file on disk may be overwritten. Three names of one thing,
  and deletes use two of them.
- **Restarts and deadlines.** Jobs live in memory; the browser gives up before
  the ingest does.
- **Tabs.** Each browser tab has its own chat store and mirrors it in its own
  storage; saved sessions are shared by all, read and written whole.
- **Bounded tables.** The job store drops its oldest entries, and so does the
  list of saved sessions.

What makes each part correct is in section 3. The list `hazards` of
`PROJECT.json` names what can go wrong at which line and the properties that
would notice; the few without a property say why.

## 2. Modules

| module | models | kind |
|---|---|---|
| `JobLifecycle` | what the asynchronous ingest API promises about an upload | abstract specification |
| `IngestJobs` | job store, upload and status routes, runner, worker pool, browser | detailed specification, implements `JobLifecycle` |
| `KnowledgeBase` | ingestion service and the writing half of the three stores | component |
| `Retrieval` | search, answers, citations and file search over stores that change | component |
| `RequestSessions` | members, schemas, results and exports in SQL, with late commits | component |
| `StoreBackends` | the in-memory stores beside PostgreSQL and Neo4j | component, compares two implementations |
| `ChatStore` | the browser's chat: store, sessions and the page's handlers | component |
| `PageRequests` | the other four pages with a request each | component |
| `StepExecutor` | runs, attempts, reports and commits of `scripts/execute.py` | component |
| `DiffCache` | comparisons that share two caches while files are replaced | component |
| `DiffMarks` | from two texts to operations, counts and marks | algorithm against a reference definition |
| `TempFiles` | temporary files of uploads and previews, with failures | component |
| `Parsers` | the chain of parsers and its converters | component |
| `Sections` | sections, segments and their pages | algorithm against a reference definition |
| `FieldExtraction` | routes, concurrent model calls, grounding, evidence | component |
| `LlmCalls` | calls, streams and their records | component |
| `Rerankers` | the late loading of the model | component |
| `Composition` | assembly of services, servers that go down, health, resolver | component |
| `OcrEval` | labels, reading order, rates | algorithm against a reference definition |
| `Flatten` | sequences put one after the other, for `Sections` and `OcrEval` | operators |
| `MCKnowledgeBase`, `MCChatStore`, `MCComposition` | constants and symmetry of an instance | model checking |
| `MCStores`, `MCBrowser`, `MCServices` | several components in one run | model checking |
| `IngestJobs_proofs`, `KnowledgeBase_proofs`, `ChatStore_proofs` | theorems about the module they are named after | proofs |
| `Stores_proofs`, `Browser_proofs` | theorems about the components of `MCStores` and `MCBrowser` and about their composition | proofs |
| `Documents_proofs`, `Infrastructure_proofs` | theorems about the components of these two groups; the latter also about `StepExecutor` | proofs |
| `Services_proofs` | theorems about `OcrEval` and about the composition of `MCServices` | proofs |

A definition whose comment starts with "Fault:" is not part of the model: it is
the action or operator as a plausible bug would have left it, and shows that the
property it is listed with in `PROJECT.json` notices that bug.

### IngestJobs

State: `stored` and `order` are the dictionary and the FIFO list of
`IngestJobStore`; `job` the `IngestJob` objects, kept apart from the dictionary
because a poll or the runner may hold an object that was evicted; `writing` the
job whose `_update` stands between its two assignments with the lock in hand.
`task` is the position of `_run_ingest_job`, `client` that of the browser and of
the status handler that serves it, `reply` the answer as far as it has been
built. `accepted` and `settledAtGet` are history.

| action | code |
|---|---|
| `Upload` | `ingest_upload` after its checks: file written, `create()` with its eviction loop, task scheduled |
| `SetRunning`, `StartIngest`, `IngestEnds` | `_run_ingest_job`: `set_running`, waiting for a worker, `ingest_item` returning or raising |
| `StoreStatus`, `StoreResult` | `set_done` or `set_error`: the two writes of `_update` under the lock, or the early return for an expired job |
| `Poll`, `ReadStatus`, `ReadReport`, `ReadError` | `ingest_job_status`: a worker, `get()` under the lock or a 404, then the fields one by one without it |
| `React` | the loop in `client.ts` |
| `Restart` | the process dies; the store and its tasks are gone, polls in flight fail |

`_update` is two actions because its reader does not hold the lock; `create()`
and `get()` are one each because everything they touch is under it. `set_running`
is one action: it writes one field. `Watched` are the uploads whose 202 reaches
a browser; the others are loads on the store and on the pool.

### KnowledgeBase

A document is its content, hence its `doc_id`; an item is the metadata of an
`IngestItem` (file, source_url, access and the rest). `vector` maps a chunk to
the text and the item it was stored with, `graphDocs` and `graphChunks` are the
nodes of the graph, `search` maps a `doc_id` to the item of its FileDoc.

| action | code |
|---|---|
| `Upload`, `Submit` | a file written by the upload route, or named by `POST /v1/ingest` and by the manifest |
| `Extract`, `Hash` | the first and the second time `ingest_item` reads the file |
| `IndexChunk` | one upsert of `PgVectorStore.index` (autocommit) |
| `AddDocument`, `AddChunks` | the statements of `Neo4jGraphStore`; the second MERGEs the document again and returns at once without chunks |
| `IndexFile` | `PgSearchIndex.index_file`, which normalises the url |
| `FailIngest`, `FailDelete` | an exception, or the death of the process, between two statements |
| `FindDoc` | `search_index.get` and the two early decisions of `delete_document` |
| `DeleteChunks`, `DeleteGraph`, `DeleteFile` | the three deletes in their order, the first skipped without a url |

`robbed`, `raced` and `rewritten` are history: they say which calls disturbed
each other, so that a property can say precisely what the code guarantees when
they did not.

Abstracted: AUTHORED edges (no modelled operation reads them), the summary text,
embeddings, a file read while half written, and duplicates that concurrent
`MERGE`s can make in a graph without uniqueness constraints. The in-memory
stores of tests and demos are in `StoreBackends`.

### Retrieval

`chunkLevel`, `graphLevel` and `fileLevel` are the access levels that the three
stores hold for a document; `writer` is an ingest or delete between two of its
writes; `query` is the request with what it has read. `calm`, `agreed` and `held`
are history. `Ask`, `QueryVector`, `QueryLexical`, `Related`, `GetRelated`,
`FetchLexicalOnly`, `Rank` are the statements of `search()` in their order, each
of which the code lets fail where it does; `Answer` and `Cite` build the answer
and its citations, `ResolveFile` is the loop of `search_files`. `BeginWrite` and
`Write` are the writes of `KnowledgeBase` seen from here. One request at a time:
requests only read.

### RequestSessions

`accounts`, `schema`, `results` are committed rows, `exported` the files,
`sessions` the requests with their transactions. `OpenSession`, `ReadRows`,
`Flush`, `WriteExport`, `SendAnswer`, `CommitSession` are the stations of a
request in the order of the code, `RaiseAfterFlush` and `ServerCrash` its ends.
PostgreSQL is external: READ COMMITTED, row locks from flush to the end of the
transaction, a unique email.

### StoreBackends

One call at a time goes to the stores in memory and to the servers. `userDocs` and
`docAuthor` are the author index in memory, `authored` the edges of Neo4j; what
both sides store alike is one variable. Filters are the dialect of
`memory_store.py` on one side and the SQL of `_pg_where.py` with its nulls on the
other, as operators over the metadata of a chunk.

### ChatStore

State, per tab: `turns`, `session` and `isStreaming` as in `ChatStoreState`,
`stream` for the closure of the running `send` with its controller, `counter`
for `turnIdCounter`, `cited` for the citation calls under way, `listed` for the
sessions as the drawer last read them. `saved` is the list in localStorage.
An answer is the sequence of the questions whose chunks it is made of.

| action | code |
|---|---|
| `Send`, `Chunk` | `send` up to `ragStream`, and its `onChunk` |
| `EndStream`, `FailStream` | the rest of `send` after the stream ended or failed |
| `Answer` | citations arriving, or failing |
| `Stop`, `NewChat`, `SelectSession`, `DeleteSession`, `Look` | the handlers of `ChatPage`, with the abort handler of `send` where they abort (`Replace`) |
| `Reload` | the tab is loaded again: `hydrate`, a new counter, calls under way lost |

An abort and its handler are one action: the handler runs as a microtask of the
event that aborted. `Replace` keeps their order: the handler marks its turn
among the turns that are on the screen after the switch. `owner`, `sent`,
`finished`, `adopted`, `visitors`, `deleted` and `life` are history.

Abstracted: input field, model choice, titles and times, quota errors of the
storages (the code ignores them).

### PageRequests

`views` is what a page shows, `active` the controller or request id by which it
recognises its answer, `persisted` its entry in sessionStorage, `sends` the
calls, of which any number may be in flight. Actions are the handlers of the four
pages: `SendCall`, `AnswerArrives`, `CallFails`, `CancelDiff`, `Reset`,
`LeavePage`, `PickFile`, `BackToForm`, `ReloadTab`. `IsCurrent` is the test before
an answer is used, which the extraction page does not make.

### StepExecutor

`indexStatus` and `phaseStatus` are the two index files in the working tree,
`phaseHead` the same in the last commit of the branch, `dirtyWork` what is not
committed, `resultFile` what an agent leaves. `runner` is the run with its step
and attempt: `StartRun` (with `_check_blockers`), `CheckoutBranch`, `NextStep`,
`BeginAttempt`, `AgentEnds`, `ReadResult` with `Retry`, `FeatCommit`,
`ChoreCommit`, `RecordTop`, `Finish`, `FinalCommit`. The environment is
`AgentWorks`, `AgentCommits`, `AgentReports`, `RunCrashes` at any point,
`ResetStep`, `CommitByHand` and `LeaveBranch`.

### Documents: DiffCache, DiffMarks, TempFiles, Parsers, Sections, FieldExtraction

`DiffCache` takes `diff_documents` apart where another thread or an overwrite can
come in: `StatFile`, `ReadText`, `DrawPages`, the last two through the caches.
`DiffMarks` reads the opcodes of difflib (external: any that cut both texts as it
documents) block by block into operations and counts, and looks the changed words
up on the drawn pages. `Unsought`, `Body` and `Cut` are `_normalize_for_search`:
markers, rows of tables and single letters are not searched for, the sign of a
heading is taken off, the rest is cut. The page is a grid: rows of `RowWidth`
words, one column for a word, and boxes that touch when they are in one column of
adjacent rows (`Touches`; `RowsTouch` says whether the page is set that close).
Lengths are counted in words: `_SEARCH_PREFIX_MAX` letters are `SearchWords` words,
and a cut never falls into a word. `TempFiles` follows one upload
from `Receive` to `FinishUpload` over every file it makes; `guarded` are those that
the finally blocks it has entered will delete. `Parsers` is the chain of four
parsers by several threads with shared converters, page maps and boxes from either
corner. `Sections` reads markdown line by line into sections (`ReadHeading`,
`ReadLine`), and `Blocks` are those that the preview makes of a text without
headings: a new one after the first blank line that follows the line it starts
with. Both are compared with what is defined over the whole document at once.
What a conversion takes from a sequence is a recursive function there and in
`Parsers` and `FieldExtraction` (`FlatUpTo`, `ItemsUpTo`, `ParsedUpTo`), because
the community modules' folds cannot be unfolded in a proof. `FieldExtraction`
chooses a route, makes its calls (`StartCall`, `ModelReplies` in any order,
`CollectReply` in theirs), merges the replies, grounds values on lines and draws.

### Infrastructure: Composition, LlmCalls, Rerankers, OcrEval

`Composition` starts and kills the process, lets threads assemble the services at
once, and servers go down under them; a health report is built part by part. The
directories given by `FileNames` and `FileContents` are scanned into the resolver
of documents (`Scan`, `Put`), which keeps the strictest access of a content.
`LlmCalls` receives whole answers and streams line by line, breaks and abandons
them, and hands each call to its tracer; `ocrRun` is a run of MLflow. `Rerankers`
sets the attributes of the model one by one under other threads, and a load may
fail before each of them (`LoadFails`); `outcome` is a history of how loads ended
that had set the model, `beside` and `half` what a call met when it began, so that
`ScoresAreWhole` can say what a score may lack and why. `OcrEval` runs
`main()` over its pages; edit distance, reading order and rates are defined as the
code computes them and compared with their meaning. `DistanceRows` are the rows of
`_levenshtein`, each made from the one before; `SortedBy` gives the positions in
the order of `sorted`, equal keys as they come; `RowsUpTo` are the rows of words
after each word, where the sum of the middles stands for the mean that the code
keeps in `cur_y`.

## 3. What is checked

| run | instance | question |
|---|---|---|
| `ingest_jobs` | 3 uploads, 1 polled, store of 2, 2 workers, 1 restart | Do store, runner and poll keep their promises under every interleaving? |
| `ingest_jobs_progress` | 2 uploads, both polled, store of 1, 1 worker, 1 restart | Does every job settle and every browser get a verdict? |
| `stores` | below | What do stores without a common transaction guarantee to those who write, read and search? |
| `browser` | below | What do screens and saved sessions show, however late answers come? |
| `services` | below | Is the work behind the requests right, and does every run of the executor end? |
| `ingest_jobs_eviction`, `ingest_jobs_snapshot`, `kb_delete`, `kb_shared_url`, `kb_overwrite`, `chat_own_content`, `health_contract` | smaller | Divergences of code and comments, section 5 |

**Runs of several components.** `stores`, `browser` and `services` hold
components that share no variable, and each of their properties speaks of one.
Interleaving such components adds nothing but the product of their states.
So the variable `part` chooses one that moves in a behaviour; the others stay in
one of their initial states. Every behaviour of every component is a behaviour of
the run (with the others at rest), so a property of a component holds in the run
if and only if it holds of the component.

| component | instance |
|---|---|
| `KnowledgeBase` | 2 documents (1 and 2 chunks), 3 items, 2 ingests, 2 deletes |
| `Retrieval` | 3 documents, top_k 1, a user of level 1, 1 write in three steps |
| `RequestSessions` | 1 email and the master, 1 document, 3 requests |
| `StoreBackends` | 2 documents, 4 kinds of metadata, 4 calls |
| `ChatStore` | 2 tabs, 2 questions of up to 2 chunks, 2 sessions, 1 reload |
| `PageRequests` | 3 calls over 4 pages, 1 change of file |
| `StepExecutor` | 2 steps, 2 attempts; crashes, resets and branches without bound |
| `DiffCache` | 2 threads, 1 overwrite, any number of comparisons |
| `DiffMarks` | two texts of up to 2 of 10 lines, rows of 2 and of 4 words that touch, 3 words to search |
| `Sections` | documents of up to 4 lines, 3 levels |
| `FieldExtraction` | 3 fields in groups of 1, 2 calls at a time, 3 documents, 2 payloads |
| `Parsers` | 2 threads over 4 files |
| `LlmCalls` | 2 calls of up to 2 pieces, a run of MLflow with 1 value |
| `Rerankers` | 2 threads, 4 calls |
| `Composition` | 2 threads, 3 requests, 1 server that flips |
| `OcrEval` | 2 characters, 2 data sets, up to 2 pages of them |
| `TempFiles` | every route and pair of formats, without bound |

Job store:

- `RetainsNewest`: the store answers for exactly the `max_jobs` newest uploads of
  this process, dictionary and FIFO list agreeing.
- `ReplySound`: whatever interleaves, an answer never shows a result the ingest
  did not have, and the browser's verdict is true.
- `SettledPollIsComplete`: what the lock is good for. A poll whose lookup came
  after the job settled shows all of the result, although the fields are read
  outside the lock.
- `NotFoundIsFinal`: a job that was answered with a 404 does not come back.
- `RefinesLifecycle`: no status is skipped, repeated or taken back; an upload
  expires at most one other job; an expired job stays expired.
- `RefinesProgress`, `UploadGetsVerdict`: liveness.

Stores:

- `AckedStaysWhole`: an acknowledged ingest stays complete in all three stores,
  whatever other ingests do or fail to do, until a delete takes a part of it.
- `StoresAgree`: if no other ingest wrote to the document either, the three
  stores show the same metadata, so access and url agree between them.
- `HandleGoesLast`: the FileDoc, by which an administrator deletes, is the last
  thing to go, with any number of deletes overlapping and failing, unless an
  ingest wrote to the document meanwhile.
- `GraphChunksHaveDocument`: no chunk in the graph is left without its document.
- `ResultsWereVisible`: no answer or citation names what its user may not see,
  although index and graph lag behind the vector store and reads fail. Hits of a
  file search are not checked again after their url was resolved; for them it
  holds while index and vector store agree and no files share a url.
- `CitationsMatchAnswer`: citations are looked up by a request of their own; they
  are the sources of the answer if nothing was written, no read failed and no
  limit had to choose.
- `AnswersHold`: what was answered and what is committed agree, with commits
  after the answer, exports outside the transaction, and a stop anywhere.
- `BackendsAgree`: the stores in memory answer like the servers, but for the
  differences it names (section 5).

Browser:

- `OneStream`: the flag that locks the input, the turn on the screen and the
  stream agree, through aborts, switches, failures and reloads.
- `FiledWhereAsked`: a question is shown and saved under the session it was
  asked in.
- `SavedSettled`, `NoChunkLost`: a saved turn is finished, and one whose stream
  ended normally has all its chunks.
- `OwnUnlessAdopted`: a turn has the chunks and citations of its own question
  only, as long as no tab opens turns that were numbered elsewhere; late
  citations do no harm within one tab.
- `DeletedStaysGone`, `SavedGrows`: in one tab a deleted session does not come
  back and a saved one does not shrink. With two tabs on a session both can
  happen; the properties say so in their conditions.
- `ShownIsLatest`: the other pages show and restore the result of the last call
  only, and one that says it is loading has a call whose answer it will use.

Services:

- `ProgressIsTold`: a step is completed on the report of its last agent only; a
  commit that says so leaves none of its work behind; steps complete in order,
  unless a run looked for blockers on another branch. `RunEnds`: liveness.
- `DiffIsCurrent`: whatever other threads left in the caches while files were
  replaced under them, a comparison of files that stayed as they were is of them.
- `DiffIsTrue`: operations and counts tell all changes and nothing else. On a page
  where no line can be mistaken for another (`Clear`) exactly the words are marked
  that `IsDue` names: those of added and deleted lines, and of changed lines without
  a changed word of two letters, as far as a search reaches (the first row of a line,
  up to the cut); and every place of a changed word that touches what the search
  finds of its line. Section 5 says what this leaves unmarked, and marks beside it.
- `FailuresHandled`: no temporary file outlives its request and no failed preview
  stops an answer, but for the failures that `mishap` names.
- `DocumentIsWhole`: cutting loses no text; pieces know their page.
- `FieldsAreGrounded`: an answer is never a partial one, a field is the reply to
  its own call, and a box lies on the page it is drawn on.
- `FilesAreRead`: the text of a parse is located, and pages that need OCR got it.
- `TracesTellCalls`: one record per call with the text its caller had; a run
  shown as finished has all its values.
- `ScoresAreWhole`: a score always has its tokenizer and a model. It lacks what is
  set after the model only if its call began while another thread was loading, or
  after a load that failed with the model set and before one that came to its end
  (both of which the code allows: section 5).
- `CompositionIsSound`: a search finds what was answered as ingested before it
  (unless a restart took it from memory), health reports are true of some moment
  of their request, and a file in several directories keeps its strictest level.
- `EvaluationIsRight`: the distance is the least, the reading order is the page's,
  and the rates count every value.

Every property of these runs has a mutant: a change of one mapped definition, as
a plausible bug would make it, for which TLC finds the property violated.

**Bounds.** Eviction needs one upload more than the store holds: three into two
shows an eviction that spares the polled job, and one that does not. A second
worker lets a poll overlap an ingest; a single worker makes them compete, which
is the hard case for liveness. A second restart would repeat the first from a
state that the first already reaches. For the knowledge base, a document of two
chunks shows an index that stops half way, one of a single chunk the last
iteration being the first; two items under one url, one of them decomposed, and
one item without url are the three cases of `delete_document`; two ingests and
two deletes are every pair of calls. For searches, three documents leave one that
is near, one that only the index ranks and one that only the graph relates; one
write in its three steps meets every read. Three requests are two that overlap
and one that finds what they left. For the chat, two tabs and two questions put
both questions into one session of one tab, into one session from two tabs, or
into two sessions; two chunks show an answer that is appended to; one reload comes
before, in or after a stream. The limit of saved sessions is met in
`chat_own_content` only, where it is one. Three calls of a page are one on the
screen, one that is late and one that is wanted. Two steps show an order, two
attempts a retry that is the last. One overwrite meets every pair of reads of two
comparisons, and caches fill over any number of them. Texts and documents are all
those of the lengths given; their lines hold a repeated word, a shared one, a word
too short to search for, more words than a row takes, a heading, a marker and a row
of a table. One text is drawn in rows shorter than what is searched for, so that
the search falls back, the other in longer ones, so that the cut decides; the same
word stands above a changed one. Four parse files are one
of each kind, with a blank page, an image and either corner of measure. The proofs
cover the rest of the bounds where section 4 says so.

Runs switch deadlock checking off because the modelled requests are finite and
end. Symmetry is used only where no liveness is checked: over the calls of one
kind in the knowledge base, stored documents, and tabs, questions and sessions of
the chat, which nothing tells apart. `browser` checks `SavedGrows` under it, a
property of single steps that treats all of them alike.

**Fairness.** `IngestJobs!Fairness`: weak for what the event loop runs, which
executes whatever is ready. Weak for the end of an ingest: extraction
terminates and the calls of models and stores time out. Strong for the two
actions that need a worker (`StartIngest`, `Poll`): the pool's limiter serves
first come, first served, so that a request which finds the pool full is not
overtaken for ever. None for `Upload` and `Restart`: nobody has to upload.
That a browser gives up at its deadline is a choice, not an obligation, in
`React`; the verdict is reached without it. `StepExecutor!ExecutorFairness`: weak
for the steps of a run, which is one process; its agent ends or is killed after
1800 seconds. None for agents, crashes or users. The run uses it for the part that
moves (`RunnerMoves`). No other component is asked to progress.

## 4. What is proved

The proofs need no assumption beyond the named ones of the constants: bounds are
natural numbers, `NoJob`, `NoSession` and the like are not members of what they
stand beside, functions over items and documents have their types. Sets of jobs,
documents, items, tabs, questions, requests and calls are arbitrary.

`IngestJobs_proofs`: `TypeCorrect`, `NewestRetained`, `RepliesSound`,
`SettledPollsComplete`, `NotFoundFinal` and `ImplementsLifecycle`, from the
inductive invariant `IInv`. Its parts say why: `OrderInv`, that `_order` is the
tail of the sequence of accepted ids, which are distinct (so that an eviction
drops one id, the oldest); `ObjectInv` and `StoredInv`, how far a job object may
lag behind its task; `WritingInv`, what is true while the lock is held between
two writes; `ReplyInv` and `SettledReplyInv`, that a half-built answer shows no
more than the object does, and one begun after the job settled no less. The
argument for the refinement is one lemma per action: the status a poll would be
told changes along an edge of the life cycle or not at all.

`KnowledgeBase_proofs`: `TypeCorrect`, `AckedWhole`, `StoresAgreeAlways`,
`HandleLast` and `ChunksHaveDocument`. `WholeInv` and `AgreeInv` extend the two
promises about acknowledged ingests to ingests under way (what has been written
so far is there, and is still one's own), which makes them inductive.
`DeleteInv` says what a delete has cleared at each stage and that two deletes of
a document see the same url. The proofs separate what an ingest does to its own
document (`OwnStep`), to another ingest's view of the stores (`OtherStep`), and
what a delete takes (`TakingStep`).

`ChatStore_proofs`: every property of the chat (`StreamFlagTrue`,
`SavedAreSettled`, `TurnsFiled`, `ContentIsOwn`, `ChunksComplete`,
`DeletedAreGone`, `SavedOnlyGrows`) over the type invariant `ChatTyped`. The
invariants: `StreamsInv`, what the store shows while a stream runs and that
nothing unfinished is in a list that can be opened; `FiledInv`, the same of every
copy of a turn; `OwnInv`, that the numbers a tab gave are distinct within its
life and that the source of a late chunk or citation finds no turn of another
question under its number (`Numbered`); `WholeInv`, the chunks of a turn whose
stream is under way are those that were sent; `GoneInv`, a session that one tab
alone visited, once deleted, is nowhere to be saved from (`Alone`, `Gone`);
`GrowInv`, what the tab that visits a session alone shows extends what is saved
(`Follow`). Where the argument is an induction along a list, it is a least
counterexample by `NatLessThanWellFounded`.

`Stores_proofs`:

- Search: `GuardHolds` and `CitationsMatch`. `GuardInv` follows the chunks of a
  search from the stores (`held`) to the guard; `FilesInv` does so for files;
  `CalmInv` says, statement by statement, which set a search holds if nothing
  disturbs it, so that two of them end with the same.
- Requests: `RowsAgreeWithAnswers`, from `SessionsInv`: `LockInv`, a flushed
  account is the only one of its email, committed or not; `RowsInv`, what is
  committed stems from committed requests; `RequestInv`, the stations of one.
- Backends: `BackendsDoAgree`, for any documents, metadata and calls.
  `AuthorsAgree` ties the index of authors in memory to the edges in Neo4j: they
  are the same until a document is ingested again under another author.
- Composition: `StoresImplementParts`, every behaviour of `MCStores` is one of each
  of its components, so that their theorems hold of the run; `ReadersTypeCorrect`.

`Browser_proofs`: `LatestIsShown`, from `ShownInv`: the call that a page waits for
is the wanted one, and what sessionStorage keeps as done is what the page holds,
because a save that fails is one that had to grow. `BrowserTypeCorrect` and
`BrowserImplementsParts` are about the composition.

`Documents_proofs`:

- Comparisons: `DiffCurrent`, from `DiffInv`: an entry kept under a modification
  time is a version at least as new, so it is the present one when that time
  still is. `ComparisonIsTrue`, for all texts, every width of a row, length of the
  cut and either way of setting rows, from `MarksInv`: the operations so far are
  those of the lines read so far, in the order of either text. The beginning of a
  line is found in its place alone, if one row holds it (`LineFound`), so the longest
  that a search finds is what is within reach (`LineSearched`); a word is found
  wherever it stands (`WordSearched`). Each entry is marked as it is due, and not at
  all if its line is not sought (`EntryMarked`).
- `NoFileIsLeft`, from `TempInv`: at each station of a request exactly the files of
  that station may exist (`Accounted`); in most, those that a finally block which
  was entered will delete.
- `AnswersAreGrounded`, from `FieldsInv`: what each call has asked, received and
  had parsed. No two calls ask for the same field (`OneAsks`) and the merge keeps
  what each reply says (`ParsedFacts`), so a field is made of the reply to its own
  call (`MadeAsSaid`), however the replies came in.
- `AllFilesAreRead`, from `ParsersInv`: a call has the text of its own mode
  (`CallAgrees`), and a text tells its file (`TextTells`): its page map begins the
  pages where growing sums of their lengths say, its items are the parts of the
  pages, and boxes are the same from either corner.
- `DocumentsAreWhole`, for documents of any length, from `SectionsInv`: `StackInv`,
  the stack holds the headings that enclose the next line; `TextInv`, the bodies
  so far, one after the other, are the text read so far; `PlacesInv`, a section has
  the page and the path of its start. `BlocksTellAll` says the same of the blocks.

`Infrastructure_proofs`:

- `WholeScores`, from `RerankInv`: attributes are set in their order (`LoadsInOrder`),
  so that a model never comes without its tokenizer; behind a model is a load that
  ended, that failed, or that runs past it (`ModelIsLate`), so that a call which met
  neither of the last two has all of it (`AloneIsWhole`).
- `TracesTell`, from `LlmInv`: what the server sent, what the caller had of it and
  what the record will say, at each point of a call and of its tracer.
- `SoundComposition`, from `CompositionInv`: which services a request holds, what
  was ingested into them, which parts of a report were checked when, and that the
  resolver has of each content the strictest entry scanned so far.
- `ProgressTold`, from `RecordInv` (the reports behind what is recorded, in the tree
  and in the last commit) and `OrderInv` (everything before a step that was worked
  on is completed). Both have to speak of the commit as well as of the tree, because
  leaving the branch restores the former. No fairness is needed.

`Services_proofs`:

- `EditDistanceIsLeast`, for two texts of any length. The meaning of the distance
  is a pairing of characters in order (`Pairings`) and what it costs (`Edits`). A
  pairing of beginnings either pairs both last characters (`PathsPair`) or leaves
  one of them alone (`PathsAlone`, `PathsEnd`), so the least cost follows from the
  three neighbours in the table (`LeastGrows`), whose entries are therefore least,
  row by row (`TableIsLeast`). The early answers of the code agree with it.
- `EvaluationsAreRight`, from `EvalInv`: the run is at the page after those it has
  measured, and the counts are those of the values of just these pages, each with
  its page (`Pairs`, `PairsGrow`). The reading order: `SortIsStable`, that positions
  counted by what precedes them are a permutation in the order of the keys;
  `Stacked`, kept by every word (`StackedGrows`), that rows lie strictly below one
  another and that the last would take another word at the height of its last one,
  because a mean moves towards what is added (`NearMean`); `EachWordIsRead`, that
  rows, and rows read from the left, hold each word as often as the label does.
  It is assumed that labels are finite sequences of polygons with finitely many
  corners, at whole numbers.
- `ServicesImplementParts`: every behaviour of `MCServices` is one of each of its
  eleven components (of the executor, without its fairness), so that their theorems
  hold of the run; `ServicesTypeCorrect`.

**Recursion.** The induction theorems of the library cannot be used here (an
operator is their parameter). They are replaced by two lemmas: a set of numbers
that is not empty has a least one (`LeastExists`, from `NatLessThanWellFounded`),
so a set that contains 0, and with a number the next, contains all (`Counting`).
With them a recursive function is shown to satisfy its own equation
(`FlatUnfold`, `BlocksUnfold`), and what holds of it is proved by counting on.
`RecursionExists` says once for all that a function exists which takes each value
from the one before; the tables and rows of `OcrEval` unfold by it (`TableUnfolds`,
`PageUnfolds`).

Only model-checked: the liveness properties `RefinesProgress`, `UploadGetsVerdict`
and `RunEnds` (TLAPS has no support for the fairness arguments they need), and the
divergences of section 5. Every other property of the passing runs is a theorem.

## 5. Divergences between code and comments

Each is a run that TLC ends with a counterexample. `OwnContent` is a defect.

1. `EvictsOnlySettled`: the module comment of `ingest_jobs.py` says that old
   *completed* jobs are dropped; `create` drops the oldest, running or not.
2. `AnswerIsSnapshot`: the response model says that `done` comes with its report
   and `error` with its reason; a poll that overlaps `_update` may have neither.
   The browser then shows success without a chunk count, or a failure with a
   generic text.
3. `DeletedEverywhere`: `delete_document` says it deletes from all three stores;
   chunks stay when the FileDoc has no url or has it in another normal form.
4. `DeletesOneDocument`: `delete_by_source_url` says that all chunks with a url
   are those of one document; uploads under the same name share the url.
5. `ChunksShowTheirContent`: the upload route says overwriting is safe because
   the `doc_id` is the content's hash; the file is read once for the text and
   once for the hash.
6. `OwnContent`: a test of the chat store says that a turn holds what its own
   question streamed; turn ids are unique in one tab between two reloads only,
   and a saved session may bring others into it.
7. `HealthAlwaysAnswers`: the health route says it always answers 200; its
   dependency assembles the services, which fails while PostgreSQL is down.

What else the modules had to be written around, so that the code shows it but no
run is named after it:

- **Races the properties except by name.** `qwen3_reranker.py:82` sets the model
  before its token ids, without a lock: a concurrent `score` uses half of it
  (`beside` in `ScoresAreWhole`). `ExtractionPanel.tsx:117` says that a change of
  file clears the result; `handleRun` shows a late answer all the same
  (`ShownIsLatest` leaves the extraction page out). `app.py` says that services
  are assembled once; threads may do it at once, and then share the first.
- **Half a reranker for good** (`half` in `ScoresAreWhole`): lines 83-86 of
  `qwen3_reranker.py` may raise after `_model` was set at 82 (`int(None)` when the
  tokenizer has no such token, or an encoding). The next `_ensure_loaded` finds a
  model and returns at 74: every later score is read at the ids -1, without prefix
  or suffix, and no error is raised again. The same holds for what raised after
  line 83 with fewer parts missing. Only a load of another thread that was under way
  already still repairs it.
- **Marks** (`IsDue` in `DiffMarks`): a changed marker line (`[IMAGE`, `[TABLE`) or row
  of a table (`|...|`) is told in the answer and never marked on the page
  (`_page_render.py:380-384`); of a line longer than 60 letters only the beginning is
  (392-393), and of one that wraps only the first row, where the search falls back
  to a beginning. `_apply_highlights` says that the same word outside of the line is
  ignored; `_rect_intersects` (346-354) counts boxes that touch, so that the same
  word above or below in an adjacent row, or in a later row of the same line, is
  marked when rows are set close.
- **Failures without cleanup** (`mishap` in `TempFiles`): the second upload of a
  comparison that cannot be extracted leaves the first (`diff.py:95`, against
  "always deleted" at 111), as do copies whose saving fails and a conversion
  before its try block (`parse.py:230`). A failed render stays in its cache.
- **Fields** (`FieldExtraction`): a box found on another page keeps the page of
  the model's answer (`qwen_vl.py:541`); a reply may override another's key; a
  confidence that is not a number passes the threshold.
- **Differences of the backends** (`StoreBackends`): SQL drops rows without the
  field under `$ne` and `$nin`; `date_to` ends at the end of the day in memory and
  at its beginning in PostgreSQL; `days_window` overrides a range in memory only;
  types are compared without case in memory only; once a document was ingested
  again under another author, the two graphs relate it differently.
- **Parsers**: a scan behind digital first pages is not read; a blank page makes
  later pages of Docling's markdown count one less; without Docling a scanned PDF
  gives image markers only.
- **Preview** (`PiecesPlaced` in `Sections`): where two blank lines stand between
  blocks, or a document begins with one, `re.split` (`parse.py:338`) makes the
  block start at the last of them, so that a block that opens a page has the
  number of the page before it. The preview knows no page before the first begins,
  where `structure.py` and the chunker take the first.
- **Records** (`LlmCalls`): an abandoned stream has no trace; a run of MLflow stays
  RUNNING when one of its calls fails.
- **Settings**: the default `embedder_backend` of `settings.py:45` is unknown to
  `build_embedder`, so that services cannot be assembled with defaults.
- **Evaluation**: a page that cannot be read ends the evaluation and its metrics.
- **RAG**: the sources that a user switched off are sent with a question and
  dropped by the route (`rag.py:28-34`).
- **Not in any module**: `get_file` resolves an id by file name and serves new
  content under an old id (`files.py:94`); `_run_ingest_job` catches `Exception`
  only; exports named after the stem of a file overwrite each other
  (`parse.py:188`); an ingest that fails early leaves chunks without a FileDoc,
  which no delete reaches.

## 6. Plan

Done, in this order: the ingest jobs with their refinement and proofs; the three
stores and their proofs; the chat; search and RAG; the other pages; the step
executor; accounts and extraction requests; documents and their algorithms; the
infrastructure; proofs about all of these components and the three compositions.

Left, should the project go on:

1. An abstract specification of the step executor (a step completes once, in
   order, with its work) that `StepExecutor` implements while no run is detoured.
2. `Retrieval` with two requests under one writer, once search keeps state
   between requests.
3. The splitting of long sections by length, with its overlap.

## 7. Not modelled

- Presentation and settings of the browser; prompts, layout of tables, fonts
  inside a document, pixels; scores of models and rankings, which are inputs.
- The scripts that ingest or seed, and the MCP server: each call goes straight on
  to a service above and keeps nothing.
- Migrations, Helm charts, build files.
- Passwords and the signature of tokens: computations of libraries.
- `get_file` and the browsing of files: single reads of one store.
- Threads inside the in-memory stores: `StoreBackends` makes each call one step,
  while `related()` iterates over a list that another thread may change.

`PROJECT.json` lists each part with its reason.
