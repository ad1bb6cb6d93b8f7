----------------------------- MODULE Composition -----------------------------
(***************************************************************************)
(* How a server comes to its services: scripts/serve_api.py starts the     *)
(* process and registers the files that can be compared; api/app.py puts   *)
(* the services together (factory.py) when a request first needs them, in  *)
(* the thread of that request and without a lock; and GET /healthz reports *)
(* on the parts of the services it was given (services/health.py).         *)
(*                                                                         *)
(* A document is the number of the call that ingests it.  How the three    *)
(* stores take it, step by step, is KnowledgeBase.                         *)
(***************************************************************************)
EXTENDS Integers, Sequences, SequencesExt, FiniteSets

CONSTANTS
  Clients,         (* threads of the server that answer requests           *)
  Configurations,  (* environments: the backends that are chosen           *)
  DataTrees,       (* directories of --data-root                           *)
  FileNames,       (* names and                                            *)
  FileContents,    (*   contents of files                                  *)
  MaxUses,         (* bound: requests                                      *)
  MaxFlips         (* bound: servers that go down or come back             *)

FilesIn(source) == [source : {source}, name : FileNames, content : FileContents]

ASSUME CompositionAssumption ==
  /\ MaxUses \in Nat /\ MaxFlips \in Nat
  /\ \A s \in Configurations :
       /\ s.vector \in {"memory", "postgres"} /\ s.search \in {"memory", "postgres"}
       /\ s.graph \in {"memory", "neo4j"}
       /\ s.embedder \in {"fake", "sentence_transformers", "memory"}
  /\ DataTrees \subseteq [slack : Seq(FilesIn("slack")),
       googledrive : Seq(FilesIn("googledrive")), onedrive : Seq(FilesIn("onedrive"))]

VARIABLES
  settings,  (* the configuration of the process                           *)
  dataTree,      (* the files under --data-root                                *)
  process,   (* "down" or "serving"                                        *)
  up,        (* servers that can be reached                                *)
  flips,     (* times one of them went down or came back                   *)
  registry,  (* the table of build_document_resolver                       *)
  cached,    (* the list in the closure of _install_default_services       *)
  assembled, (* assemblies made so far                                     *)
  contents,  (* what the stores hold: <<store, document>>                  *)
  answered,  (* history: <<part, document>>, the ingest of it was answered *)
             (*   and the part has not lost it in a restart                *)
  uses,      (* of each thread: its request                                *)
  useCount

compositionVars ==
  <<settings, dataTree, process, up, flips, registry, cached, assembled, contents,
    answered, uses, useCount>>

StoreParts == {"vector", "graph", "search"}
HealthParts == <<"embedder", "vector", "graph", "llm", "search">>
Servers == {"postgres", "neo4j", "llm"}
NoUse == [pc |-> "idle", call |-> "none", doc |-> 0, with |-> 0, expects |-> {},
          found |-> {}, report |-> <<>>, wasUp |-> {}, wasDown |-> {}]

CompositionInit ==
  /\ settings \in Configurations /\ dataTree \in DataTrees
  /\ process = "down" /\ up = Servers /\ flips = 0
  /\ registry = <<>> /\ cached = <<>> /\ assembled = 0
  /\ contents = {} /\ answered = {}
  /\ uses = [c \in Clients |-> NoUse] /\ useCount = 0

-----------------------------------------------------------------------------
(* The start of the process.                                               *)

(* build_doc_entries: a directory of a source, its files in the order of   *)
(* their names, its level of access.                                       *)
Scan(t) == t.slack \o t.googledrive \o t.onedrive
AccessOf(e) == IF e.source = "onedrive" THEN 2 ELSE 1

(* A later file takes the identifier over, an earlier one keeps the name.  *)
Put(table, key, e) == [k \in DOMAIN table \cup {key} |-> IF k = key THEN e ELSE table[k]]
Register(table, e) ==
  LET named == Put(table, <<"id", e.content>>, e)
      name == <<"name", e.name>>
  IN IF name \in DOMAIN named THEN named ELSE Put(named, name, e)

(* The table after the first n files.                                      *)
DocumentResolver(t) ==
  LET files == Scan(t)
      table[n \in 0..Len(files)] ==
        IF n = 0 THEN <<>> ELSE Register(table[n - 1], files[n])
  IN table[Len(files)]

(* main(): create_all needs the database; without it, or without           *)
(* JWT_SECRET, the process ends before it serves.                          *)
Serve ==
  /\ process = "down" /\ "postgres" \in up
  /\ process' = "serving" /\ registry' = DocumentResolver(dataTree)
  /\ UNCHANGED <<settings, dataTree, up, flips, cached, assembled, contents,
                 answered, uses, useCount>>

(* The process dies with its requests and the stores in its memory.        *)
ProcessDies ==
  /\ process = "serving" /\ process' = "down"
  /\ registry' = <<>> /\ cached' = <<>>
  /\ contents' = {x \in contents : x[1][1] = 0}
  /\ answered' = {x \in answered : settings[x[1]] # "memory"}
  /\ uses' = [c \in Clients |-> NoUse]
  /\ UNCHANGED <<settings, dataTree, up, flips, assembled, useCount>>

(* A server goes down or comes back, which a report under way may see.     *)
ServerFlips(s) ==
  /\ flips < MaxFlips /\ flips' = flips + 1
  /\ up' = IF s \in up THEN up \ {s} ELSE up \cup {s}
  /\ uses' = [c \in Clients |-> IF uses[c].call # "health" THEN uses[c] ELSE
       [uses[c] EXCEPT !.wasUp = @ \cup up', !.wasDown = @ \cup (Servers \ up')]]
  /\ UNCHANGED <<settings, dataTree, process, registry, cached, assembled, contents,
                 answered, useCount>>

-----------------------------------------------------------------------------
(* The services of a request.                                              *)
AtUse(c, pc) == uses[c].pc = pc
ReadyTo(c, call) == AtUse(c, "ready") /\ uses[c].call = call

(* services() finds the list empty, or not.                                *)
AsksForServices(c, call) ==
  /\ process = "serving" /\ uses[c].pc \in {"idle", "ok", "error"} /\ useCount < MaxUses
  /\ useCount' = useCount + 1
  /\ LET asked == [NoUse EXCEPT !.call = call, !.doc = useCount', !.expects = answered]
         timed == IF call # "health" THEN asked
                  ELSE [asked EXCEPT !.wasUp = up, !.wasDown = Servers \ up]
     IN uses' = [uses EXCEPT ![c] =
          IF cached = <<>> THEN [timed EXCEPT !.pc = "assembles"]
          ELSE [timed EXCEPT !.pc = "ready", !.with = cached[1]]]
  /\ UNCHANGED <<settings, dataTree, process, up, flips, registry, cached, assembled,
                 contents, answered>>

(* build_services: an unknown backend and a constructor that cannot reach  *)
(* PostgreSQL (_ensure_schema) raise; Neo4j and the language model are     *)
(* reached when they are first used.                                       *)
CanAssemble ==
  /\ settings.embedder \in {"fake", "sentence_transformers"}
  /\ "postgres" \in {settings.vector, settings.search} => "postgres" \in up

(* Fault: the thread goes on with what it has put together itself.         *)
OwnAssemblyFault(list) == list[Len(list)]

(* return cached[0]                                                        *)
Returned(list) == list[1]

Assembles(c) ==
  /\ AtUse(c, "assembles") /\ CanAssemble
  /\ assembled' = assembled + 1 /\ cached' = Append(cached, assembled')
  /\ uses' = [uses EXCEPT ![c].pc = "ready", ![c].with = Returned(cached')]
  /\ UNCHANGED <<settings, dataTree, process, up, flips, registry, contents, answered,
                 useCount>>

Fails(c) ==
  /\ uses' = [uses EXCEPT ![c].pc = "error"]
  /\ UNCHANGED <<settings, dataTree, process, up, flips, registry, cached, assembled,
                 contents, answered, useCount>>

(* The exception answers the request with 500 and leaves the list empty.   *)
AssemblyFails(c) == AtUse(c, "assembles") /\ ~CanAssemble /\ Fails(c)

(* The store behind a part: one in memory belongs to an assembly.          *)
StoreOf(n, part) == IF settings[part] = "memory" THEN <<n, part>> ELSE <<0, part>>
Reached(part) == settings[part] \in up \cup {"memory"}

Ingests(c) ==
  /\ ReadyTo(c, "ingest") /\ \A part \in StoreParts : Reached(part)
  /\ contents' = contents \cup
       {<<StoreOf(uses[c].with, part), uses[c].doc>> : part \in StoreParts}
  /\ answered' = answered \cup {<<part, uses[c].doc>> : part \in StoreParts}
  /\ uses' = [uses EXCEPT ![c].pc = "ok"]
  /\ UNCHANGED <<settings, dataTree, process, up, flips, registry, cached, assembled, useCount>>

Searches(c) ==
  /\ ReadyTo(c, "search") /\ \A part \in StoreParts : Reached(part)
  /\ uses' = [uses EXCEPT ![c].pc = "ok", ![c].found =
       {x \in StoreParts \X (1..MaxUses) :
          <<StoreOf(uses[c].with, x[1]), x[2]>> \in contents}]
  /\ UNCHANGED <<settings, dataTree, process, up, flips, registry, cached, assembled,
                 contents, answered, useCount>>

StoreFails(c) ==
  /\ ReadyTo(c, "ingest") \/ ReadyTo(c, "search")
  /\ \E part \in StoreParts : ~Reached(part)
  /\ Fails(c)

-----------------------------------------------------------------------------
(* HealthService.report: one check after the other, nothing raises.        *)
BackendOf(part) ==
  CASE part = "embedder" -> "none" [] part = "llm" -> "llm" [] OTHER -> settings[part]

(* ping(), where the backend has a server.                                 *)
Pinged(part) == BackendOf(part) \in up \cup {"memory", "none"}

Checks(c) ==
  /\ ReadyTo(c, "health")
  /\ LET report == Append(uses[c].report, Pinged(HealthParts[Len(uses[c].report) + 1]))
     IN uses' = [uses EXCEPT ![c].report = report,
          ![c].pc = IF Len(report) = Len(HealthParts) THEN "ok" ELSE "ready"]
  /\ UNCHANGED <<settings, dataTree, process, up, flips, registry, cached, assembled,
                 contents, answered, useCount>>

CompositionNext ==
  \/ Serve \/ ProcessDies \/ \E s \in Servers : ServerFlips(s)
  \/ \E c \in Clients :
       \/ \E call \in {"ingest", "search", "health"} : AsksForServices(c, call)
       \/ Assembles(c) \/ AssemblyFails(c)
       \/ Ingests(c) \/ Searches(c) \/ StoreFails(c) \/ Checks(c)

CompositionSpec == CompositionInit /\ [][CompositionNext]_compositionVars

-----------------------------------------------------------------------------
CompositionTypeOK ==
  /\ process \in {"down", "serving"} /\ up \subseteq Servers
  /\ flips \in 0..MaxFlips /\ useCount \in 0..MaxUses
  /\ assembled \in 0..MaxUses /\ cached \in Seq(1..assembled)
  /\ answered \subseteq StoreParts \X (1..MaxUses)
  /\ \A c \in Clients : uses[c].pc \in {"idle", "assembles", "ready", "ok", "error"}

(* Whichever requests put services together at the same time, all of them  *)
(* share one set of stores: a search finds, in every part, each document   *)
(* whose ingest was answered before the search began and that no restart   *)
(* has taken from memory since (api/app.py, services()).                   *)
OneKnowledgeBase ==
  \A c \in Clients :
    uses[c].call = "search" /\ AtUse(c, "ok") => uses[c].expects \subseteq uses[c].found

(* A report calls a part well only if its server was up at some time of    *)
(* the request, ill only if it was down at some time, and never a part ill *)
(* that has no server (services/health.py).                                *)
ReportsAreTrue ==
  \A c \in Clients : \A i \in DOMAIN uses[c].report :
    LET server == BackendOf(HealthParts[i]) IN
    IF uses[c].report[i] THEN server \in Servers => server \in uses[c].wasUp
                         ELSE server \in uses[c].wasDown

(* A file that lies in several directories is compared under the strictest *)
(* level of access that one of its copies has, and a name always means a   *)
(* file of that name (document_registry.py over build_doc_entries).        *)
StrictestCopy ==
  process = "serving" =>
    \A e \in ToSet(Scan(dataTree)) :
      /\ AccessOf(registry[<<"id", e.content>>]) >= AccessOf(e)
      /\ registry[<<"id", e.content>>].content = e.content
      /\ registry[<<"name", e.name>>].name = e.name

(* api/health.py: the route always answers 200.                            *)
HealthAlwaysAnswers ==
  \A c \in Clients : uses[c].call = "health" => ~AtUse(c, "error")

(* The services of a process are one, its reports are true, and its        *)
(* resolver keeps the access of what it resolves.                          *)
CompositionIsSound == OneKnowledgeBase /\ ReportsAreTrue /\ StrictestCopy
=============================================================================
