--------------------------- MODULE MCComposition ---------------------------
(* Environments and files of Composition.                                  *)
EXTENDS Composition

Environment(v, g, s, e) == [vector |-> v, graph |-> g, search |-> s, embedder |-> e]
DataFile(s, n, x) == [source |-> s, name |-> n, content |-> x]

(* A deployment with every store on a server.                              *)
MCServerStores == {Environment("postgres", "neo4j", "postgres", "sentence_transformers")}

(* All in memory, servers and memory mixed, and an assembly that fails.    *)
MCEnvironments ==
  {Environment("memory", "memory", "memory", "fake"),
   Environment("postgres", "neo4j", "memory", "fake"),
   Environment("memory", "memory", "postgres", "memory")}

(* The same content in a restricted and in an open directory, and the same *)
(* name of different files.                                                *)
MCTrees ==
  {[slack |-> <<DataFile("slack", "n1", 1), DataFile("slack", "n2", 2)>>,
    googledrive |-> <<DataFile("googledrive", "n1", 3)>>,
    onedrive |-> <<DataFile("onedrive", "n2", 1), DataFile("onedrive", "n3", 3)>>]}
=============================================================================
