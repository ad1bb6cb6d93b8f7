------------------------------ MODULE MCStores ------------------------------
(***************************************************************************)
(* What the server keeps: ingests and deletes over the three stores, the   *)
(* requests that read them, the two builds of those stores, and the SQL    *)
(* database.  Each is modelled with the part of the stores that it needs   *)
(* and no property speaks of two of them, so only one moves in a           *)
(* behaviour, which leaves the sum of their state spaces instead of the    *)
(* product.                                                                *)
(***************************************************************************)
EXTENDS MCKnowledgeBase, Retrieval, RequestSessions, StoreBackends

VARIABLE part          \* the component that moves

ReadersTypeOK == RetrievalTypeOK /\ SessionsTypeOK /\ BackendsTypeOK

StoresInit ==
  /\ part \in {"ingestion", "retrieval", "sessions", "backends"}
  /\ Init /\ RetrievalInit /\ SessionsInit /\ BackendsInit

IngestionStep ==
  /\ part = "ingestion" /\ Next
  /\ UNCHANGED <<part, retrievalVars, sessionVars, backendVars>>

RetrievalStep ==
  /\ part = "retrieval" /\ RetrievalNext
  /\ UNCHANGED <<part, vars, sessionVars, backendVars>>

SessionsStep ==
  /\ part = "sessions" /\ SessionsNext
  /\ UNCHANGED <<part, vars, retrievalVars, backendVars>>

BackendsStep ==
  /\ part = "backends" /\ BackendsNext
  /\ UNCHANGED <<part, vars, retrievalVars, sessionVars>>

StoresNext == IngestionStep \/ RetrievalStep \/ SessionsStep \/ BackendsStep

StoresSpec ==
  StoresInit /\ [][StoresNext]_<<part, vars, retrievalVars, sessionVars, backendVars>>

-----------------------------------------------------------------------------
(* Metadata of StoreBackends: types in two cases, fields without a value,  *)
(* days before, inside and after the ranges.                               *)
Meta(author, d, source, access, type, day) ==
  [author |-> author, dept |-> d, source |-> source, access |-> access,
   type |-> type, at |-> day]
MCMetas ==
  {Meta("kim", "dev", "slack", 1, "PDF", 3), Meta("lee", "dev", "local", 2, "pdf", -1),
   Meta("lee", "none", "local", 1, "none", 2), Meta("none", "none", "slack", 2, "pdf", 5)}

StoresSymmetry == MCSymmetry \cup Permutations(StoredDocs)
=============================================================================
