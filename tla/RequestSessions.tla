--------------------------- MODULE RequestSessions ---------------------------
(***************************************************************************)
(* The requests that write to the SQL database: members                    *)
(* (account_service.py), extraction schemas and results (api/v1/extract.py,*)
(* extraction_repository.py), and the master account at the start of a     *)
(* server.  Each has a session of its own, whose transaction the           *)
(* dependencies of scripts/serve_api.py commit only after the answer went  *)
(* out.  An extraction also writes a file that is no part of that          *)
(* transaction, and so does a correction, which has none.                  *)
(*                                                                         *)
(* The database is PostgreSQL (external) at READ COMMITTED: a query sees   *)
(* what is committed, a flush takes the locks of its rows, and email is    *)
(* unique.                                                                 *)
(***************************************************************************)
EXTENDS Integers, FiniteSets

CONSTANTS Emails, DocIds, MaxRequests   (* the last one bounds requests    *)

ASSUME SessionsAssumption == MaxRequests \in Nat \ {0}

VARIABLES
  accounts,   (* committed rows of user_account, with who inserted them    *)
  schema,     (* the committed version of the only schema: the request     *)
              (*   that wrote it last, -1 if deleted                       *)
  results,    (* committed rows of extraction_result                       *)
  exported,   (* export_root/extract/<doc_id>.jsonl: the request that wrote*)
              (*   it, 0 for no file                                       *)
  sessions,   (* the requests, in the order of their numbers               *)
  lastRequest

sessionVars == <<accounts, schema, results, exported, sessions, lastRequest>>

Kinds == {"seed", "add", "remove", "update", "delete", "run", "jsonl", "correct"}
Requesters == 1..MaxRequests
NoSession == [pc |-> "none", kind |-> "none", email |-> "none", doc |-> "none",
              read |-> {}, version |-> 0, answer |-> "none", kept |-> FALSE]

SessionsInit ==
  /\ accounts = {} /\ schema = 0 /\ results = {}
  /\ exported = [d \in DocIds |-> 0]
  /\ sessions = [r \in Requesters |-> NoSession]
  /\ lastRequest = 0

Is(r, pc) == sessions[r].pc = pc
OfKind(r, kinds) == sessions[r].kind \in kinds
Set(r, s) == sessions' = [sessions EXCEPT ![r] = s]
committed == <<accounts, schema, results>>

(* An exception: close() of the session rolls back.                        *)
Refuse(r, a) ==
  /\ Set(r, [sessions[r] EXCEPT !.pc = "closed", !.answer = a])
  /\ UNCHANGED <<committed, exported>>

OpenSession(kind, e, d) ==
  LET r == lastRequest + 1 IN
  /\ r <= MaxRequests /\ lastRequest' = r
  /\ kind = "seed" <=> e = "master"
  /\ Set(r, [NoSession EXCEPT !.pc = "open", !.kind = kind, !.email = e, !.doc = d])
  /\ UNCHANGED <<committed, exported>>

RowsOf(e) == {a \in accounts : a.email = e}

(* What a request reads before it writes: get_by_email and get_by_id (a    *)
(* member is listed, and chosen, by its row), the schema.                  *)
ReadRows(r) ==
  LET s == sessions[r] IN
  /\ Is(r, "open") /\ UNCHANGED lastRequest
  /\ CASE OfKind(r, {"add", "seed"}) /\ RowsOf(s.email) # {} ->
            Refuse(r, IF s.kind = "seed" THEN "ok" ELSE "error")
       [] OfKind(r, {"remove"}) /\ RowsOf(s.email) = {} -> Refuse(r, "error")
       [] OfKind(r, {"update", "delete", "run", "jsonl"}) /\ schema = -1 -> Refuse(r, "error")
       [] OTHER ->
            /\ Set(r, [s EXCEPT !.pc = IF s.kind = "correct" THEN "export" ELSE "work",
                         !.version = schema,
                         !.read = IF s.kind = "remove" THEN RowsOf(s.email) ELSE {}])
            /\ UNCHANGED <<committed, exported>>

(* Nobody else has locked the row that r writes (or its email).            *)
Unlocked(r) ==
  \A q \in Requesters \ {r} : sessions[q].pc \in {"flushed", "export", "answered"} =>
    ~ \/ OfKind(r, {"add", "seed"}) /\ OfKind(q, {"add", "seed", "remove"})
         /\ sessions[q].email = sessions[r].email
      \/ OfKind(r, {"remove"}) /\ OfKind(q, {"remove"}) /\ sessions[q].read = sessions[r].read
      \/ OfKind(r, {"update", "delete"}) /\ OfKind(q, {"update", "delete"})

(* flush(): the unique email or the vanished row of an update refuses it;  *)
(* deleting a row that is gone only warns.  An extraction works before, and*)
(* may fail.                                                               *)
Flush(r) ==
  LET s == sessions[r] IN
  /\ Is(r, "work") /\ Unlocked(r) /\ UNCHANGED lastRequest
  /\ IF \/ OfKind(r, {"add", "seed"}) /\ RowsOf(s.email) # {}
        \/ OfKind(r, {"update"}) /\ schema = -1
     THEN Refuse(r, "error")
     ELSE \/ /\ Set(r, [s EXCEPT !.pc = IF s.kind = "run" THEN "export" ELSE "flushed"])
             /\ UNCHANGED <<committed, exported>>
          \/ OfKind(r, {"run", "jsonl"}) /\ Refuse(r, "error")

(* _persist_extract_jsonl: a failure is part of the answer.                *)
WriteExport(r) ==
  LET s == sessions[r] IN
  /\ Is(r, "export")
  /\ exported' \in {exported, [exported EXCEPT ![s.doc] = r]}
  /\ Set(r, IF s.kind = "correct" THEN [s EXCEPT !.pc = "closed", !.answer = "ok"]
                                  ELSE [s EXCEPT !.pc = "flushed"])
  /\ UNCHANGED <<committed, lastRequest>>

-----------------------------------------------------------------------------
(* What the transaction of r does to the committed rows.                   *)
Apply(r) ==
  LET s == sessions[r] IN
  /\ accounts' = IF OfKind(r, {"add", "seed"})
                 THEN accounts \cup {[email |-> s.email, by |-> r]} ELSE accounts \ s.read
  /\ schema' = CASE s.kind = "update" -> r [] s.kind = "delete" -> -1 [] OTHER -> schema
  /\ results' = IF OfKind(r, {"run", "jsonl"})
                THEN results \cup {[by |-> r, doc |-> s.doc, version |-> s.version]}
                ELSE results

(* Fault: the commit stands in the finally block.                          *)
CommitAnywayFault(r) == Apply(r)

RollBack(r) == UNCHANGED committed

(* A call after the flush raises: the exception is thrown into the         *)
(* dependency, which closes the session without a commit.                  *)
RaiseAfterFlush(r) ==
  /\ Is(r, "flushed")
  /\ RollBack(r)
  /\ Set(r, [sessions[r] EXCEPT !.pc = "closed", !.answer = "error"])
  /\ UNCHANGED <<exported, lastRequest>>

(* The answer goes out; starting a server has none.                        *)
SendAnswer(r) ==
  /\ Is(r, "flushed")
  /\ Set(r, [sessions[r] EXCEPT !.pc = "answered", !.answer = "ok"])
  /\ UNCHANGED <<committed, exported, lastRequest>>

CommitSession(r) ==
  /\ Is(r, "answered")
  /\ \/ Apply(r) /\ Set(r, [sessions[r] EXCEPT !.pc = "closed", !.kept = TRUE])
     \/ UNCHANGED committed /\ Set(r, [sessions[r] EXCEPT !.pc = "closed"])
  /\ UNCHANGED <<exported, lastRequest>>

(* The server stops: PostgreSQL rolls back what was not committed.         *)
ServerCrash ==
  /\ \E r \in Requesters : sessions[r].pc \notin {"none", "closed"}
  /\ sessions' = [r \in Requesters |->
       IF sessions[r].pc = "none" THEN NoSession ELSE [sessions[r] EXCEPT !.pc = "closed"]]
  /\ UNCHANGED <<committed, exported, lastRequest>>

SessionsNext ==
  \/ \E kind \in Kinds, e \in Emails \cup {"master"}, d \in DocIds : OpenSession(kind, e, d)
  \/ \E r \in Requesters :
       ReadRows(r) \/ Flush(r) \/ WriteExport(r) \/ RaiseAfterFlush(r)
         \/ SendAnswer(r) \/ CommitSession(r)
  \/ ServerCrash

SessionsSpec == SessionsInit /\ [][SessionsNext]_sessionVars
-----------------------------------------------------------------------------
Row == [email : Emails \cup {"master"}, by : Requesters]

SessionsTypeOK ==
  /\ accounts \subseteq Row
  /\ schema \in -1..MaxRequests
  /\ \A x \in results : x.doc \in DocIds /\ x.by \in Requesters
  /\ exported \in [DocIds -> 0..MaxRequests]
  /\ \A r \in Requesters :
       /\ sessions[r].pc \in {"none", "open", "work", "flushed", "export", "answered", "closed"}
       /\ sessions[r].answer \in {"none", "ok", "error"}
  /\ lastRequest \in 0..MaxRequests

(* The requests that wrote what is committed.                              *)
Writers == {a.by : a \in accounts} \cup {x.by : x \in results} \cup ({schema} \ {-1, 0})

(* Answers and rows agree, whatever requests overlap and where a server    *)
(* stops: there is one row for an email, nothing committed stems from a    *)
(* request that was answered with an error, a result that was answered is  *)
(* there as soon as its session is closed - unless the commit, which comes *)
(* after the answer, failed - with a schema that has existed, and an       *)
(* exported file is one of the results unless it was corrected by hand.    *)
AnswersHold ==
  /\ \A a, b \in accounts : a.email = b.email => a = b
  /\ \A r \in Writers : sessions[r].answer = "ok" /\ sessions[r].kept
  /\ \A r \in Requesters : sessions[r].kept /\ OfKind(r, {"run", "jsonl"}) =>
       \E x \in results : x.by = r /\ x.doc = sessions[r].doc
  /\ \A x \in results : x.version = 0 \/ sessions[x.version].kept
  /\ \A d \in DocIds : exported[d] # 0 =>
       LET w == sessions[exported[d]] IN
       w.kind = "correct" \/ ~w.kept \/ \E x \in results : x.by = exported[d]
=============================================================================
