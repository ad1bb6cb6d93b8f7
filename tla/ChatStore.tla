------------------------------ MODULE ChatStore ------------------------------
(***************************************************************************)
(* The chat of the browser: the store of frontend/src/lib/chatStore.ts,    *)
(* the saved sessions of chatSessions.ts and what ChatPage.tsx lets a user *)
(* do with them.  Each tab has its own store, mirrored in sessionStorage,  *)
(* which survives a reload; all tabs share the sessions in localStorage.   *)
(*                                                                         *)
(* A tab runs one callback at a time.  Aborting a stream rejects its read  *)
(* at once, and the handler of that rejection runs before the next event   *)
(* of the tab, so an abort and its handler belong to one action.           *)
(***************************************************************************)
EXTENDS Integers, Sequences, FiniteSets

CONSTANTS
  Tabs,
  Queries, NoQuery,    (* questions; each is asked once                    *)
  Sessions, NoSession, (* session ids; makeSessionId never repeats one     *)
  Limit,               (* LIMIT of chatSessions.ts                         *)
  MaxChunks,           (* bound: chunks of one answer                      *)
  MaxReloads           (* bound: reloads of all tabs together              *)

ASSUME ChatAssumption ==
  /\ NoQuery \notin Queries /\ NoSession \notin Sessions
  /\ Limit \in Nat \ {0} /\ MaxChunks \in Nat /\ MaxReloads \in Nat

VARIABLES
  turns,         (* of each tab: the conversation on the screen,           *)
  session,       (*   its session id,                                      *)
  isStreaming,   (*   the flag that keeps send() from starting a second    *)
                 (*   stream,                                              *)
  stream,        (*   the question whose stream is being read, with the id *)
                 (*   of its turn (activeController and send()'s closure), *)
  counter,       (*   turnIdCounter,                                       *)
  cited,         (*   the questions whose citations are still to arrive    *)
  listed,        (*   and the sessions that the drawer shows               *)
  saved,         (* the sessions in localStorage, latest update first      *)
  owner,         (* history: the session in which each question was asked  *)
  sent,          (* history: how many chunks the server has sent for it    *)
  finished,      (* history: the questions whose stream ended normally     *)
  adopted,       (* history: some tab opened a session with turns that     *)
                 (* were numbered elsewhere                                *)
  visitors,      (* history: the tabs that opened or deleted a session     *)
  deleted,       (* history: the sessions that a user deleted              *)
  life,          (* history: how often each tab was reloaded               *)
  reloads

tabVars == <<turns, session, isStreaming, stream, counter, cited, listed>>
history == <<owner, sent, finished, adopted, visitors, deleted, life>>
vars == <<tabVars, saved, history, reloads>>

Status == {"streaming", "done", "error"}

(* A turn: its number, its question, whose chunks make up its answer,      *)
(* whose citations it shows, and (history) where it was numbered.          *)
NewTurn(t, q) ==
  [id |-> counter[t] + 1, query |-> q, answer |-> <<>>, citations |-> NoQuery,
   status |-> "streaming", tab |-> t, life |-> life[t]]
NoStream == [query |-> NoQuery, id |-> 0]

Ids(ts) == {ts[i].id : i \in DOMAIN ts}

(* Fault: a reloaded tab counts from the start.                            *)
RestartFault(ts) == 0

MaxId(ts) == CHOOSE n \in {0} \cup Ids(ts) : \A m \in Ids(ts) : m <= n

(* state.turns.map(t => t.id === id ? ... : t): every turn with that id.   *)
Marked(ts, id, status) ==
  [i \in DOMAIN ts |-> IF ts[i].id = id THEN [ts[i] EXCEPT !.status = status]
                                        ELSE ts[i]]

Streaming(t) == stream[t] # NoStream

Init ==
  /\ turns = [t \in Tabs |-> <<>>]
  /\ session = [t \in Tabs |-> NoSession]
  /\ isStreaming = [t \in Tabs |-> FALSE]
  /\ stream = [t \in Tabs |-> NoStream]
  /\ counter = [t \in Tabs |-> 0]
  /\ cited = [t \in Tabs |-> {}]
  /\ listed = [t \in Tabs |-> <<>>]
  /\ saved = <<>>
  /\ owner = [q \in Queries |-> NoSession]
  /\ sent = [q \in Queries |-> 0]
  /\ finished = {}
  /\ adopted = FALSE
  /\ visitors = [s \in Sessions |-> {}]
  /\ deleted = {}
  /\ life = [t \in Tabs |-> 0]
  /\ reloads = 0

-----------------------------------------------------------------------------
(* The drawer of a tab is read again whenever the tab does something.      *)
Shown(t) == listed' = [listed EXCEPT ![t] = saved']
Visit(t, s) == visitors' = [visitors EXCEPT ![s] = @ \cup {t}]

(* send(): nothing while a stream is read; otherwise a new turn, in a new  *)
(* session if there is none, and its stream.                               *)
Send(t, q) ==
  LET turn == NewTurn(t, q) IN
  /\ ~isStreaming[t] /\ owner[q] = NoSession
  /\ \E s \in IF session[t] = NoSession THEN {x \in Sessions : visitors[x] = {}}
                                       ELSE {session[t]} :
       /\ session' = [session EXCEPT ![t] = s]
       /\ owner' = [owner EXCEPT ![q] = s]
       /\ Visit(t, s)
  /\ turns' = [turns EXCEPT ![t] = Append(@, turn)]
  /\ isStreaming' = [isStreaming EXCEPT ![t] = TRUE]
  /\ stream' = [stream EXCEPT ![t] = [query |-> q, id |-> turn.id]]
  /\ counter' = [counter EXCEPT ![t] = turn.id]
  /\ UNCHANGED <<cited, saved, sent, finished, adopted, deleted, life, reloads>>
  /\ Shown(t)

(* Fault: the answer is the latest chunk.                                  *)
LatestChunkFault(ts, from) ==
  [i \in DOMAIN ts |-> IF ts[i].id = from.id
                       THEN [ts[i] EXCEPT !.answer = <<from.query>>]
                       ELSE ts[i]]

(* A chunk of the stream goes to the turns that have its id.               *)
Received(ts, from) ==
  [i \in DOMAIN ts |-> IF ts[i].id = from.id
                       THEN [ts[i] EXCEPT !.answer = Append(@, from.query)]
                       ELSE ts[i]]

Chunk(t) ==
  LET q == stream[t].query IN
  /\ Streaming(t) /\ sent[q] < MaxChunks
  /\ sent' = [sent EXCEPT ![q] = @ + 1]
  /\ turns' = [turns EXCEPT ![t] = Received(@, stream[t])]
  /\ UNCHANGED <<session, isStreaming, stream, counter, cited, saved, owner,
                 finished, adopted, visitors, deleted, life, reloads>>
  /\ Shown(t)

(* saveSession: the session in front, an older version of it and the       *)
(* sessions beyond the limit dropped.                                      *)
Others(s) ==
  LET others[n \in 0..Len(saved)] ==
        IF n = 0 THEN <<>>
        ELSE IF saved[n].id = s THEN others[n - 1] ELSE Append(others[n - 1], saved[n])
  IN  others[Len(saved)]
Saved(s, ts) ==
  LET all == <<[id |-> s, turns |-> ts]>> \o Others(s) IN
  SubSeq(all, 1, IF Len(all) < Limit THEN Len(all) ELSE Limit)

(* _persistSession: the conversation on the screen.                        *)
Persist(t, ts) ==
  saved' = IF session[t] = NoSession \/ ts = <<>> THEN saved ELSE Saved(session[t], ts)

(* Fault: the conversation is saved before the turn is done.               *)
EarlySaveFault(t) ==
  /\ Streaming(t)
  /\ finished' = finished \cup {stream[t].query}
  /\ Persist(t, turns[t])
  /\ turns' = [turns EXCEPT ![t] = Marked(@, stream[t].id, "done")]
  /\ isStreaming' = [isStreaming EXCEPT ![t] = FALSE]
  /\ cited' = [cited EXCEPT ![t] = @ \cup {stream[t]}]
  /\ stream' = [stream EXCEPT ![t] = NoStream]
  /\ UNCHANGED <<session, counter, owner, sent, adopted, visitors, deleted, life,
                 reloads>>
  /\ Shown(t)

(* The stream ends: the turn is done, its citations are asked for and the  *)
(* conversation is saved.                                                  *)
EndStream(t) ==
  /\ Streaming(t)
  /\ finished' = finished \cup {stream[t].query}
  /\ turns' = [turns EXCEPT ![t] = Marked(@, stream[t].id, "done")]
  /\ Persist(t, turns'[t])
  /\ isStreaming' = [isStreaming EXCEPT ![t] = FALSE]
  /\ cited' = [cited EXCEPT ![t] = @ \cup {stream[t]}]
  /\ stream' = [stream EXCEPT ![t] = NoStream]
  /\ UNCHANGED <<session, counter, owner, sent, adopted, visitors, deleted, life,
                 reloads>>
  /\ Shown(t)

(* It fails: the turn shows the error, and nothing is saved.               *)
FailStream(t) ==
  /\ Streaming(t)
  /\ turns' = [turns EXCEPT ![t] = Marked(@, stream[t].id, "error")]
  /\ isStreaming' = [isStreaming EXCEPT ![t] = FALSE]
  /\ stream' = [stream EXCEPT ![t] = NoStream]
  /\ UNCHANGED <<session, counter, cited, saved, history, reloads>>
  /\ Shown(t)

(* The citations of an answer arrive, or never do.                         *)
Answer(t) ==
  \E c \in cited[t] :
    /\ cited' = [cited EXCEPT ![t] = @ \ {c}]
    /\ \/ /\ turns' = [turns EXCEPT ![t] = [i \in DOMAIN turns[t] |->
                        IF turns[t][i].id = c.id
                        THEN [turns[t][i] EXCEPT !.citations = c.query]
                        ELSE turns[t][i]]]
          /\ listed' = [listed EXCEPT ![t] = saved]
       \/ UNCHANGED <<turns, listed>>
    /\ UNCHANGED <<session, isStreaming, stream, counter, saved, history, reloads>>

-----------------------------------------------------------------------------
(* What the user does.  Replace(t, ts, s) aborts the stream, shows other   *)
(* turns, and then lets the handler of the abort mark its turn among them. *)

(* Fault: the session id stays.                                            *)
TurnsOnlyFault(t, ts, s) ==
  /\ turns' = [turns EXCEPT ![t] =
                 IF Streaming(t) THEN Marked(ts, stream[t].id, "done") ELSE ts]
  /\ isStreaming' = [isStreaming EXCEPT ![t] = FALSE]
  /\ stream' = [stream EXCEPT ![t] = NoStream]
  /\ UNCHANGED session

Replace(t, ts, s) ==
  /\ turns' = [turns EXCEPT ![t] =
                 IF Streaming(t) THEN Marked(ts, stream[t].id, "done") ELSE ts]
  /\ session' = [session EXCEPT ![t] = s]
  /\ isStreaming' = [isStreaming EXCEPT ![t] = FALSE]
  /\ stream' = [stream EXCEPT ![t] = NoStream]

Stop(t) ==
  /\ Streaming(t)
  /\ Replace(t, turns[t], session[t])
  /\ UNCHANGED <<counter, cited, saved, history, reloads>>
  /\ Shown(t)

(* Fault: the new chat keeps the id of the old session.                    *)
KeepIdFault(t) ==
  /\ Replace(t, <<>>, session[t])
  /\ UNCHANGED <<counter, cited, saved, history, reloads>>
  /\ Shown(t)

NewChat(t) ==
  /\ Replace(t, <<>>, NoSession)
  /\ UNCHANGED <<counter, cited, saved, history, reloads>>
  /\ Shown(t)

(* A session of the drawer is opened, as it was when the drawer read it.   *)
SelectSession(t) ==
  /\ \E k \in DOMAIN listed[t] :
       LET ts == listed[t][k].turns IN
       /\ Replace(t, ts, listed[t][k].id)
       /\ adopted' = (adopted \/ \E i \in DOMAIN ts :
                        ts[i].tab # t \/ ts[i].life # life[t])
       /\ Visit(t, listed[t][k].id)
  /\ UNCHANGED <<counter, cited, saved, owner, sent, finished, deleted, life,
                 reloads>>
  /\ Shown(t)

(* Fault: the open chat of a deleted session goes on.                      *)
GoesOnFault(t) ==
  /\ \E k \in DOMAIN listed[t] :
       /\ saved' = Others(listed[t][k].id)
       /\ deleted' = deleted \cup {listed[t][k].id}
       /\ Visit(t, listed[t][k].id)
  /\ UNCHANGED <<turns, session, isStreaming, stream, counter, cited, owner, sent,
                 finished, adopted, life, reloads>>
  /\ Shown(t)

(* A session of the drawer is deleted; if it is open, a new chat starts.   *)
DeleteSession(t) ==
  /\ \E k \in DOMAIN listed[t] :
       /\ saved' = Others(listed[t][k].id)
       /\ deleted' = deleted \cup {listed[t][k].id}
       /\ Visit(t, listed[t][k].id)
       /\ IF session[t] = listed[t][k].id
          THEN Replace(t, <<>>, NoSession)
          ELSE UNCHANGED <<turns, session, isStreaming, stream>>
  /\ UNCHANGED <<counter, cited, owner, sent, finished, adopted, life, reloads>>
  /\ Shown(t)

(* The page is left and comes back: it reads the drawer.                   *)
Look(t) ==
  /\ listed' = [listed EXCEPT ![t] = saved]
  /\ UNCHANGED <<turns, session, isStreaming, stream, counter, cited, saved,
                 history, reloads>>

(* Faults: the unfinished turn is left alone; it gets a status of its own. *)
LeftAloneFault(ts) == ts
InterruptedFault(ts) ==
  [i \in DOMAIN ts |-> IF ts[i].status = "streaming"
                       THEN [ts[i] EXCEPT !.status = "interrupted"] ELSE ts[i]]

(* hydrate(): what a reload makes of the mirror in sessionStorage.         *)
Hydrated(ts) ==
  [i \in DOMAIN ts |-> IF ts[i].status = "streaming"
                       THEN [ts[i] EXCEPT !.status = "done"] ELSE ts[i]]

Reload(t) ==
  /\ reloads < MaxReloads /\ reloads' = reloads + 1
  /\ turns' = [turns EXCEPT ![t] = Hydrated(@)]
  /\ isStreaming' = [isStreaming EXCEPT ![t] = FALSE]
  /\ stream' = [stream EXCEPT ![t] = NoStream]
  /\ counter' = [counter EXCEPT ![t] = MaxId(turns[t])]
  /\ cited' = [cited EXCEPT ![t] = {}]
  /\ life' = [life EXCEPT ![t] = @ + 1]
  /\ listed' = [listed EXCEPT ![t] = saved]
  /\ UNCHANGED <<session, saved, owner, sent, finished, adopted, visitors, deleted>>

TabStep(t) ==
  \/ \E q \in Queries : Send(t, q)
  \/ Chunk(t) \/ EndStream(t) \/ FailStream(t) \/ Answer(t)
  \/ Stop(t) \/ NewChat(t) \/ SelectSession(t) \/ DeleteSession(t)
  \/ Look(t) \/ Reload(t)

Next == \E t \in Tabs : TabStep(t)

Spec == Init /\ [][Next]_vars

-----------------------------------------------------------------------------
Turn == [id : Nat \ {0}, query : Queries, answer : Seq(Queries),
         citations : Queries \cup {NoQuery}, status : Status,
         tab : Tabs, life : 0..MaxReloads]
SavedSession == [id : Sessions, turns : Seq(Turn)]
Source == [query : Queries, id : Nat \ {0}]

TypeOK ==
  /\ turns \in [Tabs -> Seq(Turn)]
  /\ session \in [Tabs -> Sessions \cup {NoSession}]
  /\ isStreaming \in [Tabs -> BOOLEAN]
  /\ stream \in [Tabs -> Source \cup {NoStream}]
  /\ counter \in [Tabs -> Nat]
  /\ cited \in [Tabs -> SUBSET Source]
  /\ listed \in [Tabs -> Seq(SavedSession)]
  /\ saved \in Seq(SavedSession)
  /\ owner \in [Queries -> Sessions \cup {NoSession}]
  /\ sent \in [Queries -> 0..MaxChunks]
  /\ finished \subseteq Queries
  /\ adopted \in BOOLEAN
  /\ visitors \in [Sessions -> SUBSET Tabs]
  /\ deleted \subseteq Sessions
  /\ life \in [Tabs -> 0..MaxReloads]
  /\ reloads \in 0..MaxReloads

(* The flag tells the truth: a tab that reads a stream shows its turn,     *)
(* last and unfinished, and refuses a second one; a tab that reads none    *)
(* shows no unfinished turn and accepts a question.  So no abort, reload   *)
(* or failure leaves the input locked or a turn waiting for ever.          *)
OneStream ==
  \A t \in Tabs :
    /\ isStreaming[t] = Streaming(t)
    /\ Streaming(t) =>
         /\ turns[t] # <<>>
         /\ turns[t][Len(turns[t])].query = stream[t].query
         /\ turns[t][Len(turns[t])].status = "streaming"
    /\ \A i \in DOMAIN turns[t] :
         turns[t][i].status = "streaming" => Streaming(t) /\ i = Len(turns[t])

(* However streams, aborts and switches of session interleave, a question  *)
(* and its answer are shown and saved under the session they were asked in.*)
FiledWhereAsked ==
  /\ \A t \in Tabs : \A i \in DOMAIN turns[t] :
       owner[turns[t][i].query] = session[t] /\ session[t] # NoSession
  /\ \A k \in DOMAIN saved : \A i \in DOMAIN saved[k].turns :
       owner[saved[k].turns[i].query] = saved[k].id

(* What is saved is finished: no tab can open a session that shows a       *)
(* stream which nobody reads.                                              *)
SavedSettled ==
  \A k \in DOMAIN saved : \A i \in DOMAIN saved[k].turns :
    saved[k].turns[i].status # "streaming"

(* Of a stream that ended normally every chunk is in its turn, wherever    *)
(* that is shown or saved.                                                 *)
Whole(turn) ==
  turn.query \in finished =>
    Cardinality({i \in DOMAIN turn.answer : turn.answer[i] = turn.query}) = sent[turn.query]
NoChunkLost ==
  /\ \A t \in Tabs : \A i \in DOMAIN turns[t] : Whole(turns[t][i])
  /\ \A k \in DOMAIN saved : \A i \in DOMAIN saved[k].turns :
       Whole(saved[k].turns[i])

(* Every turn shows the chunks and citations of its own question only, as  *)
(* long as no tab opens a session with turns numbered elsewhere: in        *)
(* another tab, or in this one before it was reloaded.                     *)
Own(turn) ==
  /\ \A i \in DOMAIN turn.answer : turn.answer[i] = turn.query
  /\ turn.citations \in {NoQuery, turn.query}
AllOwn ==
  /\ \A t \in Tabs : \A i \in DOMAIN turns[t] : Own(turns[t][i])
  /\ \A k \in DOMAIN saved : \A i \in DOMAIN saved[k].turns : Own(saved[k].turns[i])
OwnUnlessAdopted == adopted \/ AllOwn

(* A saved session only grows, unless two tabs have opened it.             *)
Questions(ts) == [i \in DOMAIN ts |-> ts[i].query]
SavedGrows ==
  [][\A k \in DOMAIN saved, m \in DOMAIN saved' :
       /\ saved[k].id = saved'[m].id
       /\ Cardinality(visitors[saved[k].id]) <= 1
       => LET old == Questions(saved[k].turns)
              new == Questions(saved'[m].turns)
          IN Len(old) <= Len(new) /\ SubSeq(new, 1, Len(old)) = old]_saved

(* A deleted session stays gone: neither a stream that was under way, nor  *)
(* the drawer, nor a late answer brings it back, unless two tabs have      *)
(* opened or deleted it.                                                   *)
DeletedStaysGone ==
  \A k \in DOMAIN saved :
    saved[k].id \in deleted => Cardinality(visitors[saved[k].id]) > 1

-----------------------------------------------------------------------------
(* What a test of the code says and the code does not do.                  *)

(* chatStore.test.ts: the chunks of a stream make up the answer of the     *)
(* turn that was sent, and of no other.                                    *)
OwnContent == AllOwn
=============================================================================
