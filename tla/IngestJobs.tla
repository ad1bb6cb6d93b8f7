----------------------------- MODULE IngestJobs -----------------------------
(***************************************************************************)
(* The asynchronous upload: IngestJobStore (services/ingest_jobs.py), the  *)
(* upload, runner and status handlers of api/v1/ingest.py, and the browser *)
(* that polls (frontend/src/api/client.ts).                                *)
(*                                                                         *)
(* Three kinds of thread meet in the store.  ingest_upload and             *)
(* _run_ingest_job are coroutines of ONE event loop, so their updates of   *)
(* the store never overlap each other.  ingest_item runs in a worker of    *)
(* the thread pool.  ingest_job_status is a plain function, so it runs in  *)
(* a worker of the same pool, beside the loop: it takes the lock to find   *)
(* the job, then reads the fields of the live object without it.           *)
(***************************************************************************)
EXTENDS Integers, Sequences, FiniteSets

CONSTANTS
  Jobs,          (* job ids; uuid4 never repeats one                       *)
  NoJob,         (* not a job id                                           *)
  Watched,       (* the uploads whose 202 reaches a browser that polls     *)
  MaxJobs,       (* IngestJobStore(max_jobs)                               *)
  ThreadLimit,   (* workers of the pool the requests and ingests share     *)
  MaxRestarts    (* bound: how often the process restarts                  *)

ASSUME MaxJobsAssumption == MaxJobs \in Nat \ {0}
ASSUME JobsAssumption == NoJob \notin Jobs /\ Watched \subseteq Jobs
ASSUME BoundsAssumption == ThreadLimit \in Nat \ {0} /\ MaxRestarts \in Nat

VARIABLES
  stored,        (* the keys of IngestJobStore._jobs                       *)
  order,         (* IngestJobStore._order, oldest first                    *)
  job,           (* the IngestJob objects: an evicted one lives on as long *)
                 (* as a poll or the runner still holds it                 *)
  writing,       (* the job whose _update stands between its two writes    *)
                 (* and holds the lock, or NoJob                           *)
  task,          (* how far the background task of a job is                *)
  client,        (* how far the browser that uploaded the job is           *)
  reply,         (* the fields of the poll's answer read so far            *)
  accepted,      (* history: the ids create() returned since the start     *)
  settledAtGet,  (* history: the job was settled when this poll found it   *)
  restarts

storeVars == <<stored, order, job, writing, accepted>>
clientVars == <<client, reply, settledAtGet>>
vars == <<stored, order, job, writing, task, client, reply, accepted,
          settledAtGet, restarts>>

JobStatus == {"pending", "running", "done", "error"}
Settled == {"done", "error"}
IngestJob == [status : JobStatus, report : BOOLEAN, error : BOOLEAN]
NewJob == [status |-> "pending", report |-> FALSE, error |-> FALSE]

(* A task ends in "succeeded" or "failed", or is "dead": killed before its *)
(* ingest ended.                                                           *)
TaskState == {"none", "scheduled", "waiting", "ingesting", "returned",
              "raised", "succeeded", "failed", "dead"}
Reading == {"readStatus", "readReport", "readError"}
Verdict == {"ok", "failed", "notFound", "gaveUp"}
ClientState == {"none", "asking", "answered"} \cup Reading \cup Verdict

FreeThread ==
  Cardinality({j \in Jobs : task[j] = "ingesting"})
    + Cardinality({j \in Jobs : client[j] \in Reading}) < ThreadLimit

(* Fault: pop() for pop(0), so that the newest ids are dropped.            *)
EvictNewestFault(ids) ==
  IF Len(ids) > MaxJobs THEN SubSeq(ids, 1, MaxJobs) ELSE ids

(* create() drops the oldest ids, whatever their status, until max_jobs    *)
(* are left.                                                               *)
Evict(ids) ==
  IF Len(ids) > MaxJobs
  THEN SubSeq(ids, Len(ids) - MaxJobs + 1, Len(ids))
  ELSE ids

Members(ids) == {ids[i] : i \in 1..Len(ids)}

Init ==
  /\ stored = {}
  /\ order = <<>>
  /\ job = [j \in Jobs |-> NewJob]
  /\ writing = NoJob
  /\ task = [j \in Jobs |-> "none"]
  /\ client = [j \in Jobs |-> "none"]
  /\ reply = [j \in Jobs |-> NewJob]
  /\ accepted = <<>>
  /\ settledAtGet = [j \in Jobs |-> FALSE]
  /\ restarts = 0

-----------------------------------------------------------------------------
(* The event loop.                                                         *)

(* ingest_upload, past its early returns: the file is on disk, the job is  *)
(* registered and its task is scheduled.  The 202 need not arrive.         *)
Upload(j) ==
  /\ task[j] = "none"
  /\ writing = NoJob
  /\ order' = Evict(Append(order, j))
  /\ stored' = (stored \cup {j}) \cap Members(order')
  /\ accepted' = Append(accepted, j)
  /\ task' = [task EXCEPT ![j] = "scheduled"]
  /\ client' = [client EXCEPT ![j] =
                  IF j \in Watched THEN "asking" ELSE "gaveUp"]
  /\ UNCHANGED <<job, writing, reply, settledAtGet, restarts>>

(* Fault: set_running is forgotten.                                        *)
SkipRunningFault(j) ==
  /\ task[j] = "scheduled"
  /\ writing = NoJob
  /\ task' = [task EXCEPT ![j] = "waiting"]
  /\ UNCHANGED <<storeVars, clientVars, restarts>>

(* _run_ingest_job calls set_running, then queues for a worker thread.     *)
SetRunning(j) ==
  /\ task[j] = "scheduled"
  /\ writing = NoJob
  /\ job' = IF j \in stored THEN [job EXCEPT ![j].status = "running"] ELSE job
  /\ task' = [task EXCEPT ![j] = "waiting"]
  /\ UNCHANGED <<stored, order, writing, accepted, clientVars, restarts>>

(* run_in_threadpool: service.ingest_item starts when a worker is free ... *)
StartIngest(j) ==
  /\ task[j] = "waiting"
  /\ FreeThread
  /\ task' = [task EXCEPT ![j] = "ingesting"]
  /\ UNCHANGED <<storeVars, clientVars, restarts>>

(* ... and returns its report or raises.                                   *)
IngestEnds(j) ==
  /\ task[j] = "ingesting"
  /\ \E result \in {"returned", "raised"} :
       task' = [task EXCEPT ![j] = result]
  /\ UNCHANGED <<storeVars, clientVars, restarts>>

(* How the task of a job whose ingest ended is remembered.                 *)
Outcome(state) == IF state = "returned" THEN "succeeded" ELSE "failed"

(* Fault: a typo in the status literal of set_error.                       *)
StatusTypoFault(j) ==
  /\ task[j] \in {"returned", "raised"} /\ writing = NoJob /\ j \in stored
  /\ job' = [job EXCEPT ![j].status =
                IF task[j] = "returned" THEN "done" ELSE "failed"]
  /\ writing' = j
  /\ UNCHANGED <<stored, order, task, accepted, clientVars, restarts>>

(* Fault: _update puts an expired job back instead of ignoring it.         *)
ResurrectFault(j) ==
  /\ task[j] \in {"returned", "raised"} /\ writing = NoJob
  /\ stored' = stored \cup {j}
  /\ job' = [job EXCEPT ![j].status = "done"]
  /\ writing' = j
  /\ UNCHANGED <<order, task, accepted, clientVars, restarts>>

(* Fault: the except branch of _run_ingest_job forgets set_error.          *)
SwallowErrorFault(j) ==
  /\ task[j] \in {"returned", "raised"} /\ writing = NoJob
  /\ IF task[j] = "returned" /\ j \in stored
     THEN /\ job' = [job EXCEPT ![j].status = "done"]
          /\ writing' = j
          /\ UNCHANGED task
     ELSE /\ task' = [task EXCEPT ![j] = Outcome(task[j])]
          /\ UNCHANGED <<job, writing>>
  /\ UNCHANGED <<stored, order, accepted, clientVars, restarts>>

(* set_done and set_error: _update takes the lock and writes the status;   *)
(* an expired job is left alone.                                           *)
StoreStatus(j) ==
  /\ task[j] \in {"returned", "raised"}
  /\ writing = NoJob
  /\ IF j \in stored
     THEN /\ job' = [job EXCEPT ![j].status =
                       IF task[j] = "returned" THEN "done" ELSE "error"]
          /\ writing' = j
          /\ UNCHANGED task
     ELSE /\ task' = [task EXCEPT ![j] = Outcome(task[j])]
          /\ UNCHANGED <<job, writing>>
  /\ UNCHANGED <<stored, order, accepted, clientVars, restarts>>

(* Fault: no return after set_error, so that set_done follows it.          *)
FallThroughFault(j) ==
  /\ writing = j
  /\ job' = [job EXCEPT ![j].report = TRUE, ![j].error = task[j] = "raised"]
  /\ task' = [task EXCEPT ![j] = Outcome(task[j])]
  /\ writing' = NoJob
  /\ UNCHANGED <<stored, order, accepted, clientVars, restarts>>

(* Fault: _update leaves without releasing the lock.                       *)
LockLeakFault(j) ==
  /\ writing = j
  /\ task[j] \in {"returned", "raised"}
  /\ job' = [job EXCEPT ![j].report = task[j] = "returned",
                        ![j].error = task[j] = "raised"]
  /\ task' = [task EXCEPT ![j] = Outcome(task[j])]
  /\ UNCHANGED <<stored, order, writing, accepted, clientVars, restarts>>

(* The rest of _update: the report or the error text, and the lock is free.*)
StoreResult(j) ==
  /\ writing = j
  /\ job' = IF task[j] = "returned" THEN [job EXCEPT ![j].report = TRUE]
                                    ELSE [job EXCEPT ![j].error = TRUE]
  /\ task' = [task EXCEPT ![j] = Outcome(task[j])]
  /\ writing' = NoJob
  /\ UNCHANGED <<stored, order, accepted, clientVars, restarts>>

-----------------------------------------------------------------------------
(* The browser and the status handler that answers it.                     *)

(* Fault: get() does not take the lock.                                    *)
UnlockedPollFault(j) ==
  /\ client[j] = "asking"
  /\ FreeThread
  /\ client' = [client EXCEPT ![j] =
                  IF j \in stored THEN "readStatus" ELSE "notFound"]
  /\ settledAtGet' = [settledAtGet EXCEPT ![j] =
                        j \in stored /\ job[j].status \in Settled]
  /\ UNCHANGED <<storeVars, task, reply, restarts>>

(* ingest_job_status gets a worker and looks the job up under the lock;    *)
(* a missing job is a 404, which the browser's getJson throws.             *)
Poll(j) ==
  /\ client[j] = "asking"
  /\ FreeThread
  /\ writing = NoJob
  /\ client' = [client EXCEPT ![j] =
                  IF j \in stored THEN "readStatus" ELSE "notFound"]
  /\ settledAtGet' = [settledAtGet EXCEPT ![j] =
                        j \in stored /\ job[j].status \in Settled]
  /\ UNCHANGED <<storeVars, task, reply, restarts>>

(* The answer is built from the live object, one field after the other.    *)
ReadStatus(j) ==
  /\ client[j] = "readStatus"
  /\ reply' = [reply EXCEPT ![j].status = job[j].status]
  /\ client' = [client EXCEPT ![j] = "readReport"]
  /\ UNCHANGED <<storeVars, task, settledAtGet, restarts>>

ReadReport(j) ==
  /\ client[j] = "readReport"
  /\ reply' = [reply EXCEPT ![j].report = job[j].report]
  /\ client' = [client EXCEPT ![j] = "readError"]
  /\ UNCHANGED <<storeVars, task, settledAtGet, restarts>>

ReadError(j) ==
  /\ client[j] = "readError"
  /\ reply' = [reply EXCEPT ![j].error = job[j].error]
  /\ client' = [client EXCEPT ![j] = "answered"]
  /\ UNCHANGED <<storeVars, task, settledAtGet, restarts>>

(* The loop of client.ts: a settled status ends it, and so does the        *)
(* deadline; otherwise it sleeps and asks again.                           *)
React(j) ==
  /\ client[j] = "answered"
  /\ \E c \in CASE reply[j].status = "done"  -> {"ok"}
                [] reply[j].status = "error" -> {"failed"}
                [] OTHER                     -> {"asking", "gaveUp"} :
       client' = [client EXCEPT ![j] = c]
  /\ reply' = [reply EXCEPT ![j] = NewJob]
  /\ settledAtGet' = [settledAtGet EXCEPT ![j] = FALSE]
  /\ UNCHANGED <<storeVars, task, restarts>>

-----------------------------------------------------------------------------
(* The process dies and starts again: the store and the tasks are gone and *)
(* the polls in flight fail.  What an ingest had done stays done.          *)
Restart ==
  /\ restarts < MaxRestarts
  /\ restarts' = restarts + 1
  /\ stored' = {}
  /\ order' = <<>>
  /\ accepted' = <<>>
  /\ writing' = NoJob
  /\ task' = [j \in Jobs |->
                CASE task[j] \in {"returned", "raised"} -> Outcome(task[j])
                  [] task[j] \in {"scheduled", "waiting", "ingesting"} -> "dead"
                  [] OTHER -> task[j]]
  /\ client' = [j \in Jobs |->
                  IF client[j] \in Reading THEN "gaveUp" ELSE client[j]]
  /\ UNCHANGED <<job, reply, settledAtGet>>

LoopStep(j) ==
  \/ Upload(j) \/ SetRunning(j) \/ StartIngest(j) \/ IngestEnds(j)
  \/ StoreStatus(j) \/ StoreResult(j)

ClientStep(j) ==
  Poll(j) \/ ReadStatus(j) \/ ReadReport(j) \/ ReadError(j) \/ React(j)

Next == (\E j \in Jobs : LoopStep(j) \/ ClientStep(j)) \/ Restart

(* The loop runs what is ready and an ingest ends (its model calls time    *)
(* out).  Workers are handed out first come, first served, so a request    *)
(* that is offered one again and again gets one.  Nobody has to upload.    *)
Fairness ==
  \A j \in Jobs :
    /\ WF_vars(SetRunning(j)) /\ SF_vars(StartIngest(j))
    /\ WF_vars(IngestEnds(j)) /\ WF_vars(StoreStatus(j))
    /\ WF_vars(StoreResult(j)) /\ SF_vars(Poll(j))
    /\ WF_vars(ReadStatus(j) \/ ReadReport(j) \/ ReadError(j) \/ React(j))

Safety == Init /\ [][Next]_vars
Spec == Safety /\ Fairness

-----------------------------------------------------------------------------
TypeOK ==
  /\ stored \subseteq Jobs
  /\ order \in Seq(Jobs)
  /\ job \in [Jobs -> IngestJob]
  /\ writing \in Jobs \cup {NoJob}
  /\ task \in [Jobs -> TaskState]
  /\ client \in [Jobs -> ClientState]
  /\ reply \in [Jobs -> IngestJob]
  /\ accepted \in Seq(Jobs)
  /\ settledAtGet \in [Jobs -> BOOLEAN]
  /\ restarts \in 0..MaxRestarts

(* The store answers for exactly the MaxJobs newest uploads of this        *)
(* process, the dictionary and the FIFO list of IngestJobStore agreeing.   *)
Newest ==
  {accepted[i] : i \in {k \in 1..Len(accepted) : k + MaxJobs > Len(accepted)}}
RetainsNewest == stored = Newest /\ stored = Members(order)

(* However the fields of an answer interleave with the runner, and         *)
(* whatever the store has evicted meanwhile, it never shows a result that  *)
(* the ingest did not have, and the browser announces success or failure   *)
(* only when the ingest really returned or raised.                         *)
Returned(j) == task[j] \in {"returned", "succeeded"}
Raised(j) == task[j] \in {"raised", "failed"}
ReplySound ==
  \A j \in Jobs :
    /\ reply[j].report \/ client[j] = "ok" => Returned(j)
    /\ reply[j].error \/ client[j] = "failed" => Raised(j)

(* What the lock of the store is good for: a poll whose lookup came after  *)
(* the job settled shows a settled job with all its result, although it    *)
(* reads the fields outside the lock.                                      *)
SettledPollIsComplete ==
  \A j \in Jobs : client[j] = "answered" /\ settledAtGet[j] =>
    /\ reply[j].status \in Settled
    /\ reply[j].report = Returned(j)
    /\ reply[j].error = Raised(j)

(* A 404 is final: the browser gives up on it, and the job it gave up on   *)
(* never becomes visible again.                                            *)
NotFoundIsFinal ==
  \A j \in Jobs : client[j] = "notFound" => j \notin stored

(* What a poll of each id would be told.                                   *)
View ==
  [j \in Jobs |-> IF j \in stored THEN job[j].status
                  ELSE IF task[j] = "none" THEN "unknown" ELSE "gone"]
Lifecycle == INSTANCE JobLifecycle WITH view <- View

(* The store, the runner and the restarts implement the published life     *)
(* cycle: no status is skipped, repeated or taken back, one upload expires *)
(* one other at most, and an expired job stays expired.                    *)
RefinesLifecycle == Lifecycle!Safety

(* ... and an accepted job leaves "pending" and "running" in the end: the  *)
(* abstract fairness follows from that of the loop and of the pool.        *)
RefinesProgress == Lifecycle!Fairness

(* The browser that starts to poll gets a verdict in the end, for all the  *)
(* competition for worker threads.                                         *)
UploadGetsVerdict ==
  \A j \in Jobs : client[j] = "asking" ~> client[j] \in Verdict

-----------------------------------------------------------------------------
(* The inductive invariant of the proofs, in parts.                        *)

(* The ids accepted in this process are distinct, and _order holds the     *)
(* last of them.                                                           *)
OrderInv ==
  /\ stored = Members(order)
  /\ \A i, k \in 1..Len(accepted) : accepted[i] = accepted[k] => i = k
  /\ Len(order) = IF Len(accepted) > MaxJobs THEN MaxJobs ELSE Len(accepted)
  /\ \A i \in 1..Len(order) :
       order[i] = accepted[Len(accepted) - Len(order) + i]
  /\ \A i \in 1..Len(accepted) : task[accepted[i]] # "none"

(* Every job object agrees with its task; the objects the store holds lag  *)
(* behind it only where _update has still to write.                        *)
ObjectInv ==
  \A j \in Jobs :
    /\ task[j] = "none" => job[j] = NewJob /\ client[j] = "none"
    /\ job[j].status = "done" => Returned(j)
    /\ job[j].status = "error" => Raised(j)
    /\ job[j].report => job[j].status = "done"
    /\ job[j].error => job[j].status = "error"
StoredInv ==
  \A j \in stored :
    /\ task[j] = "scheduled" => job[j].status = "pending"
    /\ task[j] \in {"waiting", "ingesting"} => job[j].status = "running"
    /\ task[j] \in {"returned", "raised"} /\ writing # j =>
         job[j].status = "running"
    /\ writing # j => /\ job[j].status = "done" => job[j].report
                      /\ job[j].status = "error" => job[j].error
WritingInv ==
  writing # NoJob =>
    /\ writing \in stored
    /\ task[writing] \in {"returned", "raised"}
    /\ job[writing].status = IF task[writing] = "returned" THEN "done" ELSE "error"

(* An answer under construction shows no more than the object does, and    *)
(* one begun after the job settled shows all of it.                        *)
ReplyInv ==
  \A j \in Jobs :
    /\ reply[j].status = "done" => job[j].status = "done"
    /\ reply[j].status = "error" => job[j].status = "error"
    /\ reply[j].report => job[j].report
    /\ reply[j].error => job[j].error
    /\ client[j] = "ok" => Returned(j)
    /\ client[j] = "failed" => Raised(j)
SettledReplyInv ==
  \A j \in Jobs : settledAtGet[j] =>
    /\ job[j].status \in Settled
    /\ job[j].report = (job[j].status = "done")
    /\ job[j].error = (job[j].status = "error")
    /\ client[j] \in {"readReport", "readError", "answered"} =>
         reply[j].status = job[j].status
    /\ client[j] \in {"readError", "answered"} => reply[j].report = job[j].report
    /\ client[j] = "answered" => reply[j].error = job[j].error

IInv == /\ TypeOK /\ OrderInv /\ ObjectInv /\ StoredInv /\ WritingInv
        /\ ReplyInv /\ SettledReplyInv /\ NotFoundIsFinal

-----------------------------------------------------------------------------
(* What comments of the code say and the code does not do.                 *)

(* ingest_jobs.py says that the bound drops old COMPLETED jobs.            *)
EvictsOnlySettled ==
  [][restarts' = restarts =>
       \A j \in stored \ stored' : job[j].status \in Settled]_<<stored, restarts>>

(* IngestJobStatusResponse says that a done answer has its report and an   *)
(* error answer its reason.                                                *)
AnswerIsSnapshot ==
  \A j \in Jobs : client[j] = "answered" =>
    /\ reply[j].status = "done" => reply[j].report
    /\ reply[j].status = "error" => reply[j].error
=============================================================================
