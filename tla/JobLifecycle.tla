---------------------------- MODULE JobLifecycle ----------------------------
(***************************************************************************)
(* What the asynchronous ingest API promises about one upload, whatever    *)
(* store, threads and locks stand behind it: the life cycle that the       *)
(* comment above JobStatus in services/ingest_jobs.py draws,               *)
(*      pending -> running -> done | error,                                *)
(* plus the 404 a poll gets once the job has expired or the process has    *)
(* restarted.  IngestJobs implements this module.                          *)
(***************************************************************************)
CONSTANT Jobs            (* the job ids that uuid4 may hand out            *)

VARIABLE view            (* what a poll of each id would be told           *)

Live == {"pending", "running", "done", "error"}

Init == view = [j \in Jobs |-> "unknown"]

(* A new upload is accepted; at most one older job expires to make room.   *)
Accept(j) ==
  /\ view[j] = "unknown"
  /\ \E old \in SUBSET {i \in Jobs : view[i] \in Live} :
       /\ \A i, k \in old : i = k
       /\ view' = [i \in Jobs |-> IF i = j THEN "pending"
                                  ELSE IF i \in old THEN "gone" ELSE view[i]]

Start(j) ==
  /\ view[j] = "pending"
  /\ view' = [view EXCEPT ![j] = "running"]

Settle(j) ==
  /\ view[j] = "running"
  /\ \E s \in {"done", "error"} : view' = [view EXCEPT ![j] = s]

(* The process restarts: every job it knew is forgotten for good.          *)
Forget ==
  view' = [j \in Jobs |-> IF view[j] \in Live THEN "gone" ELSE view[j]]

Next ==
  \/ \E j \in Jobs : Accept(j) \/ Start(j) \/ Settle(j)
  \/ Forget

Fairness == \A j \in Jobs : WF_view(Start(j)) /\ WF_view(Settle(j))

Safety == Init /\ [][Next]_view
Spec == Safety /\ Fairness
=============================================================================
