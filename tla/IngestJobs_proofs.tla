-------------------------- MODULE IngestJobs_proofs --------------------------
(***************************************************************************)
(* Proofs about IngestJobs, for every set of jobs, every max_jobs and      *)
(* every size of the thread pool.                                          *)
(***************************************************************************)
EXTENDS IngestJobs, TLAPS

-----------------------------------------------------------------------------
(* Sequences of the store.                                                 *)

(* What create() leaves of a list of ids: the last MaxJobs of them.        *)
LEMMA EvictKeepsLast ==
  ASSUME NEW ids \in Seq(Jobs)
  PROVE  /\ Evict(ids) \in Seq(Jobs)
         /\ Len(Evict(ids)) = IF Len(ids) > MaxJobs THEN MaxJobs ELSE Len(ids)
         /\ \A i \in 1..Len(Evict(ids)) :
              Evict(ids)[i] = ids[Len(ids) - Len(Evict(ids)) + i]
<1>1. MaxJobs \in Nat /\ MaxJobs > 0
  BY MaxJobsAssumption
<1>2. CASE Len(ids) > MaxJobs
  <2>1. Evict(ids) = SubSeq(ids, Len(ids) - MaxJobs + 1, Len(ids))
    BY <1>2 DEF Evict
  <2>2. Len(ids) \in Nat /\ Len(ids) - MaxJobs + 1 \in 1..Len(ids)
    BY <1>1, <1>2
  <2>3. SubSeq(ids, Len(ids) - MaxJobs + 1, Len(ids)) \in Seq(Jobs)
    BY <2>2
  <2>4. Len(Evict(ids)) = MaxJobs
    BY <1>1, <2>1, <2>2
  <2>5. \A i \in 1..MaxJobs : Evict(ids)[i] = ids[Len(ids) - MaxJobs + i]
    BY <1>1, <2>1, <2>2
  <2> QED
    BY <1>2, <2>1, <2>3, <2>4, <2>5
<1>3. CASE ~(Len(ids) > MaxJobs)
  <2>1. Evict(ids) = ids
    BY <1>3 DEF Evict
  <2> QED
    BY <1>3, <2>1
<1> QED
  BY <1>2, <1>3

-----------------------------------------------------------------------------
(* Type correctness.                                                       *)

(* The types hold when the service starts.                                 *)
LEMMA InitTypeOK == Init => TypeOK
  BY BoundsAssumption
  DEF Init, TypeOK, NewJob, IngestJob, JobStatus, TaskState, ClientState

(* Every step keeps the types.                                             *)
LEMMA NextTypeOK == TypeOK /\ [Next]_vars => TypeOK'
<1> SUFFICES ASSUME TypeOK, [Next]_vars PROVE TypeOK'
  OBVIOUS
<1> USE DEF TypeOK, TaskState
<1>1. ASSUME NEW j \in Jobs, Upload(j) PROVE TypeOK'
  <2>1. Append(order, j) \in Seq(Jobs) /\ Append(accepted, j) \in Seq(Jobs)
    OBVIOUS
  <2>2. order' \in Seq(Jobs)
    BY <1>1, <2>1, EvictKeepsLast DEF Upload
  <2>3. stored' \subseteq Jobs
    BY <1>1 DEF Upload
  <2>4. client' \in [Jobs -> ClientState]
    BY <1>1 DEF Upload, ClientState, Verdict
  <2> QED
    BY <1>1, <2>1, <2>2, <2>3, <2>4 DEF Upload
<1>2. ASSUME NEW j \in Jobs, SetRunning(j) PROVE TypeOK'
  BY <1>2 DEF SetRunning, storeVars, clientVars, IngestJob, JobStatus
<1>3. ASSUME NEW j \in Jobs, StartIngest(j) PROVE TypeOK'
  BY <1>3 DEF StartIngest, storeVars, clientVars
<1>4. ASSUME NEW j \in Jobs, IngestEnds(j) PROVE TypeOK'
  BY <1>4 DEF IngestEnds, storeVars, clientVars
<1>5. ASSUME NEW j \in Jobs, StoreStatus(j) PROVE TypeOK'
  <2>1. CASE j \in stored
    <3>1. job' \in [Jobs -> IngestJob]
      BY <1>5, <2>1 DEF StoreStatus, IngestJob, JobStatus
    <3> QED
      BY <1>5, <2>1, <3>1 DEF StoreStatus, clientVars
  <2>2. CASE j \notin stored
    BY <1>5, <2>2 DEF StoreStatus, clientVars, Outcome
  <2> QED
    BY <2>1, <2>2
<1>6. ASSUME NEW j \in Jobs, StoreResult(j) PROVE TypeOK'
  BY <1>6 DEF StoreResult, clientVars, IngestJob, JobStatus, Outcome
<1>7. ASSUME NEW j \in Jobs, Poll(j) PROVE TypeOK'
  BY <1>7 DEF Poll, storeVars, ClientState, Reading, Verdict
<1>8. ASSUME NEW j \in Jobs, ReadStatus(j) PROVE TypeOK'
  BY <1>8 DEF ReadStatus, storeVars, ClientState, Reading, IngestJob
<1>9. ASSUME NEW j \in Jobs, ReadReport(j) PROVE TypeOK'
  BY <1>9 DEF ReadReport, storeVars, ClientState, Reading, IngestJob
<1>10. ASSUME NEW j \in Jobs, ReadError(j) PROVE TypeOK'
  BY <1>10 DEF ReadError, storeVars, ClientState, Reading, IngestJob
<1>11. ASSUME NEW j \in Jobs, React(j) PROVE TypeOK'
  BY <1>11 DEF React, storeVars, ClientState, Verdict, IngestJob, NewJob, JobStatus
<1>12. ASSUME Restart PROVE TypeOK'
  <2>1. task' \in [Jobs -> TaskState]
    BY <1>12 DEF Restart, Outcome
  <2>2. client' \in [Jobs -> ClientState]
    BY <1>12 DEF Restart, ClientState, Verdict
  <2>3. restarts' \in 0..MaxRestarts
    BY <1>12, BoundsAssumption DEF Restart
  <2> QED
    BY <1>12, <2>1, <2>2, <2>3 DEF Restart
<1>13. CASE UNCHANGED vars
  BY <1>13 DEF vars
<1> QED
  BY <1>1, <1>2, <1>3, <1>4, <1>5, <1>6, <1>7, <1>8, <1>9, <1>10, <1>11,
     <1>12, <1>13 DEF Next, LoopStep, ClientStep

(* Every state of the ingest API has its type, however many jobs, polls    *)
(* and restarts there are.                                                 *)
THEOREM TypeCorrect == Safety => []TypeOK
  BY InitTypeOK, NextTypeOK, PTL DEF Safety

-----------------------------------------------------------------------------
(* The inductive invariant, one part at a time.                            *)

(* The strengthened invariant holds when the service starts.               *)
LEMMA InitIInv == Init => IInv
<1> SUFFICES ASSUME Init PROVE IInv
  OBVIOUS
<1>1. TypeOK
  BY InitTypeOK
<1>2. OrderInv
  BY MaxJobsAssumption DEF Init, OrderInv, Members
<1>3. ObjectInv /\ StoredInv /\ NotFoundIsFinal
  BY DEF Init, ObjectInv, StoredInv, NotFoundIsFinal, NewJob
<1>4. WritingInv
  BY DEF Init, WritingInv
<1>5. ReplyInv /\ SettledReplyInv
  BY DEF Init, ReplyInv, SettledReplyInv, NewJob
<1> QED
  BY <1>1, <1>2, <1>3, <1>4, <1>5 DEF IInv

(* Only Upload and Restart touch the order; the other steps only have to   *)
(* leave every accepted job with a task.                                   *)
LEMMA OrderInvNext == IInv /\ [Next]_vars => OrderInv'
<1> SUFFICES ASSUME IInv, [Next]_vars PROVE OrderInv'
  OBVIOUS
<1> USE DEF IInv
<1>1. MaxJobs \in Nat /\ MaxJobs > 0
  BY MaxJobsAssumption
<1>2. ASSUME NEW j \in Jobs, Upload(j) PROVE OrderInv'
  <2> DEFINE ids == Append(order, j)
             acc == Append(accepted, j)
  <2>1. /\ order \in Seq(Jobs) /\ accepted \in Seq(Jobs)
        /\ ids \in Seq(Jobs) /\ acc \in Seq(Jobs)
        /\ Len(ids) = Len(order) + 1 /\ Len(acc) = Len(accepted) + 1
    BY DEF TypeOK
  <2>2. /\ order' = Evict(ids) /\ accepted' = acc
        /\ stored' = (stored \cup {j}) \cap Members(Evict(ids))
        /\ task' = [task EXCEPT ![j] = "scheduled"]
        /\ task[j] = "none"
    BY <1>2 DEF Upload
  <2>3. /\ Len(Evict(ids)) = IF Len(ids) > MaxJobs THEN MaxJobs ELSE Len(ids)
        /\ \A i \in 1..Len(Evict(ids)) :
             Evict(ids)[i] = ids[Len(ids) - Len(Evict(ids)) + i]
        /\ Evict(ids) \in Seq(Jobs)
    BY <2>1, EvictKeepsLast
  <2>4. \A i \in 1..Len(ids) :
          ids[i] = IF i = Len(order) + 1 THEN j ELSE order[i]
    BY <2>1
  <2>5. \A i \in 1..Len(acc) :
          acc[i] = IF i = Len(accepted) + 1 THEN j ELSE accepted[i]
    BY <2>1
  <2>6. \A i \in 1..Len(Evict(ids)) :
          Len(ids) - Len(Evict(ids)) + i \in 1..Len(ids)
    BY <1>1, <2>1, <2>3
  <2>7. stored' = Members(order')
    <3>1. \A i \in 1..Len(Evict(ids)) : Evict(ids)[i] \in Members(order) \cup {j}
      BY <2>1, <2>3, <2>4, <2>6 DEF Members
    <3>2. Members(Evict(ids)) \subseteq stored \cup {j}
      BY <3>1 DEF Members, OrderInv
    <3> QED
      BY <2>2, <3>2
  <2>8. ASSUME NEW i \in 1..Len(acc), NEW k \in 1..Len(acc), acc[i] = acc[k]
        PROVE  i = k
    <3>1. \A l \in 1..Len(accepted) : accepted[l] # j
      BY <2>2 DEF OrderInv
    <3> QED
      BY <2>1, <2>5, <2>8, <3>1 DEF OrderInv
  <2>9. Len(order') = IF Len(accepted') > MaxJobs THEN MaxJobs ELSE Len(accepted')
    BY <1>1, <2>1, <2>2, <2>3 DEF OrderInv
  <2>10. ASSUME NEW i \in 1..Len(order')
         PROVE  order'[i] = accepted'[Len(accepted') - Len(order') + i]
    <3> DEFINE p == Len(ids) - Len(Evict(ids)) + i
               q == Len(acc) - Len(Evict(ids)) + i
    <3>1. p \in 1..Len(ids) /\ order'[i] = ids[p]
      BY <2>2, <2>3, <2>6
    <3>2. /\ Len(order) \in Nat /\ Len(accepted) \in Nat
          /\ Len(order) = IF Len(accepted) > MaxJobs THEN MaxJobs
                                                     ELSE Len(accepted)
      BY <2>1 DEF OrderInv
    <3>3. q = p + Len(accepted) - Len(order) /\ q \in 1..Len(acc)
      <4>1. Len(Evict(ids)) \in Nat /\ i \in 1..Len(Evict(ids))
        BY <2>2, <2>3
      <4>2. p \in Int /\ q = p + Len(accepted) - Len(order)
        BY <2>1, <3>2, <4>1
      <4>3. Len(order) <= Len(accepted)
        BY <1>1, <3>2
      <4> HIDE DEF p, q
      <4> QED
        BY <2>1, <3>1, <3>2, <4>2, <4>3
    <3>4. SUFFICES ids[p] = acc[q]
      BY <2>2, <3>1
    <3> HIDE DEF p, q
    <3>5. CASE p = Len(order) + 1
      <4>1. q = Len(accepted) + 1
        BY <3>1, <3>2, <3>3, <3>5
      <4> QED
        BY <2>4, <2>5, <3>1, <3>3, <3>5, <4>1
    <3>6. CASE p # Len(order) + 1
      <4>1. p \in 1..Len(order)
        BY <2>1, <3>1, <3>6
      <4>2. order[p] = accepted[Len(accepted) - Len(order) + p]
        BY <4>1 DEF OrderInv
      <4>3. q # Len(accepted) + 1 /\ q = Len(accepted) - Len(order) + p
        BY <3>2, <3>3, <3>6, <4>1
      <4>4. ids[p] = order[p] /\ acc[q] = accepted[q]
        BY <2>4, <2>5, <3>1, <3>3, <3>6, <4>3
      <4> QED
        BY <4>2, <4>3, <4>4
    <3> QED
      BY <3>5, <3>6
  <2>11. \A i \in 1..Len(accepted') : task'[accepted'[i]] # "none"
    <3>1. \A i \in 1..Len(accepted) :
            accepted[i] \in Jobs /\ task[accepted[i]] # "none"
      BY <2>1 DEF OrderInv
    <3>2. task'[j] = "scheduled" /\ \A k \in Jobs : k # j => task'[k] = task[k]
      BY <2>2 DEF TypeOK
    <3>3. ASSUME NEW i \in 1..Len(acc) PROVE task'[acc[i]] # "none"
      <4>1. CASE i = Len(accepted) + 1
        BY <2>5, <3>2, <4>1
      <4>2. CASE i # Len(accepted) + 1
        <5>1. i \in 1..Len(accepted) /\ acc[i] = accepted[i]
          BY <2>1, <2>5, <4>2
        <5> QED
          BY <2>2, <3>1, <3>2, <5>1
      <4> QED
        BY <4>1, <4>2
    <3> QED
      BY <2>2, <3>3
  <2> QED
    BY <2>2, <2>7, <2>8, <2>9, <2>10, <2>11 DEF OrderInv
<1>3. ASSUME Restart PROVE OrderInv'
  BY <1>1, <1>3 DEF Restart, OrderInv, Members
<1>4. ASSUME UNCHANGED <<stored, order, accepted>>,
             \A k \in Jobs : task[k] # "none" => task'[k] # "none"
      PROVE  OrderInv'
  <2>1. \A i \in 1..Len(accepted) : accepted[i] \in Jobs
    BY DEF TypeOK
  <2> QED
    BY <1>4, <2>1 DEF OrderInv, Members
<1>5. ASSUME NEW j \in Jobs,
             \/ SetRunning(j) \/ StartIngest(j) \/ IngestEnds(j)
             \/ StoreStatus(j) \/ StoreResult(j)
      PROVE  OrderInv'
  <2>1. \/ UNCHANGED task
        \/ \E s \in TaskState \ {"none"} : task' = [task EXCEPT ![j] = s]
    BY <1>5 DEF SetRunning, StartIngest, IngestEnds, StoreStatus, StoreResult,
                Outcome, TaskState
  <2>2. \A k \in Jobs : task[k] # "none" => task'[k] # "none"
    BY <2>1 DEF TypeOK
  <2> QED
    BY <1>4, <1>5, <2>2 DEF SetRunning, StartIngest, IngestEnds, StoreStatus,
                            StoreResult, storeVars
<1>6. ASSUME NEW j \in Jobs, ClientStep(j) PROVE OrderInv'
  BY <1>4, <1>6 DEF ClientStep, Poll, ReadStatus, ReadReport, ReadError, React,
                    storeVars
<1>7. CASE UNCHANGED vars
  BY <1>4, <1>7 DEF vars
<1> QED
  BY <1>2, <1>3, <1>5, <1>6, <1>7 DEF Next, LoopStep

(* The objects follow their tasks.  A step of the loop touches one job; a  *)
(* step of a client touches none.                                          *)
LEMMA StoreInvNext ==
  IInv /\ [Next]_vars =>
    ObjectInv' /\ StoredInv' /\ WritingInv' /\ NotFoundIsFinal'
<1> DEFINE Goal == ObjectInv /\ StoredInv /\ WritingInv /\ NotFoundIsFinal
<1> SUFFICES ASSUME IInv, [Next]_vars PROVE Goal'
  OBVIOUS
<1> USE DEF IInv
<1>1. ASSUME NEW j \in Jobs, Upload(j) PROVE Goal'
  <2>1. /\ task[j] = "none" /\ writing = NoJob /\ writing' = NoJob
        /\ job[j] = NewJob /\ job' = job
        /\ stored' \subseteq stored \cup {j}
        /\ task' = [task EXCEPT ![j] = "scheduled"]
    BY <1>1 DEF Upload, ObjectInv
  <2>2. /\ client'[j] \in {"asking", "gaveUp"}
        /\ \A k \in Jobs : k # j => client'[k] = client[k]
    BY <1>1 DEF Upload, TypeOK
  <2>3. /\ task'[j] = "scheduled"
        /\ \A k \in Jobs : k # j => task'[k] = task[k]
    BY <2>1 DEF TypeOK
  <2>4. ObjectInv'
    BY <2>1, <2>2, <2>3 DEF ObjectInv, Returned, Raised, NewJob
  <2>5. StoredInv'
    BY <2>1, <2>3, JobsAssumption DEF StoredInv, TypeOK, NewJob
  <2>6. WritingInv' /\ NotFoundIsFinal'
    BY <2>1, <2>2 DEF WritingInv, NotFoundIsFinal
  <2> QED
    BY <2>4, <2>5, <2>6
<1>2. ASSUME NEW j \in Jobs, SetRunning(j) PROVE Goal'
  <2>1. /\ task[j] = "scheduled" /\ writing = NoJob
        /\ task' = [task EXCEPT ![j] = "waiting"]
        /\ job' = IF j \in stored THEN [job EXCEPT ![j].status = "running"] ELSE job
        /\ UNCHANGED <<stored, writing, client>>
    BY <1>2 DEF SetRunning, clientVars
  <2>2. ~job[j].report /\ ~job[j].error /\ job[j].status \notin Settled
    BY <2>1 DEF ObjectInv, Returned, Raised, TypeOK, IngestJob, Settled
  <2>3. ObjectInv'
    BY <2>1, <2>2 DEF ObjectInv, Returned, Raised, TypeOK, IngestJob, Settled
  <2>4. StoredInv'
    BY <2>1, <2>2 DEF StoredInv, TypeOK, IngestJob, Settled
  <2>5. WritingInv' /\ NotFoundIsFinal'
    BY <2>1 DEF WritingInv, NotFoundIsFinal
  <2> QED
    BY <2>3, <2>4, <2>5
<1>3. ASSUME NEW j \in Jobs, StartIngest(j) PROVE Goal'
  <2>1. /\ task[j] = "waiting" /\ task' = [task EXCEPT ![j] = "ingesting"]
        /\ UNCHANGED <<stored, writing, job, client>>
    BY <1>3 DEF StartIngest, storeVars, clientVars
  <2> QED
    BY <2>1 DEF ObjectInv, StoredInv, WritingInv, NotFoundIsFinal, Returned,
                Raised, TypeOK
<1>4. ASSUME NEW j \in Jobs, IngestEnds(j) PROVE Goal'
  <2>1. /\ task[j] = "ingesting"
        /\ UNCHANGED <<stored, writing, job, client>>
        /\ \E r \in {"returned", "raised"} : task' = [task EXCEPT ![j] = r]
    BY <1>4 DEF IngestEnds, storeVars, clientVars
  <2>2. job[j].status \notin Settled
    BY <2>1 DEF ObjectInv, Returned, Raised, Settled
  <2>3. WritingInv' /\ NotFoundIsFinal'
    BY <2>1 DEF WritingInv, NotFoundIsFinal, TypeOK
  <2> QED
    BY <2>1, <2>2, <2>3 DEF ObjectInv, StoredInv, Returned, Raised, TypeOK, Settled
<1>5. ASSUME NEW j \in Jobs, StoreStatus(j) PROVE Goal'
  <2>1. /\ task[j] \in {"returned", "raised"} /\ writing = NoJob
        /\ UNCHANGED <<stored, client>>
    BY <1>5 DEF StoreStatus, clientVars
  <2>2. CASE j \in stored
    <3>1. /\ writing' = j /\ task' = task
          /\ job' = [job EXCEPT ![j].status =
                       IF task[j] = "returned" THEN "done" ELSE "error"]
      BY <1>5, <2>2 DEF StoreStatus
    <3>2. job[j].status = "running" /\ ~job[j].report /\ ~job[j].error
      BY <2>1, <2>2, JobsAssumption
      DEF StoredInv, ObjectInv, TypeOK, IngestJob
    <3>3. /\ job'[j].status = IF task[j] = "returned" THEN "done" ELSE "error"
          /\ job'[j].report = job[j].report /\ job'[j].error = job[j].error
          /\ \A k \in Jobs : k # j => job'[k] = job[k]
      BY <3>1 DEF TypeOK, IngestJob
    <3>4. ObjectInv'
      BY <2>1, <3>1, <3>2, <3>3 DEF ObjectInv, Returned, Raised
    <3>5. StoredInv'
      BY <2>1, <3>1, <3>3, JobsAssumption DEF StoredInv, TypeOK
    <3>6. WritingInv' /\ NotFoundIsFinal'
      BY <2>1, <2>2, <3>1, <3>3 DEF WritingInv, NotFoundIsFinal
    <3> QED
      BY <3>4, <3>5, <3>6
  <2>3. CASE j \notin stored
    <3>1. /\ task' = [task EXCEPT ![j] = Outcome(task[j])]
          /\ UNCHANGED <<job, writing>>
      BY <1>5, <2>3 DEF StoreStatus
    <3> QED
      BY <2>1, <2>3, <3>1 DEF ObjectInv, StoredInv, WritingInv, NotFoundIsFinal,
                              Returned, Raised, Outcome, TypeOK
  <2> QED
    BY <2>2, <2>3
<1>6. ASSUME NEW j \in Jobs, StoreResult(j) PROVE Goal'
  <2>1. /\ writing = j /\ writing' = NoJob
        /\ task' = [task EXCEPT ![j] = Outcome(task[j])]
        /\ UNCHANGED <<stored, client>>
        /\ job' = IF task[j] = "returned" THEN [job EXCEPT ![j].report = TRUE]
                                          ELSE [job EXCEPT ![j].error = TRUE]
    BY <1>6 DEF StoreResult, clientVars
  <2>2. /\ j \in stored /\ task[j] \in {"returned", "raised"}
        /\ job[j].status = IF task[j] = "returned" THEN "done" ELSE "error"
    BY <2>1, JobsAssumption DEF WritingInv
  <2>3. /\ job'[j].status = job[j].status
        /\ job'[j].report = (IF task[j] = "returned" THEN TRUE ELSE job[j].report)
        /\ job'[j].error = (IF task[j] = "returned" THEN job[j].error ELSE TRUE)
        /\ \A k \in Jobs : k # j => job'[k] = job[k]
    BY <2>1 DEF TypeOK, IngestJob
  <2>4. /\ task'[j] = Outcome(task[j])
        /\ \A k \in Jobs : k # j => task'[k] = task[k]
    BY <2>1 DEF TypeOK
  <2>5. ObjectInv'
    BY <2>1, <2>2, <2>3, <2>4 DEF ObjectInv, Returned, Raised, Outcome
  <2>6. StoredInv'
    BY <2>1, <2>2, <2>3, <2>4 DEF StoredInv, Outcome, TypeOK
  <2>7. WritingInv' /\ NotFoundIsFinal'
    BY <2>1 DEF WritingInv, NotFoundIsFinal
  <2> QED
    BY <2>5, <2>6, <2>7
<1>7. ASSUME NEW j \in Jobs, ClientStep(j) PROVE Goal'
  <2>1. UNCHANGED <<stored, order, job, writing, accepted, task>>
    BY <1>7 DEF ClientStep, Poll, ReadStatus, ReadReport, ReadError, React,
                storeVars
  <2>2. /\ client[j] # "none"
        /\ \E c \in ClientState : client' = [client EXCEPT ![j] = c]
        /\ client'[j] = "notFound" => j \notin stored
    BY <1>7 DEF ClientStep, Poll, ReadStatus, ReadReport, ReadError, React,
                TypeOK, ClientState, Reading, Verdict
  <2> QED
    BY <2>1, <2>2 DEF ObjectInv, StoredInv, WritingInv, NotFoundIsFinal,
                      Returned, Raised, TypeOK
<1>8. ASSUME Restart PROVE Goal'
  <2>1. \A k \in Jobs : /\ task[k] = "none" <=> task'[k] = "none"
                        /\ client[k] = "none" => client'[k] = "none"
                        /\ Returned(k) => Returned(k)'
                        /\ Raised(k) => Raised(k)'
    BY <1>8 DEF Restart, TypeOK, Returned, Raised, Outcome, Reading
  <2>2. ObjectInv'
    BY <1>8, <2>1 DEF Restart, ObjectInv
  <2> QED
    BY <1>8, <2>2 DEF Restart, StoredInv, WritingInv, NotFoundIsFinal
<1>9. CASE UNCHANGED vars
  BY <1>9 DEF vars, ObjectInv, StoredInv, WritingInv, NotFoundIsFinal, Returned,
              Raised
<1> QED
  BY <1>1, <1>2, <1>3, <1>4, <1>5, <1>6, <1>7, <1>8, <1>9 DEF Next, LoopStep

(* A settled object with its result never changes again, and no object     *)
(* takes a settled status or a result back.                                *)
LEMMA JobMonotone ==
  ASSUME IInv, [Next]_vars, NEW k \in Jobs
  PROVE  /\ job[k].status \in Settled => job'[k].status = job[k].status
         /\ job[k].report => job'[k].report
         /\ job[k].error => job'[k].error
         /\ /\ job[k].status \in Settled
            /\ job[k].report = (job[k].status = "done")
            /\ job[k].error = (job[k].status = "error")
            => job'[k] = job[k]
         /\ Returned(k) => Returned(k)'
         /\ Raised(k) => Raised(k)'
<1> DEFINE Goal == /\ job[k].status \in Settled => job'[k].status = job[k].status
                   /\ job[k].report => job'[k].report
                   /\ job[k].error => job'[k].error
                   /\ /\ job[k].status \in Settled
                      /\ job[k].report = (job[k].status = "done")
                      /\ job[k].error = (job[k].status = "error")
                      => job'[k] = job[k]
                   /\ Returned(k) => Returned(k)'
                   /\ Raised(k) => Raised(k)'
<1> SUFFICES Goal
  OBVIOUS
<1> USE DEF IInv, TypeOK, Settled
<1>1. ASSUME NEW j \in Jobs,
             Upload(j) \/ StartIngest(j) \/ IngestEnds(j) \/ ClientStep(j)
      PROVE  Goal
  <2>1. UNCHANGED job
    BY <1>1 DEF Upload, StartIngest, IngestEnds, ClientStep, Poll, ReadStatus,
                ReadReport, ReadError, React, storeVars
  <2>2. \/ UNCHANGED task
        \/ /\ task[j] \in {"none", "waiting", "ingesting"}
           /\ \E s \in TaskState : task' = [task EXCEPT ![j] = s]
    BY <1>1 DEF Upload, StartIngest, IngestEnds, ClientStep, Poll, ReadStatus,
                ReadReport, ReadError, React, TaskState
  <2> QED
    BY <2>1, <2>2 DEF Returned, Raised
<1>2. ASSUME NEW j \in Jobs, SetRunning(j) PROVE Goal
  <2>1. /\ task[j] = "scheduled" /\ task' = [task EXCEPT ![j] = "waiting"]
        /\ job' = IF j \in stored THEN [job EXCEPT ![j].status = "running"] ELSE job
    BY <1>2 DEF SetRunning
  <2>2. job[j].status \notin Settled
    BY <2>1 DEF ObjectInv, Returned, Raised
  <2> QED
    BY <2>1, <2>2 DEF Returned, Raised, IngestJob
<1>3. ASSUME NEW j \in Jobs, StoreStatus(j) PROVE Goal
  <2>1. CASE j \in stored
    <3>1. job[j].status = "running"
      BY <1>3, <2>1, JobsAssumption DEF StoreStatus, StoredInv
    <3> QED
      BY <1>3, <2>1, <3>1 DEF StoreStatus, Returned, Raised, IngestJob
  <2>2. CASE j \notin stored
    BY <1>3, <2>2 DEF StoreStatus, Returned, Raised, Outcome
  <2> QED
    BY <2>1, <2>2
<1>4. ASSUME NEW j \in Jobs, StoreResult(j) PROVE Goal
  <2>1. /\ task[j] \in {"returned", "raised"}
        /\ job[j].status = IF task[j] = "returned" THEN "done" ELSE "error"
    BY <1>4, JobsAssumption DEF StoreResult, WritingInv
  <2>2. /\ job' = IF task[j] = "returned" THEN [job EXCEPT ![j].report = TRUE]
                                          ELSE [job EXCEPT ![j].error = TRUE]
        /\ task' = [task EXCEPT ![j] = Outcome(task[j])]
    BY <1>4 DEF StoreResult
  <2>3. Raised(k) => Raised(k)'
    BY <2>1, <2>2 DEF Returned, Raised, Outcome
  <2>4. Returned(k) => Returned(k)'
    BY <2>1, <2>2 DEF Returned, Raised, Outcome
  <2> QED
    BY <2>1, <2>2, <2>3, <2>4 DEF IngestJob
<1>5. ASSUME Restart PROVE Goal
  BY <1>5 DEF Restart, Returned, Raised, Outcome
<1>6. CASE UNCHANGED vars
  BY <1>6 DEF vars, Returned, Raised
<1> QED
  BY <1>1, <1>2, <1>3, <1>4, <1>5, <1>6 DEF Next, LoopStep

(* Hence what a poll has read stays true of the object it read, and the    *)
(* steps of the clients add no more than the object holds.                 *)
LEMMA ReplyInvNext == IInv /\ [Next]_vars => ReplyInv' /\ SettledReplyInv'
<1> DEFINE Goal == ReplyInv /\ SettledReplyInv
<1> SUFFICES ASSUME IInv, [Next]_vars PROVE Goal'
  OBVIOUS
<1> USE DEF IInv
<1>1. ASSUME UNCHANGED <<reply, settledAtGet>>,
             \A k \in Jobs : client'[k] = client[k]
                             \/ client'[k] \notin Reading \cup {"answered"} \cup Verdict
                             \/ client'[k] = "gaveUp"
      PROVE  Goal'
  <2> SUFFICES ASSUME NEW k \in Jobs
               PROVE  /\ reply'[k].status = "done" => job'[k].status = "done"
                      /\ reply'[k].status = "error" => job'[k].status = "error"
                      /\ reply'[k].report => job'[k].report
                      /\ reply'[k].error => job'[k].error
                      /\ client'[k] = "ok" => Returned(k)'
                      /\ client'[k] = "failed" => Raised(k)'
                      /\ settledAtGet'[k] =>
                         /\ job'[k].status \in Settled
                         /\ job'[k].report = (job'[k].status = "done")
                         /\ job'[k].error = (job'[k].status = "error")
                         /\ client'[k] \in {"readReport", "readError", "answered"} =>
                              reply'[k].status = job'[k].status
                         /\ client'[k] \in {"readError", "answered"} =>
                              reply'[k].report = job'[k].report
                         /\ client'[k] = "answered" =>
                              reply'[k].error = job'[k].error
    BY DEF ReplyInv, SettledReplyInv
  <2>1. settledAtGet[k] => job'[k] = job[k]
    BY JobMonotone DEF SettledReplyInv
  <2>2. client'[k] = client[k] \/ client'[k] \notin
            {"ok", "failed", "readReport", "readError", "answered"}
    BY <1>1 DEF Reading, Verdict
  <2>3. job[k].status \in Settled => job'[k].status = job[k].status
    BY JobMonotone
  <2>4. /\ reply'[k].status = "done" => job'[k].status = "done"
        /\ reply'[k].status = "error" => job'[k].status = "error"
    BY <1>1, <2>3 DEF ReplyInv, Settled
  <2>5. /\ reply'[k].report => job'[k].report
        /\ reply'[k].error => job'[k].error
    BY <1>1, JobMonotone DEF ReplyInv
  <2>6. /\ client'[k] = "ok" => Returned(k)'
        /\ client'[k] = "failed" => Raised(k)'
    BY <2>2, JobMonotone DEF ReplyInv
  <2> QED
    BY <1>1, <2>1, <2>2, <2>4, <2>5, <2>6 DEF SettledReplyInv
<1>2. ASSUME NEW j \in Jobs, LoopStep(j) PROVE Goal'
  <2>1. UNCHANGED <<reply, settledAtGet>>
    BY <1>2 DEF LoopStep, Upload, SetRunning, StartIngest, IngestEnds,
                StoreStatus, StoreResult, clientVars
  <2>2. \/ UNCHANGED client
        \/ \E c \in {"asking", "gaveUp"} : client' = [client EXCEPT ![j] = c]
    BY <1>2 DEF LoopStep, Upload, SetRunning, StartIngest, IngestEnds,
                StoreStatus, StoreResult, clientVars
  <2>3. \A k \in Jobs : client'[k] = client[k] \/ client'[k] \in {"asking", "gaveUp"}
    BY <2>2 DEF TypeOK
  <2> QED
    BY <1>1, <2>1, <2>3 DEF Reading, Verdict
<1>3. ASSUME Restart PROVE Goal'
  <2>1. \A k \in Jobs : client'[k] = client[k] \/ client'[k] = "gaveUp"
    BY <1>3 DEF Restart
  <2> QED
    BY <1>1, <1>3, <2>1 DEF Restart
<1>4. CASE UNCHANGED vars
  BY <1>1, <1>4 DEF vars
<1>5. ASSUME NEW j \in Jobs, Poll(j) PROVE Goal'
  <2>1. /\ UNCHANGED <<job, task, reply, writing>> /\ writing = NoJob
        /\ client' = [client EXCEPT ![j] =
                        IF j \in stored THEN "readStatus" ELSE "notFound"]
        /\ settledAtGet' = [settledAtGet EXCEPT ![j] =
                              j \in stored /\ job[j].status \in Settled]
    BY <1>5 DEF Poll, storeVars
  <2>2. settledAtGet'[j] => /\ job[j].status \in Settled
                            /\ job[j].report = (job[j].status = "done")
                            /\ job[j].error = (job[j].status = "error")
    BY <2>1, JobsAssumption
    DEF StoredInv, ObjectInv, TypeOK, IngestJob, Settled
  <2>3. SettledReplyInv'
    BY <2>1, <2>2 DEF SettledReplyInv, TypeOK
  <2>4. ReplyInv'
    BY <2>1 DEF ReplyInv, TypeOK, Returned, Raised
  <2> QED
    BY <2>3, <2>4
<1>6. ASSUME NEW j \in Jobs, ReadStatus(j) \/ ReadReport(j) \/ ReadError(j)
      PROVE  Goal'
  <2>1. UNCHANGED <<job, task, settledAtGet>>
    BY <1>6 DEF ReadStatus, ReadReport, ReadError, storeVars
  <2>2. ReplyInv'
    BY <1>6, <2>1 DEF ReadStatus, ReadReport, ReadError, ReplyInv, TypeOK,
                      IngestJob, Returned, Raised
  <2>3. SettledReplyInv'
    BY <1>6, <2>1 DEF ReadStatus, ReadReport, ReadError, SettledReplyInv, TypeOK,
                      IngestJob
  <2> QED
    BY <2>2, <2>3
<1>7. ASSUME NEW j \in Jobs, React(j) PROVE Goal'
  <2>1. /\ UNCHANGED <<job, task>>
        /\ reply' = [reply EXCEPT ![j] = NewJob]
        /\ settledAtGet' = [settledAtGet EXCEPT ![j] = FALSE]
    BY <1>7 DEF React, storeVars
  <2>2. /\ \A k \in Jobs : k # j => client'[k] = client[k]
        /\ client'[j] = "ok" => reply[j].status = "done"
        /\ client'[j] = "failed" => reply[j].status = "error"
    BY <1>7 DEF React, TypeOK
  <2>3. ReplyInv'
    BY <2>1, <2>2 DEF ReplyInv, ObjectInv, TypeOK, NewJob, Returned, Raised
  <2>4. SettledReplyInv'
    BY <2>1, <2>2 DEF SettledReplyInv, TypeOK
  <2> QED
    BY <2>3, <2>4
<1> QED
  BY <1>2, <1>3, <1>4, <1>5, <1>6, <1>7 DEF Next, ClientStep

(* Whatever the interleaving of the loop, the pool and the polls, all the  *)
(* parts of IInv hold together.                                            *)
THEOREM Inductive == Safety => []IInv
<1>1. IInv /\ [Next]_vars => IInv'
  <2> SUFFICES ASSUME IInv, [Next]_vars PROVE IInv'
    OBVIOUS
  <2>1. TypeOK'
    BY NextTypeOK DEF IInv
  <2>2. OrderInv'
    BY OrderInvNext
  <2>3. ObjectInv' /\ StoredInv' /\ WritingInv' /\ NotFoundIsFinal'
    BY StoreInvNext
  <2>4. ReplyInv' /\ SettledReplyInv'
    BY ReplyInvNext
  <2> QED
    BY <2>1, <2>2, <2>3, <2>4 DEF IInv
<1> QED
  BY InitIInv, <1>1, PTL DEF Safety

-----------------------------------------------------------------------------
(* What follows from the invariant.                                        *)

(* create() keeps exactly the max_jobs newest jobs of the process.         *)
THEOREM NewestRetained == Safety => []RetainsNewest
<1>1. IInv => RetainsNewest
  <2> SUFFICES ASSUME IInv PROVE RetainsNewest
    OBVIOUS
  <2> DEFINE m == Len(accepted)
             n == Len(order)
  <2>1. m \in Nat /\ n \in Nat /\ MaxJobs \in Nat \ {0}
    BY MaxJobsAssumption DEF IInv, TypeOK
  <2>2. /\ stored = Members(order)
        /\ n = IF m > MaxJobs THEN MaxJobs ELSE m
        /\ \A i \in 1..n : order[i] = accepted[m - n + i]
    BY DEF IInv, OrderInv
  <2> HIDE DEF m, n
  <2>3. ASSUME NEW i \in 1..n
        PROVE  m - n + i \in {k \in 1..m : k + MaxJobs > m}
    BY <2>1, <2>2
  <2>4. ASSUME NEW k \in {l \in 1..m : l + MaxJobs > m}
        PROVE  k - (m - n) \in 1..n /\ k = m - n + (k - (m - n))
    BY <2>1, <2>2
  <2>5. Members(order) = {order[i] : i \in 1..n}
    BY DEF Members, n
  <2>6. Newest = {accepted[k] : k \in {l \in 1..m : l + MaxJobs > m}}
    BY DEF Newest, m
  <2>7. Members(order) \subseteq Newest
    BY <2>2, <2>3, <2>5, <2>6
  <2>8. Newest \subseteq Members(order)
    BY <2>2, <2>4, <2>5, <2>6
  <2> QED
    BY <2>2, <2>7, <2>8 DEF RetainsNewest
<1> QED
  BY <1>1, Inductive, PTL

(* No answer of the status route and no verdict of the browser claims more *)
(* than the ingest did.                                                    *)
THEOREM RepliesSound == Safety => []ReplySound
<1>1. IInv => ReplySound
  BY DEF IInv, ReplyInv, ObjectInv, ReplySound
<1> QED
  BY <1>1, Inductive, PTL

(* A poll that finds the job settled returns its whole result.             *)
THEOREM SettledPollsComplete == Safety => []SettledPollIsComplete
<1>1. IInv => SettledPollIsComplete
  <2> SUFFICES ASSUME IInv, NEW j \in Jobs,
                      client[j] = "answered" /\ settledAtGet[j]
               PROVE  /\ reply[j].status \in Settled
                      /\ reply[j].report = Returned(j)
                      /\ reply[j].error = Raised(j)
    BY DEF SettledPollIsComplete
  <2>1. /\ job[j].status \in Settled /\ reply[j].status = job[j].status
        /\ reply[j].report = (job[j].status = "done")
        /\ reply[j].error = (job[j].status = "error")
    BY DEF IInv, SettledReplyInv
  <2>2. /\ job[j].status = "done" => Returned(j) /\ ~Raised(j)
        /\ job[j].status = "error" => Raised(j) /\ ~Returned(j)
    BY DEF IInv, ObjectInv, Returned, Raised
  <2> QED
    BY <2>1, <2>2 DEF Settled, Returned, Raised
<1> QED
  BY <1>1, Inductive, PTL

(* A job that a poll did not find is never found again.                    *)
THEOREM NotFoundFinal == Safety => []NotFoundIsFinal
  BY Inductive, PTL DEF IInv

-----------------------------------------------------------------------------
(* The refinement.                                                         *)

(* A create() drops the oldest job or none.                                *)
LEMMA EvictDropsOldest ==
  ASSUME NEW ids \in Seq(Jobs), NEW j \in Jobs, Len(ids) <= MaxJobs,
         NEW i \in 1..Len(ids), i # 1
  PROVE  ids[i] \in Members(Evict(Append(ids, j)))
<1> DEFINE new == Append(ids, j)
<1>1. /\ new \in Seq(Jobs) /\ Len(new) = Len(ids) + 1 /\ new[i] = ids[i]
      /\ Len(ids) \in Nat /\ MaxJobs \in Nat \ {0}
  BY MaxJobsAssumption
<1>2. /\ Len(Evict(new)) = IF Len(new) > MaxJobs THEN MaxJobs ELSE Len(new)
      /\ \A k \in 1..Len(Evict(new)) :
           Evict(new)[k] = new[Len(new) - Len(Evict(new)) + k]
  BY <1>1, EvictKeepsLast
<1> DEFINE last == Len(Evict(new))
           p == i - (Len(new) - last)
<1>3. last \in Nat /\ Len(new) - last \in {0, 1}
  BY <1>1, <1>2
<1> HIDE DEF new, last
<1>4. p \in 1..last /\ Len(new) - last + p = i
  BY <1>1, <1>3
<1> QED
  BY <1>1, <1>2, <1>4 DEF Members, new, last

(* The job that create() adds is not dropped at once.                      *)
LEMMA EvictKeepsNew ==
  ASSUME NEW ids \in Seq(Jobs), NEW j \in Jobs
  PROVE  j \in Members(Evict(Append(ids, j)))
<1> DEFINE new == Append(ids, j)
           last == Len(Evict(new))
<1>1. new \in Seq(Jobs) /\ Len(new) \in Nat \ {0} /\ new[Len(new)] = j
  OBVIOUS
<1>2. /\ last = IF Len(new) > MaxJobs THEN MaxJobs ELSE Len(new)
      /\ \A k \in 1..last : Evict(new)[k] = new[Len(new) - last + k]
  BY <1>1, EvictKeepsLast
<1>3. last \in 1..last /\ Len(new) - last + last = Len(new)
  BY <1>1, <1>2, MaxJobsAssumption
<1> QED
  BY <1>1, <1>2, <1>3 DEF Members

(* Each step of the store, the runner or the process is one step of the    *)
(* life cycle or none; the steps of the browser are none.                  *)
LEMMA StepRefines == IInv /\ [Next]_vars => [Lifecycle!Next]_View
<1> SUFFICES ASSUME IInv, [Next]_vars PROVE Lifecycle!Next \/ View' = View
  BY DEF Lifecycle!Next
<1> USE DEF IInv
<1>0. \A k \in stored : k \in Jobs /\ task[k] # "none"
  <2>1. \A i \in 1..Len(order) : Len(accepted) - Len(order) + i \in 1..Len(accepted)
    BY MaxJobsAssumption DEF TypeOK, OrderInv
  <2> QED
    BY <2>1 DEF TypeOK, OrderInv, Members
<1>1. ASSUME NEW j \in Jobs, Upload(j) PROVE Lifecycle!Accept(j)
  <2> DEFINE old == stored \ stored'
  <2>1. /\ task[j] = "none" /\ job' = job /\ job[j] = NewJob
        /\ order' = Evict(Append(order, j))
        /\ stored' = (stored \cup {j}) \cap Members(order')
        /\ task' = [task EXCEPT ![j] = "scheduled"]
    BY <1>1 DEF Upload, ObjectInv
  <2>2. j \in stored' /\ j \notin stored
    BY <1>0, <2>1, EvictKeepsNew DEF TypeOK
  <2>3. old \subseteq {order[1]}
    <3>1. Len(order) <= MaxJobs
      BY MaxJobsAssumption DEF OrderInv, TypeOK
    <3>2. \A i \in 1..Len(order) : i # 1 => order[i] \in Members(order')
      BY <2>1, <3>1, EvictDropsOldest DEF TypeOK
    <3> QED
      BY <2>1, <3>2 DEF OrderInv, Members
  <2>4. View[j] = "unknown" /\ View'[j] = "pending"
    BY <2>1, <2>2 DEF View, NewJob
  <2>5. ASSUME NEW k \in Jobs, k # j
        PROVE  View'[k] = IF k \in old THEN "gone" ELSE View[k]
    BY <1>0, <2>1, <2>5 DEF View, TypeOK
  <2>6. old \in SUBSET {i \in Jobs : View[i] \in Lifecycle!Live}
    BY <1>0 DEF View, TypeOK, IngestJob, JobStatus, Lifecycle!Live
  <2>7. View' = [i \in Jobs |-> IF i = j THEN "pending"
                                ELSE IF i \in old THEN "gone" ELSE View[i]]
    BY <2>4, <2>5 DEF View
  <2> QED
    BY <2>3, <2>4, <2>6, <2>7 DEF Lifecycle!Accept
<1>2. ASSUME NEW j \in Jobs, SetRunning(j) PROVE Lifecycle!Start(j) \/ View' = View
  <2>1. /\ task[j] = "scheduled" /\ stored' = stored
        /\ task' = [task EXCEPT ![j] = "waiting"]
        /\ job' = IF j \in stored THEN [job EXCEPT ![j].status = "running"] ELSE job
    BY <1>2 DEF SetRunning
  <2>2. CASE j \in stored
    <3>1. View[j] = "pending"
      BY <2>1, <2>2 DEF View, StoredInv
    <3>2. View' = [View EXCEPT ![j] = "running"]
      BY <2>1, <2>2 DEF View, TypeOK, IngestJob
    <3> QED
      BY <3>1, <3>2 DEF Lifecycle!Start
  <2>3. CASE j \notin stored
    BY <2>1, <2>3 DEF View, TypeOK
  <2> QED
    BY <2>2, <2>3
<1>3. ASSUME NEW j \in Jobs, StoreStatus(j) PROVE Lifecycle!Settle(j) \/ View' = View
  <2>1. task[j] \in {"returned", "raised"} /\ writing = NoJob /\ stored' = stored
    BY <1>3 DEF StoreStatus
  <2>2. CASE j \in stored
    <3>1. View[j] = "running"
      BY <2>1, <2>2, JobsAssumption DEF View, StoredInv
    <3>2. View' = [View EXCEPT ![j] =
                     IF task[j] = "returned" THEN "done" ELSE "error"]
      BY <1>3, <2>1, <2>2 DEF StoreStatus, View, TypeOK, IngestJob
    <3> QED
      BY <3>1, <3>2 DEF Lifecycle!Settle
  <2>3. CASE j \notin stored
    BY <1>3, <2>1, <2>3 DEF StoreStatus, View, TypeOK, Outcome
  <2> QED
    BY <2>2, <2>3
<1>4. ASSUME NEW j \in Jobs, StoreResult(j) PROVE View' = View
  <2>1. /\ stored' = stored /\ task[j] # "none" /\ Outcome(task[j]) # "none"
        /\ task' = [task EXCEPT ![j] = Outcome(task[j])]
    BY <1>4, JobsAssumption DEF StoreResult, WritingInv, Outcome
  <2>2. \A k \in Jobs : job'[k].status = job[k].status
    BY <1>4 DEF StoreResult, TypeOK, IngestJob
  <2> QED
    BY <2>1, <2>2 DEF View, TypeOK
<1>5. ASSUME NEW j \in Jobs, StartIngest(j) \/ IngestEnds(j) PROVE View' = View
  <2>1. /\ UNCHANGED <<stored, job>> /\ task[j] # "none"
        /\ \E s \in TaskState \ {"none"} : task' = [task EXCEPT ![j] = s]
    BY <1>5 DEF StartIngest, IngestEnds, storeVars, TaskState
  <2> QED
    BY <2>1 DEF View, TypeOK
<1>6. ASSUME NEW j \in Jobs, ClientStep(j) PROVE View' = View
  BY <1>6 DEF ClientStep, Poll, ReadStatus, ReadReport, ReadError, React,
              storeVars, View
<1>7. ASSUME Restart PROVE Lifecycle!Forget
  <2>1. stored' = {} /\ \A k \in Jobs : task'[k] = "none" <=> task[k] = "none"
    BY <1>7 DEF Restart, TypeOK, Outcome
  <2>2. \A k \in Jobs : View[k] \in Lifecycle!Live <=> k \in stored
    BY DEF View, TypeOK, IngestJob, JobStatus, Lifecycle!Live
  <2>3. \A k \in Jobs : View'[k] = IF View[k] \in Lifecycle!Live THEN "gone"
                                   ELSE View[k]
    BY <1>0, <2>1, <2>2 DEF View
  <2> QED
    BY <2>3 DEF View, Lifecycle!Forget
<1>8. CASE UNCHANGED vars
  BY <1>8 DEF vars, View
<1> QED
  BY <1>1, <1>2, <1>3, <1>4, <1>5, <1>6, <1>7, <1>8
  DEF Next, LoopStep, Lifecycle!Next

(* The store behind its routes implements the life cycle that the comment  *)
(* above JobStatus promises, for every number of jobs, polls and restarts. *)
THEOREM ImplementsLifecycle == Safety => RefinesLifecycle
<1>1. Init => Lifecycle!Init
  BY DEF Init, View, Lifecycle!Init
<1>2. IInv /\ [Next]_vars => [Lifecycle!Next]_View
  BY StepRefines
<1> QED
  BY <1>1, <1>2, Inductive, PTL
  DEF Safety, RefinesLifecycle, Lifecycle!Safety
=============================================================================
