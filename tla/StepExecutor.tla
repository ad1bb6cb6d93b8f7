---------------------------- MODULE StepExecutor ----------------------------
(***************************************************************************)
(* scripts/execute.py: one run after another of the executor that has an   *)
(* agent work off the steps of a phase.  The executor alone writes the     *)
(* status of the steps (index.json); the agent reports in a result file of *)
(* its own.  Both leave changes in a git working tree which the executor   *)
(* commits, and a run may be cut off between any two of its calls.         *)
(***************************************************************************)
EXTENDS Integers

CONSTANTS
  StepCount,   (* steps of the phase                                       *)
  MaxRetries   (* MAX_RETRIES of StepExecutor                              *)

ASSUME ExecutorAssumption == StepCount \in Nat \ {0} /\ MaxRetries \in Nat \ {0}

VARIABLES
  indexStatus,   (* index.json in the working tree: the status of a step   *)
  phaseStatus,   (* its phase's status in phases/index.json                *)
  resultFile,    (* step{N}.result.json                                    *)
  dirtyWork,     (* the steps with changes that are not committed          *)
  phaseHead,     (* the statuses in the last commit of the phase's branch  *)
  onBranch,      (* the phase's branch is the one checked out              *)
  runner,        (* the run: where it is, its step and the attempt at it   *)
  reports,       (* history: what the last attempt at a step reported      *)
  detoured       (* history: a run checked the blockers of another branch  *)

executorVars == <<indexStatus, phaseStatus, resultFile, dirtyWork, phaseHead,
                  onBranch, runner, reports, detoured>>

Steps == 1..StepCount
StepStatus == {"pending", "completed", "error", "blocked"}

(* "malformed": not a JSON object with a status.                           *)
Reported == {"completed", "blocked", "error", "malformed"}
NoRun == [pc |-> "idle", step |-> 0, attempt |-> 0]
AllPending == [n \in Steps |-> "pending"]

ExecutorInit ==
  /\ indexStatus = AllPending
  /\ phaseStatus = "pending"
  /\ resultFile = [n \in Steps |-> "none"]
  /\ dirtyWork = {}
  /\ phaseHead = [index |-> AllPending, phase |-> "pending"]
  /\ onBranch = FALSE
  /\ runner = NoRun
  /\ reports = [n \in Steps |-> "none"]
  /\ detoured = FALSE

At(pc) == runner.pc = pc
Goto(pc) == runner' = [runner EXCEPT !.pc = pc]
Exit == runner' = NoRun

tree == <<indexStatus, phaseStatus, dirtyWork>>
InTree == [index |-> indexStatus, phase |-> phaseStatus]
-----------------------------------------------------------------------------
(* _check_blockers: from the last step back, the first that is not pending *)
(* stops the run if it failed or is blocked.                               *)
Blocked(status) ==
  \E n \in Steps : /\ status[n] \in {"error", "blocked"}
                   /\ \A m \in Steps : m > n => status[m] = "pending"

StartRun ==
  /\ At("idle") /\ ~Blocked(indexStatus)
  /\ Goto("checkout")
  /\ UNCHANGED <<tree, resultFile, phaseHead, onBranch, reports, detoured>>

(* _checkout_branch: comes after the check, and brings the files of the    *)
(* phase's branch.  Git may refuse.                                        *)
CheckoutBranch ==
  /\ At("checkout")
  /\ \/ /\ Goto("loop")
        /\ onBranch' = TRUE
        /\ IF onBranch THEN UNCHANGED <<indexStatus, phaseStatus, detoured>>
           ELSE /\ indexStatus' = phaseHead.index
                /\ phaseStatus' = phaseHead.phase
                /\ detoured' = (detoured \/ Blocked(phaseHead.index))
     \/ /\ ~onBranch
        /\ Exit
        /\ UNCHANGED <<indexStatus, phaseStatus, onBranch, detoured>>
  /\ UNCHANGED <<resultFile, dirtyWork, phaseHead, reports>>

(* _execute_all_steps: the first pending step, or the end.                 *)
NextStep ==
  /\ At("loop")
  /\ \/ \E n \in Steps :
          /\ indexStatus[n] = "pending"
          /\ \A m \in 1..(n - 1) : indexStatus[m] # "pending"
          /\ runner' = [pc |-> "attempt", step |-> n, attempt |-> 1]
     \/ /\ \A n \in Steps : indexStatus[n] # "pending"
        /\ Goto("finish")
  /\ UNCHANGED <<tree, resultFile, phaseHead, onBranch, reports, detoured>>

(* Fault: the result file of the previous attempt stays.                   *)
NotClearedFault(file, n) == file

Cleared(file, n) == [file EXCEPT ![n] = "none"]

(* An attempt of _execute_single_step begins: the agent starts, unless the *)
(* step has no description.                                                *)
BeginAttempt ==
  LET n == runner.step IN
  /\ At("attempt")
  /\ resultFile' = Cleared(resultFile, n)
  /\ reports' = [reports EXCEPT ![n] = "none"]
  /\ Goto("agent") \/ Exit
  /\ UNCHANGED <<tree, phaseHead, onBranch, detoured>>

-----------------------------------------------------------------------------
(* The agent, an external process: it changes the tree, may commit the     *)
(* code or everything, and may report, also more than once.                *)
AgentWorks ==
  /\ At("agent")
  /\ dirtyWork' = dirtyWork \cup {runner.step}
  /\ UNCHANGED <<indexStatus, phaseStatus, resultFile, phaseHead, onBranch,
                 runner, reports, detoured>>

AgentCommits ==
  /\ At("agent") /\ dirtyWork # {}
  /\ dirtyWork' = {}
  /\ phaseHead' \in {phaseHead, InTree}
  /\ UNCHANGED <<indexStatus, phaseStatus, resultFile, onBranch, runner,
                 reports, detoured>>

AgentReports ==
  /\ At("agent")
  /\ \E r \in Reported :
       /\ resultFile' = [resultFile EXCEPT ![runner.step] = r]
       /\ reports' = [reports EXCEPT ![runner.step] = r]
  /\ UNCHANGED <<tree, phaseHead, onBranch, runner, detoured>>

(* _invoke_claude returns, whatever the exit code; TimeoutExpired is not   *)
(* caught and ends the run.                                                *)
AgentEnds ==
  /\ At("agent")
  /\ Goto("read") \/ Exit
  /\ UNCHANGED <<tree, resultFile, phaseHead, onBranch, reports, detoured>>

-----------------------------------------------------------------------------
SetStatus(n, s) == indexStatus' = [indexStatus EXCEPT ![n] = s]

(* Fault: a retry starts counting anew.                                    *)
RetryForeverFault(run) == [run EXCEPT !.pc = "attempt"]

Retry(run) == [run EXCEPT !.pc = "attempt", !.attempt = @ + 1]

(* Fault: the attempts are counted from zero.                              *)
OneTooManyFault == runner.attempt <= MaxRetries

MayRetry == runner.attempt < MaxRetries

(* What _execute_single_step does with the report.                         *)
ReadResult ==
  LET n == runner.step
      r == resultFile[n]
  IN /\ At("read")
     /\ \/ r = "completed" /\ SetStatus(n, "completed") /\ Goto("feat")
        \/ r = "blocked" /\ SetStatus(n, "blocked") /\ Goto("top")
        \/ /\ r \notin {"completed", "blocked"}
           /\ MayRetry
           /\ runner' = Retry(runner)
           /\ UNCHANGED indexStatus
        \/ /\ r \notin {"completed", "blocked"}
           /\ ~MayRetry
           /\ SetStatus(n, "error") /\ Goto("feat")
     /\ UNCHANGED <<phaseStatus, dirtyWork, resultFile, phaseHead, onBranch,
                    reports, detoured>>

(* _commit_step, first part: all changes but the phase's own files.  A     *)
(* commit that fails is only a warning.                                    *)
FeatCommit ==
  /\ At("feat")
  /\ dirtyWork' \in {dirtyWork, {}}
  /\ Goto("chore")
  /\ UNCHANGED <<indexStatus, phaseStatus, resultFile, phaseHead, onBranch,
                 reports, detoured>>

(* What `git add -A` leaves uncommitted (beside the excluded paths).       *)
Unstaged(work) == {}

(* _commit_step, second part: whatever is left.                            *)
ChoreCommit ==
  /\ At("chore")
  /\ \/ dirtyWork' = Unstaged(dirtyWork) /\ phaseHead' = InTree
     \/ UNCHANGED <<dirtyWork, phaseHead>>
  /\ IF indexStatus[runner.step] = "completed"
     THEN runner' = [NoRun EXCEPT !.pc = "loop"]
     ELSE Goto("top")
  /\ UNCHANGED <<indexStatus, phaseStatus, resultFile, onBranch, reports, detoured>>

(* _update_top_index, and the run exits.                                   *)
RecordTop ==
  /\ At("top")
  /\ phaseStatus' = indexStatus[runner.step]
  /\ Exit
  /\ UNCHANGED <<indexStatus, dirtyWork, resultFile, phaseHead, onBranch,
                 reports, detoured>>

(* _finalize: the phase is completed, then committed and, on demand,       *)
(* pushed.  A commit that fails goes unnoticed.                            *)
Finish ==
  /\ At("finish")
  /\ phaseStatus' = "completed"
  /\ Goto("final")
  /\ UNCHANGED <<indexStatus, dirtyWork, resultFile, phaseHead, onBranch,
                 reports, detoured>>

FinalCommit ==
  /\ At("final")
  /\ \/ dirtyWork' = Unstaged(dirtyWork) /\ phaseHead' = InTree
     \/ UNCHANGED <<dirtyWork, phaseHead>>
  /\ Exit
  /\ UNCHANGED <<indexStatus, phaseStatus, resultFile, onBranch, reports, detoured>>

(* The process dies, or a call raises.                                     *)
RunCrashes ==
  /\ ~At("idle")
  /\ Exit
  /\ UNCHANGED <<tree, resultFile, phaseHead, onBranch, reports, detoured>>

-----------------------------------------------------------------------------
(* The user between two runs: resets a step as the message of              *)
(* _check_blockers says, commits what is left over, or checks out a branch *)
(* on which the phase has not begun, which needs a clean tree.             *)
ResetStep(n) ==
  /\ At("idle") /\ onBranch /\ indexStatus[n] \in {"error", "blocked"}
  /\ SetStatus(n, "pending")
  /\ UNCHANGED <<phaseStatus, dirtyWork, resultFile, phaseHead, onBranch,
                 runner, reports, detoured>>

CommitByHand ==
  /\ At("idle") /\ onBranch
  /\ dirtyWork' = {} /\ phaseHead' = InTree
  /\ UNCHANGED <<indexStatus, phaseStatus, resultFile, onBranch, runner,
                 reports, detoured>>

LeaveBranch ==
  /\ At("idle") /\ onBranch /\ dirtyWork = {} /\ phaseHead = InTree
  /\ onBranch' = FALSE
  /\ indexStatus' = AllPending /\ phaseStatus' = "pending"
  /\ UNCHANGED <<dirtyWork, resultFile, phaseHead, runner, reports, detoured>>

RunnerStep ==
  \/ CheckoutBranch \/ NextStep \/ BeginAttempt \/ AgentEnds \/ ReadResult
  \/ FeatCommit \/ ChoreCommit \/ RecordTop \/ Finish \/ FinalCommit

ExecutorNext ==
  \/ StartRun \/ RunnerStep \/ RunCrashes
  \/ AgentWorks \/ AgentCommits \/ AgentReports
  \/ (\E n \in Steps : ResetStep(n)) \/ CommitByHand \/ LeaveBranch

(* A run that is not killed goes on, and its agent ends or is killed after *)
(* the 1800 seconds of _invoke_claude.                                     *)
ExecutorFairness == WF_executorVars(RunnerStep)

ExecutorSpec == ExecutorInit /\ [][ExecutorNext]_executorVars /\ ExecutorFairness
-----------------------------------------------------------------------------
Statuses == [Steps -> StepStatus]
PhaseStatuses == StepStatus

ExecutorTypeOK ==
  /\ indexStatus \in Statuses
  /\ phaseStatus \in PhaseStatuses
  /\ resultFile \in [Steps -> Reported \cup {"none"}]
  /\ dirtyWork \subseteq Steps
  /\ phaseHead \in [index : Statuses, phase : PhaseStatuses]
  /\ onBranch \in BOOLEAN /\ detoured \in BOOLEAN
  /\ runner \in [pc : {"idle", "checkout", "loop", "attempt", "agent", "read",
                       "feat", "chore", "top", "finish", "final"},
                 step : 0..StepCount, attempt : 0..MaxRetries]
  /\ reports \in [Steps -> Reported \cup {"none"}]

(* A step is completed only on the report of the last agent that worked    *)
(* on it, never on a report left by an attempt that was cut off.           *)
CompletedOnReport ==
  \A n \in Steps : indexStatus[n] = "completed" => reports[n] = "completed"

(* A commit that records a step as completed leaves none of its work       *)
(* uncommitted, although the commit of the work may fail and the run may   *)
(* be cut off between the two commits.                                     *)
RecordedIsCommitted ==
  \A n \in Steps : phaseHead.index[n] = "completed" => n \notin dirtyWork

(* Steps complete in their order, and the phase when all of them have,     *)
(* unless a run looked for blockers before it changed to the branch that   *)
(* has them.                                                               *)
InOrderUnlessDetoured ==
  ~detoured =>
    /\ \A m, n \in Steps :
         m < n /\ indexStatus[n] = "completed" => indexStatus[m] = "completed"
    /\ phaseStatus = "completed" => \A n \in Steps : indexStatus[n] = "completed"

(* Every run ends, however little its agents report.                       *)
RunEnds == ~At("idle") ~> At("idle")

(* What index.json and git say of a phase is true, in its order.           *)
ProgressIsTold == CompletedOnReport /\ RecordedIsCommitted /\ InOrderUnlessDetoured
=============================================================================
