--------------------------- MODULE DurableWorkflow ---------------------------
(***************************************************************************)
(* One checkpointed workflow of the autonomous operations plane            *)
(* (autonomous_ops/workflows.py): its steps run one after the other, one   *)
(* of them behind an approval gate, each leaves a checkpoint, and the      *)
(* workflow can be resumed at any time from the last checkpoint or at an   *)
(* index the caller names.                                                 *)
(*                                                                         *)
(* execute_workflow repeats execute_next_step up to the gate or the end;   *)
(* each repetition is a step of its own, as callers may approve or resume  *)
(* in between.  Steps are numbered from 1.                                 *)
(*                                                                         *)
(* Bound: MaxResumes calls of resume_from_checkpoint.                      *)
(***************************************************************************)
EXTENDS Naturals, Sequences

CONSTANTS NumSteps, Gate, MaxResumes

ASSUME WorkflowAssumption ==
  NumSteps \in Nat \ {0} /\ Gate \in 1..NumSteps /\ MaxResumes \in Nat

WorkflowStatus ==
  {"INITIALIZED", "IN_PROGRESS", "AWAITING_APPROVAL", "COMPLETED",
   "RESUMED_FROM_CHECKPOINT"}

StepStatus == {"PENDING", "AWAITING_APPROVAL", "APPROVED", "COMPLETED"}

VARIABLES
  sensitive,    \* is_sensitive: whether the gate is there
  index,        \* current_step_index
  step,         \* status of each step
  approved,     \* steps with an approved_by
  checkpoints,  \* indices of the executed steps, in order
  wfStatus,
  resumes,      \* calls of resume_from_checkpoint
  jumped        \* history: some resume named an index

wfVars == <<sensitive, index, step, approved, checkpoints, wfStatus, resumes, jumped>>

Steps == 1..NumSteps

WorkflowTypeOK ==
  /\ sensitive \in BOOLEAN
  /\ index \in 1..(NumSteps + 1)
  /\ step \in [Steps -> StepStatus]
  /\ approved \subseteq Steps
  /\ checkpoints \in Seq(Steps)
  /\ wfStatus \in WorkflowStatus
  /\ resumes \in 0..MaxResumes
  /\ jumped \in BOOLEAN

WorkflowInit ==
  /\ sensitive \in BOOLEAN
  /\ index = 1
  /\ step = [s \in Steps |-> "PENDING"]
  /\ approved = {}
  /\ checkpoints = <<>>
  /\ wfStatus = "INITIALIZED"
  /\ resumes = 0
  /\ jumped = FALSE

\* Mutant: the approval is not looked at.
GatedForGood(s) == sensitive /\ s = Gate

Gated(s) == sensitive /\ s = Gate /\ s \notin approved

AwaitApproval ==
  /\ index \in Steps /\ Gated(index)
  /\ step' = [step EXCEPT ![index] = "AWAITING_APPROVAL"]
  /\ wfStatus' = "AWAITING_APPROVAL"
  /\ UNCHANGED <<sensitive, index, approved, checkpoints, resumes, jumped>>

ExecuteStep ==
  /\ index \in Steps /\ ~Gated(index)
  /\ step' = [step EXCEPT ![index] = "COMPLETED"]
  /\ checkpoints' = Append(checkpoints, index)
  /\ index' = index + 1
  /\ wfStatus' = IF index + 1 > NumSteps THEN "COMPLETED" ELSE "IN_PROGRESS"
  /\ UNCHANGED <<sensitive, approved, resumes, jumped>>

\* execute_next_step after the last step.
NothingLeft ==
  /\ index \notin Steps
  /\ wfStatus' = "COMPLETED"
  /\ UNCHANGED <<sensitive, index, step, approved, checkpoints, resumes, jumped>>

\* Any step may be approved, at any time.
SubmitStepApproval(s) ==
  /\ approved' = approved \cup {s}
  /\ step' = [step EXCEPT ![s] = "APPROVED"]
  /\ wfStatus' = "IN_PROGRESS"
  /\ UNCHANGED <<sensitive, index, checkpoints, resumes, jumped>>

\* Mutant: the step of the last checkpoint is run again.
AfterCheckpointAgain ==
  IF checkpoints = <<>> THEN 1 ELSE checkpoints[Len(checkpoints)]

AfterCheckpoint ==
  IF checkpoints = <<>> THEN 1 ELSE checkpoints[Len(checkpoints)] + 1

ResumeAt(i) ==
  /\ resumes < MaxResumes
  /\ resumes' = resumes + 1
  /\ index' = i
  /\ wfStatus' = "RESUMED_FROM_CHECKPOINT"
  /\ UNCHANGED <<sensitive, step, approved, checkpoints>>

ResumeFromCheckpoint == ResumeAt(AfterCheckpoint) /\ UNCHANGED jumped

ResumeFromIndex == /\ \E i \in Steps : ResumeAt(i)
                   /\ jumped' = TRUE

ExecuteNextStep == AwaitApproval \/ ExecuteStep \/ NothingLeft

WorkflowNext ==
  \/ ExecuteNextStep
  \/ \E s \in Steps : SubmitStepApproval(s)
  \/ ResumeFromCheckpoint
  \/ ResumeFromIndex

WorkflowSpec ==
  WorkflowInit /\ [][WorkflowNext]_wfVars /\ WF_wfVars(ExecuteNextStep)

-----------------------------------------------------------------------------
(* Properties *)

\* The gated step of a sensitive workflow is executed only with an approval,
\* whatever is approved, resumed or skipped before (workflows.py, the check in
\* execute_next_step).
ExportWasApproved ==
  sensitive /\ (\E i \in DOMAIN checkpoints : checkpoints[i] = Gate)
    => Gate \in approved

\* As long as nobody names an index, interruptions and resumes neither repeat
\* nor skip a step (resume_from_checkpoint).
EachStepOnceInOrder ==
  ~jumped => /\ \A i \in DOMAIN checkpoints : checkpoints[i] = i
             /\ index = Len(checkpoints) + 1

\* What was executed follows the plan: the gated step after its approval, and
\* every step once and in its turn.
ExecutionFollowsPlan == ExportWasApproved /\ EachStepOnceInOrder

\* Once its gate is approved, a workflow that is being executed comes to its
\* end, however often it is resumed in between (execute_workflow).
ApprovedWorkflowFinishes == Gate \in approved ~> index \notin Steps
=============================================================================
