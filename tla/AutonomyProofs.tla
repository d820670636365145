---------------------------- MODULE AutonomyProofs ----------------------------
(***************************************************************************)
(* Proofs about the autonomous operations plane, for any workers, action   *)
(* types and plans; any number of steps, position of the gate and resumes; *)
(* any users, models and limits of the queue.                              *)
(***************************************************************************)
EXTENDS ActionPlans, DurableWorkflow, QueueControl, SequenceTheorems,
  FiniteSetTheorems, WellFoundedInduction, TLAPS

-----------------------------------------------------------------------------
(* Action plans *)

\* Where a plan stands that no administrator has approved and nobody has
\* rolled back: it waits, or it did not need approval.
PlanOK(r) ==
  /\ r.type \in Forbidden => r.status = "REJECTED" /\ ~r.ran
  /\ ~r.approved /\ ~r.rolled =>
       \/ r.status \in {"PENDING_APPROVAL", "REJECTED"} /\ ~r.ran
       \/ r.type \in AllowedAutomatic /\ r.low /\ ~r.gated

ActionInv == TypeOK /\ \A p \in DOMAIN plan : PlanOK(plan[p])

\* No type is forbidden and handled.
LEMMA ForbiddenUnhandled == Forbidden \cap Handled = {}
BY DEF Forbidden, Handled

LEMMA PlanFields ==
  ASSUME TypeOK, NEW p \in DOMAIN plan
  PROVE  /\ plan \in Seq(PlanRecord)
         /\ plan[p] \in PlanRecord
         /\ plan[p].target \in Worker
         /\ plan[p].prior \in WorkerStatus \cup {"none"}
<1>1. plan \in Seq(PlanRecord)
  BY DEF TypeOK
<1>2. plan[p] \in PlanRecord
  BY <1>1, ElementOfSeq, LenProperties
<1>3. QED
  BY <1>1, <1>2 DEF PlanRecord

\* Replacing one plan by a good one keeps the invariant on the plans.
LEMMA PlanStep ==
  ASSUME ActionInv, NEW p \in DOMAIN plan, NEW r \in PlanRecord, PlanOK(r),
         plan' = [plan EXCEPT ![p] = r]
  PROVE  /\ plan' \in Seq(PlanRecord)
         /\ DOMAIN plan' = DOMAIN plan
         /\ \A q \in DOMAIN plan' : PlanOK(plan'[q])
<1>1. plan \in Seq(PlanRecord)
  BY DEF ActionInv, TypeOK
<1>2. /\ plan' \in Seq(PlanRecord)
      /\ DOMAIN plan' = DOMAIN plan
      /\ \A q \in DOMAIN plan : plan'[q] = IF q = p THEN r ELSE plan[q]
  BY <1>1, ExceptSeq, LenProperties
<1>3. QED
  BY <1>2 DEF ActionInv

LEMMA ActionInitial == Init => ActionInv
<1> SUFFICES ASSUME Init PROVE ActionInv
  OBVIOUS
<1>1. plan \in Seq(PlanRecord) /\ DOMAIN plan = {}
  BY EmptySeq DEF Init
<1>2. QED
  BY <1>1, ActionAssumption DEF Init, ActionInv, TypeOK

LEMMA CreateStep ==
  ASSUME ActionInv, NEW t \in Proposed, NEW w \in Worker, NEW low \in BOOLEAN,
         NEW reversible \in BOOLEAN, CreatePlan(t, w, low, reversible)
  PROVE  ActionInv'
<1> DEFINE g == t \notin Forbidden /\ NeedsApproval(t, low)
           r == [type |-> t, target |-> w, low |-> low, reversible |-> reversible,
                 status |-> FirstStatus(t, low), gated |-> g,
                 approved |-> FALSE, ran |-> FALSE, prior |-> "none", rolled |-> FALSE]
<1>1. plan \in Seq(PlanRecord)
  BY DEF ActionInv, TypeOK
<1>2. FirstStatus(t, low) \in ActionExecutionStatus
  BY DEF FirstStatus, ActionExecutionStatus
<1>3. g \in BOOLEAN
  OBVIOUS
<1>4. r \in PlanRecord
  <2> HIDE DEF g
  <2>1. QED
    BY <1>2, <1>3 DEF PlanRecord
<1>5. /\ t \in Forbidden => FirstStatus(t, low) = "REJECTED"
      /\ \/ FirstStatus(t, low) \in {"PENDING_APPROVAL", "REJECTED"}
         \/ t \in AllowedAutomatic /\ low /\ ~g
  BY DEF FirstStatus, NeedsApproval
<1>6. PlanOK(r)
  <2> HIDE DEF g
  <2>1. QED
    BY <1>5 DEF PlanOK
<1>7. plan' = Append(plan, r)
  BY DEF CreatePlan
<1>8. plan' \in Seq(PlanRecord) /\ \A q \in DOMAIN plan' : PlanOK(plan'[q])
  <2> HIDE DEF r
  <2>1. plan' \in Seq(PlanRecord)
    BY <1>1, <1>4, <1>7
  <2>2. \A q \in DOMAIN plan' : plan'[q] = IF q \in DOMAIN plan THEN plan[q] ELSE r
    BY <1>1, <1>7
  <2>3. QED
    BY <1>6, <2>1, <2>2 DEF ActionInv
<1>9. QED
  BY <1>8 DEF CreatePlan, ActionInv, TypeOK

LEMMA ApproveStep ==
  ASSUME ActionInv, NEW p \in DOMAIN plan, ApprovePlan(p)
  PROVE  ActionInv'
<1> DEFINE a == [plan[p] EXCEPT !.status = "APPROVED"]
           r == [a EXCEPT !.approved = TRUE]
<1>1. plan[p] \in PlanRecord /\ PlanOK(plan[p])
  BY PlanFields DEF ActionInv
<1>2. a \in PlanRecord
  BY <1>1 DEF PlanRecord, ActionExecutionStatus
<1>3. r \in PlanRecord /\ r.type = plan[p].type /\ r.approved
  BY <1>1, <1>2 DEF PlanRecord
<1>4. plan[p].type \notin Forbidden
  BY <1>1 DEF ApprovePlan, PlanOK
<1>5. PlanOK(r)
  BY <1>3, <1>4 DEF PlanOK
<1>6. plan' = [plan EXCEPT ![p] = r]
  BY DEF ApprovePlan
<1>7. QED
  BY <1>3, <1>5, <1>6, PlanStep DEF ApprovePlan, ActionInv, TypeOK

LEMMA PlanRunStep ==
  ASSUME ActionInv, NEW p \in DOMAIN plan, ExecuteUnhandled(p) \/ ExecuteHandled(p)
  PROVE  ActionInv'
<1>1. /\ plan[p] \in PlanRecord
      /\ PlanOK(plan[p])
      /\ plan[p].target \in Worker
      /\ status \in [Worker -> WorkerStatus]
  BY PlanFields DEF ActionInv, TypeOK
<1>2. plan[p].type \notin Forbidden
  BY <1>1 DEF ExecuteUnhandled, ExecuteHandled, PlanOK, Refused
<1>3. CASE ExecuteUnhandled(p)
  <2> DEFINE r == [plan[p] EXCEPT !.status = "FAILED"]
  <2>1. /\ r \in PlanRecord
        /\ r.type = plan[p].type /\ r.approved = plan[p].approved
        /\ r.rolled = plan[p].rolled /\ r.low = plan[p].low
        /\ r.gated = plan[p].gated
    BY <1>1 DEF PlanRecord, ActionExecutionStatus
  <2>2. PlanOK(r)
    BY <1>1, <1>2, <1>3, <2>1 DEF ExecuteUnhandled, PlanOK, Refused
  <2>3. plan' = [plan EXCEPT ![p] = r]
    BY <1>3 DEF ExecuteUnhandled
  <2>4. QED
    BY <1>3, <2>1, <2>2, <2>3, PlanStep DEF ExecuteUnhandled, ActionInv, TypeOK
<1>4. CASE ExecuteHandled(p)
  <2> DEFINE s == IF plan[p].type \in OnWorkers THEN status[plan[p].target]
                  ELSE plan[p].prior
             a == [plan[p] EXCEPT !.status = "COMPLETED"]
             b == [a EXCEPT !.ran = TRUE]
             r == [b EXCEPT !.prior = s]
  <2>1. s \in WorkerStatus \cup {"none"}
    BY <1>1 DEF PlanRecord
  <2>2. a \in PlanRecord
    BY <1>1 DEF PlanRecord, ActionExecutionStatus
  <2>3. b \in PlanRecord
    BY <2>2 DEF PlanRecord
  <2>4. r \in PlanRecord
    <3> HIDE DEF s
    <3>1. QED
      BY <2>1, <2>3 DEF PlanRecord
  <2>5. /\ r.type = plan[p].type /\ r.approved = plan[p].approved
        /\ r.rolled = plan[p].rolled /\ r.low = plan[p].low
        /\ r.gated = plan[p].gated
    BY <1>1 DEF PlanRecord
  <2>6. PlanOK(r)
    BY <1>1, <1>2, <1>4, <2>5 DEF ExecuteHandled, PlanOK, Refused
  <2>7. plan' = [plan EXCEPT ![p] = r]
    BY <1>4 DEF ExecuteHandled
  <2>8. status' \in [Worker -> WorkerStatus]
    BY <1>1, <1>4 DEF ExecuteHandled, Effect, WorkerStatus
  <2>9. QED
    BY <1>4, <2>4, <2>6, <2>7, <2>8, PlanStep DEF ExecuteHandled, ActionInv, TypeOK
<1>5. QED
  BY <1>3, <1>4

LEMMA RollbackStep ==
  ASSUME ActionInv, NEW p \in DOMAIN plan, RollbackAction(p)
  PROVE  ActionInv'
<1> DEFINE a == [plan[p] EXCEPT !.status = "ROLLED_BACK"]
           r == [a EXCEPT !.rolled = TRUE]
<1>1. /\ plan[p] \in PlanRecord
      /\ plan[p].target \in Worker
      /\ plan[p].prior \in WorkerStatus \cup {"none"}
      /\ status \in [Worker -> WorkerStatus]
  BY PlanFields DEF ActionInv, TypeOK
<1>2. a \in PlanRecord
  BY <1>1 DEF PlanRecord, ActionExecutionStatus
<1>3. r \in PlanRecord /\ r.type = plan[p].type /\ r.rolled
  BY <1>1, <1>2 DEF PlanRecord
<1>4. plan[p].type \notin Forbidden
  BY ForbiddenUnhandled DEF RollbackAction, CanRollBack
<1>5. PlanOK(r)
  BY <1>3, <1>4 DEF PlanOK
<1>6. plan' = [plan EXCEPT ![p] = r]
  BY DEF RollbackAction
<1>7. status' \in [Worker -> WorkerStatus]
  BY <1>1 DEF RollbackAction, Undo, WorkerStatus
<1>8. QED
  BY <1>3, <1>5, <1>6, <1>7, PlanStep DEF RollbackAction, ActionInv, TypeOK

LEMMA ActionStep == ActionInv /\ [Next]_vars => ActionInv'
<1> SUFFICES ASSUME ActionInv, [Next]_vars PROVE ActionInv'
  OBVIOUS
<1>1. CASE UNCHANGED vars
  BY <1>1 DEF vars, ActionInv, TypeOK, PlanOK
<1>2. ASSUME NEW m \in AutonomyMode, SetMode(m) PROVE ActionInv'
  BY <1>2 DEF SetMode, ActionInv, TypeOK, PlanOK
<1>3. ASSUME NEW w \in Worker, HealHeartbeatMissing(w) \/ HealSecurityViolation(w)
      PROVE  ActionInv'
  BY <1>3 DEF HealHeartbeatMissing, HealSecurityViolation, ActionInv, TypeOK, PlanOK,
              WorkerStatus
<1>4. QED
  BY <1>1, <1>2, <1>3, CreateStep, ApproveStep, PlanRunStep, RollbackStep DEF Next

\* The plans and the workers are well typed and every plan is in order.
THEOREM ActionsSafe == Spec => []ActionInv
BY ActionInitial, ActionStep, PTL DEF Spec

\* The hard block of the governance bridge: no sequence of approvals,
\* executions and rollbacks makes a forbidden action run.
THEOREM ForbiddenActionsNeverRun == Spec => []ForbiddenNeverRuns
<1>1. ActionInv => ForbiddenNeverRuns
  BY DEF ActionInv, PlanOK, ForbiddenNeverRuns
<1>2. QED
  BY <1>1, ActionsSafe, PTL

\* Unless a rollback intervenes, only allowlisted LOW-risk actions run
\* without an administrator, and forbidden ones not at all.
THEOREM AutonomyIsBounded == Spec => []RunsAreAuthorised
<1>1. ActionInv => UnattendedIsBounded
  BY DEF ActionInv, PlanOK, UnattendedIsBounded
<1>2. ActionInv => ForbiddenNeverRuns
  BY DEF ActionInv, PlanOK, ForbiddenNeverRuns
<1>3. QED
  BY <1>1, <1>2, ActionsSafe, PTL DEF RunsAreAuthorised

-----------------------------------------------------------------------------
(* Durable workflows.  The inductive invariant is the type invariant with the  *)
(* two safety properties.                                                      *)

WorkflowInv == WorkflowTypeOK /\ ExportWasApproved /\ EachStepOnceInOrder

LEMMA InitHolds == WorkflowInit => WorkflowInv
<1> SUFFICES ASSUME WorkflowInit PROVE WorkflowInv
    OBVIOUS
<1> USE WorkflowAssumption DEF WorkflowInit
<1>1. /\ checkpoints \in Seq(Steps)
      /\ \A i \in DOMAIN checkpoints : FALSE
      /\ Len(checkpoints) = 0
    OBVIOUS
<1>2. step \in [Steps -> StepStatus] /\ wfStatus \in WorkflowStatus
    BY DEF StepStatus, WorkflowStatus
<1>3. index \in 1..(NumSteps + 1) /\ resumes \in 0..MaxResumes
    OBVIOUS
<1>4. approved \subseteq Steps /\ sensitive \in BOOLEAN /\ jumped \in BOOLEAN
    OBVIOUS
<1>5. WorkflowTypeOK
    BY <1>1, <1>2, <1>3, <1>4 DEF WorkflowTypeOK
<1>6. ExportWasApproved /\ EachStepOnceInOrder
    BY <1>1 DEF ExportWasApproved, EachStepOnceInOrder
<1> QED BY <1>5, <1>6 DEF WorkflowInv

\* Appending to the checkpoints adds one index at the end.
LEMMA CheckpointAppended ==
  ASSUME NEW S, NEW q \in Seq(S), NEW x \in S
  PROVE  /\ Append(q, x) \in Seq(S)
         /\ DOMAIN q = 1..Len(q)
         /\ Len(q) \in Nat
         /\ Len(Append(q, x)) = Len(q) + 1
         /\ DOMAIN Append(q, x) = 1..(Len(q) + 1)
         /\ \A i \in 1..Len(q) : Append(q, x)[i] = q[i]
         /\ Append(q, x)[Len(q) + 1] = x
OBVIOUS

LEMMA ExecuteKeeps == WorkflowInv /\ ExecuteStep => WorkflowInv'
<1> SUFFICES ASSUME WorkflowInv, ExecuteStep PROVE WorkflowInv'
    OBVIOUS
<1> USE WorkflowAssumption DEF WorkflowInv, ExecuteStep
<1>1. /\ index \in Steps
      /\ checkpoints \in Seq(Steps)
      /\ checkpoints' = Append(checkpoints, index)
    BY DEF WorkflowTypeOK
<1>2. /\ checkpoints' \in Seq(Steps)
      /\ DOMAIN checkpoints = 1..Len(checkpoints)
      /\ Len(checkpoints) \in Nat
      /\ Len(checkpoints') = Len(checkpoints) + 1
      /\ DOMAIN checkpoints' = 1..(Len(checkpoints) + 1)
      /\ \A i \in 1..Len(checkpoints) : checkpoints'[i] = checkpoints[i]
      /\ checkpoints'[Len(checkpoints) + 1] = index
    BY <1>1, CheckpointAppended
<1>3. WorkflowTypeOK'
    BY <1>1, <1>2 DEF WorkflowTypeOK, Steps, StepStatus, WorkflowStatus
<1>4. ExportWasApproved'
  <2>1. SUFFICES ASSUME sensitive, NEW i \in DOMAIN checkpoints', checkpoints'[i] = Gate
                 PROVE  Gate \in approved
      BY DEF ExportWasApproved
  <2>2. CASE i \in 1..Len(checkpoints)
      BY <2>1, <2>2, <1>2 DEF ExportWasApproved
  <2>3. CASE i = Len(checkpoints) + 1
      BY <2>1, <2>3, <1>2 DEF Gated
  <2> QED BY <2>2, <2>3, <1>2
<1>5. EachStepOnceInOrder'
  <2>1. SUFFICES ASSUME ~jumped
                 PROVE  /\ \A i \in DOMAIN checkpoints' : checkpoints'[i] = i
                        /\ index' = Len(checkpoints') + 1
      BY DEF EachStepOnceInOrder
  <2>2. index = Len(checkpoints) + 1 /\ \A i \in DOMAIN checkpoints : checkpoints[i] = i
      BY <2>1 DEF EachStepOnceInOrder
  <2> QED BY <2>2, <1>2
<1> QED BY <1>3, <1>4, <1>5

\* Going back to the last checkpoint lands right after it.
LEMMA ResumeKeeps == WorkflowInv /\ ResumeFromCheckpoint => WorkflowInv'
<1> SUFFICES ASSUME WorkflowInv, ResumeFromCheckpoint PROVE WorkflowInv'
    OBVIOUS
<1> USE WorkflowAssumption DEF WorkflowInv, ResumeFromCheckpoint, ResumeAt
<1>1. /\ checkpoints \in Seq(Steps) /\ Len(checkpoints) \in Nat
      /\ DOMAIN checkpoints = 1..Len(checkpoints)
    BY DEF WorkflowTypeOK
<1>2. AfterCheckpoint \in 1..(NumSteps + 1)
  <2>1. CASE checkpoints = <<>>
      BY <2>1 DEF AfterCheckpoint
  <2>2. CASE checkpoints # <<>>
    <3>1. Len(checkpoints) \in DOMAIN checkpoints
        BY <2>2, <1>1
    <3>2. checkpoints[Len(checkpoints)] \in Steps
        BY <3>1, <1>1
    <3> QED BY <3>2, <2>2 DEF AfterCheckpoint, Steps
  <2> QED BY <2>1, <2>2
<1>3. WorkflowTypeOK'
    BY <1>2 DEF WorkflowTypeOK, WorkflowStatus
<1>4. ExportWasApproved'
    BY DEF ExportWasApproved
<1>5. EachStepOnceInOrder'
  <2>1. SUFFICES ASSUME ~jumped
                 PROVE  /\ \A i \in DOMAIN checkpoints : checkpoints[i] = i
                        /\ AfterCheckpoint = Len(checkpoints) + 1
      BY DEF EachStepOnceInOrder
  <2>2. \A i \in DOMAIN checkpoints : checkpoints[i] = i
      BY <2>1 DEF EachStepOnceInOrder
  <2>3. CASE checkpoints = <<>>
      BY <2>2, <2>3, <1>1 DEF AfterCheckpoint
  <2>4. CASE checkpoints # <<>>
    <3>1. Len(checkpoints) \in DOMAIN checkpoints
        BY <2>4, <1>1
    <3> QED BY <3>1, <2>2, <2>4 DEF AfterCheckpoint
  <2> QED BY <2>3, <2>4
<1> QED BY <1>3, <1>4, <1>5

LEMMA StepHolds == WorkflowInv /\ [WorkflowNext]_wfVars => WorkflowInv'
<1> SUFFICES ASSUME WorkflowInv, [WorkflowNext]_wfVars PROVE WorkflowInv'
    OBVIOUS
<1> USE WorkflowAssumption
<1> USE DEF WorkflowInv, WorkflowTypeOK, ExportWasApproved, EachStepOnceInOrder
<1>1. CASE AwaitApproval
    BY <1>1 DEF AwaitApproval, StepStatus, WorkflowStatus
<1>2. CASE ExecuteStep
    BY <1>2, ExecuteKeeps
<1>3. CASE NothingLeft
    BY <1>3 DEF NothingLeft, WorkflowStatus
<1>4. ASSUME NEW s \in Steps, SubmitStepApproval(s) PROVE WorkflowInv'
    BY <1>4 DEF SubmitStepApproval, StepStatus, WorkflowStatus
<1>5. CASE ResumeFromCheckpoint
    BY <1>5, ResumeKeeps
<1>6. CASE ResumeFromIndex
    BY <1>6 DEF ResumeFromIndex, ResumeAt, Steps, WorkflowStatus
<1>7. CASE UNCHANGED wfVars
    BY <1>7 DEF wfVars
<1> QED BY <1>1, <1>2, <1>3, <1>4, <1>5, <1>6, <1>7 DEF WorkflowNext, ExecuteNextStep

\* The invariant holds in every reachable state, for any constants.
THEOREM WorkflowSafe == WorkflowSpec => []WorkflowInv
<1>1. WorkflowInit => WorkflowInv
    BY InitHolds
<1>2. WorkflowInv /\ [WorkflowNext]_wfVars => WorkflowInv'
    BY StepHolds
<1> QED BY <1>1, <1>2, PTL DEF WorkflowSpec

\* The gated step of a sensitive workflow is executed only with an approval
\* (workflows.py, execute_next_step), however many steps there are.
THEOREM GateHolds == WorkflowSpec => []ExportWasApproved
BY WorkflowSafe, PTL DEF WorkflowInv

\* Resumes from checkpoints neither repeat nor skip a step
\* (workflows.py, resume_from_checkpoint).
THEOREM StepsOnceInOrder == WorkflowSpec => []EachStepOnceInOrder
BY WorkflowSafe, PTL DEF WorkflowInv

\* Both together: what was executed follows the plan.
THEOREM ExecutionIsPlanned == WorkflowSpec => []ExecutionFollowsPlan
BY GateHolds, StepsOnceInOrder, PTL DEF ExecutionFollowsPlan

-----------------------------------------------------------------------------
(* The workload queue *)

QueuedItem == [id : 1..MaxItems, user : Users, model : Models]
RunningItem == [id : 1..MaxItems, user : Users, priority : Priorities]

QueueTypeOK ==
  /\ queue \in [Priorities -> Seq(QueuedItem)]
  /\ running \in SUBSET RunningItem /\ IsFiniteSet(running)
  /\ active \in [Users -> Nat]

\* No two items, queued or running, have one id.
OwnIds ==
  /\ \A p, q \in Priorities : \A i \in DOMAIN queue[p], k \in DOMAIN queue[q] :
       queue[p][i].id = queue[q][k].id => p = q /\ i = k
  /\ \A it, jt \in running : it.id = jt.id => it = jt
  /\ \A p \in Priorities : \A i \in DOMAIN queue[p] : \A jt \in running :
       queue[p][i].id # jt.id

QueueInv == QueueTypeOK /\ OwnIds /\ SharesAreKept

\* The parts of the sums that SharesAreKept is about.
Working(u) == {it \in running : it.user = u}
Limited(u) == {it \in running : it.user = u /\ it.priority > High}
Waiting(u) ==
  {it \in UNION {Queued(p) : p \in 3..5} : it.user = u /\ it.id \notin cancelled}

LEMMA SharesMean ==
  SharesAreKept <=>
    \A u \in Users : /\ active[u] = Cardinality(Working(u))
                     /\ Cardinality(Limited(u)) + Cardinality(Waiting(u)) <= MaxPerUser
BY DEF SharesAreKept, SlotsMatch, FairShare, Working, Limited, Waiting

\* A set of naturals that is not empty has a least element.
LEMMA FirstIsLeast ==
  ASSUME NEW S \in SUBSET Nat, S # {}
  PROVE  First(S) \in S /\ \A k \in S : First(S) <= k
<1>1. PICK n \in S : \A k \in S : ~ (<<k, n>> \in OpToRel(<, Nat))
    BY NatLessThanWellFounded, WFMin
<1>2. \A k \in S : n <= k
  <2> SUFFICES ASSUME NEW k \in S PROVE ~(k < n)
      OBVIOUS
  <2>1. <<k, n>> \in Nat \X Nat
      OBVIOUS
  <2> QED BY <1>1, <2>1 DEF OpToRel
<1> QED BY <1>2 DEF First

LEMMA QueueFacts ==
  ASSUME QueueTypeOK
  PROVE  /\ \A p \in Priorities :
              /\ queue[p] \in Seq(QueuedItem) /\ Len(queue[p]) \in Nat
              /\ DOMAIN queue[p] = 1..Len(queue[p])
              /\ Queued(p) \in SUBSET QueuedItem /\ IsFiniteSet(Queued(p))
         /\ AllQueued \in SUBSET QueuedItem /\ IsFiniteSet(AllQueued)
<1>1. ASSUME NEW p \in Priorities
      PROVE  /\ queue[p] \in Seq(QueuedItem) /\ Len(queue[p]) \in Nat
             /\ DOMAIN queue[p] = 1..Len(queue[p])
             /\ Queued(p) \in SUBSET QueuedItem /\ IsFiniteSet(Queued(p))
  <2>1. queue[p] \in Seq(QueuedItem)
      BY DEF QueueTypeOK
  <2>2. Len(queue[p]) \in Nat /\ DOMAIN queue[p] = 1..Len(queue[p])
      BY <2>1
  <2>3. Queued(p) \in SUBSET QueuedItem
      BY <2>1 DEF Queued
  <2>4. IsFiniteSet(1..Len(queue[p]))
      BY <2>2, FS_Interval
  <2> DEFINE f == [i \in 1..Len(queue[p]) |-> queue[p][i]]
  <2>5. f \in Surjection(1..Len(queue[p]), Queued(p))
      BY <2>2 DEF Surjection, Queued
  <2> QED BY <2>1, <2>2, <2>3, <2>4, <2>5, FS_Surjection
<1>2. AllQueued = Queued(1) \cup (Queued(2) \cup (Queued(3) \cup (Queued(4) \cup Queued(5))))
    BY DEF AllQueued, Priorities
<1>3. 1 \in Priorities /\ 2 \in Priorities /\ 3 \in Priorities /\ 4 \in Priorities
      /\ 5 \in Priorities
    BY DEF Priorities
<1>4. /\ IsFiniteSet(Queued(4) \cup Queued(5))
      /\ IsFiniteSet(Queued(3) \cup (Queued(4) \cup Queued(5)))
      /\ IsFiniteSet(Queued(2) \cup (Queued(3) \cup (Queued(4) \cup Queued(5))))
  <2>1. IsFiniteSet(Queued(4) \cup Queued(5))
      BY <1>1, <1>3, FS_Union
  <2>2. IsFiniteSet(Queued(3) \cup (Queued(4) \cup Queued(5)))
      BY <1>1, <1>3, <2>1, FS_Union
  <2> QED BY <1>1, <1>3, <2>1, <2>2, FS_Union
<1>5. IsFiniteSet(AllQueued)
    BY <1>1, <1>2, <1>3, <1>4, FS_Union
<1> QED BY <1>1, <1>2, <1>3, <1>5

LEMMA CountsAreNat ==
  ASSUME QueueTypeOK, NEW u \in Users
  PROVE  /\ IsFiniteSet(Working(u)) /\ Cardinality(Working(u)) \in Nat
         /\ IsFiniteSet(Limited(u)) /\ Cardinality(Limited(u)) \in Nat
         /\ Cardinality(Limited(u)) <= Cardinality(Working(u))
         /\ IsFiniteSet(Waiting(u)) /\ Cardinality(Waiting(u)) \in Nat
<1>1. Working(u) \in SUBSET running /\ Limited(u) \in SUBSET Working(u)
    BY DEF Working, Limited
<1>2. Waiting(u) \in SUBSET AllQueued
    BY DEF Waiting, AllQueued, Priorities
<1>3. IsFiniteSet(running) /\ IsFiniteSet(AllQueued)
    BY QueueFacts DEF QueueTypeOK
<1>4. IsFiniteSet(Working(u)) /\ IsFiniteSet(Waiting(u))
    BY <1>1, <1>2, <1>3, FS_Subset
<1>5. IsFiniteSet(Limited(u)) /\ Cardinality(Limited(u)) <= Cardinality(Working(u))
    BY <1>1, <1>4, FS_Subset
<1> QED BY <1>4, <1>5, FS_CardinalityType

\* Nobody's share grows where nobody has more to wait for.
LEMMA SharesStay ==
  ASSUME QueueInv, UNCHANGED <<active, running>>,
         \A u \in Users : Waiting(u)' \subseteq Waiting(u)
  PROVE  SharesAreKept'
<1> SUFFICES ASSUME NEW u \in Users
             PROVE  /\ active'[u] = Cardinality(Working(u)')
                    /\ Cardinality(Limited(u)') + Cardinality(Waiting(u)') <= MaxPerUser
    BY DEF SharesAreKept, SlotsMatch, FairShare, Working, Limited, Waiting
<1>1. /\ active[u] = Cardinality(Working(u))
      /\ Cardinality(Limited(u)) + Cardinality(Waiting(u)) <= MaxPerUser
    BY SharesMean DEF QueueInv
<1>2. Working(u)' = Working(u) /\ Limited(u)' = Limited(u)
    BY DEF Working, Limited
<1>3. IsFiniteSet(Waiting(u)) /\ Cardinality(Waiting(u)) \in Nat /\ Cardinality(Limited(u)) \in Nat
    BY CountsAreNat DEF QueueInv
<1>4. Waiting(u)' \in SUBSET Waiting(u)
    OBVIOUS
<1>5. IsFiniteSet(Waiting(u)') /\ Cardinality(Waiting(u)') <= Cardinality(Waiting(u))
    BY <1>3, <1>4, FS_Subset
<1>6. Cardinality(Waiting(u)') \in Nat
    BY <1>5, FS_CardinalityType
<1>7. MaxPerUser \in Nat
    BY QueueAssumption
<1> QED BY <1>1, <1>2, <1>3, <1>5, <1>6, <1>7

\* Every queue keeps a part of itself, from some place on.
IsPart(off) ==
  \A p \in Priorities : \A i \in DOMAIN queue'[p] :
    i + off[p] \in DOMAIN queue[p] /\ queue'[p][i] = queue[p][i + off[p]]

LEMMA PartsKeepIds ==
  ASSUME QueueInv, NEW off \in [Priorities -> Nat], IsPart(off),
         queue' \in [Priorities -> Seq(QueuedItem)]
  PROVE  /\ \A p, q \in Priorities : \A i \in DOMAIN queue'[p], k \in DOMAIN queue'[q] :
              queue'[p][i].id = queue'[q][k].id => p = q /\ i = k
         /\ \A p \in Priorities : \A i \in DOMAIN queue'[p] : \A jt \in running :
              queue'[p][i].id # jt.id
<1>1. \A p \in Priorities : \A i \in DOMAIN queue'[p] : i \in Nat
    OBVIOUS
<1>2. ASSUME NEW p \in Priorities, NEW q \in Priorities, NEW i \in DOMAIN queue'[p],
             NEW k \in DOMAIN queue'[q], queue'[p][i].id = queue'[q][k].id
      PROVE  p = q /\ i = k
  <2>1. /\ i + off[p] \in DOMAIN queue[p] /\ queue'[p][i] = queue[p][i + off[p]]
        /\ k + off[q] \in DOMAIN queue[q] /\ queue'[q][k] = queue[q][k + off[q]]
      BY DEF IsPart
  <2>2. p = q /\ i + off[p] = k + off[q]
      BY <1>2, <2>1 DEF QueueInv, OwnIds
  <2>3. i \in Nat /\ k \in Nat /\ off[p] \in Nat /\ off[q] \in Nat
      BY <1>1
  <2> QED BY <2>2, <2>3
<1>3. ASSUME NEW p \in Priorities, NEW i \in DOMAIN queue'[p], NEW jt \in running
      PROVE  queue'[p][i].id # jt.id
    BY DEF IsPart, QueueInv, OwnIds
<1> QED BY <1>2, <1>3

LEMMA PartsWait ==
  ASSUME NEW off, IsPart(off), Forget, NEW u \in Users
  PROVE  Waiting(u)' \subseteq Waiting(u)
<1> SUFFICES ASSUME NEW it \in Waiting(u)' PROVE it \in Waiting(u)
    OBVIOUS
<1>1. PICK p \in 3..5 : it \in Queued(p)'
    BY DEF Waiting
<1>2. PICK i \in DOMAIN queue'[p] : it = queue'[p][i]
    BY <1>1 DEF Queued
<1>3. it.user = u /\ it.id \notin cancelled'
    BY DEF Waiting
<1>4. p \in Priorities
    BY <1>1 DEF Priorities
<1>5. it.id \in UNION {{queue'[q][k].id : k \in DOMAIN queue'[q]} : q \in Priorities}
    BY <1>2, <1>4
<1>6. it.id \notin cancelled
    BY <1>3, <1>5 DEF Forget
<1>7. it \in Queued(p)
    BY <1>2, <1>4 DEF IsPart, Queued
<1> QED BY <1>1, <1>3, <1>6, <1>7 DEF Waiting

LEMMA EnqueueKeeps ==
  ASSUME QueueInv, NEW u \in Users, NEW m \in Models, NEW p \in Offered, Enqueue(u, m, p)
  PROVE  QueueInv'
<1>1. FreeIds # {} /\ ~OverFairShare(u, p) /\ UNCHANGED <<cancelled, expired, active, running>>
    BY DEF Enqueue
<1>2. p \in Priorities
    BY QueueAssumption DEF Priorities
<1>3. QueueTypeOK
    BY DEF QueueInv
<1>4. CASE UNCHANGED queue
  <2>1. \A v \in Users : Waiting(v)' \subseteq Waiting(v)
      BY <1>1, <1>4 DEF Waiting, Queued
  <2>2. QueueTypeOK' /\ OwnIds'
      BY <1>1, <1>4 DEF QueueInv, QueueTypeOK, OwnIds
  <2> QED BY <1>1, <2>1, <2>2, SharesStay DEF QueueInv
<1>5. CASE queue' = [queue EXCEPT ![p] =
                       Append(queue[p], [id |-> NewId, user |-> u, model |-> m])]
  <2> DEFINE x == [id |-> NewId, user |-> u, model |-> m]
             s == Append(queue[p], x)
  <2>1. NewId \in FreeIds
    <3>1. FreeIds \in SUBSET Nat
        BY QueueAssumption DEF FreeIds
    <3> QED BY <1>1, <3>1, FirstIsLeast DEF NewId
  <2>2. NewId \in 1..MaxItems /\ \A it \in AllQueued \cup running : it.id # NewId
      BY <2>1 DEF FreeIds
  <2>3. x \in QueuedItem /\ x.id = NewId /\ x.user = u
      BY <2>2 DEF QueuedItem
  <2>4. queue' = [queue EXCEPT ![p] = s] /\ queue \in [Priorities -> Seq(QueuedItem)]
      BY <1>3, <1>5 DEF QueueTypeOK
  <2> HIDE DEF x
  <2>5. /\ s \in Seq(QueuedItem) /\ DOMAIN s = DOMAIN queue[p] \cup {Len(queue[p]) + 1}
        /\ \A i \in DOMAIN queue[p] : s[i] = queue[p][i]
        /\ s[Len(queue[p]) + 1] = x
      BY <1>2, <2>3, <2>4, CheckpointAppended
  <2> HIDE DEF s
  <2>6. /\ queue' \in [Priorities -> Seq(QueuedItem)] /\ queue'[p] = s
        /\ \A q \in Priorities : q # p => queue'[q] = queue[q]
      BY <1>2, <2>4, <2>5
  <2>7. \A q \in Priorities : \A i \in DOMAIN queue[q] : queue[q][i].id # NewId
      BY <2>2 DEF AllQueued, Queued
  <2>8. \A q \in Priorities : \A i \in DOMAIN queue'[q] :
          \/ i \in DOMAIN queue[q] /\ queue'[q][i] = queue[q][i]
          \/ q = p /\ i = Len(queue[p]) + 1 /\ queue'[q][i] = x
      BY <2>5, <2>6
  <2>9. OwnIds'
    <3>1. ASSUME NEW q \in Priorities, NEW r \in Priorities, NEW i \in DOMAIN queue'[q],
                 NEW k \in DOMAIN queue'[r], queue'[q][i].id = queue'[r][k].id
          PROVE  q = r /\ i = k
        BY <2>3, <2>7, <2>8, <3>1 DEF QueueInv, OwnIds
    <3>2. \A q \in Priorities : \A i \in DOMAIN queue'[q] : \A jt \in running :
            queue'[q][i].id # jt.id
        BY <2>2, <2>3, <2>8 DEF QueueInv, OwnIds
    <3> QED BY <1>1, <3>1, <3>2 DEF QueueInv, OwnIds
  <2>10. QueueTypeOK'
      BY <1>1, <1>3, <2>6 DEF QueueTypeOK
  <2>11. \A q \in Priorities :
           Queued(q)' \subseteq Queued(q) \cup (IF q = p THEN {x} ELSE {})
      BY <2>8 DEF Queued
  <2>12. ASSUME NEW v \in Users PROVE Waiting(v)' \subseteq Waiting(v) \cup {x}
      BY <1>1, <2>11 DEF Waiting, Priorities
  <2>13. ASSUME NEW v \in Users, v # u \/ ~(p > High) PROVE Waiting(v)' \subseteq Waiting(v)
    <3>1. \A q \in 3..5 : q \in Priorities /\ q > High
        BY DEF Priorities, High
    <3> QED BY <1>1, <2>3, <2>11, <2>13, <3>1 DEF Waiting
  <2>14. SharesAreKept'
    <3>1. CASE ~(p > High)
        BY <1>1, <2>13, <3>1, SharesStay
    <3>2. CASE p > High
      <4> SUFFICES ASSUME NEW v \in Users
                   PROVE  /\ active'[v] = Cardinality(Working(v)')
                          /\ Cardinality(Limited(v)') + Cardinality(Waiting(v)') <= MaxPerUser
          BY DEF SharesAreKept, SlotsMatch, FairShare, Working, Limited, Waiting
      <4>1. /\ active[v] = Cardinality(Working(v))
            /\ Cardinality(Limited(v)) + Cardinality(Waiting(v)) <= MaxPerUser
          BY SharesMean DEF QueueInv
      <4>2. Working(v)' = Working(v) /\ Limited(v)' = Limited(v)
          BY <1>1 DEF Working, Limited
      <4>3. /\ IsFiniteSet(Waiting(v)) /\ Cardinality(Waiting(v)) \in Nat
            /\ Cardinality(Limited(v)) \in Nat
            /\ Cardinality(Limited(v)) <= Cardinality(Working(v))
            /\ Cardinality(Working(v)) \in Nat /\ MaxPerUser \in Nat
          BY <1>3, CountsAreNat, QueueAssumption
      <4>4. CASE v # u
        <5>1. Waiting(v)' \in SUBSET Waiting(v)
            BY <2>13, <4>4
        <5>2. IsFiniteSet(Waiting(v)') /\ Cardinality(Waiting(v)') <= Cardinality(Waiting(v))
            BY <4>3, <5>1, FS_Subset
        <5>3. Cardinality(Waiting(v)') \in Nat
            BY <5>2, FS_CardinalityType
        <5> QED BY <1>1, <4>1, <4>2, <4>3, <5>2, <5>3
      <4>5. CASE v = u
        <5> DEFINE Load == {it \in Uncancelled : it.user = u}
        <5>1. active[u] + Cardinality(Load) < MaxPerUser
          <6>1. ~(active[u] + Cardinality(Load) >= MaxPerUser)
              BY <1>1, <3>2 DEF OverFairShare
          <6>2. Load \in SUBSET AllQueued
              BY DEF Uncancelled
          <6>3. Cardinality(Load) \in Nat
              BY <1>3, <6>2, QueueFacts, FS_Subset, FS_CardinalityType
          <6> HIDE DEF Load
          <6> QED BY <4>1, <4>3, <4>5, <6>1, <6>3
        <5>2. Waiting(u) \in SUBSET Load
            BY DEF Waiting, Uncancelled, AllQueued, Priorities
        <5>3. IsFiniteSet(Load) /\ Cardinality(Load) \in Nat
          <6>1. Load \in SUBSET AllQueued
              BY DEF Uncancelled
          <6> QED BY <1>3, <6>1, QueueFacts, FS_Subset, FS_CardinalityType
        <5> HIDE DEF Load
        <5>4. Cardinality(Waiting(u)) <= Cardinality(Load)
            BY <5>2, <5>3, FS_Subset
        <5>5. Waiting(u)' \in SUBSET (Waiting(u) \cup {x})
            BY <2>12
        <5>6. /\ IsFiniteSet(Waiting(u) \cup {x})
              /\ Cardinality(Waiting(u) \cup {x}) <= Cardinality(Waiting(u)) + 1
              /\ Cardinality(Waiting(u) \cup {x}) \in Nat
          <6>1. IsFiniteSet(Waiting(u)) /\ Cardinality(Waiting(u)) \in Nat
              BY <4>3, <4>5
          <6>2. IsFiniteSet(Waiting(u) \cup {x})
              BY <6>1, FS_AddElement
          <6>3. Cardinality(Waiting(u) \cup {x})
                  = IF x \in Waiting(u) THEN Cardinality(Waiting(u))
                                        ELSE Cardinality(Waiting(u)) + 1
              BY <6>1, FS_AddElement
          <6> QED BY <6>1, <6>2, <6>3
        <5>7. IsFiniteSet(Waiting(u)') /\ Cardinality(Waiting(u)')
                <= Cardinality(Waiting(u) \cup {x})
            BY <5>5, <5>6, FS_Subset
        <5>8. Cardinality(Waiting(u)') \in Nat
            BY <5>7, FS_CardinalityType
        <5>9. Cardinality(Waiting(u)') <= Cardinality(Waiting(u)) + 1
            BY <4>3, <4>5, <5>6, <5>7, <5>8
        <5>10. Cardinality(Limited(u)) + Cardinality(Waiting(u)') <= MaxPerUser
            BY <4>1, <4>3, <4>5, <5>1, <5>3, <5>4, <5>8, <5>9
        <5> QED BY <1>1, <4>1, <4>2, <4>5, <5>10
      <4> QED BY <4>4, <4>5
    <3> QED BY <3>1, <3>2
  <2> QED BY <2>9, <2>10, <2>14 DEF QueueInv
<1> QED BY <1>4, <1>5 DEF Enqueue

LEMMA DequeueKeeps ==
  ASSUME QueueInv, DequeueNext
  PROVE  QueueInv'
<1> SUFFICES ASSUME NEW p, p = First(Serving), NEW i, i = First(Live(p)) PROVE QueueInv'
    OBVIOUS
<1>1. QueueTypeOK
    BY DEF QueueInv
<1>2. p \in Priorities /\ Live(p) # {} /\ \A q \in Priorities : q < p => Live(q) = {}
  <2>1. Serving \in SUBSET Nat /\ Serving # {}
      BY DEF Serving, Priorities, DequeueNext
  <2>2. p \in Serving /\ \A q \in Serving : p <= q
      BY <2>1, FirstIsLeast
  <2>3. p \in Priorities /\ Live(p) # {}
      BY <2>2 DEF Serving
  <2>4. ASSUME NEW q \in Priorities, q < p PROVE Live(q) = {}
    <3>1. q \notin Serving
        BY <2>1, <2>2, <2>3, <2>4 DEF Priorities
    <3> QED BY <3>1 DEF Serving
  <2> QED BY <2>3, <2>4
<1>3. i \in DOMAIN queue[p] /\ IsLive(queue[p][i])
  <2>1. Live(p) \in SUBSET Nat
      BY <1>1, <1>2, QueueFacts DEF Live
  <2> QED BY <1>2, <2>1, FirstIsLeast DEF Live
<1>4. /\ queue[p] \in Seq(QueuedItem) /\ Len(queue[p]) \in Nat /\ i \in 1..Len(queue[p])
      /\ queue \in [Priorities -> Seq(QueuedItem)]
    BY <1>1, <1>2, <1>3, QueueFacts DEF QueueTypeOK
<1> DEFINE x == queue[p][i]
           run == [id |-> x.id, user |-> x.user, priority |-> p]
           rest == SubSeq(queue[p], i + 1, Len(queue[p]))
<1>5. x \in QueuedItem /\ x.user \in Users /\ x.id \in 1..MaxItems /\ x.id \notin cancelled
  <2>1. x \in QueuedItem
      BY <1>4
  <2>2. x.id \notin cancelled
      BY <1>3 DEF IsLive
  <2> HIDE DEF x
  <2> QED BY <2>1, <2>2 DEF QueuedItem
<1>6. run \in RunningItem /\ run.id = x.id /\ run.user = x.user /\ run.priority = p
    BY <1>2, <1>5 DEF RunningItem
<1>7. /\ queue' = [q \in Priorities |->
                     IF q < p THEN <<>> ELSE IF q = p THEN rest ELSE queue[q]]
      /\ active' = [active EXCEPT ![x.user] = active[x.user] + 1]
      /\ running' = running \cup {run}
      /\ Forget
  <2>1. queue' = [q \in Priorities |->
                     IF q < p /\ Live(q) = {} THEN <<>> ELSE IF q = p THEN rest ELSE queue[q]]
      BY DEF DequeueNext
  <2> QED BY <1>2, <2>1 DEF DequeueNext, Charge
<1>8. /\ rest \in Seq(QueuedItem) /\ DOMAIN rest = 1..Len(rest) /\ Len(rest) \in Nat
      /\ \A k \in DOMAIN rest : /\ k \in Nat \ {0} /\ k + i \in DOMAIN queue[p]
                                /\ rest[k] = queue[p][k + i]
  <2>1. \A k \in (i + 1)..Len(queue[p]) : queue[p][k] \in QueuedItem
      BY <1>4
  <2>2. /\ rest \in Seq(QueuedItem)
        /\ Len(rest) = IF i + 1 <= Len(queue[p]) THEN Len(queue[p]) - (i + 1) + 1 ELSE 0
        /\ \A k \in 1..(Len(queue[p]) - (i + 1) + 1) : rest[k] = queue[p][(i + 1) + k - 1]
    <3> HIDE DEF x
    <3> QED BY <1>4, <2>1, SubSeqProperties
  <2> HIDE DEF rest
  <2>3. Len(rest) \in Nat /\ DOMAIN rest = 1..Len(rest)
      BY <2>2
  <2>4. Len(rest) <= Len(queue[p]) - i /\ DOMAIN queue[p] = 1..Len(queue[p])
      BY <1>4, <2>2
  <2> SUFFICES ASSUME NEW k \in 1..Len(rest)
               PROVE  /\ k \in Nat \ {0} /\ k + i \in DOMAIN queue[p]
                      /\ rest[k] = queue[p][k + i]
      BY <2>2, <2>3
  <2>5. /\ k \in Nat \ {0} /\ k \in 1..(Len(queue[p]) - (i + 1) + 1)
        /\ (i + 1) + k - 1 = k + i /\ k + i \in 1..Len(queue[p])
      BY <1>4, <2>3, <2>4
  <2>6. rest[k] = queue[p][(i + 1) + k - 1]
      BY <2>2, <2>5
  <2> QED BY <2>4, <2>5, <2>6
<1> HIDE DEF x, run, rest
<1>9. /\ queue' \in [Priorities -> Seq(QueuedItem)]
      /\ \A q \in Priorities : q < p => DOMAIN queue'[q] = {}
      /\ queue'[p] = rest
      /\ \A q \in Priorities : ~(q < p) /\ q # p => queue'[q] = queue[q]
  <2> DEFINE e == <<>>
  <2>1. e \in Seq(QueuedItem) /\ DOMAIN e = {}
      OBVIOUS
  <2>2. queue' = [q \in Priorities |->
                     IF q < p THEN e ELSE IF q = p THEN rest ELSE queue[q]]
      BY <1>7
  <2>3. ~(p < p)
      BY <1>2 DEF Priorities
  <2> HIDE DEF e
  <2> QED BY <1>2, <1>4, <1>8, <2>1, <2>2, <2>3
<1> DEFINE off == [q \in Priorities |-> IF q = p THEN i ELSE 0]
<1>10. off \in [Priorities -> Nat] /\ IsPart(off)
  <2>1. off \in [Priorities -> Nat]
      BY <1>4
  <2>2. ASSUME NEW q \in Priorities, NEW k \in DOMAIN queue'[q]
        PROVE  k + off[q] \in DOMAIN queue[q] /\ queue'[q][k] = queue[q][k + off[q]]
    <3>1. CASE q = p
        BY <1>8, <1>9, <3>1
    <3>2. CASE q # p
      <4>1. queue'[q] = queue[q] /\ off[q] = 0
          BY <1>9, <2>2, <3>2
      <4>2. k \in Nat
          BY <1>9
      <4> QED BY <4>1, <4>2
    <3> QED BY <3>1, <3>2
  <2> QED BY <2>1, <2>2 DEF IsPart
<1> HIDE DEF off
\* What is left has other ids than the item handed out.
<1>11. \A q \in Priorities : \A k \in DOMAIN queue'[q] : queue'[q][k].id # x.id
  <2> SUFFICES ASSUME NEW q \in Priorities, NEW k \in DOMAIN queue'[q], queue'[q][k].id = x.id
               PROVE  FALSE
      OBVIOUS
  <2>1. CASE q = p
    <3>1. k \in Nat \ {0} /\ k + i \in DOMAIN queue[p] /\ queue[p][k + i].id = queue[p][i].id
        BY <1>8, <1>9, <2>1 DEF x
    <3>2. k + i = i
        BY <1>2, <1>3, <3>1 DEF QueueInv, OwnIds
    <3> QED BY <1>4, <3>1, <3>2
  <2>2. CASE q # p
    <3>1. k \in DOMAIN queue[q] /\ queue[q][k].id = queue[p][i].id
        BY <1>9, <2>2 DEF x
    <3> QED BY <1>2, <1>3, <2>2, <3>1 DEF QueueInv, OwnIds
  <2> QED BY <2>1, <2>2
<1>12. \A jt \in running : jt.id # x.id
    BY <1>2, <1>3 DEF QueueInv, OwnIds, x
<1>13. OwnIds'
  <2>1. /\ \A q, r \in Priorities : \A k \in DOMAIN queue'[q], l \in DOMAIN queue'[r] :
             queue'[q][k].id = queue'[r][l].id => q = r /\ k = l
        /\ \A q \in Priorities : \A k \in DOMAIN queue'[q] : \A jt \in running :
             queue'[q][k].id # jt.id
      BY <1>9, <1>10, PartsKeepIds
  <2>2. \A it, jt \in running' : it.id = jt.id => it = jt
      BY <1>6, <1>7, <1>12 DEF QueueInv, OwnIds
  <2>3. \A q \in Priorities : \A k \in DOMAIN queue'[q] : \A jt \in running' :
          queue'[q][k].id # jt.id
      BY <1>6, <1>7, <1>11, <2>1
  <2> QED BY <2>1, <2>2, <2>3 DEF OwnIds
<1>14. QueueTypeOK'
  <2>1. running' \in SUBSET RunningItem /\ IsFiniteSet(running')
      BY <1>1, <1>6, <1>7, FS_AddElement DEF QueueTypeOK
  <2>2. active' \in [Users -> Nat]
      BY <1>1, <1>5, <1>7 DEF QueueTypeOK
  <2> QED BY <1>9, <2>1, <2>2 DEF QueueTypeOK
<1>15. \A u \in Users : Waiting(u)' \subseteq Waiting(u)
    BY <1>7, <1>10, PartsWait
<1>16. run \notin running
    BY <1>6, <1>12
<1>17. SharesAreKept'
  <2> SUFFICES ASSUME NEW u \in Users
               PROVE  /\ active'[u] = Cardinality(Working(u)')
                      /\ Cardinality(Limited(u)') + Cardinality(Waiting(u)') <= MaxPerUser
      BY DEF SharesAreKept, SlotsMatch, FairShare, Working, Limited, Waiting
  <2>1. /\ active[u] = Cardinality(Working(u)) /\ active \in [Users -> Nat]
        /\ Cardinality(Limited(u)) + Cardinality(Waiting(u)) <= MaxPerUser
      BY <1>1, SharesMean DEF QueueInv, QueueTypeOK
  <2>2. /\ IsFiniteSet(Waiting(u)) /\ Cardinality(Waiting(u)) \in Nat
        /\ IsFiniteSet(Limited(u)) /\ Cardinality(Limited(u)) \in Nat
        /\ IsFiniteSet(Working(u)) /\ MaxPerUser \in Nat
      BY <1>1, CountsAreNat, QueueAssumption
  <2>3. Waiting(u)' \in SUBSET Waiting(u)
      BY <1>15
  <2>4. IsFiniteSet(Waiting(u)') /\ Cardinality(Waiting(u)') <= Cardinality(Waiting(u))
      BY <2>2, <2>3, FS_Subset
  <2>5. Cardinality(Waiting(u)') \in Nat
      BY <2>4, FS_CardinalityType
  <2>6. CASE u # x.user
    <3>1. Working(u)' = Working(u) /\ Limited(u)' = Limited(u) /\ active'[u] = active[u]
        BY <1>6, <1>7, <2>1, <2>6 DEF Working, Limited
    <3> QED BY <2>1, <2>2, <2>4, <2>5, <3>1
  <2>7. CASE u = x.user
    <3>1. Working(u)' = Working(u) \cup {run} /\ run \notin Working(u)
        BY <1>6, <1>7, <1>16, <2>7 DEF Working
    <3>2. Cardinality(Working(u)') = Cardinality(Working(u)) + 1
        BY <2>2, <3>1, FS_AddElement
    <3>3. active'[u] = active[u] + 1
        BY <1>7, <2>1, <2>7
    <3>4. CASE ~(p > High)
      <4>1. Limited(u)' = Limited(u)
          BY <1>6, <1>7, <3>4 DEF Limited
      <4> QED BY <2>1, <2>2, <2>4, <2>5, <3>2, <3>3, <4>1
    <3>5. CASE p > High
      <4>1. Limited(u)' = Limited(u) \cup {run} /\ run \notin Limited(u)
          BY <1>6, <1>7, <1>16, <2>7, <3>5 DEF Limited
      <4>2. Cardinality(Limited(u)') = Cardinality(Limited(u)) + 1
          BY <2>2, <4>1, FS_AddElement
      <4>3. x \in Waiting(u)
        <5>1. p \in 3..5
            BY <1>2, <3>5 DEF Priorities, High
        <5>2. x \in Queued(p)
            BY <1>3 DEF Queued, x
        <5> QED BY <1>5, <2>7, <5>1, <5>2 DEF Waiting
      <4>4. x \notin Waiting(u)'
        <5> SUFFICES ASSUME x \in Waiting(u)' PROVE FALSE
            OBVIOUS
        <5>1. PICK q \in 3..5 : x \in Queued(q)'
            BY DEF Waiting
        <5>2. PICK k \in DOMAIN queue'[q] : x = queue'[q][k]
            BY <5>1 DEF Queued
        <5>3. q \in Priorities
            BY DEF Priorities
        <5> QED BY <1>11, <5>2, <5>3
      <4>5. Waiting(u)' \in SUBSET (Waiting(u) \ {x})
          BY <2>3, <4>4
      <4>6. /\ IsFiniteSet(Waiting(u) \ {x})
            /\ Cardinality(Waiting(u) \ {x}) = Cardinality(Waiting(u)) - 1
          BY <2>2, <4>3, FS_RemoveElement
      <4>7. Cardinality(Waiting(u)') <= Cardinality(Waiting(u)) - 1
          BY <4>5, <4>6, FS_Subset
      <4>8. Cardinality(Limited(u)') + Cardinality(Waiting(u)') <= MaxPerUser
          BY <2>1, <2>2, <2>5, <4>2, <4>7
      <4> QED BY <2>1, <3>2, <3>3, <4>8
    <3> QED BY <3>4, <3>5
  <2> QED BY <2>6, <2>7
<1> QED BY <1>13, <1>14, <1>17 DEF QueueInv

\* Steps that only take from the queues.
LEMMA TakingKeeps ==
  ASSUME QueueInv, NEW off \in [Priorities -> Nat], IsPart(off), Forget,
         queue' \in [Priorities -> Seq(QueuedItem)], UNCHANGED <<active, running>>
  PROVE  QueueInv'
<1>1. \A u \in Users : Waiting(u)' \subseteq Waiting(u)
    BY PartsWait
<1>2. QueueTypeOK'
    BY DEF QueueInv, QueueTypeOK
<1>3. OwnIds'
    BY PartsKeepIds DEF QueueInv, OwnIds
<1> QED BY <1>1, <1>2, <1>3, SharesStay DEF QueueInv

LEMMA DequeueNothingKeeps ==
  ASSUME QueueInv, DequeueNothing
  PROVE  QueueInv'
<1> DEFINE off == [q \in Priorities |-> 0]
           e == <<>>
<1>1. e \in Seq(QueuedItem) /\ DOMAIN e = {} /\ off \in [Priorities -> Nat]
    OBVIOUS
<1>2. queue' = [p \in Priorities |-> e] /\ Forget /\ UNCHANGED <<active, running>>
    BY DEF DequeueNothing
<1> HIDE DEF e, off
<1>3. queue' \in [Priorities -> Seq(QueuedItem)] /\ IsPart(off)
    BY <1>1, <1>2 DEF IsPart
<1> QED BY <1>1, <1>2, <1>3, TakingKeeps

LEMMA ShedIsNat ==
  ASSUME QueueTypeOK, NEW p \in Priorities
  PROVE  Shed(p) \in Nat
<1>1. Excess \in Int
  <2>1. TotalQueued \in Nat
      BY QueueFacts, FS_CardinalityType DEF TotalQueued
  <2> QED BY <2>1, QueueAssumption DEF Excess
<1>2. Len(queue[5]) \in Nat /\ Len(queue[4]) \in Nat
    BY QueueFacts DEF Priorities
<1>3. p \in 1..5
    BY DEF Priorities
<1> SUFFICES ASSUME NEW e \in Int, e = Excess, NEW m \in Nat, m = Len(queue[5]),
                    NEW n \in Nat, n = Len(queue[4])
             PROVE  Shed(p) \in Nat
    BY <1>1, <1>2
<1>4. Least(e, m) \in Int /\ (e > 0 => Least(e, m) \in Nat /\ e - Least(e, m) \in Nat)
    BY DEF Least
<1>5. Least(e - Least(e, m), n) \in Int
      /\ (e > 0 => Least(e - Least(e, m), n) \in Nat)
    BY <1>4 DEF Least
<1>6. CASE e <= 0 \/ p < Low
    BY <1>6 DEF Shed, Background, Low
<1>7. CASE ~(e <= 0 \/ p < Low) /\ p = 5
    BY <1>4, <1>7 DEF Shed, Background, Low
<1>8. CASE ~(e <= 0 \/ p < Low) /\ p = 4
    BY <1>5, <1>8 DEF Shed, Background, Low
<1> QED BY <1>3, <1>6, <1>7, <1>8 DEF Low

LEMMA ShedKeeps ==
  ASSUME QueueInv, ShedLowPriorityLoad
  PROVE  QueueInv'
<1> DEFINE off == [q \in Priorities |-> 0]
           part(p) == SubSeq(queue[p], 1, Len(queue[p]) - Shed(p))
<1>1. queue' = [p \in Priorities |-> part(p)] /\ Forget /\ UNCHANGED <<active, running>>
    BY DEF ShedLowPriorityLoad
<1>2. ASSUME NEW p \in Priorities
      PROVE  /\ part(p) \in Seq(QueuedItem)
             /\ \A i \in DOMAIN part(p) : i \in Nat /\ i \in DOMAIN queue[p]
                                          /\ part(p)[i] = queue[p][i]
  <2> SUFFICES ASSUME NEW n, n = Len(queue[p]) - Shed(p), NEW q, q = queue[p]
               PROVE  /\ SubSeq(q, 1, n) \in Seq(QueuedItem)
                      /\ \A i \in DOMAIN SubSeq(q, 1, n) :
                           i \in Nat /\ i \in DOMAIN q /\ SubSeq(q, 1, n)[i] = q[i]
      OBVIOUS
  <2>1. /\ q \in Seq(QueuedItem) /\ Len(q) \in Nat /\ DOMAIN q = 1..Len(q)
        /\ n \in Int /\ n <= Len(q)
      BY QueueFacts, ShedIsNat DEF QueueInv
  <2>2. \A i \in 1..n : q[i] \in QueuedItem
      BY <2>1
  <2>3. /\ SubSeq(q, 1, n) \in Seq(QueuedItem)
        /\ Len(SubSeq(q, 1, n)) = IF 1 <= n THEN n - 1 + 1 ELSE 0
        /\ \A i \in 1..(n - 1 + 1) : SubSeq(q, 1, n)[i] = q[1 + i - 1]
      BY <2>1, <2>2, SubSeqProperties
  <2> DEFINE s == SubSeq(q, 1, n)
  <2> SUFFICES ASSUME NEW i \in DOMAIN s PROVE i \in Nat /\ i \in DOMAIN q /\ s[i] = q[i]
      BY <2>3
  <2> HIDE DEF s
  <2>4. DOMAIN s = 1..Len(s) /\ Len(s) = IF 1 <= n THEN n - 1 + 1 ELSE 0
      BY <2>3 DEF s
  <2>5. i \in 1..n /\ i \in Nat
      BY <2>1, <2>4
  <2>6. i \in 1..(n - 1 + 1) /\ 1 + i - 1 = i
      BY <2>1, <2>5
  <2> QED BY <2>1, <2>3, <2>5, <2>6 DEF s
<1>3. off \in [Priorities -> Nat]
    OBVIOUS
<1> HIDE DEF part
<1>4. queue' \in [Priorities -> Seq(QueuedItem)]
    BY <1>1, <1>2
<1>5. IsPart(off)
    BY <1>1, <1>2 DEF IsPart
<1> QED BY <1>1, <1>3, <1>4, <1>5, TakingKeeps

LEMMA ReleaseKeeps ==
  ASSUME QueueInv, NEW it \in running, ReleaseJob(it)
  PROVE  QueueInv'
<1>1. /\ running' = running \ {it} /\ UNCHANGED <<queue, cancelled>>
      /\ active' = [active EXCEPT ![it.user] =
           IF active[it.user] > 0 THEN active[it.user] - 1 ELSE active[it.user]]
    BY DEF ReleaseJob
<1>2. QueueTypeOK /\ it \in RunningItem /\ it.user \in Users /\ active \in [Users -> Nat]
      /\ IsFiniteSet(running)
    BY DEF QueueInv, QueueTypeOK, RunningItem
<1>3. QueueTypeOK'
  <2>1. IsFiniteSet(running') /\ running' \in SUBSET RunningItem
      BY <1>1, <1>2, FS_RemoveElement DEF QueueTypeOK
  <2>2. active' \in [Users -> Nat]
      BY <1>1, <1>2
  <2> QED BY <1>1, <1>2, <2>1, <2>2 DEF QueueTypeOK
<1>4. OwnIds'
    BY <1>1 DEF QueueInv, OwnIds
<1>5. SharesAreKept'
  <2> SUFFICES ASSUME NEW u \in Users
               PROVE  /\ active'[u] = Cardinality(Working(u)')
                      /\ Cardinality(Limited(u)') + Cardinality(Waiting(u)') <= MaxPerUser
      BY DEF SharesAreKept, SlotsMatch, FairShare, Working, Limited, Waiting
  <2>1. /\ active[u] = Cardinality(Working(u))
        /\ Cardinality(Limited(u)) + Cardinality(Waiting(u)) <= MaxPerUser
      BY SharesMean DEF QueueInv
  <2>2. /\ Cardinality(Waiting(u)) \in Nat /\ MaxPerUser \in Nat
        /\ IsFiniteSet(Limited(u)) /\ Cardinality(Limited(u)) \in Nat
        /\ IsFiniteSet(Working(u)) /\ Cardinality(Working(u)) \in Nat
      BY <1>2, CountsAreNat, QueueAssumption
  <2>3. Waiting(u)' = Waiting(u)
      BY <1>1 DEF Waiting, Queued
  <2>4. Limited(u)' \in SUBSET Limited(u)
      BY <1>1 DEF Limited
  <2>5. IsFiniteSet(Limited(u)') /\ Cardinality(Limited(u)') <= Cardinality(Limited(u))
      BY <2>2, <2>4, FS_Subset
  <2>6. Cardinality(Limited(u)') \in Nat
      BY <2>5, FS_CardinalityType
  <2>7. Cardinality(Limited(u)') + Cardinality(Waiting(u)') <= MaxPerUser
      BY <2>1, <2>2, <2>3, <2>5, <2>6
  <2>8. active'[u] = Cardinality(Working(u)')
    <3>1. CASE u # it.user
      <4>1. Working(u)' = Working(u) /\ active'[u] = active[u]
          BY <1>1, <1>2, <3>1 DEF Working
      <4> QED BY <2>1, <4>1
    <3>2. CASE u = it.user
      <4>1. Working(u)' = Working(u) \ {it} /\ it \in Working(u)
          BY <1>1, <3>2 DEF Working
      <4>2. /\ Cardinality(Working(u) \ {it}) = Cardinality(Working(u)) - 1
            /\ IsFiniteSet(Working(u) \ {it})
          BY <2>2, <4>1, FS_RemoveElement
      <4>3. Cardinality(Working(u) \ {it}) \in Nat
          BY <4>2, FS_CardinalityType
      <4>4. active[u] > 0
          BY <2>1, <2>2, <4>2, <4>3
      <4>5. active'[u] = active[u] - 1
          BY <1>1, <1>2, <3>2, <4>4
      <4> QED BY <2>1, <4>1, <4>2, <4>5
    <3> QED BY <3>1, <3>2
  <2> QED BY <2>7, <2>8
<1> QED BY <1>3, <1>4, <1>5 DEF QueueInv

LEMMA QueueStep == QueueInv /\ [QueueNext]_queueVars => QueueInv'
<1> SUFFICES ASSUME QueueInv, [QueueNext]_queueVars PROVE QueueInv'
    OBVIOUS
<1>1. ASSUME UNCHANGED <<queue, active, running>>, cancelled \subseteq cancelled'
      PROVE  QueueInv'
  <2>1. \A u \in Users : Waiting(u)' \subseteq Waiting(u)
      BY <1>1 DEF Waiting, Queued
  <2>2. QueueTypeOK' /\ OwnIds'
      BY <1>1 DEF QueueInv, QueueTypeOK, OwnIds
  <2> QED BY <1>1, <2>1, <2>2, SharesStay DEF QueueInv
<1>2. CASE UNCHANGED queueVars
    BY <1>1, <1>2 DEF queueVars
<1>3. ASSUME NEW it \in AllQueued, (CancelJob(it) \/ Expire(it)) PROVE QueueInv'
    BY <1>1, <1>3 DEF CancelJob, Expire
<1>4. CASE Dequeue
    BY <1>4, DequeueKeeps, DequeueNothingKeeps DEF Dequeue
<1> QED BY <1>2, <1>3, <1>4, EnqueueKeeps, ShedKeeps, ReleaseKeeps DEF QueueNext

LEMMA QueueInitial == QueueInit => QueueInv
<1> SUFFICES ASSUME QueueInit PROVE QueueInv
    OBVIOUS
<1>1. /\ queue = [p \in Priorities |-> <<>>] /\ running = {}
      /\ active = [u \in Users |-> 0]
    BY DEF QueueInit
<1>2. <<>> \in Seq(QueuedItem) /\ DOMAIN <<>> = {}
    OBVIOUS
<1>3. QueueTypeOK
    BY <1>1, <1>2, FS_EmptySet DEF QueueTypeOK
<1>4. OwnIds
    BY <1>1, <1>2 DEF OwnIds
<1>5. ASSUME NEW u \in Users
      PROVE  /\ active[u] = Cardinality(Working(u))
             /\ Cardinality(Limited(u)) + Cardinality(Waiting(u)) <= MaxPerUser
  <2>1. Working(u) = {} /\ Limited(u) = {}
      BY <1>1 DEF Working, Limited
  <2>2. Waiting(u) = {}
    <3>1. \A p \in 3..5 : Queued(p) = {}
        BY <1>1, <1>2 DEF Queued, Priorities
    <3> QED BY <3>1 DEF Waiting
  <2>3. MaxPerUser \in Nat
      BY QueueAssumption
  <2> QED BY <1>1, <2>1, <2>2, <2>3, FS_EmptySet
<1>6. SharesAreKept
    BY <1>5, SharesMean
<1> QED BY <1>3, <1>4, <1>6 DEF QueueInv

\* A user's counter is the number of items being worked on, and the work below
\* HIGH stays within the share, whatever is cancelled, expired or shed
\* (enqueue, dequeue_next, release_job).
THEOREM SharesHold == QueueSpec => []SharesAreKept
<1>1. QueueInv => SharesAreKept
    BY DEF QueueInv
<1>2. QueueInv /\ [QueueNext]_queueVars => QueueInv'
    BY QueueStep
<1> QED BY <1>1, <1>2, QueueInitial, PTL DEF QueueSpec
=============================================================================
