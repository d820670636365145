----------------------------- MODULE ActionPlans -----------------------------
(***************************************************************************)
(* The action pipeline of the autonomous operations plane: governance      *)
(* bridge, plan manager, executor with rollback, and the two self-healing  *)
(* procedures that touch workers (autonomous_ops/), on the node registry   *)
(* of phase_35_autonomous_operations.py.                                   *)
(*                                                                         *)
(* Each request is one action.  Plans are followed through every status;   *)
(* the effects followed are those on the status of the workers (queue      *)
(* backpressure and model loading are other components' state).            *)
(*                                                                         *)
(* The executor's own check for forbidden types is left out: such a plan   *)
(* is REJECTED from its creation (ForbiddenNeverRuns), so an earlier check *)
(* refuses it.                                                             *)
(*                                                                         *)
(* Bound: MaxPlans plans are ever created.                                 *)
(***************************************************************************)
EXTENDS Integers, Sequences

CONSTANTS
  Worker,       \* worker nodes of the registry
  Proposed,     \* action types that callers propose
  StartStatus,  \* status of each worker when the registry is seeded
  StartMode,    \* autonomy mode the service starts in
  MaxPlans

AutonomyMode == {"OBSERVE", "RECOMMEND_AND_APPROVE", "BOUNDED_AUTOMATION"}

WorkerStatus == {"HEALTHY", "DEGRADED", "UNAVAILABLE", "RECOVERING", "QUARANTINED"}

ActionExecutionStatus ==
  {"PENDING_APPROVAL", "APPROVED", "REJECTED", "COMPLETED", "FAILED", "ROLLED_BACK"}

AllowedAutomatic ==
  {"health_check", "mark_worker_unhealthy", "reroute_eligible_job",
   "retry_idempotent_job", "apply_queue_backpressure", "prewarm_approved_model",
   "prewarm_model", "unload_idle_model", "evict_idle_cache"}

ApprovalRequired ==
  {"change_model_registry", "change_security_policy", "change_network_policy",
   "modify_production_data", "upgrade_service_version", "quarantine_worker"}

Forbidden ==
  {"disable_audit_logging", "bypass_authorization", "execute_unrestricted_shell",
   "transfer_restricted_data_to_unapproved_node", "modify_safety_rules",
   "arbitrary_command_execution"}

\* Types with an executor and a rollback handler; the two tables agree.
Handled ==
  {"health_check", "mark_worker_unhealthy", "quarantine_worker",
   "reroute_eligible_job", "retry_idempotent_job", "apply_queue_backpressure",
   "prewarm_model", "unload_idle_model"}

ASSUME ActionAssumption ==
  /\ Proposed \subseteq AllowedAutomatic \cup ApprovalRequired \cup Forbidden
  /\ StartStatus \in [Worker -> WorkerStatus]
  /\ StartMode \in AutonomyMode
  /\ MaxPlans \in Nat

VARIABLES
  mode,     \* AutonomyGovernanceBridge.mode
  plan,     \* ActionPlanManager._action_plans, in creation order
  status    \* status of each worker in the registry

vars == <<mode, plan, status>>

\* gated is approval_required; approved tells whether approved_by is set, ran
\* whether executed_at is; prior is the executor's snapshot.  rolled is a
\* history variable: the plan was rolled back at some time.
PlanRecord ==
  [type : Proposed, target : Worker, low : BOOLEAN, reversible : BOOLEAN,
   status : ActionExecutionStatus, gated : BOOLEAN, approved : BOOLEAN,
   ran : BOOLEAN, prior : WorkerStatus \cup {"none"}, rolled : BOOLEAN]

TypeOK ==
  /\ mode \in AutonomyMode
  /\ plan \in Seq(PlanRecord)
  /\ status \in [Worker -> WorkerStatus]

Init ==
  /\ mode = StartMode
  /\ plan = <<>>
  /\ status = StartStatus

\* evaluate_action_permission: is a human needed for a permitted action?
NeedsApproval(type, low) ==
  \/ type \in ApprovalRequired
  \/ mode # "BOUNDED_AUTOMATION"
  \/ type \notin AllowedAutomatic
  \/ ~low

FirstStatus(type, low) ==
  IF type \in Forbidden THEN "REJECTED"
  ELSE IF NeedsApproval(type, low) THEN "PENDING_APPROVAL" ELSE "APPROVED"

CreatePlan(type, w, low, reversible) ==
  /\ Len(plan) < MaxPlans
  /\ plan' = Append(plan,
       [type |-> type, target |-> w, low |-> low, reversible |-> reversible,
        status |-> FirstStatus(type, low),
        gated |-> type \notin Forbidden /\ NeedsApproval(type, low),
        approved |-> FALSE, ran |-> FALSE, prior |-> "none", rolled |-> FALSE])
  /\ UNCHANGED <<mode, status>>

ApprovePlan(p) ==
  /\ plan[p].status = "PENDING_APPROVAL"
  /\ plan' = [plan EXCEPT ![p] = [@ EXCEPT !.status = "APPROVED", !.approved = TRUE]]
  /\ UNCHANGED <<mode, status>>

SetMode(m) ==
  /\ mode' = m
  /\ UNCHANGED <<plan, status>>

RefusedUnlessPending == {"REJECTED", "COMPLETED"}
\* execute_action turns these plans away.  A FAILED or ROLLED_BACK plan is
\* executed again.
Refused == {"REJECTED", "PENDING_APPROVAL", "COMPLETED"}

\* No handler for the type.
ExecuteUnhandled(p) ==
  /\ plan[p].status \notin Refused
  /\ plan[p].type \notin Handled
  /\ plan' = [plan EXCEPT ![p].status = "FAILED"]
  /\ UNCHANGED <<mode, status>>

\* The status that a handler gives its worker.
Effect(type, old) ==
  CASE type = "mark_worker_unhealthy" -> "DEGRADED"
    [] type = "quarantine_worker" -> "QUARANTINED"
    [] OTHER -> old

OnWorkers == {"mark_worker_unhealthy", "quarantine_worker"}

\* The handler takes its snapshot and changes the worker, the health check
\* that follows always succeeds, and the plan is COMPLETED.
ExecuteHandled(p) ==
  LET r == plan[p]
      w == r.target
  IN  /\ r.status \notin Refused
      /\ r.type \in Handled
      /\ status' = [status EXCEPT ![w] = Effect(r.type, @)]
      /\ plan' = [plan EXCEPT ![p] =
           [@ EXCEPT !.status = "COMPLETED", !.ran = TRUE,
                     !.prior = IF r.type \in OnWorkers THEN status[w] ELSE r.prior]]
      /\ UNCHANGED mode

\* The status that a rollback gives the worker.
Undo(r, old) ==
  CASE r.type = "mark_worker_unhealthy" -> IF r.prior = "none" THEN "HEALTHY" ELSE r.prior
    [] r.type = "quarantine_worker" -> "HEALTHY"
    [] OTHER -> old

CanRollBack(r) == r.reversible /\ r.type \in Handled

\* rollback_action does not look at the status of the plan.
RollbackAction(p) ==
  /\ CanRollBack(plan[p])
  /\ status' = [status EXCEPT ![plan[p].target] = Undo(plan[p], @)]
  /\ plan' = [plan EXCEPT ![p] = [@ EXCEPT !.status = "ROLLED_BACK", !.rolled = TRUE]]
  /\ UNCHANGED mode

\* Self-healing marks a silent worker and quarantines a violating one.
HealHeartbeatMissing(w) ==
  /\ status' = [status EXCEPT ![w] = "UNAVAILABLE"]
  /\ UNCHANGED <<mode, plan>>

HealSecurityViolation(w) ==
  /\ status' = [status EXCEPT ![w] = "QUARANTINED"]
  /\ UNCHANGED <<mode, plan>>

Next ==
  \/ \E t \in Proposed, w \in Worker, low, reversible \in BOOLEAN :
       CreatePlan(t, w, low, reversible)
  \/ \E m \in AutonomyMode : SetMode(m)
  \/ \E p \in DOMAIN plan :
       \/ ApprovePlan(p)
       \/ ExecuteUnhandled(p)
       \/ ExecuteHandled(p)
       \/ RollbackAction(p)
  \/ \E w \in Worker : HealHeartbeatMissing(w) \/ HealSecurityViolation(w)

Spec == Init /\ [][Next]_vars

-----------------------------------------------------------------------------
\* A forbidden action stays REJECTED for ever and never runs, whatever is
\* approved, executed or rolled back (the hard block of the bridge).
ForbiddenNeverRuns ==
  \A p \in DOMAIN plan :
    plan[p].type \in Forbidden => plan[p].status = "REJECTED" /\ ~plan[p].ran

\* Bounded autonomy: a plan that ran without an administrator, and was never
\* rolled back, is an allowlisted action of LOW risk.
UnattendedIsBounded ==
  \A p \in DOMAIN plan :
    plan[p].ran /\ ~plan[p].approved /\ ~plan[p].rolled =>
      plan[p].type \in AllowedAutomatic /\ plan[p].low /\ ~plan[p].gated

\* What runs is authorised: nothing forbidden by anybody, and nothing but
\* allowlisted work of LOW risk without an administrator.
RunsAreAuthorised == ForbiddenNeverRuns /\ UnattendedIsBounded

=============================================================================
