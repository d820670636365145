--------------------------- MODULE IncidentResponse ---------------------------
(***************************************************************************)
(* Incident response of phase 24: the incident life cycle (incident/),     *)
(* phased plans, their execution under asset locks and idempotency keys,   *)
(* rollback (response/), the endpoint connector, verification and the      *)
(* recurrence watcher, as phase_24_autonomous_incident_response.py joins   *)
(* them.                                                                   *)
(*                                                                         *)
(* Requests run on threads of the service.  A request is one action, but   *)
(* for the execution of a plan: each connector call starts and returns in  *)
(* actions of its own, and other requests may run in between.  A connector *)
(* call may fail (response/orchestrator.py handles it; the connectors of   *)
(* the repository are stand-ins that succeed), and then changes nothing.   *)
(*                                                                         *)
(* The steps of a plan are numbered: 1 evidence, 2 simulation, 3 canary on *)
(* the first asset, one step for each other asset, verification, watcher.  *)
(* The keys are equal for all plans of an incident, so a key is a pair of  *)
(* an incident and a step.  A key names the asset of its step: an asset    *)
(* that a list repeated would add no call, and lists name an asset once.   *)
(*                                                                         *)
(* An analyst moves an incident only while none of its plans is executed.  *)
(* Bounds: MaxIncidents, MaxResponsePlans, MaxMoves by analysts.           *)
(***************************************************************************)
EXTENDS Integers, Sequences

CONSTANTS
  Hosts,          \* assets
  AssetLists,     \* sequences of assets that incidents are about
  StartConfig,    \* configuration of each asset when the service starts
  MaxIncidents, MaxResponsePlans, MaxMoves

\* A configuration allows legacy TLS, or is modern, or was enforced by a plan.
Config == {"legacy", "modern", "enforced"}

ASSUME ResponseAssumption ==
  /\ \A s \in AssetLists :
       s \in Seq(Hosts) /\ s # <<>> /\ \A m, n \in DOMAIN s : s[m] = s[n] => m = n
  /\ StartConfig \in [Hosts -> Config]
  /\ {MaxIncidents, MaxResponsePlans, MaxMoves} \subseteq Nat

IncidentStatus ==
  {"NEW", "TRIAGED", "INVESTIGATING", "CONTAINMENT", "REMEDIATION", "VERIFICATION",
   "RECOVERY", "MONITORING", "RESOLVED", "CLOSED", "WAITING_APPROVAL",
   "WAITING_EXTERNAL", "ROLLBACK", "REOPENED", "FALSE_POSITIVE", "ACCEPTED_RISK"}

VARIABLES
  incident,    \* the incidents, in the order they were created
  rplan,       \* the response plans, in the order they were created
  config,      \* EndpointConnector.asset_configs
  outcome,     \* executed_idempotency_keys: per incident, result of each step
  assetLock,   \* ActionOrchestrator.asset_locks: plan number, 0 for none
  dispatched,  \* history: how often each key reached a connector
  moves        \* analysts' transitions so far

responseVars == <<incident, rplan, config, outcome, assetLock, dispatched, moves>>

ResponseInit ==
  /\ incident = <<>> /\ rplan = <<>>
  /\ config = StartConfig
  /\ outcome = <<>>
  /\ assetLock = [h \in Hosts |-> 0]
  /\ dispatched = <<>>
  /\ moves = 0

-----------------------------------------------------------------------------
(* Incidents and their life cycle *)

AllowedTransitions(s) ==
  CASE s = "NEW" -> {"TRIAGED", "FALSE_POSITIVE", "ACCEPTED_RISK"}
    [] s = "TRIAGED" -> {"INVESTIGATING", "CONTAINMENT", "REMEDIATION",
                         "WAITING_APPROVAL", "FALSE_POSITIVE", "ACCEPTED_RISK"}
    [] s = "INVESTIGATING" -> {"CONTAINMENT", "REMEDIATION", "WAITING_APPROVAL",
                               "WAITING_EXTERNAL", "FALSE_POSITIVE"}
    [] s = "WAITING_APPROVAL" -> {"CONTAINMENT", "REMEDIATION", "INVESTIGATING",
                                  "ACCEPTED_RISK"}
    [] s = "CONTAINMENT" -> {"REMEDIATION", "VERIFICATION", "WAITING_APPROVAL", "ROLLBACK"}
    [] s = "REMEDIATION" -> {"VERIFICATION", "ROLLBACK", "WAITING_EXTERNAL"}
    [] s = "ROLLBACK" -> {"INVESTIGATING", "REMEDIATION", "WAITING_APPROVAL", "RECOVERY"}
    [] s = "VERIFICATION" -> {"RECOVERY", "ROLLBACK", "REMEDIATION"}
    [] s = "RECOVERY" -> {"MONITORING", "VERIFICATION", "ROLLBACK"}
    [] s = "MONITORING" -> {"RESOLVED", "REOPENED", "REMEDIATION"}
    [] s = "RESOLVED" -> {"CLOSED", "REOPENED"}
    [] s = "CLOSED" -> {"REOPENED"}
    [] s = "REOPENED" -> {"TRIAGED", "INVESTIGATING", "REMEDIATION"}
    [] s = "WAITING_EXTERNAL" -> {"INVESTIGATING", "CONTAINMENT", "REMEDIATION"}
    [] OTHER -> {"CLOSED", "REOPENED"}

MayClose(r, target) ==
  target \in {"RESOLVED", "CLOSED"} =>
    /\ r.evidence
    /\ r.verified \/ r.status \in {"FALSE_POSITIVE", "ACCEPTED_RISK"}

StepsOf(assets) == Len(assets) + 4

\* Creation triages at once; a finding brings its evidence.
NewIncident(assets, status, evidence) ==
  /\ Len(incident) < MaxIncidents
  /\ incident' = Append(incident,
       [assets |-> assets, status |-> status, evidence |-> evidence,
        verified |-> FALSE, watch |-> "none"])
  /\ outcome' = Append(outcome, [k \in 1..StepsOf(assets) |-> "none"])
  /\ dispatched' = Append(dispatched, [k \in 1..StepsOf(assets) |-> 0])

CreateIncident(assets, evidence) ==
  /\ NewIncident(assets, "TRIAGED", evidence)
  /\ UNCHANGED <<rplan, config, assetLock, moves>>

BeingExecuted(i) == \E p \in DOMAIN rplan : rplan[p].inc = i /\ rplan[p].phase # "idle"

\* IncidentLifecycleManager.transition, called by an analyst.
Transition(i, target) ==
  /\ moves < MaxMoves
  /\ ~BeingExecuted(i)
  /\ target \in AllowedTransitions(incident[i].status)
  /\ MayClose(incident[i], target)
  /\ incident' = [incident EXCEPT ![i].status = target]
  /\ moves' = moves + 1
  /\ UNCHANGED <<rplan, config, outcome, assetLock, dispatched>>

\* The watcher sees the detection again: a linked incident is opened, and the
\* watcher has done its work.
Reopen(i) ==
  /\ incident[i].watch = "active"
  /\ Len(incident) < MaxIncidents
  /\ incident' = Append([incident EXCEPT ![i].watch = "triggered"],
       [assets |-> incident[i].assets, status |-> "REOPENED", evidence |-> FALSE,
        verified |-> FALSE, watch |-> "none"])
  /\ outcome' = Append(outcome, [k \in DOMAIN outcome[i] |-> "none"])
  /\ dispatched' = Append(dispatched, [k \in DOMAIN outcome[i] |-> 0])
  /\ UNCHANGED <<rplan, config, assetLock, moves>>

-----------------------------------------------------------------------------
(* Plans *)

PlanAssets(p) == incident[rplan[p].inc].assets
AssetSet(p) == {PlanAssets(p)[n] : n \in DOMAIN PlanAssets(p)}
NumActions(p) == StepsOf(PlanAssets(p))

TargetAsset(p, k) ==
  IF k \in 4..(Len(PlanAssets(p)) + 2) THEN PlanAssets(p)[k - 2] ELSE PlanAssets(p)[1]

\* The connector enforces the configuration for every command that is neither
\* evidence nor simulation: for the verification step, too.
ChangesConfig(p, k) == k \in 3..(Len(PlanAssets(p)) + 3)

HasRollbackCommand(p, k) == k \in 3..(Len(PlanAssets(p)) + 2)

\* by is the request that executes the plan, at its next step, done the steps
\* it has passed.  reused and was are history: a step took over an earlier
\* result, and the configurations the execution began with.
FreshPlan(i, assets) ==
  [inc |-> i, status |-> "DRAFT", phase |-> "idle", by |-> "endpoint", at |-> 1,
   done |-> {}, step |-> [k \in 1..StepsOf(assets) |-> "PENDING"],
   before |-> [k \in 1..StepsOf(assets) |-> "none"],
   reused |-> FALSE, was |-> StartConfig]

\* The request has ended, and its local variables with it.
Ended(r) ==
  [r EXCEPT !.phase = "idle", !.at = 1, !.done = {}, !.reused = FALSE, !.was = StartConfig]

GenerateResponsePlan(i) ==
  /\ Len(rplan) < MaxResponsePlans
  /\ rplan' = Append(rplan, FreshPlan(i, incident[i].assets))
  /\ UNCHANGED <<incident, config, outcome, assetLock, dispatched, moves>>

\* Mutant: only the last asset is looked at.
ConflictsLast(p, assets) == assetLock[assets[Len(assets)]] \notin {0, p}

Conflicts(p, assets) == \E n \in DOMAIN assets : assetLock[assets[n]] \notin {0, p}

Begun(r, by) ==
  [r EXCEPT !.status = "EXECUTING", !.phase = "run", !.by = by, !.at = 1,
            !.done = {}, !.reused = FALSE, !.was = config]

LockAll(p, assets) ==
  [h \in Hosts |-> IF \E n \in DOMAIN assets : assets[n] = h THEN p ELSE assetLock[h]]

\* execute_plan up to the first action.  The plan is EXECUTING even when the
\* life cycle or the locks refuse it, and a plan without its locks has already
\* moved its incident.
ExecutePlan(p) ==
  LET i == rplan[p].inc
      allowed == "REMEDIATION" \in AllowedTransitions(incident[i].status)
      starts == allowed /\ ~Conflicts(p, PlanAssets(p))
  IN  /\ rplan' = [rplan EXCEPT ![p] =
                     IF starts THEN Begun(@, "endpoint") ELSE [@ EXCEPT !.status = "EXECUTING"]]
      /\ incident' = IF allowed THEN [incident EXCEPT ![i].status = "REMEDIATION"] ELSE incident
      /\ assetLock' = IF starts THEN LockAll(p, PlanAssets(p)) ELSE assetLock
      /\ UNCHANGED <<config, outcome, dispatched, moves>>

\* qualify_and_respond up to the first action: the approvals it asks for are
\* given by the request itself.
QualifyAndRespond(assets) ==
  LET p == Len(rplan) + 1
      fresh == FreshPlan(Len(incident) + 1, assets)
      starts == ~Conflicts(p, assets)
  IN  /\ Len(rplan) < MaxResponsePlans
      /\ NewIncident(assets, "REMEDIATION", TRUE)
      /\ rplan' = Append(rplan,
           IF starts THEN Begun(fresh, "qualify") ELSE [fresh EXCEPT !.status = "EXECUTING"])
      /\ assetLock' = IF starts THEN LockAll(p, assets) ELSE assetLock
      /\ UNCHANGED <<config, moves>>

At(p, k) == rplan[p].phase = "run" /\ rplan[p].at = k /\ k <= NumActions(p)

\* An action whose key is known takes over the earlier result, good or bad.
SkipAction(p) ==
  LET k == rplan[p].at
      known == outcome[rplan[p].inc][k]
  IN  /\ At(p, k) /\ known # "none"
      /\ rplan' = [rplan EXCEPT ![p] =
           [@ EXCEPT !.step[k] = known, !.done = rplan[p].done \cup {k}, !.at = k + 1,
                     !.reused = TRUE]]
      /\ UNCHANGED <<incident, config, outcome, assetLock, dispatched, moves>>

CallConnector(p) ==
  LET k == rplan[p].at
      i == rplan[p].inc
  IN  /\ At(p, k) /\ outcome[i][k] = "none"
      /\ rplan' = [rplan EXCEPT ![p] = [@ EXCEPT !.step[k] = "RUNNING", !.phase = "call"]]
      /\ dispatched' = [dispatched EXCEPT ![i][k] = @ + 1]
      /\ UNCHANGED <<incident, config, outcome, assetLock, moves>>

\* Mutant: the snapshot is taken after the change.
ConfigBeforeLate(p, k) == IF ChangesConfig(p, k) THEN "enforced" ELSE "none"

ConfigBefore(p, k) == IF ChangesConfig(p, k) THEN config[TargetAsset(p, k)] ELSE "none"

ActionSucceeds(p) ==
  LET k == rplan[p].at
  IN  /\ rplan[p].phase = "call"
      /\ rplan' = [rplan EXCEPT ![p] =
           [@ EXCEPT !.step[k] = "SUCCESS", !.before[k] = ConfigBefore(p, k),
                     !.done = rplan[p].done \cup {k}, !.at = k + 1, !.phase = "run"]]
      /\ config' = IF ChangesConfig(p, k)
                   THEN [config EXCEPT ![TargetAsset(p, k)] = "enforced"] ELSE config
      /\ outcome' = [outcome EXCEPT ![rplan[p].inc][k] = "SUCCESS"]
      /\ UNCHANGED <<incident, assetLock, dispatched, moves>>

\* Mutant: a failure leaves no key.
RecordFailureNever(known) == known

RecordFailure(known) == "FAILED"

ActionFails(p) ==
  LET k == rplan[p].at
  IN  /\ rplan[p].phase = "call"
      /\ rplan' = [rplan EXCEPT ![p] =
           [@ EXCEPT !.step[k] = "FAILED", !.done = rplan[p].done \cup {k}, !.phase = "undo"]]
      /\ outcome' = [outcome EXCEPT ![rplan[p].inc][k] = RecordFailure(@)]
      /\ UNCHANGED <<incident, config, assetLock, dispatched, moves>>

Unlock(p) == [h \in Hosts |-> IF assetLock[h] = p THEN 0 ELSE assetLock[h]]

\* The steps a rollback undoes, but for those whose connector fails again.
UndoneSteps(p, broken) ==
  {k \in rplan[p].done : HasRollbackCommand(p, k) /\ rplan[p].step[k] = "SUCCESS"} \ broken

\* A step without snapshot, taken over from another plan, is undone to the
\* permissive defaults.
Restored(p, k) == IF rplan[p].before[k] = "none" THEN "legacy" ELSE rplan[p].before[k]

RollBackPlan(p, broken) ==
  LET undone == UndoneSteps(p, broken)
  IN  /\ rplan[p].phase = "undo"
      /\ config' = [h \in Hosts |->
           IF \E k \in undone : TargetAsset(p, k) = h
           THEN Restored(p, CHOOSE k \in undone : TargetAsset(p, k) = h) ELSE config[h]]
      /\ rplan' = [rplan EXCEPT ![p] =
           [Ended(@) EXCEPT
              !.status = "ROLLED_BACK",
              !.step = [k \in DOMAIN rplan[p].step |->
                         IF k \in undone THEN "ROLLED_BACK" ELSE rplan[p].step[k]]]]
      /\ incident' = [incident EXCEPT ![rplan[p].inc].status = "ROLLBACK"]
      /\ assetLock' = Unlock(p)
      /\ UNCHANGED <<outcome, dispatched, moves>>

CompletePlan(p) ==
  /\ rplan[p].phase = "run" /\ rplan[p].at > NumActions(p)
  /\ rplan' = [rplan EXCEPT ![p] =
       [Ended(@) EXCEPT !.status = "COMPLETED",
                        !.phase = IF rplan[p].by = "qualify" THEN "verify" ELSE "idle"]]
  /\ assetLock' = Unlock(p)
  /\ UNCHANGED <<incident, config, outcome, dispatched, moves>>

\* The rest of qualify_and_respond: verification of the first asset, and the
\* watcher whatever the verdict.
VerifyRemediation(p) ==
  LET i == rplan[p].inc
      passed == config[PlanAssets(p)[1]] # "legacy"
  IN  /\ rplan[p].phase = "verify"
      /\ incident' = [incident EXCEPT ![i] =
           [@ EXCEPT !.status = IF passed THEN "MONITORING" ELSE "VERIFICATION",
                     !.verified = incident[i].verified \/ passed, !.watch = "active"]]
      /\ rplan' = [rplan EXCEPT ![p].phase = "idle"]
      /\ UNCHANGED <<config, outcome, assetLock, dispatched, moves>>

ResponseNext ==
  \/ \E s \in AssetLists : QualifyAndRespond(s) \/ \E e \in BOOLEAN : CreateIncident(s, e)
  \/ \E i \in DOMAIN incident :
       \/ GenerateResponsePlan(i)
       \/ Reopen(i)
       \/ \E t \in IncidentStatus : Transition(i, t)
  \/ \E p \in DOMAIN rplan :
       \/ ExecutePlan(p)
       \/ SkipAction(p)
       \/ CallConnector(p)
       \/ ActionSucceeds(p)
       \/ ActionFails(p)
       \/ \E broken \in SUBSET UndoneSteps(p, {}) : RollBackPlan(p, broken)
       \/ CompletePlan(p)
       \/ VerifyRemediation(p)

ResponseSpec == ResponseInit /\ [][ResponseNext]_responseVars

-----------------------------------------------------------------------------
(* Properties *)

Executing(p) == rplan[p].phase \in {"run", "call", "undo"}

\* While a plan is executed it holds every one of its assets, and no asset is
\* held otherwise: two executions never work on one asset, and no refusal,
\* failure or rollback leaves a lock behind (acquire_locks, release_locks).
LocksAreHeld ==
  \A h \in Hosts, p \in DOMAIN rplan :
    assetLock[h] = p <=> Executing(p) /\ h \in AssetSet(p)

\* A key reaches a connector once, whether its plan is executed again, another
\* plan of the incident has it, or two requests come together
\* (executed_idempotency_keys).
DispatchedOnce ==
  \A i \in DOMAIN dispatched : \A k \in DOMAIN dispatched[i] : dispatched[i][k] <= 1

\* A rollback in which no connector fails puts every asset of the plan back to
\* what it was when the execution began, unless a step took over the result of
\* an earlier execution (rollback_plan).
RollbackRestores ==
  [][\A p \in DOMAIN rplan :
       /\ rplan[p].phase = "undo" /\ rplan'[p].phase = "idle"
       /\ ~rplan[p].reused
       /\ \A k \in UndoneSteps(p, {}) : rplan'[p].step[k] = "ROLLED_BACK"
       => \A h \in AssetSet(p) : config'[h] = rplan[p].was[h]]_responseVars

-----------------------------------------------------------------------------
(* A statement of the repository that the code does not keep.              *)

\* "All ... actions in plan ... executed successfully": a COMPLETED plan has
\* no action that failed.
CompletedMeansAllSucceeded ==
  \A p \in DOMAIN rplan : rplan[p].status = "COMPLETED" =>
    \A k \in DOMAIN rplan[p].step : rplan[p].step[k] # "FAILED"
=============================================================================
