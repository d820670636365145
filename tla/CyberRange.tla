------------------------------ MODULE CyberRange ------------------------------
(***************************************************************************)
(* Continuous security validation (phase 26): scenario runs on cyber       *)
(* ranges, campaigns, gaps with their retests, and the kill switch         *)
(* (validation/execution, range, campaigns, gaps).                         *)
(*                                                                         *)
(* Requests run on threads of the service (Workers), one step of a run at  *)
(* a time.  Steps only emit telemetry, so what a rollback restores is the  *)
(* status of the range.  A scenario has one target, which stands for it,   *)
(* and its range is Home; its oracle expects telemetry, a detection and a  *)
(* response.  Of the gaps of a scenario the newest is kept.  The stop of a *)
(* campaign and the stop of a run set what no live run reads: run() is     *)
(* told no campaign, and makes up its own number.                          *)
(*                                                                         *)
(* Bounds: MaxRuns runs, MaxStops uses of the kill switch, MaxGapMoves     *)
(* moves of gaps by their teams.                                           *)
(***************************************************************************)
EXTENDS Integers, Sequences

CONSTANTS
  Scenarios, Ranges, Workers,
  Home,         \* the range that holds the target of each scenario
  ScenarioSteps,     \* steps of a scenario
  Campaign,     \* scenarios of the one campaign, a sequence
  TargetRange,  \* and its range
  NoScenario,
  MaxRuns, MaxStops, MaxGapMoves

ASSUME CyberAssumption ==
  /\ NoScenario \notin Scenarios
  /\ Home \in [Scenarios -> Ranges]
  /\ Campaign \in Seq(Scenarios) /\ TargetRange \in Ranges
  /\ ScenarioSteps \in Nat \ {0}
  /\ {MaxRuns, MaxStops, MaxGapMoves} \subseteq Nat

\* What the operator asks the run to simulate.
Simulated == {"nothing", "visibility_gap", "detection_gap", "response_gap"}

\* What the response pipeline may answer: code of phase 25.
PipelineAnswers == {"verified", "unverified", "unexecuted", "error"}

VARIABLES
  range,      \* status and active_scenario_id of each range
  job,        \* per worker: the run and the request it belongs to
  globalHalt, \* KillSwitchManager._global_halt
  halted,     \* _halted_targets
  hooks,      \* ranges of _rollback_hooks, which are never removed
  gap,        \* newest gap of each scenario: status and outcome of its retest
  campaign,   \* status of the campaign
  used        \* runs started, stops, moves of gaps so far

cyberVars == <<range, job, globalHalt, halted, hooks, gap, campaign, used>>

\* late is history: steps emitted while the global stop was on.
NoJob == [task |-> "none", scn |-> NoScenario, rng |-> NoScenario, pc |-> "idle",
          sim |-> "nothing", at |-> 0, answer |-> "none", outcome |-> "none",
          todo |-> <<>>, late |-> 0]

FreeRange == [status |-> "IDLE", scenario |-> NoScenario]

CyberInit ==
  /\ range = [r \in Ranges |-> FreeRange]
  /\ job = [w \in Workers |-> NoJob]
  /\ globalHalt = FALSE /\ halted = {} /\ hooks = {}
  /\ gap = [s \in Scenarios |-> [status |-> "none", retest |-> "none"]]
  /\ campaign = "DRAFT"
  /\ used = [runs |-> 0, stops |-> 0, moves |-> 0]

Idle(w) == job[w].pc = "idle"

-----------------------------------------------------------------------------
(* A run *)

\* run() up to the reservation: a target outside the range is refused by the
\* safety controller, which takes a range that is in use for valid; then the
\* kill switch is asked.
Admitted(task, s, r, sim, todo) ==
  [NoJob EXCEPT
     !.task = task, !.scn = s, !.rng = r, !.sim = sim, !.todo = todo,
     !.outcome = IF Home[s] # r THEN "BLOCKED" ELSE IF globalHalt THEN "ABORTED" ELSE "none",
     !.pc = IF Home[s] # r \/ globalHalt THEN "report" ELSE "reserve"]

\* A campaign counts all its runs when it starts.
Start(w, task, s, r, sim, todo) ==
  /\ used.runs + Len(todo) < MaxRuns
  /\ used' = [used EXCEPT !.runs = @ + 1 + Len(todo)]
  /\ job' = [job EXCEPT ![w] = Admitted(task, s, r, sim, todo)]

ExecuteScenario(w, s, r, sim) ==
  /\ Idle(w) /\ Start(w, "execute", s, r, sim, <<>>)
  /\ UNCHANGED <<range, globalHalt, halted, hooks, gap, campaign>>

RetestGap(w, s, r) ==
  /\ Idle(w) /\ gap[s].status # "none" /\ Start(w, "retest", s, r, "nothing", <<>>)
  /\ UNCHANGED <<range, globalHalt, halted, hooks, gap, campaign>>

RunCampaign(w) ==
  /\ Idle(w) /\ Campaign # <<>>
  /\ Start(w, "campaign", Head(Campaign), TargetRange, "nothing", Tail(Campaign))
  /\ campaign' = "RUNNING"
  /\ UNCHANGED <<range, globalHalt, halted, hooks, gap>>

\* A range that is busy with the same scenario is reserved again.
Busy(r, s) == range[r].status = "ACTIVE" /\ range[r].scenario # s

\* Reservation, snapshot and rollback hook.  The refusal of a busy range ends
\* the request with an error, and a campaign stays RUNNING.
Reserve(w) ==
  LET r == job[w].rng
  IN  /\ job[w].pc = "reserve"
      /\ IF Busy(r, job[w].scn)
         THEN job' = [job EXCEPT ![w] = NoJob] /\ UNCHANGED <<range, hooks>>
         ELSE /\ range' = [range EXCEPT ![r] = [status |-> "ACTIVE", scenario |-> job[w].scn]]
              /\ hooks' = hooks \cup {r}
              /\ job' = [job EXCEPT ![w] = [@ EXCEPT !.pc = "step", !.at = 1]]
      /\ UNCHANGED <<globalHalt, halted, gap, campaign, used>>

\* Mutant: the step asks for its target only.
IsHaltedTarget(s) == s \in halted

IsHalted(s) == globalHalt \/ s \in halted

AskKillSwitch(w) ==
  /\ job[w].pc = "step"
  /\ job' = [job EXCEPT ![w] =
       IF IsHalted(job[w].scn) THEN [@ EXCEPT !.pc = "finish", !.outcome = "ABORTED"]
                               ELSE [@ EXCEPT !.pc = "emit"]]
  /\ UNCHANGED <<range, globalHalt, halted, hooks, gap, campaign, used>>

\* Mutant: the loop does not move on.
NextStepStuck(n) == n

NextStep(n) == n + 1

EmitStep(w) ==
  /\ job[w].pc = "emit"
  /\ job' = [job EXCEPT ![w] =
       [@ EXCEPT !.pc = IF job[w].at < ScenarioSteps THEN "step" ELSE "respond",
                 !.at = NextStep(job[w].at),
                 !.late = IF globalHalt THEN job[w].late + 1 ELSE job[w].late]]
  /\ UNCHANGED <<range, globalHalt, halted, hooks, gap, campaign, used>>

Sees(j) == j.sim # "visibility_gap"
Detects(j) == j.sim \notin {"visibility_gap", "detection_gap"}
Responds(j) == Detects(j) /\ j.sim # "response_gap"

\* Comparison with the oracle.
Outcome(j) ==
  CASE j.answer = "error" -> "FAILED"
    [] ~Sees(j) -> "VISIBILITY_GAP"
    [] ~Detects(j) -> "DETECTION_GAP"
    [] ~Responds(j) \/ j.answer = "unexecuted" -> "RESPONSE_GAP"
    [] j.answer = "unverified" -> "VERIFICATION_GAP"
    [] OTHER -> "PASS"

\* A detection opens a case in the pipeline, even when no response follows.
Answers(j) ==
  IF Responds(j) THEN PipelineAnswers
  ELSE IF Detects(j) THEN {"none", "error"} ELSE {"none"}

Respond(w) ==
  /\ job[w].pc = "respond"
  /\ \E a \in Answers(job[w]) :
       LET j == [job[w] EXCEPT !.answer = a]
       IN  job' = [job EXCEPT ![w] = [j EXCEPT !.pc = "finish", !.outcome = Outcome(j)]]
  /\ UNCHANGED <<range, globalHalt, halted, hooks, gap, campaign, used>>

\* Mutant: an aborted run keeps the range.
FreedUnlessAborted(w) ==
  IF job[w].outcome = "ABORTED" THEN range[job[w].rng] ELSE FreeRange

Freed(w) == FreeRange

\* The finally clause: rollback and release, whoever uses the range now.
Finish(w) ==
  /\ job[w].pc = "finish"
  /\ range' = [range EXCEPT ![job[w].rng] = Freed(w)]
  /\ job' = [job EXCEPT ![w].pc = "report"]
  /\ UNCHANGED <<globalHalt, halted, hooks, gap, campaign, used>>

-----------------------------------------------------------------------------
(* What the request does with the outcome *)

ReportExecution(w) ==
  /\ job[w].pc = "report" /\ job[w].task = "execute"
  /\ gap' = IF job[w].outcome = "PASS" THEN gap
            ELSE [gap EXCEPT ![job[w].scn] = [status |-> "NEW", retest |-> "none"]]
  /\ job' = [job EXCEPT ![w] = NoJob]
  /\ UNCHANGED <<range, globalHalt, halted, hooks, campaign, used>>

\* Mutant: whatever shows no gap closes it.
RetestPassedUnlessGap(o) == o \in {"PASS", "ABORTED", "BLOCKED"}

RetestPassed(o) == o = "PASS"

ReportRetest(w) ==
  /\ job[w].pc = "report" /\ job[w].task = "retest"
  /\ gap' = [gap EXCEPT ![job[w].scn] =
       [status |-> IF RetestPassed(job[w].outcome) THEN "CLOSED" ELSE "REOPENED",
        retest |-> job[w].outcome]]
  /\ job' = [job EXCEPT ![w] = NoJob]
  /\ UNCHANGED <<range, globalHalt, halted, hooks, campaign, used>>

NextOfCampaign(w) ==
  /\ job[w].pc = "report" /\ job[w].task = "campaign"
  /\ LET rest == job[w].todo
     IN  IF rest # <<>>
         THEN /\ job' = [job EXCEPT ![w] =
                     Admitted("campaign", Head(rest), TargetRange, "nothing", Tail(rest))]
              /\ UNCHANGED campaign
         ELSE campaign' = "COMPLETED" /\ job' = [job EXCEPT ![w] = NoJob]
  /\ UNCHANGED <<range, globalHalt, halted, hooks, gap, used>>

\* assign_gap and mark_ready_for_retest, in any state.
TeamMovesGap(s, status) ==
  /\ used.moves < MaxGapMoves /\ gap[s].status # "none"
  /\ gap' = [gap EXCEPT ![s].status = status]
  /\ used' = [used EXCEPT !.moves = @ + 1]
  /\ UNCHANGED <<range, job, globalHalt, halted, hooks, campaign>>

-----------------------------------------------------------------------------
(* The kill switch *)

\* Every stop runs every hook that was ever registered.
RollBackAll ==
  /\ used.stops < MaxStops
  /\ used' = [used EXCEPT !.stops = @ + 1]
  /\ range' = [r \in Ranges |-> IF r \in hooks THEN FreeRange ELSE range[r]]

TriggerGlobalStop ==
  /\ RollBackAll /\ globalHalt' = TRUE
  /\ job' = [w \in Workers |-> [job[w] EXCEPT !.late = 0]]
  /\ UNCHANGED <<halted, hooks, gap, campaign>>

TriggerTargetStop(s) ==
  /\ RollBackAll /\ halted' = halted \cup {s}
  /\ UNCHANGED <<job, globalHalt, hooks, gap, campaign>>

\* trigger_campaign_stop and trigger_scenario_stop.
TriggerOtherStop ==
  /\ RollBackAll
  /\ UNCHANGED <<job, globalHalt, halted, hooks, gap, campaign>>

ResetGlobalStop ==
  /\ globalHalt /\ globalHalt' = FALSE
  /\ UNCHANGED <<range, job, halted, hooks, gap, campaign, used>>

WorkerStep(w) ==
  \/ Reserve(w) \/ AskKillSwitch(w) \/ EmitStep(w) \/ Respond(w) \/ Finish(w)
  \/ ReportExecution(w) \/ ReportRetest(w) \/ NextOfCampaign(w)

CyberNext ==
  \/ \E w \in Workers :
       \/ WorkerStep(w)
       \/ RunCampaign(w)
       \/ \E s \in Scenarios, r \in Ranges :
            RetestGap(w, s, r) \/ \E sim \in Simulated : ExecuteScenario(w, s, r, sim)
  \/ \E s \in Scenarios :
       \/ TriggerTargetStop(s)
       \/ \E st \in {"ASSIGNED", "READY_FOR_RETEST"} : TeamMovesGap(s, st)
  \/ TriggerGlobalStop \/ TriggerOtherStop \/ ResetGlobalStop

CyberSpec ==
  CyberInit /\ [][CyberNext]_cyberVars /\ \A w \in Workers : WF_cyberVars(WorkerStep(w))

-----------------------------------------------------------------------------
(* Properties *)

\* The run has reserved its range and has not yet let go of it.
Holds(w) == job[w].pc \in {"step", "emit", "respond", "finish"}

\* No range stays reserved for a run that is over, however it ended (passed,
\* aborted, failed): a reserved range is held by a live run of its scenario.
RangeFreed ==
  \A r \in Ranges : range[r].status = "ACTIVE" =>
    \E w \in Workers : Holds(w) /\ job[w].rng = r /\ job[w].scn = range[r].scenario

\* Global stop: a run emits at most the one step whose check came before it.
StopIsQuick == \A w \in Workers : job[w].late <= 1

\* PASS stands for the whole scenario: every step emitted on its own range,
\* nothing simulated away, and a response that was verified.
PassMeansSecured ==
  \A w \in Workers : job[w].outcome = "PASS" =>
    /\ job[w].at = ScenarioSteps + 1 /\ Home[job[w].scn] = job[w].rng
    /\ job[w].sim = "nothing" /\ job[w].answer = "verified"

\* A gap is closed by a retest that passed and by nothing else: a retest that
\* was stopped, refused or failed leaves it open.
ClosedWasRetested ==
  \A s \in Scenarios : gap[s].status = "CLOSED" => gap[s].retest = "PASS"

\* A closed gap is a gap that is gone.
ClosedWasSecured == ClosedWasRetested /\ PassMeansSecured

\* Every request comes to its end: the run aborts, fails or finishes, and a
\* busy range ends it with an error.
EveryRunEnds ==
  LET w == CHOOSE w \in Workers : TRUE IN job[w].pc # "idle" ~> job[w].pc = "idle"
=============================================================================
