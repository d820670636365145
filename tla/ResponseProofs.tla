---------------------------- MODULE ResponseProofs ----------------------------
(***************************************************************************)
(* Safety of security validation (module CyberRange) and of incident       *)
(* response (module IncidentResponse), for any number of requests at a     *)
(* time, any assets, scenarios and ranges.                                 *)
(***************************************************************************)
EXTENDS IncidentResponse, CyberRange, SequenceTheorems, TLAPS

-----------------------------------------------------------------------------
(* Security validation *)

Outcomes ==
  {"none", "BLOCKED", "ABORTED", "FAILED", "VISIBILITY_GAP", "DETECTION_GAP",
   "RESPONSE_GAP", "VERIFICATION_GAP", "PASS"}

JobRecord ==
  [task : {"none", "execute", "retest", "campaign"},
   scn : Scenarios \cup {NoScenario}, rng : Ranges \cup {NoScenario},
   pc : {"idle", "reserve", "step", "emit", "respond", "finish", "report"},
   sim : Simulated, at : Nat,
   answer : PipelineAnswers \cup {"none"},
   outcome : Outcomes,
   todo : Seq(Scenarios), late : Nat]

GapRecord ==
  [status : {"none", "NEW", "ASSIGNED", "READY_FOR_RETEST", "REOPENED", "CLOSED"},
   retest : Outcomes]

CyberTypeOK ==
  /\ range \in [Ranges -> [status : {"IDLE", "ACTIVE"}, scenario : Scenarios \cup {NoScenario}]]
  /\ job \in [Workers -> JobRecord]
  /\ globalHalt \in BOOLEAN
  /\ gap \in [Scenarios -> GapRecord]

\* Where a run stands: before its answer it has no outcome, it has emitted the
\* steps before the next one, and only a target on its own range goes past
\* the safety controller.
RunOK(j) ==
  /\ j.pc \in {"reserve", "step", "emit", "respond"} => j.outcome = "none"
  /\ j.pc \in {"step", "emit"} => j.at \in 1..ScenarioSteps
  /\ j.pc = "respond" => j.at = ScenarioSteps + 1
  /\ j.pc \in {"reserve", "step", "emit", "respond"} => Home[j.scn] = j.rng

\* The step that a check let through is the first one since the stop.
StopOK(j) == j.late <= 1 /\ (globalHalt /\ j.pc = "emit" => j.late = 0)

CyberInv ==
  /\ CyberTypeOK /\ RangeFreed /\ PassMeansSecured /\ ClosedWasRetested
  /\ \A w \in Workers : RunOK(job[w]) /\ StopOK(job[w])

LEMMA AdmittedOK ==
  ASSUME NEW task \in {"execute", "retest", "campaign"}, NEW s \in Scenarios,
         NEW r \in Ranges, NEW sim \in Simulated, NEW todo \in Seq(Scenarios),
         globalHalt \in BOOLEAN
  PROVE  LET j == Admitted(task, s, r, sim, todo)
         IN  /\ j \in JobRecord
             /\ j.late = 0 /\ j.outcome # "PASS"
             /\ j.pc \in {"reserve", "report"}
             /\ RunOK(j) /\ StopOK(j)
<1> DEFINE j == Admitted(task, s, r, sim, todo)
<1>1. /\ j \in JobRecord /\ j.late = 0 /\ j.scn = s /\ j.rng = r
      /\ j.outcome = IF Home[s] # r THEN "BLOCKED" ELSE IF globalHalt THEN "ABORTED" ELSE "none"
      /\ j.pc = IF Home[s] # r \/ globalHalt THEN "report" ELSE "reserve"
    BY DEF Admitted, NoJob, JobRecord, Simulated, Outcomes
<1> HIDE DEF j
<1>2. /\ j.outcome # "PASS" /\ j.pc \in {"reserve", "report"} /\ RunOK(j) /\ StopOK(j)
    BY <1>1 DEF RunOK, StopOK
<1> QED BY <1>1, <1>2 DEF j

LEMMA NoJobOK ==
  /\ NoJob \in JobRecord
  /\ NoJob.pc = "idle" /\ NoJob.outcome = "none"
  /\ RunOK(NoJob) /\ StopOK(NoJob)
<1> <<>> \in Seq(Scenarios)
    OBVIOUS
<1> QED BY DEF NoJob, JobRecord, RunOK, StopOK, Simulated, Outcomes

LEMMA CyberInitial == CyberInit => CyberInv
<1> SUFFICES ASSUME CyberInit PROVE CyberInv
    OBVIOUS
<1>1. CyberTypeOK
  <2>1. job \in [Workers -> JobRecord]
      BY NoJobOK DEF CyberInit
  <2>2. FreeRange \in [status : {"IDLE", "ACTIVE"}, scenario : Scenarios \cup {NoScenario}]
      BY DEF FreeRange
  <2>3. [status |-> "none", retest |-> "none"] \in GapRecord
      BY DEF GapRecord, Outcomes
  <2> QED BY <2>1, <2>2, <2>3 DEF CyberInit, CyberTypeOK
<1>2. \A w \in Workers : job[w] = NoJob
    BY DEF CyberInit
<1>3. RangeFreed /\ ClosedWasRetested
    BY DEF CyberInit, RangeFreed, ClosedWasRetested, FreeRange
<1>4. PassMeansSecured
    BY <1>2, NoJobOK DEF PassMeansSecured
<1> QED BY <1>1, <1>2, <1>3, <1>4, NoJobOK DEF CyberInv

\* A step of one worker that leaves the ranges alone, and lets go of none.
LEMMA WorkerMoves ==
  ASSUME CyberInv, NEW w \in Workers, NEW j \in JobRecord,
         job' = [job EXCEPT ![w] = j],
         UNCHANGED <<range, globalHalt>>,
         gap' \in [Scenarios -> GapRecord], ClosedWasRetested',
         Holds(w) => /\ j.pc \in {"step", "emit", "respond", "finish"}
                     /\ j.rng = job[w].rng /\ j.scn = job[w].scn,
         RunOK(j), StopOK(j),
         j.outcome = "PASS" =>
           /\ j.at = ScenarioSteps + 1 /\ Home[j.scn] = j.rng
           /\ j.sim = "nothing" /\ j.answer = "verified"
  PROVE  CyberInv'
<1> USE DEF CyberInv, CyberTypeOK
<1>1. job' \in [Workers -> JobRecord] /\ job'[w] = j
      /\ \A v \in Workers \ {w} : job'[v] = job[v]
    OBVIOUS
<1>2. RangeFreed'
    BY <1>1 DEF RangeFreed, Holds
<1>3. PassMeansSecured'
    BY <1>1 DEF PassMeansSecured
<1>4. \A v \in Workers : RunOK(job[v])' /\ StopOK(job[v])'
    BY <1>1 DEF RunOK, StopOK
<1> QED BY <1>1, <1>2, <1>3, <1>4

LEMMA StartStep ==
  ASSUME CyberInv, NEW w \in Workers, Idle(w),
         NEW task \in {"execute", "retest", "campaign"}, NEW s \in Scenarios,
         NEW r \in Ranges, NEW sim \in Simulated, NEW todo \in Seq(Scenarios),
         Start(w, task, s, r, sim, todo), UNCHANGED <<range, globalHalt, gap>>
  PROVE  CyberInv'
<1> DEFINE j == Admitted(task, s, r, sim, todo)
<1>1. /\ j \in JobRecord /\ j.outcome # "PASS" /\ RunOK(j) /\ StopOK(j)
    BY AdmittedOK DEF CyberInv, CyberTypeOK
<1>2. job' = [job EXCEPT ![w] = j]
    BY DEF Start
<1>3. ~Holds(w)
    BY DEF Idle, Holds
<1>4. ClosedWasRetested' /\ gap' \in [Scenarios -> GapRecord]
    BY DEF CyberInv, CyberTypeOK, ClosedWasRetested
<1> HIDE DEF j
<1> QED BY <1>1, <1>2, <1>3, <1>4, WorkerMoves

LEMMA CampaignParts ==
  ASSUME NEW q \in Seq(Scenarios), q # <<>>
  PROVE  Head(q) \in Scenarios /\ Tail(q) \in Seq(Scenarios)
BY HeadTailProperties

LEMMA ReserveStep ==
  ASSUME CyberInv, NEW w \in Workers, Reserve(w)
  PROVE  CyberInv'
<1> DEFINE r == job[w].rng
           j == [job[w] EXCEPT !.pc = "step", !.at = 1]
<1> USE DEF CyberInv, CyberTypeOK
<1>1. job[w] \in JobRecord /\ RunOK(job[w]) /\ StopOK(job[w]) /\ job[w].pc = "reserve"
    BY DEF Reserve
<1>2. CASE Busy(r, job[w].scn)
  <2>1. job' = [job EXCEPT ![w] = NoJob] /\ UNCHANGED <<range, globalHalt, gap>>
      BY <1>2 DEF Reserve
  <2>2. ~Holds(w)
      BY <1>1 DEF Holds
  <2>3. ClosedWasRetested'
      BY <2>1 DEF ClosedWasRetested
  <2> QED BY <2>1, <2>2, <2>3, NoJobOK, WorkerMoves
<1>3. CASE ~Busy(r, job[w].scn)
  <2>1. /\ range' = [range EXCEPT ![r] = [status |-> "ACTIVE", scenario |-> job[w].scn]]
        /\ job' = [job EXCEPT ![w] = j] /\ UNCHANGED <<globalHalt, gap>>
      BY <1>3 DEF Reserve
  <2>2. /\ j \in JobRecord /\ j.pc = "step" /\ j.at = 1 /\ j.outcome = "none"
        /\ j.rng = r /\ j.scn = job[w].scn /\ j.late = job[w].late
      BY <1>1 DEF JobRecord, RunOK
  <2>3. RunOK(j) /\ StopOK(j)
      BY <1>1, <2>2, CyberAssumption DEF RunOK, StopOK
  <2> HIDE DEF j
  <2>4. job' \in [Workers -> JobRecord] /\ job'[w] = j
        /\ \A v \in Workers \ {w} : job'[v] = job[v]
      BY <2>1, <2>2
  <2>5. CyberTypeOK'
      BY <1>1, <2>1, <2>4 DEF JobRecord
  <2>6. RangeFreed'
    <3> SUFFICES ASSUME NEW x \in Ranges, range'[x].status = "ACTIVE"
                 PROVE  \E v \in Workers :
                          Holds(v)' /\ job'[v].rng = x /\ job'[v].scn = range'[x].scenario
        BY DEF RangeFreed
    <3>1. CASE x = r
      <4>1. range'[x].scenario = job[w].scn
          BY <2>1, <3>1
      <4> QED BY <4>1, <3>1, <2>2, <2>4 DEF Holds
    <3>2. CASE x # r
      <4>1. range'[x] = range[x]
          BY <2>1, <3>2
      <4>2. PICK v \in Workers : Holds(v) /\ job[v].rng = x /\ job[v].scn = range[x].scenario
          BY <4>1 DEF RangeFreed
      <4>3. v # w
          BY <4>2, <1>1 DEF Holds
      <4> QED BY <4>1, <4>2, <4>3, <2>4 DEF Holds
    <3> QED BY <3>1, <3>2
  <2>7. PassMeansSecured' /\ ClosedWasRetested'
      BY <2>1, <2>2, <2>4 DEF PassMeansSecured, ClosedWasRetested
  <2>8. \A v \in Workers : RunOK(job[v])' /\ StopOK(job[v])'
      BY <2>1, <2>3, <2>4 DEF RunOK, StopOK
  <2> QED BY <2>5, <2>6, <2>7, <2>8
<1> QED BY <1>2, <1>3

LEMMA AskStep ==
  ASSUME CyberInv, NEW w \in Workers, AskKillSwitch(w)
  PROVE  CyberInv'
<1> DEFINE j == IF IsHalted(job[w].scn) THEN [job[w] EXCEPT !.pc = "finish", !.outcome = "ABORTED"]
                                        ELSE [job[w] EXCEPT !.pc = "emit"]
<1>1. job[w] \in JobRecord /\ RunOK(job[w]) /\ StopOK(job[w]) /\ job[w].pc = "step"
    BY DEF AskKillSwitch, CyberInv, CyberTypeOK
<1>2. job' = [job EXCEPT ![w] = j] /\ UNCHANGED <<range, globalHalt, gap>>
    BY DEF AskKillSwitch
<1>3. /\ j \in JobRecord /\ j.outcome \in {"none", "ABORTED"}
      /\ j.pc = "finish" \/ (j.pc = "emit" /\ ~globalHalt /\ j.outcome = "none")
      /\ j.at = job[w].at /\ j.late = job[w].late /\ j.rng = job[w].rng /\ j.scn = job[w].scn
  <2>1. job[w].outcome = "none"
      BY <1>1 DEF RunOK
  <2>2. CASE IsHalted(job[w].scn)
    <3>1. j = [job[w] EXCEPT !.pc = "finish", !.outcome = "ABORTED"]
        BY <2>2
    <3> HIDE DEF j
    <3> QED BY <1>1, <2>1, <3>1 DEF JobRecord, Outcomes
  <2>3. CASE ~IsHalted(job[w].scn)
    <3>1. j = [job[w] EXCEPT !.pc = "emit"] /\ ~globalHalt
        BY <2>3 DEF IsHalted
    <3> HIDE DEF j
    <3> QED BY <1>1, <2>1, <3>1 DEF JobRecord, Outcomes
  <2> QED BY <2>2, <2>3
<1> HIDE DEF j
<1>4. RunOK(j) /\ StopOK(j)
    BY <1>1, <1>3 DEF RunOK, StopOK
<1>5. ClosedWasRetested' /\ gap' \in [Scenarios -> GapRecord]
    BY <1>2 DEF CyberInv, CyberTypeOK, ClosedWasRetested
<1> QED BY <1>2, <1>3, <1>4, <1>5, WorkerMoves

LEMMA EmitStepKeeps ==
  ASSUME CyberInv, NEW w \in Workers, EmitStep(w)
  PROVE  CyberInv'
<1> DEFINE j == [job[w] EXCEPT !.pc = IF job[w].at < ScenarioSteps THEN "step" ELSE "respond",
                               !.at = job[w].at + 1,
                               !.late = IF globalHalt THEN job[w].late + 1 ELSE job[w].late]
<1>1. job[w] \in JobRecord /\ RunOK(job[w]) /\ StopOK(job[w]) /\ job[w].pc = "emit"
    BY DEF EmitStep, CyberInv, CyberTypeOK
<1>2. job' = [job EXCEPT ![w] = j] /\ UNCHANGED <<range, globalHalt, gap>>
    BY DEF EmitStep, NextStep
<1>3. /\ j \in JobRecord /\ j.outcome = job[w].outcome
      /\ j.pc = IF job[w].at < ScenarioSteps THEN "step" ELSE "respond"
      /\ j.at = job[w].at + 1
      /\ j.late = IF globalHalt THEN job[w].late + 1 ELSE job[w].late
      /\ j.rng = job[w].rng /\ j.scn = job[w].scn
  <2> DEFINE p == IF job[w].at < ScenarioSteps THEN "step" ELSE "respond"
             n == job[w].at + 1
             l == IF globalHalt THEN job[w].late + 1 ELSE job[w].late
  <2>1. job[w].at \in Nat /\ job[w].late \in Nat
      BY <1>1 DEF JobRecord
  <2>2. p \in {"step", "respond"} /\ n \in Nat /\ l \in Nat
      BY <2>1
  <2>3. j = [job[w] EXCEPT !.pc = p, !.at = n, !.late = l]
      OBVIOUS
  <2> HIDE DEF p, n, l, j
  <2>4. /\ j \in JobRecord /\ j.outcome = job[w].outcome /\ j.pc = p /\ j.at = n
        /\ j.late = l /\ j.rng = job[w].rng /\ j.scn = job[w].scn
      BY <1>1, <2>2, <2>3 DEF JobRecord
  <2> QED BY <2>4 DEF p, n, l
<1>4. job[w].at \in 1..ScenarioSteps /\ job[w].outcome = "none" /\ Home[job[w].scn] = job[w].rng
    BY <1>1 DEF RunOK
<1> HIDE DEF j
<1>5. RunOK(j) /\ StopOK(j)
    BY <1>1, <1>3, <1>4, CyberAssumption DEF RunOK, StopOK
<1>6. ClosedWasRetested' /\ gap' \in [Scenarios -> GapRecord]
    BY <1>2 DEF CyberInv, CyberTypeOK, ClosedWasRetested
<1> QED BY <1>2, <1>3, <1>4, <1>5, <1>6, WorkerMoves

\* PASS stands for a run in which nothing was simulated and the response was
\* verified.
LEMMA PassOutcome ==
  ASSUME NEW j, j.sim \in Simulated, Outcome(j) = "PASS", j.answer \in Answers(j)
  PROVE  j.sim = "nothing" /\ j.answer = "verified"
BY DEF Outcome, Sees, Detects, Responds, Answers, Simulated, PipelineAnswers

LEMMA OutcomeType ==
  ASSUME NEW j PROVE Outcome(j) \in Outcomes
BY DEF Outcome, Outcomes

LEMMA RespondStep ==
  ASSUME CyberInv, NEW w \in Workers, Respond(w)
  PROVE  CyberInv'
<1>1. job[w] \in JobRecord /\ RunOK(job[w]) /\ StopOK(job[w]) /\ job[w].pc = "respond"
    BY DEF Respond, CyberInv, CyberTypeOK
<1>2. PICK a \in Answers(job[w]) :
        LET j == [job[w] EXCEPT !.answer = a]
        IN  job' = [job EXCEPT ![w] = [j EXCEPT !.pc = "finish", !.outcome = Outcome(j)]]
    BY DEF Respond
<1> DEFINE i == [job[w] EXCEPT !.answer = a]
           j == [i EXCEPT !.pc = "finish", !.outcome = Outcome(i)]
<1>3. job' = [job EXCEPT ![w] = j] /\ UNCHANGED <<range, globalHalt, gap>>
    BY <1>2 DEF Respond
<1>4. a \in PipelineAnswers \cup {"none"}
    BY DEF Answers, PipelineAnswers
<1>5. /\ i \in JobRecord /\ i.answer = a /\ i.sim = job[w].sim /\ i.at = job[w].at
      /\ i.scn = job[w].scn /\ i.rng = job[w].rng /\ i.late = job[w].late
    BY <1>1, <1>4 DEF JobRecord
<1>6. a \in Answers(i)
    BY <1>5 DEF Answers, Responds, Detects
<1>7. /\ j \in JobRecord /\ j.pc = "finish" /\ j.outcome = Outcome(i) /\ j.answer = a
      /\ j.sim = i.sim /\ j.at = job[w].at /\ j.scn = job[w].scn
      /\ j.rng = job[w].rng /\ j.late = job[w].late
  <2> HIDE DEF i
  <2> QED BY <1>5, OutcomeType DEF JobRecord
<1>8. i.sim \in Simulated
    BY <1>1, <1>5 DEF JobRecord
<1> HIDE DEF i, j
<1>9. j.outcome = "PASS" => j.sim = "nothing" /\ j.answer = "verified"
    BY <1>5, <1>6, <1>7, <1>8, PassOutcome
<1>10. j.at = ScenarioSteps + 1 /\ Home[j.scn] = j.rng
    BY <1>1, <1>7 DEF RunOK
<1>11. RunOK(j) /\ StopOK(j)
    BY <1>1, <1>7 DEF RunOK, StopOK
<1>12. ClosedWasRetested' /\ gap' \in [Scenarios -> GapRecord]
    BY <1>3 DEF CyberInv, CyberTypeOK, ClosedWasRetested
<1> QED BY <1>3, <1>7, <1>9, <1>10, <1>11, <1>12, WorkerMoves

\* Whoever uses the range now, it is free afterwards.
LEMMA FinishStep ==
  ASSUME CyberInv, NEW w \in Workers, Finish(w)
  PROVE  CyberInv'
<1> DEFINE j == [job[w] EXCEPT !.pc = "report"]
<1> USE DEF CyberInv, CyberTypeOK
<1>1. job[w] \in JobRecord /\ RunOK(job[w]) /\ StopOK(job[w]) /\ job[w].pc = "finish"
    BY DEF Finish
<1>2. /\ job' = [job EXCEPT ![w] = j]
      /\ range' = [range EXCEPT ![job[w].rng] = FreeRange]
      /\ UNCHANGED <<globalHalt, gap>>
    BY DEF Finish, Freed
<1>3. /\ j \in JobRecord /\ j.pc = "report" /\ j.outcome = job[w].outcome /\ j.sim = job[w].sim
      /\ j.answer = job[w].answer /\ j.at = job[w].at /\ j.scn = job[w].scn
      /\ j.rng = job[w].rng /\ j.late = job[w].late
    BY <1>1 DEF JobRecord
<1> HIDE DEF j
<1>4. job' \in [Workers -> JobRecord] /\ job'[w] = j
      /\ \A v \in Workers \ {w} : job'[v] = job[v]
    BY <1>2, <1>3
<1>5. CyberTypeOK'
    BY <1>2, <1>4 DEF FreeRange
<1>6. RangeFreed'
  <2> SUFFICES ASSUME NEW x \in Ranges, range'[x].status = "ACTIVE"
               PROVE  \E v \in Workers :
                        Holds(v)' /\ job'[v].rng = x /\ job'[v].scn = range'[x].scenario
      BY DEF RangeFreed
  <2>1. x # job[w].rng /\ range'[x] = range[x]
      BY <1>2 DEF FreeRange
  <2>2. PICK v \in Workers : Holds(v) /\ job[v].rng = x /\ job[v].scn = range[x].scenario
      BY <2>1 DEF RangeFreed
  <2>3. v # w
      BY <2>1, <2>2
  <2> QED BY <2>1, <2>2, <2>3, <1>4 DEF Holds
<1>7. PassMeansSecured' /\ ClosedWasRetested'
    BY <1>2, <1>3, <1>4 DEF PassMeansSecured, ClosedWasRetested
<1>8. \A v \in Workers : RunOK(job[v])' /\ StopOK(job[v])'
    BY <1>1, <1>2, <1>3, <1>4 DEF RunOK, StopOK
<1> QED BY <1>5, <1>6, <1>7, <1>8

\* A request is over; it may have moved the gap of its scenario.
LEMMA ReportStep ==
  ASSUME CyberInv, NEW w \in Workers, ReportExecution(w) \/ ReportRetest(w)
  PROVE  CyberInv'
<1>1. job[w] \in JobRecord /\ job[w].pc = "report"
    BY DEF ReportExecution, ReportRetest, CyberInv, CyberTypeOK
<1>2. job' = [job EXCEPT ![w] = NoJob] /\ UNCHANGED <<range, globalHalt>>
    BY DEF ReportExecution, ReportRetest
<1>3. ~Holds(w)
    BY <1>1 DEF Holds
<1>4. ClosedWasRetested' /\ gap' \in [Scenarios -> GapRecord]
  <2> USE DEF CyberInv, CyberTypeOK, ClosedWasRetested
  <2>1. CASE UNCHANGED gap
      BY <2>1
  <2>2. CASE ReportRetest(w)
    <3>1. job[w].outcome \in Outcomes
        BY <1>1 DEF JobRecord
    <3> QED BY <2>2, <3>1 DEF ReportRetest, RetestPassed, GapRecord
  <2>3. CASE gap' = [gap EXCEPT ![job[w].scn] = [status |-> "NEW", retest |-> "none"]]
      BY <2>3 DEF GapRecord, Outcomes
  <2> QED BY <2>1, <2>2, <2>3 DEF ReportExecution
<1> QED BY <1>2, <1>3, <1>4, NoJobOK, WorkerMoves

LEMMA CampaignStep ==
  ASSUME CyberInv, NEW w \in Workers, NextOfCampaign(w)
  PROVE  CyberInv'
<1>1. job[w] \in JobRecord /\ job[w].pc = "report" /\ globalHalt \in BOOLEAN
    BY DEF NextOfCampaign, CyberInv, CyberTypeOK
<1>2. ~Holds(w) /\ UNCHANGED <<range, globalHalt, gap>>
    BY <1>1 DEF Holds, NextOfCampaign
<1>3. ClosedWasRetested' /\ gap' \in [Scenarios -> GapRecord]
    BY <1>2 DEF CyberInv, CyberTypeOK, ClosedWasRetested
<1>4. CASE job[w].todo = <<>>
  <2>1. job' = [job EXCEPT ![w] = NoJob]
      BY <1>4 DEF NextOfCampaign
  <2> QED BY <2>1, <1>2, <1>3, NoJobOK, WorkerMoves
<1>5. CASE job[w].todo # <<>>
  <2> DEFINE rest == job[w].todo
             j == Admitted("campaign", Head(rest), TargetRange, "nothing", Tail(rest))
  <2>1. job' = [job EXCEPT ![w] = j]
      BY <1>5 DEF NextOfCampaign
  <2>2. Head(rest) \in Scenarios /\ Tail(rest) \in Seq(Scenarios)
      BY <1>1, <1>5, CampaignParts DEF JobRecord
  <2>3. TargetRange \in Ranges /\ "nothing" \in Simulated
      BY CyberAssumption DEF Simulated
  <2>4. j \in JobRecord /\ j.outcome # "PASS" /\ RunOK(j) /\ StopOK(j)
    <3> HIDE DEF rest
    <3> QED BY <2>2, <2>3, <1>1, AdmittedOK
  <2> HIDE DEF j
  <2> QED BY <2>1, <2>4, <1>2, <1>3, WorkerMoves
<1> QED BY <1>4, <1>5

LEMMA LateReset ==
  ASSUME NEW i \in JobRecord
  PROVE  LET j == [i EXCEPT !.late = 0]
         IN  /\ j \in JobRecord /\ j.late = 0 /\ j.pc = i.pc /\ j.outcome = i.outcome
             /\ j.scn = i.scn /\ j.rng = i.rng /\ j.at = i.at /\ j.sim = i.sim
             /\ j.answer = i.answer
BY DEF JobRecord

\* A stop frees ranges under the runs that hold them.
LEMMA StopStep ==
  ASSUME CyberInv, RollBackAll, UNCHANGED gap, globalHalt' \in BOOLEAN,
         \/ UNCHANGED <<job, globalHalt>>
         \/ job' = [w \in Workers |-> [job[w] EXCEPT !.late = 0]]
  PROVE  CyberInv'
<1> USE DEF CyberInv, CyberTypeOK
<1>1. /\ range' \in [Ranges -> [status : {"IDLE", "ACTIVE"}, scenario : Scenarios \cup {NoScenario}]]
      /\ \A r \in Ranges : range'[r].status = "ACTIVE" => range'[r] = range[r]
    BY DEF RollBackAll, FreeRange
<1>3. /\ job' \in [Workers -> JobRecord]
      /\ \A w \in Workers :
           /\ job'[w].pc = job[w].pc /\ job'[w].outcome = job[w].outcome
           /\ job'[w].scn = job[w].scn /\ job'[w].rng = job[w].rng
           /\ job'[w].at = job[w].at /\ job'[w].sim = job[w].sim
           /\ job'[w].answer = job[w].answer
           /\ (job'[w].late = job[w].late /\ globalHalt' = globalHalt) \/ job'[w].late = 0
  <2>1. CASE UNCHANGED <<job, globalHalt>>
      BY <2>1
  <2>2. CASE job' = [w \in Workers |-> [job[w] EXCEPT !.late = 0]]
    <3>1. job' \in [Workers -> JobRecord]
        BY <2>2, LateReset
    <3>2. ASSUME NEW w \in Workers
          PROVE  /\ job'[w].pc = job[w].pc /\ job'[w].outcome = job[w].outcome
                 /\ job'[w].scn = job[w].scn /\ job'[w].rng = job[w].rng
                 /\ job'[w].at = job[w].at /\ job'[w].sim = job[w].sim
                 /\ job'[w].answer = job[w].answer /\ job'[w].late = 0
      <4>1. job'[w] = [job[w] EXCEPT !.late = 0] /\ job[w] \in JobRecord
          BY <2>2
      <4> QED BY <4>1, LateReset
    <3> QED BY <3>1, <3>2
  <2> QED BY <2>1, <2>2
<1>4. RangeFreed'
    BY <1>1, <1>3 DEF RangeFreed, Holds
<1>5. PassMeansSecured' /\ ClosedWasRetested'
    BY <1>3 DEF PassMeansSecured, ClosedWasRetested
<1>6. \A w \in Workers : RunOK(job[w])' /\ StopOK(job[w])'
    BY <1>3 DEF RunOK, StopOK
<1> QED BY <1>1, <1>3, <1>4, <1>5, <1>6

LEMMA CyberStep == CyberInv /\ [CyberNext]_cyberVars => CyberInv'
<1> SUFFICES ASSUME CyberInv, [CyberNext]_cyberVars PROVE CyberInv'
    OBVIOUS
<1>1. ASSUME NEW w \in Workers, WorkerStep(w) PROVE CyberInv'
    BY <1>1, ReserveStep, AskStep, EmitStepKeeps, RespondStep, FinishStep, ReportStep,
       CampaignStep DEF WorkerStep
<1>2. ASSUME NEW w \in Workers, RunCampaign(w) PROVE CyberInv'
  <2>1. Head(Campaign) \in Scenarios /\ Tail(Campaign) \in Seq(Scenarios)
      BY <1>2, CampaignParts, CyberAssumption DEF RunCampaign
  <2> QED BY <1>2, <2>1, StartStep, CyberAssumption DEF RunCampaign, Simulated
<1>3. ASSUME NEW w \in Workers, NEW s \in Scenarios, NEW r \in Ranges,
             RetestGap(w, s, r) \/ \E sim \in Simulated : ExecuteScenario(w, s, r, sim)
      PROVE  CyberInv'
  <2>1. <<>> \in Seq(Scenarios)
      OBVIOUS
  <2> QED BY <1>3, <2>1, StartStep DEF RetestGap, ExecuteScenario, Simulated
<1>4. ASSUME NEW s \in Scenarios, NEW st \in {"ASSIGNED", "READY_FOR_RETEST"},
             TeamMovesGap(s, st)
      PROVE  CyberInv'
  <2>1. gap' \in [Scenarios -> GapRecord] /\ ClosedWasRetested'
      BY <1>4 DEF TeamMovesGap, CyberInv, CyberTypeOK, ClosedWasRetested, GapRecord
  <2> QED BY <1>4, <2>1 DEF TeamMovesGap, CyberInv, CyberTypeOK, RangeFreed, Holds,
             PassMeansSecured, RunOK, StopOK
<1>5. ASSUME \/ TriggerGlobalStop \/ TriggerOtherStop
             \/ \E s \in Scenarios : TriggerTargetStop(s)
      PROVE  CyberInv'
    BY <1>5, StopStep DEF TriggerGlobalStop, TriggerOtherStop, TriggerTargetStop,
       CyberInv, CyberTypeOK
<1>6. CASE ResetGlobalStop \/ UNCHANGED cyberVars
  <2>1. UNCHANGED <<range, job, gap>>
      BY <1>6 DEF ResetGlobalStop, cyberVars
  <2>3. globalHalt' \in BOOLEAN /\ (globalHalt' => globalHalt)
    <3>1. CASE ResetGlobalStop
        BY <3>1 DEF ResetGlobalStop
    <3>2. CASE UNCHANGED cyberVars
        BY <3>2 DEF cyberVars, CyberInv, CyberTypeOK
    <3> QED BY <1>6, <3>1, <3>2
  <2>2. CyberTypeOK' /\ RangeFreed' /\ PassMeansSecured' /\ ClosedWasRetested'
      BY <2>1, <2>3 DEF CyberInv, CyberTypeOK, RangeFreed, Holds, PassMeansSecured, ClosedWasRetested
  <2>4. \A w \in Workers : RunOK(job[w])' /\ StopOK(job[w])'
      BY <2>1, <2>3 DEF CyberInv, RunOK, StopOK
  <2> QED BY <2>2, <2>4 DEF CyberInv
<1> QED BY <1>1, <1>2, <1>3, <1>4, <1>5, <1>6 DEF CyberNext

\* The invariant of security validation holds in every reachable state.
THEOREM ValidationSafe == CyberSpec => []CyberInv
<1> QED BY CyberInitial, CyberStep, PTL DEF CyberSpec

\* However a run ends, its range is let go of (validation/execution/runner.py,
\* the finally clause of run).
THEOREM RangesAreFreed == CyberSpec => []RangeFreed
BY ValidationSafe, PTL DEF CyberInv

\* After a global stop a run emits one step at most (kill_switch.py), whatever
\* number of runs and of steps there are.
THEOREM StopsQuickly == CyberSpec => []StopIsQuick
<1>1. CyberInv => StopIsQuick
    BY DEF CyberInv, StopOK, StopIsQuick
<1> QED BY <1>1, ValidationSafe, PTL

\* A gap is closed by a retest that passed, and PASS stands for the whole
\* scenario (gaps/remediation.py, runner.py).
THEOREM ClosedGapsAreGone == CyberSpec => []ClosedWasSecured
<1>1. CyberInv => ClosedWasSecured
    BY DEF CyberInv, ClosedWasSecured
<1> QED BY <1>1, ValidationSafe, PTL

-----------------------------------------------------------------------------
(* Incident response *)

IncidentRecord ==
  [assets : AssetLists, status : IncidentStatus, evidence : BOOLEAN, verified : BOOLEAN,
   watch : {"none", "active", "triggered"}]

StepResult == {"PENDING", "RUNNING", "SUCCESS", "FAILED", "ROLLED_BACK", "none"}

PlanRecord ==
  [inc : Nat, status : {"DRAFT", "EXECUTING", "ROLLED_BACK", "COMPLETED"},
   phase : {"idle", "run", "call", "undo", "verify"}, by : {"endpoint", "qualify"},
   at : Nat, done : SUBSET Nat, step : Seq(StepResult), before : Seq(Config \cup {"none"}),
   reused : BOOLEAN, was : [Hosts -> Config]]

ResponseTypeOK ==
  /\ incident \in Seq(IncidentRecord)
  /\ rplan \in Seq(PlanRecord)
  /\ config \in [Hosts -> Config]
  /\ assetLock \in [Hosts -> Nat]
  /\ outcome \in Seq(Seq({"none", "SUCCESS", "FAILED"}))
  /\ dispatched \in Seq(Seq(Nat))
  /\ Len(outcome) = Len(incident) /\ Len(dispatched) = Len(incident)
  /\ \A i \in DOMAIN incident :
       /\ Len(outcome[i]) = StepsOf(incident[i].assets)
       /\ Len(dispatched[i]) = StepsOf(incident[i].assets)

\* A plan belongs to an incident and has its steps; a call is of one of them.
PlanShape(p) ==
  /\ rplan[p].inc \in DOMAIN incident
  /\ Len(rplan[p].step) = NumActions(p) /\ Len(rplan[p].before) = NumActions(p)
  /\ Executing(p) => rplan[p].at \in 1..(NumActions(p) + 1)
  /\ rplan[p].phase \in {"call", "undo"} => rplan[p].at <= NumActions(p)

\* One request at a time works on an incident, and keeps it in REMEDIATION, a
\* state that does not lead to itself.
OneRequest ==
  \A p \in DOMAIN rplan : rplan[p].phase # "idle" =>
    /\ incident[rplan[p].inc].status = "REMEDIATION"
    /\ \A q \in DOMAIN rplan :
         rplan[q].phase # "idle" /\ rplan[q].inc = rplan[p].inc => q = p

\* A key that was used has its outcome, or its call is under way.
KeysOK ==
  \A i \in DOMAIN incident : \A k \in 1..StepsOf(incident[i].assets) :
    /\ dispatched[i][k] <= 1
    /\ dispatched[i][k] = 1 /\ outcome[i][k] = "none" =>
         \E p \in DOMAIN rplan :
           rplan[p].phase = "call" /\ rplan[p].inc = i /\ rplan[p].at = k

LocksInRange == \A h \in Hosts : assetLock[h] <= Len(rplan)

\* An execution that called every step itself has a snapshot of each step it
\* may undo, and its assets are what they were but for the steps passed.
UndoOK(p) ==
  LET r == rplan[p] IN
  Executing(p) /\ ~r.reused =>
    /\ r.done = IF r.phase = "undo" THEN 1..r.at ELSE 1..(r.at - 1)
    /\ r.phase = "undo" => r.step[r.at] = "FAILED"
    /\ \A k \in 1..(r.at - 1) :
         /\ r.step[k] = "SUCCESS"
         /\ HasRollbackCommand(p, k) => r.before[k] = r.was[TargetAsset(p, k)]
    /\ \A h \in AssetSet(p) :
         config[h] = IF \E k \in 3..(r.at - 1) : TargetAsset(p, k) = h
                     THEN "enforced" ELSE r.was[h]

ResponseInv ==
  /\ ResponseTypeOK /\ OneRequest /\ LocksAreHeld /\ LocksInRange /\ KeysOK
  /\ \A p \in DOMAIN rplan : PlanShape(p) /\ UndoOK(p)

LEMMA SeqUpdated ==
  ASSUME NEW S, NEW q \in Seq(S), NEW p \in DOMAIN q, NEW x \in S
  PROVE  /\ [q EXCEPT ![p] = x] \in Seq(S)
         /\ Len([q EXCEPT ![p] = x]) = Len(q)
         /\ DOMAIN [q EXCEPT ![p] = x] = DOMAIN q
         /\ [q EXCEPT ![p] = x][p] = x
         /\ \A n \in DOMAIN q \ {p} : [q EXCEPT ![p] = x][n] = q[n]
BY ExceptSeq

LEMMA SeqAppended ==
  ASSUME NEW S, NEW q \in Seq(S), NEW x \in S
  PROVE  /\ Append(q, x) \in Seq(S)
         /\ Len(q) \in Nat /\ DOMAIN q = 1..Len(q)
         /\ Len(Append(q, x)) = Len(q) + 1
         /\ DOMAIN Append(q, x) = DOMAIN q \cup {Len(q) + 1}
         /\ \A n \in DOMAIN q : Append(q, x)[n] = q[n]
         /\ Append(q, x)[Len(q) + 1] = x
<1>1. /\ Append(q, x) \in Seq(S) /\ Len(q) \in Nat /\ DOMAIN q = 1..Len(q)
      /\ Len(Append(q, x)) = Len(q) + 1
      /\ DOMAIN Append(q, x) = 1..(Len(q) + 1)
    OBVIOUS
<1>2. \A n \in 1..Len(q) : Append(q, x)[n] = q[n]
    OBVIOUS
<1>3. Append(q, x)[Len(q) + 1] = x
    OBVIOUS
<1> QED BY <1>1, <1>2, <1>3

LEMMA AssetListFacts ==
  ASSUME NEW s \in AssetLists
  PROVE  /\ s \in Seq(Hosts) /\ Len(s) \in Nat \ {0} /\ DOMAIN s = 1..Len(s)
         /\ \A n \in 1..Len(s) : s[n] \in Hosts
         /\ \A m, n \in 1..Len(s) : s[m] = s[n] => m = n
         /\ StepsOf(s) = Len(s) + 4 /\ StepsOf(s) \in Nat
<1>1. s \in Seq(Hosts) /\ s # <<>> /\ \A m, n \in DOMAIN s : s[m] = s[n] => m = n
    BY ResponseAssumption
<1>2. Len(s) \in Nat /\ DOMAIN s = 1..Len(s)
    BY <1>1
<1>3. Len(s) # 0
    BY <1>1
<1> QED BY <1>1, <1>2, <1>3 DEF StepsOf

LEMMA PlanFields ==
  ASSUME ResponseInv, NEW p \in DOMAIN rplan
  PROVE  /\ rplan[p] \in PlanRecord /\ p \in Nat \ {0} /\ p <= Len(rplan)
         /\ rplan[p].inc \in DOMAIN incident
         /\ incident[rplan[p].inc] \in IncidentRecord
         /\ PlanAssets(p) \in AssetLists
         /\ AssetSet(p) \subseteq Hosts
         /\ NumActions(p) = Len(PlanAssets(p)) + 4
         /\ \A k \in Nat : TargetAsset(p, k) \in AssetSet(p)
<1>1. rplan \in Seq(PlanRecord) /\ incident \in Seq(IncidentRecord) /\ PlanShape(p)
    BY DEF ResponseInv, ResponseTypeOK
<1>2. rplan[p] \in PlanRecord /\ p \in Nat \ {0} /\ p <= Len(rplan)
    BY <1>1
<1>3. rplan[p].inc \in DOMAIN incident /\ incident[rplan[p].inc] \in IncidentRecord
    BY <1>1 DEF PlanShape
<1>4. PlanAssets(p) \in AssetLists
    BY <1>3 DEF PlanAssets, IncidentRecord
<1> DEFINE s == PlanAssets(p)
<1>5. /\ Len(s) \in Nat \ {0} /\ DOMAIN s = 1..Len(s) /\ \A n \in 1..Len(s) : s[n] \in Hosts
      /\ StepsOf(s) = Len(s) + 4
    BY <1>4, AssetListFacts
<1>6. AssetSet(p) \subseteq Hosts
    BY <1>5 DEF AssetSet
<1>7. \A k \in Nat : TargetAsset(p, k) \in AssetSet(p)
    BY <1>5 DEF AssetSet, TargetAsset
<1> QED BY <1>2, <1>3, <1>4, <1>5, <1>6, <1>7 DEF NumActions

\* The incident of a plan keeps its assets, and they say what the plan does.
LEMMA SamePlan ==
  ASSUME NEW p, incident'[rplan'[p].inc].assets = incident[rplan[p].inc].assets
  PROVE  /\ PlanAssets(p)' = PlanAssets(p) /\ AssetSet(p)' = AssetSet(p)
         /\ NumActions(p)' = NumActions(p)
         /\ \A k : /\ TargetAsset(p, k)' = TargetAsset(p, k)
                   /\ HasRollbackCommand(p, k)' = HasRollbackCommand(p, k)
<1>1. PlanAssets(p)' = PlanAssets(p)
    BY DEF PlanAssets
<1> QED BY <1>1 DEF AssetSet, NumActions, TargetAsset, HasRollbackCommand

\* Executions do not share assets.
LEMMA ExecutionsApart ==
  ASSUME ResponseInv, NEW p \in DOMAIN rplan, NEW q \in DOMAIN rplan, p # q,
         Executing(p), Executing(q)
  PROVE  AssetSet(p) \cap AssetSet(q) = {}
<1>1. AssetSet(p) \subseteq Hosts
    BY PlanFields
<1> QED BY <1>1 DEF ResponseInv, LocksAreHeld

\* What a step owes that touches or adds one plan p, or none.
LEMMA StepKeeps ==
  ASSUME ResponseInv, ResponseTypeOK', NEW p,
         DOMAIN rplan \ {p} = DOMAIN rplan' \ {p},
         \A q \in DOMAIN rplan \ {p} : rplan'[q] = rplan[q],
         \A i \in DOMAIN incident :
           i \in DOMAIN incident' /\ incident'[i].assets = incident[i].assets,
         \A q \in DOMAIN rplan \ {p} : rplan[q].phase # "idle" =>
           incident'[rplan[q].inc].status = incident[rplan[q].inc].status,
         p \in DOMAIN rplan' =>
           /\ PlanShape(p)' /\ UndoOK(p)'
           /\ rplan'[p].phase # "idle" =>
                /\ incident'[rplan'[p].inc].status = "REMEDIATION"
                /\ \A q \in DOMAIN rplan \ {p} :
                     rplan[q].inc = rplan'[p].inc => rplan[q].phase = "idle",
         LocksAreHeld', LocksInRange', KeysOK',
         \A q \in DOMAIN rplan \ {p} : Executing(q) =>
           \A h \in AssetSet(q) : config'[h] = config[h]
  PROVE  ResponseInv'
<1>1. ASSUME NEW q \in DOMAIN rplan \ {p}
      PROVE  /\ rplan[q].inc \in DOMAIN incident
             /\ PlanAssets(q)' = PlanAssets(q) /\ AssetSet(q)' = AssetSet(q)
             /\ NumActions(q)' = NumActions(q)
             /\ \A k : /\ TargetAsset(q, k)' = TargetAsset(q, k)
                       /\ HasRollbackCommand(q, k)' = HasRollbackCommand(q, k)
             /\ Executing(q)' = Executing(q)
  <2>1. rplan[q].inc \in DOMAIN incident
      BY PlanFields
  <2>2. incident'[rplan'[q].inc].assets = incident[rplan[q].inc].assets
      BY <2>1
  <2> QED BY <2>1, <2>2, SamePlan DEF Executing
<1>2. OneRequest'
  <2>1. OneRequest
      BY DEF ResponseInv
  <2> QED BY <1>1, <2>1 DEF OneRequest
<1>3. ASSUME NEW q \in DOMAIN rplan' PROVE PlanShape(q)' /\ UndoOK(q)'
  <2>1. CASE q = p
      BY <2>1
  <2>2. CASE q # p
    <3>1. q \in DOMAIN rplan \ {p} /\ rplan'[q] = rplan[q]
        BY <2>2
    <3>2. PlanShape(q) /\ UndoOK(q)
        BY <3>1 DEF ResponseInv
    <3>3. PlanShape(q)'
        BY <1>1, <3>1, <3>2 DEF PlanShape
    <3>4. UndoOK(q)'
        BY <1>1, <3>1, <3>2 DEF UndoOK
    <3> QED BY <3>3, <3>4
  <2> QED BY <2>1, <2>2
<1> QED BY <1>2, <1>3 DEF ResponseInv

\* The locks when no execution begins or ends.
LEMMA LocksStay ==
  ASSUME ResponseInv, UNCHANGED assetLock, DOMAIN rplan \subseteq DOMAIN rplan',
         rplan' \in Seq(PlanRecord),
         \A q \in DOMAIN rplan : Executing(q)' = Executing(q) /\ AssetSet(q)' = AssetSet(q),
         \A q \in DOMAIN rplan' \ DOMAIN rplan : ~Executing(q)'
  PROVE  LocksAreHeld' /\ LocksInRange'
<1>1. rplan \in Seq(PlanRecord) /\ Len(rplan') >= Len(rplan)
    BY DEF ResponseInv, ResponseTypeOK
<1>2. LocksInRange'
    BY <1>1 DEF ResponseInv, ResponseTypeOK, LocksInRange
<1>3. ASSUME NEW h \in Hosts, NEW q \in DOMAIN rplan' \ DOMAIN rplan
      PROVE  assetLock[h] # q
    BY <1>1 DEF ResponseInv, ResponseTypeOK, LocksInRange
<1> QED BY <1>2, <1>3 DEF ResponseInv, LocksAreHeld

\* The locks when the execution of p begins; p may be a new plan.
LEMMA LocksTaken ==
  ASSUME ResponseInv, NEW p \in Nat \ {0}, NEW assets \in AssetLists,
         ~Conflicts(p, assets), assetLock' = LockAll(p, assets),
         \A h \in Hosts : assetLock[h] # p,
         p \in DOMAIN rplan', rplan' \in Seq(PlanRecord), Len(rplan') >= Len(rplan),
         Executing(p)', PlanAssets(p)' = assets,
         \A q \in DOMAIN rplan' \ {p} :
           q \in DOMAIN rplan /\ Executing(q)' = Executing(q) /\ AssetSet(q)' = AssetSet(q)
  PROVE  LocksAreHeld' /\ LocksInRange' /\ assetLock' \in [Hosts -> Nat]
<1>1. /\ DOMAIN assets = 1..Len(assets) /\ \A n \in DOMAIN assets : assets[n] \in Hosts
      /\ rplan \in Seq(PlanRecord) /\ assetLock \in [Hosts -> Nat]
      /\ LocksAreHeld /\ LocksInRange
    BY AssetListFacts DEF ResponseInv, ResponseTypeOK
<1> DEFINE S == {assets[n] : n \in DOMAIN assets}
<1>2. AssetSet(p)' = S
    BY DEF AssetSet
<1>3. \A h \in Hosts : assetLock'[h] = IF h \in S THEN p ELSE assetLock[h]
    BY DEF LockAll
<1>4. \A h \in S : assetLock[h] \in {0, p}
    BY <1>1 DEF Conflicts
<1>5. assetLock' \in [Hosts -> Nat]
    BY <1>1 DEF LockAll
<1>6. LocksInRange'
    BY <1>1, <1>3, <1>5 DEF LocksInRange
<1>7. ASSUME NEW h \in Hosts, NEW q \in DOMAIN rplan'
      PROVE  (assetLock'[h] = q) <=> (Executing(q)' /\ h \in AssetSet(q)')
  <2> HIDE DEF S
  <2>1. CASE q = p
      BY <2>1, <1>2, <1>3
  <2>2. CASE q # p
    <3>1. q \in DOMAIN rplan /\ Executing(q)' = Executing(q) /\ AssetSet(q)' = AssetSet(q)
        BY <2>2
    <3>2. q # 0
        BY <3>1, <1>1
    <3>3. (assetLock[h] = q) <=> (Executing(q) /\ h \in AssetSet(q))
        BY <3>1, <1>1 DEF LocksAreHeld
    <3> QED BY <2>2, <3>1, <3>2, <3>3, <1>3, <1>4
  <2> QED BY <2>1, <2>2
<1> QED BY <1>5, <1>6, <1>7 DEF LocksAreHeld

\* The locks when the execution of p ends.
LEMMA LocksReleased ==
  ASSUME ResponseInv, NEW p \in DOMAIN rplan, assetLock' = Unlock(p),
         rplan' \in Seq(PlanRecord), Len(rplan') = Len(rplan), ~Executing(p)',
         \A q \in DOMAIN rplan \ {p} :
           Executing(q)' = Executing(q) /\ AssetSet(q)' = AssetSet(q)
  PROVE  LocksAreHeld' /\ LocksInRange' /\ assetLock' \in [Hosts -> Nat]
<1>1. /\ rplan \in Seq(PlanRecord) /\ assetLock \in [Hosts -> Nat]
      /\ LocksAreHeld /\ LocksInRange /\ DOMAIN rplan' = DOMAIN rplan
      /\ \A q \in DOMAIN rplan : q # 0
    BY DEF ResponseInv, ResponseTypeOK
<1>2. \A h \in Hosts : assetLock'[h] = IF assetLock[h] = p THEN 0 ELSE assetLock[h]
    BY DEF Unlock
<1>3. assetLock' \in [Hosts -> Nat]
    BY <1>1 DEF Unlock
<1>4. LocksInRange'
    BY <1>1, <1>2 DEF LocksInRange
<1>5. ASSUME NEW h \in Hosts, NEW q \in DOMAIN rplan
      PROVE  (assetLock'[h] = q) <=> (Executing(q)' /\ h \in AssetSet(q)')
    BY <1>1, <1>2 DEF LocksAreHeld
<1> QED BY <1>1, <1>3, <1>4, <1>5 DEF LocksAreHeld

\* The keys when no call begins or ends.
LEMMA KeysStay ==
  ASSUME ResponseInv,
         \A i \in DOMAIN incident :
           i \in DOMAIN incident' /\ incident'[i].assets = incident[i].assets
           /\ dispatched'[i] = dispatched[i] /\ outcome'[i] = outcome[i],
         \A i \in DOMAIN incident' \ DOMAIN incident :
           \A k \in 1..StepsOf(incident'[i].assets) : dispatched'[i][k] = 0,
         \A q \in DOMAIN rplan : rplan[q].phase = "call" =>
           q \in DOMAIN rplan' /\ rplan'[q] = rplan[q]
  PROVE  KeysOK'
<1> SUFFICES ASSUME NEW i \in DOMAIN incident', NEW k \in 1..StepsOf(incident'[i].assets)
             PROVE  /\ dispatched'[i][k] <= 1
                    /\ dispatched'[i][k] = 1 /\ outcome'[i][k] = "none" =>
                         \E q \in DOMAIN rplan' :
                           rplan'[q].phase = "call" /\ rplan'[q].inc = i /\ rplan'[q].at = k
    BY DEF KeysOK
<1>1. CASE i \in DOMAIN incident
    BY <1>1 DEF ResponseInv, KeysOK
<1>2. CASE i \notin DOMAIN incident
    BY <1>2
<1> QED BY <1>1, <1>2

LEMMA ResponseInitial == ResponseInit => ResponseInv
<1> SUFFICES ASSUME ResponseInit PROVE ResponseInv
    OBVIOUS
<1>1. /\ incident = <<>> /\ rplan = <<>> /\ outcome = <<>> /\ dispatched = <<>>
      /\ config = StartConfig /\ assetLock = [h \in Hosts |-> 0]
    BY DEF ResponseInit
<1>2. /\ <<>> \in Seq(IncidentRecord) /\ <<>> \in Seq(PlanRecord)
      /\ <<>> \in Seq(Seq({"none", "SUCCESS", "FAILED"})) /\ <<>> \in Seq(Seq(Nat))
      /\ Len(<<>>) = 0 /\ DOMAIN <<>> = {}
    OBVIOUS
<1>3. ResponseTypeOK
    BY <1>1, <1>2, ResponseAssumption DEF ResponseTypeOK
<1>4. LocksInRange
  <2>1. Len(rplan) = 0
      BY <1>1
  <2>2. ASSUME NEW h \in Hosts PROVE assetLock[h] <= Len(rplan)
    <3>1. assetLock[h] = 0
        BY <1>1
    <3> QED BY <2>1, <3>1
  <2> QED BY <2>2 DEF LocksInRange
<1>5. OneRequest /\ LocksAreHeld /\ KeysOK
    BY <1>1, <1>2 DEF OneRequest, LocksAreHeld, KeysOK
<1> QED BY <1>1, <1>2, <1>3, <1>4, <1>5 DEF ResponseInv

\* An incident appended with its keys, all unused.
LEMMA IncidentAppended ==
  ASSUME ResponseInv, NEW base \in Seq(IncidentRecord), Len(base) = Len(incident),
         \A i \in DOMAIN incident : base[i].assets = incident[i].assets,
         NEW x \in IncidentRecord,
         incident' = Append(base, x),
         outcome' = Append(outcome, [k \in 1..StepsOf(x.assets) |-> "none"]),
         dispatched' = Append(dispatched, [k \in 1..StepsOf(x.assets) |-> 0])
  PROVE  /\ incident' \in Seq(IncidentRecord) /\ Len(incident') = Len(incident) + 1
         /\ outcome' \in Seq(Seq({"none", "SUCCESS", "FAILED"}))
         /\ dispatched' \in Seq(Seq(Nat))
         /\ Len(outcome') = Len(incident') /\ Len(dispatched') = Len(incident')
         /\ DOMAIN incident' = DOMAIN incident \cup {Len(incident) + 1}
         /\ \A i \in DOMAIN incident :
              /\ incident'[i] = base[i] /\ incident'[i].assets = incident[i].assets
              /\ outcome'[i] = outcome[i] /\ dispatched'[i] = dispatched[i]
         /\ incident'[Len(incident) + 1] = x
         /\ \A k \in 1..StepsOf(x.assets) : dispatched'[Len(incident) + 1][k] = 0
         /\ \A i \in DOMAIN incident' :
              /\ Len(outcome'[i]) = StepsOf(incident'[i].assets)
              /\ Len(dispatched'[i]) = StepsOf(incident'[i].assets)
<1> DEFINE o == [k \in 1..StepsOf(x.assets) |-> "none"]
           d == [k \in 1..StepsOf(x.assets) |-> 0]
           n == StepsOf(x.assets)
<1>1. /\ incident \in Seq(IncidentRecord)
      /\ outcome \in Seq(Seq({"none", "SUCCESS", "FAILED"})) /\ dispatched \in Seq(Seq(Nat))
      /\ Len(outcome) = Len(incident) /\ Len(dispatched) = Len(incident)
      /\ \A i \in DOMAIN incident :
           /\ Len(outcome[i]) = StepsOf(incident[i].assets)
           /\ Len(dispatched[i]) = StepsOf(incident[i].assets)
    BY DEF ResponseInv, ResponseTypeOK
<1>2. DOMAIN base = DOMAIN incident /\ DOMAIN outcome = DOMAIN incident
      /\ DOMAIN dispatched = DOMAIN incident
    BY <1>1
<1>3. n \in Nat
    BY AssetListFacts DEF IncidentRecord
<1>4. /\ o \in Seq({"none", "SUCCESS", "FAILED"}) /\ Len(o) = n
      /\ d \in Seq(Nat) /\ Len(d) = n /\ \A k \in 1..n : d[k] = 0
  <2> HIDE DEF n
  <2>1. /\ [k \in 1..n |-> "none"] \in Seq({"none", "SUCCESS", "FAILED"})
        /\ Len([k \in 1..n |-> "none"]) = n
      BY <1>3
  <2>2. /\ [k \in 1..n |-> 0] \in Seq(Nat)
        /\ Len([k \in 1..n |-> 0]) = n
      BY <1>3
  <2> QED BY <2>1, <2>2 DEF n
<1> HIDE DEF o, d, n
<1>5. /\ incident' = Append(base, x) /\ outcome' = Append(outcome, o)
      /\ dispatched' = Append(dispatched, d)
    BY DEF o, d
<1>6. /\ incident' \in Seq(IncidentRecord) /\ Len(incident') = Len(incident) + 1
      /\ DOMAIN incident' = DOMAIN incident \cup {Len(incident) + 1}
      /\ \A i \in DOMAIN incident : incident'[i] = base[i]
      /\ incident'[Len(incident) + 1] = x
    BY <1>2, <1>5, SeqAppended
<1>7. /\ outcome' \in Seq(Seq({"none", "SUCCESS", "FAILED"})) /\ Len(outcome') = Len(incident) + 1
      /\ \A i \in DOMAIN incident : outcome'[i] = outcome[i]
      /\ outcome'[Len(incident) + 1] = o
    BY <1>1, <1>2, <1>4, <1>5, SeqAppended
<1>8. /\ dispatched' \in Seq(Seq(Nat)) /\ Len(dispatched') = Len(incident) + 1
      /\ \A i \in DOMAIN incident : dispatched'[i] = dispatched[i]
      /\ dispatched'[Len(incident) + 1] = d
    BY <1>1, <1>2, <1>4, <1>5, SeqAppended
<1>9. \A i \in DOMAIN incident' :
        /\ Len(outcome'[i]) = StepsOf(incident'[i].assets)
        /\ Len(dispatched'[i]) = StepsOf(incident'[i].assets)
    BY <1>1, <1>4, <1>6, <1>7, <1>8 DEF n
<1> QED BY <1>4, <1>6, <1>7, <1>8, <1>9 DEF n

\* Steps that leave the plans and the locks alone.
LEMMA IncidentStepKeeps ==
  ASSUME ResponseInv, ResponseTypeOK', UNCHANGED <<rplan, config, assetLock>>,
         \A i \in DOMAIN incident :
           i \in DOMAIN incident' /\ incident'[i].assets = incident[i].assets
           /\ dispatched'[i] = dispatched[i] /\ outcome'[i] = outcome[i],
         \A i \in DOMAIN incident' \ DOMAIN incident :
           \A k \in 1..StepsOf(incident'[i].assets) : dispatched'[i][k] = 0,
         \A q \in DOMAIN rplan : rplan[q].phase # "idle" =>
           incident'[rplan[q].inc].status = incident[rplan[q].inc].status
  PROVE  ResponseInv'
<1>1. KeysOK'
    BY KeysStay
<1>2. \A q \in DOMAIN rplan : Executing(q)' = Executing(q) /\ AssetSet(q)' = AssetSet(q)
    BY PlanFields, SamePlan DEF Executing
<1>3. LocksAreHeld' /\ LocksInRange'
    BY <1>2, LocksStay DEF ResponseTypeOK
<1>4. Len(rplan) + 1 \notin DOMAIN rplan
    BY DEF ResponseInv, ResponseTypeOK
<1> QED BY <1>1, <1>3, <1>4, StepKeeps

LEMMA CreateStep ==
  ASSUME ResponseInv, NEW assets \in AssetLists, NEW e \in BOOLEAN, CreateIncident(assets, e)
  PROVE  ResponseInv'
<1> DEFINE x == [assets |-> assets, status |-> "TRIAGED", evidence |-> e,
                 verified |-> FALSE, watch |-> "none"]
<1>1. x \in IncidentRecord /\ x.assets = assets
    BY DEF IncidentRecord, IncidentStatus
<1>2. /\ incident' = Append(incident, x)
      /\ outcome' = Append(outcome, [k \in 1..StepsOf(assets) |-> "none"])
      /\ dispatched' = Append(dispatched, [k \in 1..StepsOf(assets) |-> 0])
      /\ UNCHANGED <<rplan, config, assetLock>>
    BY DEF CreateIncident, NewIncident
<1> HIDE DEF x
<1>3. incident \in Seq(IncidentRecord)
    BY DEF ResponseInv, ResponseTypeOK
<1>4. /\ incident' \in Seq(IncidentRecord)
      /\ outcome' \in Seq(Seq({"none", "SUCCESS", "FAILED"}))
      /\ dispatched' \in Seq(Seq(Nat))
      /\ Len(outcome') = Len(incident') /\ Len(dispatched') = Len(incident')
      /\ DOMAIN incident' = DOMAIN incident \cup {Len(incident) + 1}
      /\ \A i \in DOMAIN incident :
           /\ incident'[i] = incident[i]
           /\ outcome'[i] = outcome[i] /\ dispatched'[i] = dispatched[i]
      /\ incident'[Len(incident) + 1] = x
      /\ \A k \in 1..StepsOf(x.assets) : dispatched'[Len(incident) + 1][k] = 0
      /\ \A i \in DOMAIN incident' :
           /\ Len(outcome'[i]) = StepsOf(incident'[i].assets)
           /\ Len(dispatched'[i]) = StepsOf(incident'[i].assets)
    BY <1>1, <1>2, <1>3, IncidentAppended
<1>5. ResponseTypeOK'
    BY <1>2, <1>4 DEF ResponseInv, ResponseTypeOK
<1>6. \A q \in DOMAIN rplan : rplan[q].inc \in DOMAIN incident
    BY PlanFields
<1> QED BY <1>2, <1>4, <1>5, <1>6, IncidentStepKeeps

\* One incident rewritten in place.
LEMMA IncidentUpdated ==
  ASSUME ResponseInv, NEW i \in DOMAIN incident, NEW x \in IncidentRecord,
         x.assets = incident[i].assets
  PROVE  /\ [incident EXCEPT ![i] = x] \in Seq(IncidentRecord)
         /\ Len([incident EXCEPT ![i] = x]) = Len(incident)
         /\ DOMAIN [incident EXCEPT ![i] = x] = DOMAIN incident
         /\ [incident EXCEPT ![i] = x][i] = x
         /\ \A j \in DOMAIN incident :
              /\ [incident EXCEPT ![i] = x][j].assets = incident[j].assets
              /\ j # i => [incident EXCEPT ![i] = x][j] = incident[j]
<1>1. incident \in Seq(IncidentRecord)
    BY DEF ResponseInv, ResponseTypeOK
<1> QED BY <1>1, SeqUpdated

LEMMA TransitionStep ==
  ASSUME ResponseInv, NEW i \in DOMAIN incident, NEW t \in IncidentStatus, Transition(i, t)
  PROVE  ResponseInv'
<1> DEFINE x == [incident[i] EXCEPT !.status = t]
<1>1. incident[i] \in IncidentRecord
    BY DEF ResponseInv, ResponseTypeOK
<1>2. x \in IncidentRecord /\ x.assets = incident[i].assets
    BY <1>1 DEF IncidentRecord
<1>3. incident' = [incident EXCEPT ![i] = x]
      /\ UNCHANGED <<rplan, config, outcome, assetLock, dispatched>>
    BY DEF Transition
<1> HIDE DEF x
<1>4. /\ incident' \in Seq(IncidentRecord) /\ Len(incident') = Len(incident)
      /\ DOMAIN incident' = DOMAIN incident
      /\ \A j \in DOMAIN incident :
           /\ incident'[j].assets = incident[j].assets /\ (j # i => incident'[j] = incident[j])
    BY <1>2, <1>3, IncidentUpdated
<1>5. ResponseTypeOK'
    BY <1>3, <1>4 DEF ResponseInv, ResponseTypeOK
<1>6. \A q \in DOMAIN rplan : rplan[q].phase # "idle" =>
        rplan[q].inc \in DOMAIN incident /\ rplan[q].inc # i
    BY PlanFields DEF Transition, BeingExecuted
<1> QED BY <1>3, <1>4, <1>5, <1>6, IncidentStepKeeps

LEMMA ReopenStep ==
  ASSUME ResponseInv, NEW i \in DOMAIN incident, Reopen(i)
  PROVE  ResponseInv'
<1> DEFINE y == [incident[i] EXCEPT !.watch = "triggered"]
           x == [assets |-> incident[i].assets, status |-> "REOPENED", evidence |-> FALSE,
                 verified |-> FALSE, watch |-> "none"]
           base == [incident EXCEPT ![i] = y]
<1>1. incident[i] \in IncidentRecord
    BY DEF ResponseInv, ResponseTypeOK
<1>2. /\ y \in IncidentRecord /\ y.assets = incident[i].assets
      /\ y.status = incident[i].status
      /\ x \in IncidentRecord /\ x.assets = incident[i].assets
    BY <1>1 DEF IncidentRecord, IncidentStatus
<1>3. DOMAIN outcome[i] = 1..StepsOf(x.assets)
  <2>1. /\ outcome \in Seq(Seq({"none", "SUCCESS", "FAILED"})) /\ i \in DOMAIN outcome
        /\ Len(outcome[i]) = StepsOf(x.assets)
      BY <1>2 DEF ResponseInv, ResponseTypeOK
  <2>2. outcome[i] \in Seq({"none", "SUCCESS", "FAILED"})
      BY <2>1
  <2> QED BY <2>1, <2>2
<1>4. /\ incident' = Append(base, x)
      /\ outcome' = Append(outcome, [k \in 1..StepsOf(x.assets) |-> "none"])
      /\ dispatched' = Append(dispatched, [k \in 1..StepsOf(x.assets) |-> 0])
      /\ UNCHANGED <<rplan, config, assetLock>>
    BY <1>3 DEF Reopen
<1> HIDE DEF x, y
<1>5. /\ base \in Seq(IncidentRecord) /\ Len(base) = Len(incident) /\ base[i] = y
      /\ \A j \in DOMAIN incident :
           base[j].assets = incident[j].assets /\ base[j].status = incident[j].status
  <2>1. \A j \in DOMAIN incident : j # i => base[j] = incident[j]
      BY <1>2, IncidentUpdated
  <2> QED BY <1>2, <2>1, IncidentUpdated
<1> HIDE DEF base
<1>6. /\ incident' \in Seq(IncidentRecord)
      /\ outcome' \in Seq(Seq({"none", "SUCCESS", "FAILED"}))
      /\ dispatched' \in Seq(Seq(Nat))
      /\ Len(outcome') = Len(incident') /\ Len(dispatched') = Len(incident')
      /\ DOMAIN incident' = DOMAIN incident \cup {Len(incident) + 1}
      /\ \A j \in DOMAIN incident :
           /\ incident'[j] = base[j]
           /\ outcome'[j] = outcome[j] /\ dispatched'[j] = dispatched[j]
      /\ incident'[Len(incident) + 1] = x
      /\ \A k \in 1..StepsOf(x.assets) : dispatched'[Len(incident) + 1][k] = 0
      /\ \A j \in DOMAIN incident' :
           /\ Len(outcome'[j]) = StepsOf(incident'[j].assets)
           /\ Len(dispatched'[j]) = StepsOf(incident'[j].assets)
    BY <1>2, <1>4, <1>5, IncidentAppended
<1>7. ResponseTypeOK'
    BY <1>4, <1>6 DEF ResponseInv, ResponseTypeOK
<1>8. \A q \in DOMAIN rplan : rplan[q].inc \in DOMAIN incident
    BY PlanFields
<1> QED BY <1>4, <1>5, <1>6, <1>7, <1>8, IncidentStepKeeps

\* A fresh plan of an incident.
LEMMA FreshPlanOK ==
  ASSUME NEW i \in Nat, NEW assets \in AssetLists
  PROVE  /\ FreshPlan(i, assets) \in PlanRecord
         /\ FreshPlan(i, assets).inc = i /\ FreshPlan(i, assets).phase = "idle"
         /\ Len(FreshPlan(i, assets).step) = StepsOf(assets)
         /\ Len(FreshPlan(i, assets).before) = StepsOf(assets)
<1> DEFINE n == StepsOf(assets)
<1>1. n \in Nat
    BY AssetListFacts
<1> HIDE DEF n
<1>2. /\ [k \in 1..n |-> "PENDING"] \in Seq(StepResult)
      /\ Len([k \in 1..n |-> "PENDING"]) = n
    BY <1>1 DEF StepResult
<1>3. /\ [k \in 1..n |-> "none"] \in Seq(Config \cup {"none"})
      /\ Len([k \in 1..n |-> "none"]) = n
    BY <1>1
<1>4. StartConfig \in [Hosts -> Config]
    BY ResponseAssumption
<1> DEFINE st == [k \in 1..n |-> "PENDING"]
           be == [k \in 1..n |-> "none"]
           f == [inc |-> i, status |-> "DRAFT", phase |-> "idle", by |-> "endpoint", at |-> 1,
                 done |-> {}, step |-> st, before |-> be, reused |-> FALSE, was |-> StartConfig]
<1>5. FreshPlan(i, assets) = f
    BY DEF FreshPlan, n
<1> HIDE DEF st, be
<1>6. f \in PlanRecord /\ f.inc = i /\ f.phase = "idle" /\ f.step = st /\ f.before = be
    BY <1>2, <1>3, <1>4 DEF PlanRecord, st, be
<1> HIDE DEF f
<1>7. Len(f.step) = n /\ Len(f.before) = n
    BY <1>2, <1>3, <1>6 DEF st, be
<1> QED BY <1>5, <1>6, <1>7 DEF n

\* The execution of a plan begins with nothing done.
LEMMA BegunOK ==
  ASSUME NEW r \in PlanRecord, NEW by \in {"endpoint", "qualify"}, config \in [Hosts -> Config]
  PROVE  LET b == Begun(r, by)
         IN  /\ b \in PlanRecord /\ b.inc = r.inc /\ b.phase = "run" /\ b.at = 1 /\ b.done = {}
             /\ b.step = r.step /\ b.before = r.before /\ ~b.reused /\ b.was = config
BY DEF Begun, PlanRecord

LEMMA BegunUndo ==
  ASSUME NEW p, rplan'[p].phase = "run", rplan'[p].at = 1, rplan'[p].done = {},
         rplan'[p].was = config'
  PROVE  UndoOK(p)'
<1>1. 1..(rplan'[p].at - 1) = {} /\ 3..(rplan'[p].at - 1) = {}
    OBVIOUS
<1> QED BY <1>1 DEF UndoOK

LEMMA GenerateStep ==
  ASSUME ResponseInv, NEW i \in DOMAIN incident, GenerateResponsePlan(i)
  PROVE  ResponseInv'
<1> SUFFICES ASSUME NEW p, p = Len(rplan) + 1 PROVE ResponseInv'
    OBVIOUS
<1> DEFINE r == FreshPlan(i, incident[i].assets)
<1>1. incident[i] \in IncidentRecord /\ i \in Nat
    BY DEF ResponseInv, ResponseTypeOK
<1>2. incident[i].assets \in AssetLists
    BY <1>1 DEF IncidentRecord
<1>3. /\ rplan' = Append(rplan, r)
      /\ UNCHANGED <<incident, config, outcome, assetLock, dispatched>>
    BY DEF GenerateResponsePlan
<1>4. /\ r \in PlanRecord /\ r.inc = i /\ r.phase = "idle"
      /\ Len(r.step) = StepsOf(incident[i].assets)
      /\ Len(r.before) = StepsOf(incident[i].assets)
    BY <1>1, <1>2, FreshPlanOK
<1> HIDE DEF r
<1>5. /\ rplan \in Seq(PlanRecord) /\ rplan' \in Seq(PlanRecord) /\ Len(rplan) \in Nat
      /\ DOMAIN rplan = 1..Len(rplan) /\ DOMAIN rplan' = DOMAIN rplan \cup {p}
      /\ \A q \in DOMAIN rplan : rplan'[q] = rplan[q]
      /\ rplan'[p] = r
  <2>1. rplan \in Seq(PlanRecord)
      BY DEF ResponseInv, ResponseTypeOK
  <2> QED BY <1>3, <1>4, <2>1, SeqAppended
<1>6. p \notin DOMAIN rplan
    BY <1>5
<1>7. \A q \in DOMAIN rplan : Executing(q)' = Executing(q) /\ AssetSet(q)' = AssetSet(q)
    BY <1>3, <1>5, SamePlan DEF Executing
<1>8. ~Executing(p)'
    BY <1>4, <1>5 DEF Executing
<1>9. LocksAreHeld' /\ LocksInRange'
    BY <1>3, <1>5, <1>7, <1>8, LocksStay
<1>10. KeysOK'
    BY <1>3, <1>5, KeysStay
<1>11. PlanShape(p)' /\ UndoOK(p)'
    BY <1>3, <1>4, <1>5, <1>8 DEF PlanShape, UndoOK, NumActions, PlanAssets
<1>12. ResponseTypeOK'
    BY <1>3, <1>5 DEF ResponseInv, ResponseTypeOK
<1> QED BY <1>3, <1>4, <1>5, <1>6, <1>9, <1>10, <1>11, <1>12, StepKeeps

LEMMA QualifyStep ==
  ASSUME ResponseInv, NEW assets \in AssetLists, QualifyAndRespond(assets)
  PROVE  ResponseInv'
<1> SUFFICES ASSUME NEW i, i = Len(incident) + 1, NEW p, p = Len(rplan) + 1
             PROVE  ResponseInv'
    OBVIOUS
<1> DEFINE x == [assets |-> assets, status |-> "REMEDIATION", evidence |-> TRUE,
                 verified |-> FALSE, watch |-> "none"]
           fresh == FreshPlan(i, assets)
           starts == ~Conflicts(p, assets)
           r == IF starts THEN Begun(fresh, "qualify") ELSE [fresh EXCEPT !.status = "EXECUTING"]
<1>1. /\ incident \in Seq(IncidentRecord) /\ rplan \in Seq(PlanRecord)
      /\ config \in [Hosts -> Config] /\ assetLock \in [Hosts -> Nat]
    BY DEF ResponseInv, ResponseTypeOK
<1>2. i \in Nat /\ i \notin DOMAIN incident /\ p \in Nat \ {0} /\ p \notin DOMAIN rplan
    BY <1>1
<1>3. x \in IncidentRecord /\ x.assets = assets /\ x.status = "REMEDIATION"
    BY DEF IncidentRecord, IncidentStatus
<1>4. /\ incident' = Append(incident, x)
      /\ outcome' = Append(outcome, [k \in 1..StepsOf(assets) |-> "none"])
      /\ dispatched' = Append(dispatched, [k \in 1..StepsOf(assets) |-> 0])
      /\ rplan' = Append(rplan, r)
      /\ assetLock' = IF starts THEN LockAll(p, assets) ELSE assetLock
      /\ UNCHANGED config
    BY DEF QualifyAndRespond, NewIncident
<1>5. /\ fresh \in PlanRecord /\ fresh.inc = i /\ fresh.phase = "idle"
      /\ Len(fresh.step) = StepsOf(assets) /\ Len(fresh.before) = StepsOf(assets)
    BY <1>2, FreshPlanOK
<1>6. /\ r \in PlanRecord /\ r.inc = i
      /\ Len(r.step) = StepsOf(assets) /\ Len(r.before) = StepsOf(assets)
      /\ starts => r.phase = "run" /\ r.at = 1 /\ r.done = {} /\ r.was = config
      /\ ~starts => r.phase = "idle"
  <2> HIDE DEF fresh, starts
  <2>1. CASE starts
      BY <1>1, <1>5, <2>1, BegunOK
  <2>2. CASE ~starts
      BY <1>5, <2>2 DEF PlanRecord
  <2> QED BY <2>1, <2>2
<1>7. r.phase = IF starts THEN "run" ELSE "idle"
    BY <1>6
<1> HIDE DEF r, x, fresh
<1>8. /\ rplan' \in Seq(PlanRecord) /\ DOMAIN rplan' = DOMAIN rplan \cup {p}
      /\ Len(rplan') >= Len(rplan)
      /\ \A q \in DOMAIN rplan : rplan'[q] = rplan[q]
      /\ rplan'[p] = r
    BY <1>1, <1>4, <1>6, SeqAppended
<1>9. /\ incident' \in Seq(IncidentRecord)
      /\ outcome' \in Seq(Seq({"none", "SUCCESS", "FAILED"}))
      /\ dispatched' \in Seq(Seq(Nat))
      /\ Len(outcome') = Len(incident') /\ Len(dispatched') = Len(incident')
      /\ DOMAIN incident' = DOMAIN incident \cup {i}
      /\ \A j \in DOMAIN incident :
           /\ incident'[j] = incident[j]
           /\ outcome'[j] = outcome[j] /\ dispatched'[j] = dispatched[j]
      /\ incident'[i] = x
      /\ \A k \in 1..StepsOf(x.assets) : dispatched'[i][k] = 0
      /\ \A j \in DOMAIN incident' :
           /\ Len(outcome'[j]) = StepsOf(incident'[j].assets)
           /\ Len(dispatched'[j]) = StepsOf(incident'[j].assets)
    BY <1>1, <1>3, <1>4, IncidentAppended
<1>10. \A q \in DOMAIN rplan :
         rplan[q].inc \in DOMAIN incident /\ Executing(q)' = Executing(q)
         /\ AssetSet(q)' = AssetSet(q)
    BY <1>8, <1>9, PlanFields, SamePlan DEF Executing
<1>11. PlanAssets(p)' = assets /\ Executing(p)' = starts
    BY <1>3, <1>6, <1>7, <1>8, <1>9 DEF PlanAssets, Executing
<1>12. LocksAreHeld' /\ LocksInRange' /\ assetLock' \in [Hosts -> Nat]
  <2>1. CASE starts
    <3>1. ASSUME NEW h \in Hosts PROVE assetLock[h] # p
      <4>1. assetLock[h] \in Nat /\ assetLock[h] <= Len(rplan) /\ Len(rplan) \in Nat
          BY <1>1 DEF ResponseInv, LocksInRange
      <4> QED BY <4>1
    <3>2. assetLock' = LockAll(p, assets) /\ Executing(p)' /\ ~Conflicts(p, assets)
        BY <1>4, <1>11, <2>1
    <3> QED BY <1>2, <1>8, <1>10, <1>11, <3>1, <3>2, LocksTaken
  <2>2. CASE ~starts
    <3>1. UNCHANGED assetLock /\ ~Executing(p)'
        BY <1>4, <1>11, <2>2
    <3> QED BY <1>1, <1>8, <1>10, <3>1, LocksStay
  <2> QED BY <2>1, <2>2
<1>13. KeysOK'
  <2>1. \A j \in DOMAIN incident' \ DOMAIN incident :
          \A k \in 1..StepsOf(incident'[j].assets) : dispatched'[j][k] = 0
      BY <1>9
  <2> QED BY <1>8, <1>9, <2>1, KeysStay
<1>14. PlanShape(p)'
  <2>1. NumActions(p)' = StepsOf(assets)
      BY <1>11 DEF NumActions
  <2>2. StepsOf(assets) \in Nat
      BY AssetListFacts
  <2>3. rplan'[p].inc \in DOMAIN incident' /\ rplan'[p].phase \in {"run", "idle"}
        /\ Len(rplan'[p].step) = StepsOf(assets) /\ Len(rplan'[p].before) = StepsOf(assets)
      BY <1>6, <1>7, <1>8, <1>9
  <2>4. Executing(p)' => rplan'[p].at = 1
      BY <1>6, <1>8, <1>11
  <2> QED BY <2>1, <2>2, <2>3, <2>4 DEF PlanShape
<1>15. UndoOK(p)'
  <2>1. CASE starts
    <3>1. rplan'[p].phase = "run" /\ rplan'[p].at = 1 /\ rplan'[p].done = {}
          /\ rplan'[p].was = config'
        BY <1>4, <1>6, <1>8, <2>1
    <3> QED BY <3>1, BegunUndo
  <2>2. CASE ~starts
      BY <1>11, <2>2 DEF UndoOK
  <2> QED BY <2>1, <2>2
<1>16. ResponseTypeOK'
    BY <1>1, <1>4, <1>8, <1>9, <1>12 DEF ResponseTypeOK
<1>17. \A q \in DOMAIN rplan : rplan[q].inc # i
    BY <1>2, <1>10
<1>18. rplan'[p].phase # "idle" =>
         /\ incident'[rplan'[p].inc].status = "REMEDIATION"
         /\ \A q \in DOMAIN rplan \ {p} :
              rplan[q].inc = rplan'[p].inc => rplan[q].phase = "idle"
    BY <1>3, <1>6, <1>8, <1>9, <1>17
<1>19. \A q \in DOMAIN rplan :
         incident'[rplan[q].inc].status = incident[rplan[q].inc].status
    BY <1>9, <1>10
<1>20. DOMAIN rplan \ {p} = DOMAIN rplan' \ {p}
    BY <1>2, <1>8
<1> QED BY <1>4, <1>8, <1>9, <1>12, <1>13, <1>14, <1>15, <1>16, <1>18, <1>19, <1>20,
       StepKeeps

\* One plan rewritten in place.
LEMMA PlanUpdated ==
  ASSUME ResponseInv, NEW p \in DOMAIN rplan, NEW r \in PlanRecord,
         rplan' = [rplan EXCEPT ![p] = r], r.inc = rplan[p].inc,
         \A i \in DOMAIN incident :
           i \in DOMAIN incident' /\ incident'[i].assets = incident[i].assets
  PROVE  /\ rplan' \in Seq(PlanRecord) /\ Len(rplan') = Len(rplan)
         /\ DOMAIN rplan' = DOMAIN rplan
         /\ rplan'[p] = r
         /\ \A q \in DOMAIN rplan \ {p} : rplan'[q] = rplan[q]
         /\ \A q \in DOMAIN rplan \ {p} :
              Executing(q)' = Executing(q) /\ AssetSet(q)' = AssetSet(q)
         /\ PlanAssets(p)' = PlanAssets(p) /\ AssetSet(p)' = AssetSet(p)
         /\ NumActions(p)' = NumActions(p)
         /\ \A k : /\ TargetAsset(p, k)' = TargetAsset(p, k)
                   /\ HasRollbackCommand(p, k)' = HasRollbackCommand(p, k)
<1>1. rplan \in Seq(PlanRecord)
    BY DEF ResponseInv, ResponseTypeOK
<1>2. /\ rplan' \in Seq(PlanRecord) /\ Len(rplan') = Len(rplan)
      /\ DOMAIN rplan' = DOMAIN rplan
      /\ rplan'[p] = r
      /\ \A q \in DOMAIN rplan \ {p} : rplan'[q] = rplan[q]
    BY <1>1, SeqUpdated
<1>3. \A q \in DOMAIN rplan : incident'[rplan'[q].inc].assets = incident[rplan[q].inc].assets
    BY <1>2, PlanFields
<1>4. \A q \in DOMAIN rplan \ {p} :
        Executing(q)' = Executing(q) /\ AssetSet(q)' = AssetSet(q)
    BY <1>2, <1>3, SamePlan DEF Executing
<1> QED BY <1>2, <1>3, <1>4, SamePlan

\* No other request works on the incident of a plan that is worked on, or
\* whose incident is in another state.
LEMMA Alone ==
  ASSUME ResponseInv, NEW p \in DOMAIN rplan,
         \/ rplan[p].phase # "idle"
         \/ incident[rplan[p].inc].status # "REMEDIATION"
  PROVE  \A q \in DOMAIN rplan \ {p} :
           rplan[q].inc = rplan[p].inc => rplan[q].phase = "idle"
BY DEF ResponseInv, OneRequest

\* What a step of one plan owes that leaves the incidents alone.
LEMMA PlanStepKeeps ==
  ASSUME ResponseInv, NEW p \in DOMAIN rplan, NEW r \in PlanRecord,
         rplan' = [rplan EXCEPT ![p] = r], r.inc = rplan[p].inc,
         Len(r.step) = NumActions(p), Len(r.before) = NumActions(p),
         rplan[p].phase # "idle",
         r.phase \in {"run", "call", "undo"} => r.at \in 1..(NumActions(p) + 1),
         r.phase \in {"call", "undo"} => r.at <= NumActions(p),
         UNCHANGED incident, ResponseTypeOK',
         LocksAreHeld', LocksInRange', KeysOK', UndoOK(p)',
         \A q \in DOMAIN rplan \ {p} : Executing(q) =>
           \A h \in AssetSet(q) : config'[h] = config[h]
  PROVE  ResponseInv'
<1>1. /\ DOMAIN rplan' = DOMAIN rplan /\ rplan'[p] = r
      /\ \A q \in DOMAIN rplan \ {p} : rplan'[q] = rplan[q]
      /\ NumActions(p)' = NumActions(p)
    BY PlanUpdated
<1>2. rplan[p].inc \in DOMAIN incident
    BY PlanFields
<1>3. PlanShape(p)'
    BY <1>1, <1>2 DEF PlanShape, Executing
<1>4. /\ incident[r.inc].status = "REMEDIATION"
      /\ \A q \in DOMAIN rplan \ {p} : rplan[q].inc = r.inc => rplan[q].phase = "idle"
    BY Alone DEF ResponseInv, OneRequest
<1> QED BY <1>1, <1>3, <1>4, StepKeeps

\* The record of a plan after one step.
Moved(r, st, be, d, a, ph) ==
  [r EXCEPT !.step = st, !.before = be, !.done = d, !.at = a, !.phase = ph]

Reused(r) == [r EXCEPT !.reused = TRUE]

LEMMA ReusedOK ==
  ASSUME NEW r \in PlanRecord, NEW n, n = Reused(r)
  PROVE  /\ n \in PlanRecord /\ n.inc = r.inc /\ n.step = r.step /\ n.before = r.before
         /\ n.at = r.at /\ n.phase = r.phase /\ n.reused
BY DEF Reused, PlanRecord

LEMMA PlanAtWork ==
  ASSUME ResponseInv, NEW p \in DOMAIN rplan, rplan[p].phase \in {"run", "call", "undo"}
  PROVE  /\ rplan[p] \in PlanRecord /\ rplan[p].at \in 1..(NumActions(p) + 1)
         /\ rplan[p].phase \in {"call", "undo"} => rplan[p].at <= NumActions(p)
         /\ rplan[p].step \in Seq(StepResult) /\ rplan[p].before \in Seq(Config \cup {"none"})
         /\ DOMAIN rplan[p].step = 1..NumActions(p)
         /\ DOMAIN rplan[p].before = 1..NumActions(p)
         /\ Len(rplan[p].step) = NumActions(p) /\ Len(rplan[p].before) = NumActions(p)
         /\ rplan[p].done \in SUBSET Nat /\ rplan[p].reused \in BOOLEAN
         /\ NumActions(p) \in Nat /\ Executing(p)
<1>1. PlanShape(p) /\ rplan[p] \in PlanRecord
    BY PlanFields DEF ResponseInv
<1>2. NumActions(p) \in Nat
    BY PlanFields, AssetListFacts
<1>3. Executing(p)
    BY DEF Executing
<1>4. rplan[p].step \in Seq(StepResult) /\ rplan[p].before \in Seq(Config \cup {"none"})
      /\ rplan[p].done \in SUBSET Nat /\ rplan[p].reused \in BOOLEAN
    BY <1>1 DEF PlanRecord
<1>5. Len(rplan[p].step) = NumActions(p) /\ Len(rplan[p].before) = NumActions(p)
      /\ rplan[p].at \in 1..(NumActions(p) + 1)
      /\ (rplan[p].phase \in {"call", "undo"} => rplan[p].at <= NumActions(p))
    BY <1>1, <1>3 DEF PlanShape
<1> QED BY <1>1, <1>2, <1>3, <1>4, <1>5

LEMMA SkipStep ==
  ASSUME ResponseInv, NEW p \in DOMAIN rplan, SkipAction(p)
  PROVE  ResponseInv'
<1> SUFFICES ASSUME NEW k, k = rplan[p].at PROVE ResponseInv'
    OBVIOUS
<1> DEFINE v == outcome[rplan[p].inc][k]
           st == [rplan[p].step EXCEPT ![k] = v]
           d == rplan[p].done \cup {k}
           m == Moved(rplan[p], st, rplan[p].before, d, k + 1, "run")
           r == Reused(m)
<1>1. rplan[p].phase = "run" /\ k <= NumActions(p)
    BY DEF SkipAction, At
<1>2. k \in 1..NumActions(p)
    BY <1>1, PlanAtWork
<1>3. v \in StepResult
  <2>1. /\ outcome \in Seq(Seq({"none", "SUCCESS", "FAILED"})) /\ rplan[p].inc \in DOMAIN outcome
        /\ Len(outcome[rplan[p].inc]) = NumActions(p)
    <3>1. rplan[p].inc \in DOMAIN incident
        BY PlanFields
    <3> QED BY <3>1 DEF ResponseInv, ResponseTypeOK, NumActions, PlanAssets
  <2>2. outcome[rplan[p].inc] \in Seq({"none", "SUCCESS", "FAILED"})
      BY <2>1
  <2>3. k \in DOMAIN outcome[rplan[p].inc]
      BY <1>2, <2>1, <2>2
  <2>4. v \in {"none", "SUCCESS", "FAILED"}
      BY <2>2, <2>3
  <2> QED BY <2>4 DEF StepResult
<1>4. rplan' = [rplan EXCEPT ![p] = r]
  <2>1. rplan[p] \in PlanRecord
      BY PlanFields
  <2> QED BY <1>1, <2>1 DEF SkipAction, Moved, Reused, PlanRecord
<1>5. UNCHANGED <<incident, config, outcome, assetLock, dispatched>>
    BY DEF SkipAction
<1>6. st \in Seq(StepResult) /\ Len(st) = NumActions(p) /\ d \in SUBSET Nat
    BY <1>1, <1>2, <1>3, PlanAtWork, SeqUpdated
<1> HIDE DEF v, st, d
<1>7. /\ r \in PlanRecord /\ r.inc = rplan[p].inc /\ r.phase = "run" /\ r.at = k + 1
      /\ r.reused /\ Len(r.step) = NumActions(p) /\ Len(r.before) = NumActions(p)
  <2>1. k + 1 \in Nat
      BY <1>2
  <2>2. /\ rplan[p] \in PlanRecord /\ rplan[p].before \in Seq(Config \cup {"none"})
        /\ Len(rplan[p].before) = NumActions(p)
      BY <1>1, PlanAtWork
  <2>3. /\ m \in PlanRecord /\ m.inc = rplan[p].inc /\ m.phase = "run" /\ m.at = k + 1
        /\ m.step = st /\ m.before = rplan[p].before
      BY <1>6, <2>1, <2>2 DEF Moved, PlanRecord
  <2> HIDE DEF m
  <2>4. /\ r \in PlanRecord /\ r.inc = m.inc /\ r.phase = "run" /\ r.at = m.at
        /\ r.reused /\ r.step = st /\ r.before = m.before
      BY <2>3, ReusedOK
  <2> QED BY <1>6, <2>2, <2>3, <2>4
<1> HIDE DEF r
<1>8. /\ rplan' \in Seq(PlanRecord) /\ DOMAIN rplan' = DOMAIN rplan /\ rplan'[p] = r
      /\ \A q \in DOMAIN rplan \ {p} : rplan'[q] = rplan[q]
      /\ AssetSet(p)' = AssetSet(p)
      /\ \A q \in DOMAIN rplan \ {p} :
           Executing(q)' = Executing(q) /\ AssetSet(q)' = AssetSet(q)
    BY <1>4, <1>5, <1>7, PlanUpdated
<1>9. Executing(p)' = Executing(p)
    BY <1>1, <1>7, <1>8 DEF Executing
<1>10. LocksAreHeld' /\ LocksInRange'
    BY <1>5, <1>8, <1>9, LocksStay
<1>11. KeysOK'
    BY <1>1, <1>5, <1>8, KeysStay
<1>12. UndoOK(p)'
    BY <1>7, <1>8 DEF UndoOK
<1>13. ResponseTypeOK'
    BY <1>5, <1>8 DEF ResponseInv, ResponseTypeOK
<1>14. r.at \in 1..(NumActions(p) + 1)
    BY <1>2, <1>7
<1> QED BY <1>1, <1>4, <1>5, <1>7, <1>10, <1>11, <1>12, <1>13, <1>14, PlanStepKeeps

LEMMA CallStep ==
  ASSUME ResponseInv, NEW p \in DOMAIN rplan, CallConnector(p)
  PROVE  ResponseInv'
<1> SUFFICES ASSUME NEW k, k = rplan[p].at, NEW i, i = rplan[p].inc PROVE ResponseInv'
    OBVIOUS
<1> DEFINE st == [rplan[p].step EXCEPT ![k] = "RUNNING"]
           r == Moved(rplan[p], st, rplan[p].before, rplan[p].done, k, "call")
<1>1. rplan[p].phase = "run" /\ k <= NumActions(p) /\ outcome[i][k] = "none"
    BY DEF CallConnector, At
<1>2. /\ k \in 1..NumActions(p) /\ NumActions(p) \in Nat
      /\ rplan[p] \in PlanRecord /\ Len(rplan[p].before) = NumActions(p)
    BY <1>1, PlanAtWork
<1>3. rplan' = [rplan EXCEPT ![p] = r]
    BY <1>1, <1>2 DEF CallConnector, Moved, PlanRecord
<1>4. UNCHANGED <<incident, config, outcome, assetLock>>
    BY DEF CallConnector
<1>5. dispatched' = [dispatched EXCEPT ![i] = [dispatched[i] EXCEPT ![k] = dispatched[i][k] + 1]]
    BY DEF CallConnector
<1>6. st \in Seq(StepResult) /\ Len(st) = NumActions(p)
      /\ \A n \in 1..NumActions(p) \ {k} : st[n] = rplan[p].step[n]
    BY <1>1, <1>2, PlanAtWork, SeqUpdated DEF StepResult
<1> HIDE DEF st
<1>7. /\ r \in PlanRecord /\ r.inc = i /\ r.phase = "call" /\ r.at = k
      /\ r.reused = rplan[p].reused /\ r.step = st /\ r.before = rplan[p].before
      /\ r.done = rplan[p].done /\ r.was = rplan[p].was
    BY <1>2, <1>6 DEF Moved, PlanRecord
<1> HIDE DEF r
<1>8. /\ rplan' \in Seq(PlanRecord) /\ DOMAIN rplan' = DOMAIN rplan /\ rplan'[p] = r
      /\ \A q \in DOMAIN rplan \ {p} : rplan'[q] = rplan[q]
      /\ AssetSet(p)' = AssetSet(p)
      /\ \A n : /\ TargetAsset(p, n)' = TargetAsset(p, n)
                /\ HasRollbackCommand(p, n)' = HasRollbackCommand(p, n)
      /\ \A q \in DOMAIN rplan \ {p} :
           Executing(q)' = Executing(q) /\ AssetSet(q)' = AssetSet(q)
    BY <1>3, <1>4, <1>7, PlanUpdated
<1>9. Executing(p)' = Executing(p) /\ Executing(p)
    BY <1>1, <1>7, <1>8 DEF Executing
<1>10. LocksAreHeld' /\ LocksInRange'
    BY <1>4, <1>8, <1>9, LocksStay
<1>11. i \in DOMAIN incident /\ NumActions(p) = StepsOf(incident[i].assets)
    BY PlanFields DEF NumActions, PlanAssets
<1>12. /\ dispatched \in Seq(Seq(Nat)) /\ DOMAIN dispatched = DOMAIN incident
       /\ incident \in Seq(IncidentRecord)
       /\ \A j \in DOMAIN incident :
            dispatched[j] \in Seq(Nat) /\ Len(dispatched[j]) = StepsOf(incident[j].assets)
    BY DEF ResponseInv, ResponseTypeOK
<1>13. dispatched[i][k] = 0
  <2>1. dispatched[i][k] <= 1 /\ dispatched[i][k] \in Nat
    <3>1. k \in 1..StepsOf(incident[i].assets)
        BY <1>2, <1>11
    <3>2. dispatched[i][k] <= 1
        BY <1>11, <3>1 DEF ResponseInv, KeysOK
    <3>3. dispatched[i] \in Seq(Nat) /\ k \in DOMAIN dispatched[i]
        BY <1>11, <1>12, <3>1
    <3> QED BY <3>2, <3>3
  <2>2. ASSUME dispatched[i][k] = 1 PROVE FALSE
    <3>1. PICK q \in DOMAIN rplan :
            rplan[q].phase = "call" /\ rplan[q].inc = i /\ rplan[q].at = k
        BY <1>1, <1>2, <1>11, <2>2 DEF ResponseInv, KeysOK
    <3>2. q = p
        BY <1>1, <3>1 DEF ResponseInv, OneRequest
    <3> QED BY <1>1, <3>1, <3>2
  <2> QED BY <2>1, <2>2
<1>14. /\ dispatched' \in Seq(Seq(Nat)) /\ Len(dispatched') = Len(dispatched)
       /\ \A j \in DOMAIN incident : Len(dispatched'[j]) = StepsOf(incident[j].assets)
       /\ dispatched'[i][k] = 1
       /\ \A j \in DOMAIN incident : \A n \in 1..StepsOf(incident[j].assets) :
            j # i \/ n # k => dispatched'[j][n] = dispatched[j][n]
  <2> DEFINE d == [dispatched[i] EXCEPT ![k] = dispatched[i][k] + 1]
  <2>1. k \in DOMAIN dispatched[i] /\ dispatched[i] \in Seq(Nat)
      BY <1>2, <1>11, <1>12
  <2>2. dispatched[i][k] + 1 = 1 /\ dispatched[i][k] + 1 \in Nat
      BY <1>13
  <2>3. /\ d \in Seq(Nat) /\ Len(d) = StepsOf(incident[i].assets) /\ d[k] = 1
        /\ \A n \in 1..StepsOf(incident[i].assets) : n # k => d[n] = dispatched[i][n]
      BY <1>11, <1>12, <2>1, <2>2, SeqUpdated
  <2> HIDE DEF d
  <2>4. dispatched' = [dispatched EXCEPT ![i] = d]
      BY <1>5 DEF d
  <2>5. /\ dispatched' \in Seq(Seq(Nat)) /\ Len(dispatched') = Len(dispatched)
        /\ dispatched'[i] = d
        /\ \A j \in DOMAIN incident : j # i => dispatched'[j] = dispatched[j]
      BY <1>11, <1>12, <2>3, <2>4, SeqUpdated
  <2> QED BY <1>12, <2>3, <2>5
<1>15. KeysOK'
  <2> SUFFICES ASSUME NEW j \in DOMAIN incident, NEW n \in 1..StepsOf(incident[j].assets)
               PROVE  /\ dispatched'[j][n] <= 1
                      /\ dispatched'[j][n] = 1 /\ outcome[j][n] = "none" =>
                           \E q \in DOMAIN rplan' :
                             rplan'[q].phase = "call" /\ rplan'[q].inc = j /\ rplan'[q].at = n
      BY <1>4 DEF KeysOK
  <2>1. CASE j = i /\ n = k
    <3>1. dispatched'[j][n] = 1
        BY <1>14, <2>1
    <3>2. rplan'[p].phase = "call" /\ rplan'[p].inc = j /\ rplan'[p].at = n
        BY <1>7, <1>8, <2>1
    <3> QED BY <1>8, <3>1, <3>2
  <2>2. CASE ~(j = i /\ n = k)
    <3>1. dispatched'[j][n] = dispatched[j][n]
        BY <1>14, <2>2
    <3>2. \A q \in DOMAIN rplan : rplan[q].phase = "call" => rplan'[q] = rplan[q]
        BY <1>1, <1>8
    <3> QED BY <1>8, <3>1, <3>2 DEF ResponseInv, KeysOK
  <2> QED BY <2>1, <2>2
<1>16. UndoOK(p)'
  <2>1. UndoOK(p)
      BY DEF ResponseInv
  <2>2. \A n \in 1..(k - 1) : st[n] = rplan[p].step[n]
      BY <1>2, <1>6
  <2> QED BY <1>1, <1>4, <1>7, <1>8, <1>9, <2>1, <2>2 DEF UndoOK
<1>17. ResponseTypeOK'
    BY <1>4, <1>8, <1>14 DEF ResponseInv, ResponseTypeOK
<1>18. r.at \in 1..(NumActions(p) + 1) /\ r.at <= NumActions(p)
    BY <1>2, <1>7
<1>19. Len(r.step) = NumActions(p) /\ Len(r.before) = NumActions(p)
    BY <1>2, <1>6, <1>7
<1> QED BY <1>1, <1>3, <1>4, <1>7, <1>10, <1>15, <1>16, <1>17, <1>18, <1>19, PlanStepKeeps

\* The steps that a plan can undo have different targets; the verification
\* step has that of the canary.
LEMMA TargetsApart ==
  ASSUME ResponseInv, NEW p \in DOMAIN rplan
  PROVE  /\ \A j, k \in 3..(NumActions(p) - 2) :
              TargetAsset(p, j) = TargetAsset(p, k) => j = k
         /\ \A k \in Nat : k > NumActions(p) - 2 => TargetAsset(p, k) = TargetAsset(p, 3)
         /\ \A k \in Nat : HasRollbackCommand(p, k) <=> k \in 3..(NumActions(p) - 2)
         /\ \A k \in Nat : ChangesConfig(p, k) <=> k \in 3..(NumActions(p) - 1)
         /\ NumActions(p) \in Nat /\ NumActions(p) >= 5
<1> DEFINE s == PlanAssets(p)
<1>1. /\ NumActions(p) = Len(s) + 4 /\ Len(s) \in Nat \ {0}
      /\ \A m, n \in 1..Len(s) : s[m] = s[n] => m = n
    BY PlanFields, AssetListFacts
<1> HIDE DEF s
<1>2. \A k \in Nat : TargetAsset(p, k) = IF k \in 4..(Len(s) + 2) THEN s[k - 2] ELSE s[1]
    BY DEF TargetAsset, s
<1>3. ASSUME NEW j \in 3..(NumActions(p) - 2), NEW k \in 3..(NumActions(p) - 2),
             TargetAsset(p, j) = TargetAsset(p, k)
      PROVE  j = k
  <2>1. \A n \in 3..(NumActions(p) - 2) :
          \E m \in 1..Len(s) : TargetAsset(p, n) = s[m] /\ n = m + 2
    <3> SUFFICES ASSUME NEW n \in 3..(NumActions(p) - 2)
                 PROVE  TargetAsset(p, n) = s[n - 2] /\ n - 2 \in 1..Len(s) /\ n = (n - 2) + 2
        OBVIOUS
    <3>1. n \in Nat /\ n - 2 \in 1..Len(s) /\ n = (n - 2) + 2
        BY <1>1
    <3>2. CASE n = 3
        BY <1>1, <1>2, <3>1, <3>2
    <3>3. CASE n # 3
        BY <1>1, <1>2, <3>1, <3>3
    <3> QED BY <3>1, <3>2, <3>3
  <2>2. PICK m \in 1..Len(s) : TargetAsset(p, j) = s[m] /\ j = m + 2
      BY <2>1
  <2>3. PICK n \in 1..Len(s) : TargetAsset(p, k) = s[n] /\ k = n + 2
      BY <2>1
  <2>4. m = n
      BY <1>1, <1>3, <2>2, <2>3
  <2> QED BY <2>2, <2>3, <2>4
<1>4. ASSUME NEW k \in Nat, k > NumActions(p) - 2 PROVE TargetAsset(p, k) = TargetAsset(p, 3)
    BY <1>1, <1>2, <1>4
<1>5. \A k \in Nat : HasRollbackCommand(p, k) <=> k \in 3..(NumActions(p) - 2)
    BY <1>1 DEF HasRollbackCommand, s
<1>6. \A k \in Nat : ChangesConfig(p, k) <=> k \in 3..(NumActions(p) - 1)
    BY <1>1 DEF ChangesConfig, s
<1> QED BY <1>1, <1>3, <1>4, <1>5, <1>6

\* The keys after the call of p has ended with an outcome.
LEMMA KeysAnswered ==
  ASSUME ResponseInv, NEW p \in DOMAIN rplan, NEW i, i = rplan[p].inc, NEW k, k = rplan[p].at,
         rplan[p].phase = "call", NEW o \in {"SUCCESS", "FAILED"},
         outcome' = [outcome EXCEPT ![i] = [outcome[i] EXCEPT ![k] = o]],
         UNCHANGED <<incident, dispatched>>, DOMAIN rplan' = DOMAIN rplan,
         \A q \in DOMAIN rplan \ {p} : rplan'[q] = rplan[q]
  PROVE  /\ KeysOK' /\ outcome' \in Seq(Seq({"none", "SUCCESS", "FAILED"}))
         /\ Len(outcome') = Len(outcome)
         /\ \A j \in DOMAIN incident : Len(outcome'[j]) = StepsOf(incident[j].assets)
<1>1. k \in 1..NumActions(p) /\ NumActions(p) \in Nat
    BY PlanAtWork
<1>2. i \in DOMAIN incident /\ NumActions(p) = StepsOf(incident[i].assets)
    BY PlanFields DEF NumActions, PlanAssets
<1>3. /\ outcome \in Seq(Seq({"none", "SUCCESS", "FAILED"})) /\ DOMAIN outcome = DOMAIN incident
      /\ \A j \in DOMAIN incident :
           /\ outcome[j] \in Seq({"none", "SUCCESS", "FAILED"})
           /\ Len(outcome[j]) = StepsOf(incident[j].assets)
    BY DEF ResponseInv, ResponseTypeOK
<1> DEFINE d == [outcome[i] EXCEPT ![k] = o]
<1>4. /\ d \in Seq({"none", "SUCCESS", "FAILED"}) /\ Len(d) = StepsOf(incident[i].assets)
      /\ d[k] = o
      /\ \A n \in 1..StepsOf(incident[i].assets) : n # k => d[n] = outcome[i][n]
  <2>1. k \in DOMAIN outcome[i] /\ outcome[i] \in Seq({"none", "SUCCESS", "FAILED"})
        /\ DOMAIN outcome[i] = 1..StepsOf(incident[i].assets)
      BY <1>1, <1>2, <1>3
  <2> QED BY <1>2, <1>3, <2>1, SeqUpdated
<1> HIDE DEF d
<1>5. outcome' = [outcome EXCEPT ![i] = d]
    BY DEF d
<1>6. /\ outcome' \in Seq(Seq({"none", "SUCCESS", "FAILED"})) /\ Len(outcome') = Len(outcome)
      /\ outcome'[i] = d
      /\ \A j \in DOMAIN incident : j # i => outcome'[j] = outcome[j]
  <2>1. i \in DOMAIN outcome /\ d \in Seq({"none", "SUCCESS", "FAILED"})
      BY <1>2, <1>3, <1>4
  <2>2. /\ [outcome EXCEPT ![i] = d] \in Seq(Seq({"none", "SUCCESS", "FAILED"}))
        /\ Len([outcome EXCEPT ![i] = d]) = Len(outcome)
        /\ [outcome EXCEPT ![i] = d][i] = d
        /\ \A j \in DOMAIN outcome \ {i} : [outcome EXCEPT ![i] = d][j] = outcome[j]
      BY <1>3, <2>1, SeqUpdated
  <2> QED BY <1>3, <1>5, <2>2
<1>7. KeysOK'
  <2> SUFFICES ASSUME NEW j \in DOMAIN incident, NEW n \in 1..StepsOf(incident[j].assets)
               PROVE  /\ dispatched[j][n] <= 1
                      /\ dispatched[j][n] = 1 /\ outcome'[j][n] = "none" =>
                           \E q \in DOMAIN rplan' :
                             rplan'[q].phase = "call" /\ rplan'[q].inc = j /\ rplan'[q].at = n
      BY DEF KeysOK
  <2>1. CASE j = i /\ n = k
    <3>1. outcome'[j][n] = o
        BY <1>4, <1>6, <2>1
    <3>2. dispatched[j][n] <= 1
        BY DEF ResponseInv, KeysOK
    <3> QED BY <3>1, <3>2
  <2>2. CASE ~(j = i /\ n = k)
    <3>1. outcome'[j][n] = outcome[j][n]
        BY <1>4, <1>6, <2>2
    <3> QED BY <2>2, <3>1 DEF ResponseInv, KeysOK
  <2> QED BY <2>1, <2>2
<1> QED BY <1>3, <1>4, <1>6, <1>7

LEMMA FailStep ==
  ASSUME ResponseInv, NEW p \in DOMAIN rplan, ActionFails(p)
  PROVE  ResponseInv'
<1> SUFFICES ASSUME NEW k, k = rplan[p].at, NEW i, i = rplan[p].inc PROVE ResponseInv'
    OBVIOUS
<1> DEFINE st == [rplan[p].step EXCEPT ![k] = "FAILED"]
           d == rplan[p].done \cup {k}
           r == Moved(rplan[p], st, rplan[p].before, d, k, "undo")
<1>1. rplan[p].phase = "call"
    BY DEF ActionFails
<1>2. /\ k \in 1..NumActions(p) /\ NumActions(p) \in Nat
      /\ rplan[p] \in PlanRecord /\ Len(rplan[p].before) = NumActions(p)
    BY <1>1, PlanAtWork
<1>3. rplan' = [rplan EXCEPT ![p] = r]
    BY <1>1, <1>2 DEF ActionFails, Moved, PlanRecord
<1>4. /\ UNCHANGED <<incident, config, assetLock, dispatched>>
      /\ outcome' = [outcome EXCEPT ![i] = [outcome[i] EXCEPT ![k] = "FAILED"]]
    BY DEF ActionFails, RecordFailure
<1>5. st \in Seq(StepResult) /\ Len(st) = NumActions(p) /\ st[k] = "FAILED"
      /\ \A n \in 1..NumActions(p) \ {k} : st[n] = rplan[p].step[n]
    BY <1>1, <1>2, PlanAtWork, SeqUpdated DEF StepResult
<1>6. d \in SUBSET Nat
    BY <1>2 DEF PlanRecord
<1> HIDE DEF st, d
<1>7. /\ r \in PlanRecord /\ r.inc = i /\ r.phase = "undo" /\ r.at = k
      /\ r.reused = rplan[p].reused /\ r.step = st /\ r.before = rplan[p].before
      /\ r.done = d /\ r.was = rplan[p].was
    BY <1>2, <1>5, <1>6 DEF Moved, PlanRecord
<1> HIDE DEF r
<1>8. /\ rplan' \in Seq(PlanRecord) /\ DOMAIN rplan' = DOMAIN rplan /\ rplan'[p] = r
      /\ \A q \in DOMAIN rplan \ {p} : rplan'[q] = rplan[q]
      /\ AssetSet(p)' = AssetSet(p)
      /\ \A n : /\ TargetAsset(p, n)' = TargetAsset(p, n)
                /\ HasRollbackCommand(p, n)' = HasRollbackCommand(p, n)
      /\ \A q \in DOMAIN rplan \ {p} :
           Executing(q)' = Executing(q) /\ AssetSet(q)' = AssetSet(q)
    BY <1>3, <1>4, <1>7, PlanUpdated
<1>9. Executing(p)' = Executing(p) /\ Executing(p)
    BY <1>1, <1>7, <1>8 DEF Executing
<1>10. LocksAreHeld' /\ LocksInRange'
    BY <1>4, <1>8, <1>9, LocksStay
<1>11. /\ KeysOK' /\ outcome' \in Seq(Seq({"none", "SUCCESS", "FAILED"}))
       /\ Len(outcome') = Len(outcome)
       /\ \A j \in DOMAIN incident : Len(outcome'[j]) = StepsOf(incident[j].assets)
    BY <1>1, <1>4, <1>8, KeysAnswered
<1>12. UndoOK(p)'
  <2>1. SUFFICES ASSUME ~rplan[p].reused PROVE UndoOK(p)'
      BY <1>7, <1>8 DEF UndoOK
  <2>2. /\ rplan[p].done = 1..(k - 1)
        /\ \A n \in 1..(k - 1) :
             /\ rplan[p].step[n] = "SUCCESS"
             /\ HasRollbackCommand(p, n) => rplan[p].before[n] = rplan[p].was[TargetAsset(p, n)]
        /\ \A h \in AssetSet(p) :
             config[h] = IF \E n \in 3..(k - 1) : TargetAsset(p, n) = h
                         THEN "enforced" ELSE rplan[p].was[h]
      BY <1>1, <1>9, <2>1 DEF ResponseInv, UndoOK
  <2>3. d = 1..k
      BY <1>2, <2>2 DEF d
  <2>4. \A n \in 1..(k - 1) : st[n] = rplan[p].step[n]
      BY <1>2, <1>5
  <2>5. /\ rplan'[p].phase = "undo" /\ rplan'[p].at = k /\ rplan'[p].done = 1..k
        /\ rplan'[p].step = st /\ rplan'[p].before = rplan[p].before
        /\ rplan'[p].was = rplan[p].was
      BY <1>7, <1>8, <2>3
  <2>6. \A n \in 1..(k - 1) :
          /\ rplan'[p].step[n] = "SUCCESS"
          /\ HasRollbackCommand(p, n)' => rplan'[p].before[n] = rplan'[p].was[TargetAsset(p, n)']
      BY <1>8, <2>2, <2>4, <2>5
  <2>7. \A h \in AssetSet(p)' :
          config'[h] = IF \E n \in 3..(k - 1) : TargetAsset(p, n)' = h
                       THEN "enforced" ELSE rplan'[p].was[h]
      BY <1>4, <1>8, <2>2, <2>5
  <2> QED BY <1>5, <2>5, <2>6, <2>7 DEF UndoOK
<1>13. ResponseTypeOK'
    BY <1>4, <1>8, <1>11 DEF ResponseInv, ResponseTypeOK
<1>14. r.at \in 1..(NumActions(p) + 1) /\ r.at <= NumActions(p)
    BY <1>2, <1>7
<1>15. Len(r.step) = NumActions(p) /\ Len(r.before) = NumActions(p)
    BY <1>2, <1>5, <1>7
<1> QED BY <1>1, <1>3, <1>4, <1>7, <1>10, <1>11, <1>12, <1>13, <1>14, <1>15, PlanStepKeeps

LEMMA SucceedStep ==
  ASSUME ResponseInv, NEW p \in DOMAIN rplan, ActionSucceeds(p)
  PROVE  ResponseInv'
<1> SUFFICES ASSUME NEW k, k = rplan[p].at, NEW i, i = rplan[p].inc,
                    NEW t, t = TargetAsset(p, k)
             PROVE ResponseInv'
    OBVIOUS
<1> DEFINE st == [rplan[p].step EXCEPT ![k] = "SUCCESS"]
           be == [rplan[p].before EXCEPT ![k] = ConfigBefore(p, k)]
           d == rplan[p].done \cup {k}
           r == Moved(rplan[p], st, be, d, k + 1, "run")
<1>1. rplan[p].phase = "call"
    BY DEF ActionSucceeds
<1>2. /\ k \in 1..NumActions(p) /\ NumActions(p) \in Nat /\ k \in Nat
      /\ rplan[p] \in PlanRecord /\ Len(rplan[p].before) = NumActions(p)
      /\ config \in [Hosts -> Config] /\ t \in AssetSet(p) /\ AssetSet(p) \subseteq Hosts
  <2>1. /\ k \in 1..NumActions(p) /\ NumActions(p) \in Nat /\ k \in Nat
        /\ rplan[p] \in PlanRecord /\ Len(rplan[p].before) = NumActions(p)
      BY <1>1, PlanAtWork
  <2>2. config \in [Hosts -> Config]
      BY DEF ResponseInv, ResponseTypeOK
  <2> QED BY <2>1, <2>2, PlanFields
<1>3. rplan' = [rplan EXCEPT ![p] = r]
    BY <1>1, <1>2 DEF ActionSucceeds, Moved, PlanRecord
<1>4. /\ UNCHANGED <<incident, assetLock, dispatched>>
      /\ outcome' = [outcome EXCEPT ![i] = [outcome[i] EXCEPT ![k] = "SUCCESS"]]
      /\ config' = IF ChangesConfig(p, k) THEN [config EXCEPT ![t] = "enforced"] ELSE config
    BY DEF ActionSucceeds
<1>5. st \in Seq(StepResult) /\ Len(st) = NumActions(p) /\ st[k] = "SUCCESS"
      /\ \A n \in 1..NumActions(p) \ {k} : st[n] = rplan[p].step[n]
    BY <1>1, <1>2, PlanAtWork, SeqUpdated DEF StepResult
<1>6. be \in Seq(Config \cup {"none"}) /\ Len(be) = NumActions(p) /\ be[k] = ConfigBefore(p, k)
      /\ \A n \in 1..NumActions(p) \ {k} : be[n] = rplan[p].before[n]
  <2>1. ConfigBefore(p, k) \in Config \cup {"none"}
      BY <1>2 DEF ConfigBefore
  <2> QED BY <1>1, <1>2, <2>1, PlanAtWork, SeqUpdated
<1>7. d \in SUBSET Nat
    BY <1>2 DEF PlanRecord
<1> HIDE DEF st, be, d
<1>8. /\ r \in PlanRecord /\ r.inc = i /\ r.phase = "run" /\ r.at = k + 1
      /\ r.reused = rplan[p].reused /\ r.step = st /\ r.before = be
      /\ r.done = d /\ r.was = rplan[p].was
  <2> DEFINE a == k + 1
  <2>1. a \in Nat
      BY <1>2
  <2> HIDE DEF a
  <2>2. r = Moved(rplan[p], st, be, d, a, "run")
      BY DEF a
  <2> HIDE DEF r
  <2>3. /\ r \in PlanRecord /\ r.inc = i /\ r.phase = "run" /\ r.at = a
        /\ r.reused = rplan[p].reused /\ r.step = st /\ r.before = be
        /\ r.done = d /\ r.was = rplan[p].was
      BY <1>2, <1>5, <1>6, <1>7, <2>1, <2>2 DEF Moved, PlanRecord
  <2> QED BY <2>3 DEF a
<1> HIDE DEF r
<1>9. /\ rplan' \in Seq(PlanRecord) /\ DOMAIN rplan' = DOMAIN rplan /\ rplan'[p] = r
      /\ \A q \in DOMAIN rplan \ {p} : rplan'[q] = rplan[q]
      /\ AssetSet(p)' = AssetSet(p)
      /\ \A n : /\ TargetAsset(p, n)' = TargetAsset(p, n)
                /\ HasRollbackCommand(p, n)' = HasRollbackCommand(p, n)
      /\ \A q \in DOMAIN rplan \ {p} :
           Executing(q)' = Executing(q) /\ AssetSet(q)' = AssetSet(q)
    BY <1>3, <1>4, <1>8, PlanUpdated
<1>10. Executing(p)' = Executing(p) /\ Executing(p)
    BY <1>1, <1>8, <1>9 DEF Executing
<1>11. LocksAreHeld' /\ LocksInRange'
    BY <1>4, <1>9, <1>10, LocksStay
<1>12. /\ KeysOK' /\ outcome' \in Seq(Seq({"none", "SUCCESS", "FAILED"}))
       /\ Len(outcome') = Len(outcome)
       /\ \A j \in DOMAIN incident : Len(outcome'[j]) = StepsOf(incident[j].assets)
    BY <1>1, <1>4, <1>9, KeysAnswered
<1>13. /\ config' \in [Hosts -> Config]
       /\ \A h \in Hosts : h # t => config'[h] = config[h]
       /\ config'[t] = IF ChangesConfig(p, k) THEN "enforced" ELSE config[t]
    BY <1>2, <1>4 DEF Config
<1>14. UndoOK(p)'
  <2>1. SUFFICES ASSUME ~rplan[p].reused PROVE UndoOK(p)'
      BY <1>8, <1>9 DEF UndoOK
  <2>2. /\ rplan[p].done = 1..(k - 1)
        /\ \A n \in 1..(k - 1) :
             /\ rplan[p].step[n] = "SUCCESS"
             /\ HasRollbackCommand(p, n) => rplan[p].before[n] = rplan[p].was[TargetAsset(p, n)]
        /\ \A h \in AssetSet(p) :
             config[h] = IF \E n \in 3..(k - 1) : TargetAsset(p, n) = h
                         THEN "enforced" ELSE rplan[p].was[h]
      BY <1>1, <1>10, <2>1 DEF ResponseInv, UndoOK
  <2>3. d = 1..((k + 1) - 1) /\ (k + 1) - 1 = k
      BY <1>2, <2>2 DEF d
  <2>4. \A n \in 1..(k - 1) : st[n] = rplan[p].step[n] /\ be[n] = rplan[p].before[n]
      BY <1>2, <1>5, <1>6
  <2>5. /\ rplan'[p].phase = "run" /\ rplan'[p].at = k + 1 /\ rplan'[p].done = 1..((k + 1) - 1)
        /\ rplan'[p].step = st /\ rplan'[p].before = be
        /\ rplan'[p].was = rplan[p].was
      BY <1>8, <1>9, <2>3
  <2>6. HasRollbackCommand(p, k) => be[k] = rplan[p].was[t]
    <3>1. SUFFICES ASSUME k \in 3..(NumActions(p) - 2) PROVE be[k] = rplan[p].was[t]
        BY <1>2, TargetsApart
    <3>2. be[k] = config[t]
        BY <1>2, <1>6, <3>1, TargetsApart DEF ConfigBefore
    <3>3. ~\E n \in 3..(k - 1) : TargetAsset(p, n) = t
      <4>1. \A n \in 3..(k - 1) : n \in 3..(NumActions(p) - 2) /\ n # k
          BY <1>2, <3>1
      <4> QED BY <3>1, <4>1, TargetsApart
    <3> QED BY <1>2, <2>2, <3>2, <3>3
  <2>7. ASSUME NEW n \in 1..k
        PROVE  /\ rplan'[p].step[n] = "SUCCESS"
               /\ HasRollbackCommand(p, n)' =>
                    rplan'[p].before[n] = rplan'[p].was[TargetAsset(p, n)']
    <3>1. CASE n = k
        BY <1>5, <1>9, <2>5, <2>6, <3>1
    <3>2. CASE n # k
      <4>1. n \in 1..(k - 1)
          BY <1>2, <3>2
      <4> QED BY <1>9, <2>2, <2>4, <2>5, <4>1
    <3> QED BY <3>1, <3>2
  <2>8. ASSUME NEW h \in AssetSet(p)
        PROVE  config'[h] = IF \E n \in 3..k : TargetAsset(p, n) = h
                            THEN "enforced" ELSE rplan[p].was[h]
    <3>1. \A n \in 3..k : n = k \/ n \in 3..(k - 1)
        BY <1>2
    <3>2. \A n \in 3..(k - 1) : n \in 3..k
        BY <1>2
    <3>3. CASE h # t
      <4>1. config'[h] = config[h]
          BY <1>2, <1>13, <3>3
      <4>2. (\E n \in 3..k : TargetAsset(p, n) = h) <=> (\E n \in 3..(k - 1) : TargetAsset(p, n) = h)
          BY <3>1, <3>2, <3>3
      <4> QED BY <2>2, <4>1, <4>2
    <3>4. CASE h = t /\ ChangesConfig(p, k)
      <4>1. k \in 3..k
          BY <1>2, <3>4, TargetsApart
      <4> QED BY <1>13, <3>4, <4>1
    <3>5. CASE h = t /\ ~ChangesConfig(p, k)
      <4>1. config'[h] = config[h]
          BY <1>13, <3>5
      <4>2. CASE k < 3
        <5>1. 3..k = {} /\ 3..(k - 1) = {}
            BY <1>2, <4>2
        <5> QED BY <2>2, <4>1, <5>1
      <4>3. CASE k >= 3
        <5>1. k > NumActions(p) - 2 /\ 3 \in 3..(k - 1) /\ 3 \in 3..k
            BY <1>2, <3>5, <4>3, TargetsApart
        <5>2. TargetAsset(p, 3) = h
            BY <1>2, <3>5, <5>1, TargetsApart
        <5> QED BY <2>2, <4>1, <5>1, <5>2
      <4> QED BY <1>2, <4>2, <4>3
    <3> QED BY <3>3, <3>4, <3>5
  <2>9. \A h \in AssetSet(p)' :
          config'[h] = IF \E n \in 3..((k + 1) - 1) : TargetAsset(p, n)' = h
                       THEN "enforced" ELSE rplan'[p].was[h]
      BY <1>9, <2>3, <2>5, <2>8
  <2> QED BY <2>3, <2>5, <2>7, <2>9 DEF UndoOK
<1>15. ResponseTypeOK'
    BY <1>4, <1>9, <1>12, <1>13 DEF ResponseInv, ResponseTypeOK
<1>16. r.at \in 1..(NumActions(p) + 1)
    BY <1>2, <1>8
<1>17. Len(r.step) = NumActions(p) /\ Len(r.before) = NumActions(p)
    BY <1>5, <1>6, <1>8
<1>18. \A q \in DOMAIN rplan \ {p} : Executing(q) =>
         \A h \in AssetSet(q) : config'[h] = config[h]
  <2> SUFFICES ASSUME NEW q \in DOMAIN rplan \ {p}, Executing(q), NEW h \in AssetSet(q)
               PROVE  config'[h] = config[h]
      OBVIOUS
  <2>1. h \in Hosts
      BY PlanFields
  <2>2. h # t
      BY <1>2, <1>10, ExecutionsApart
  <2> QED BY <1>13, <2>1, <2>2
<1> QED BY <1>1, <1>3, <1>4, <1>8, <1>11, <1>12, <1>14, <1>15, <1>16, <1>17, <1>18,
       PlanStepKeeps

LEMMA EndedOK ==
  ASSUME NEW r \in PlanRecord
  PROVE  /\ Ended(r) \in PlanRecord /\ Ended(r).inc = r.inc /\ Ended(r).step = r.step
         /\ Ended(r).before = r.before
<1>1. StartConfig \in [Hosts -> Config]
    BY ResponseAssumption
<1> QED BY <1>1 DEF Ended, PlanRecord

LEMMA CompleteStep ==
  ASSUME ResponseInv, NEW p \in DOMAIN rplan, CompletePlan(p)
  PROVE  ResponseInv'
<1> DEFINE e == Ended(rplan[p])
           ph == IF rplan[p].by = "qualify" THEN "verify" ELSE "idle"
           r == [e EXCEPT !.status = "COMPLETED", !.phase = ph]
<1>1. rplan[p].phase = "run"
    BY DEF CompletePlan
<1>2. /\ rplan[p] \in PlanRecord /\ Len(rplan[p].step) = NumActions(p)
      /\ Len(rplan[p].before) = NumActions(p)
    BY <1>1, PlanAtWork
<1>3. /\ rplan' = [rplan EXCEPT ![p] = r] /\ assetLock' = Unlock(p)
      /\ UNCHANGED <<incident, config, outcome, dispatched>>
    BY DEF CompletePlan
<1>4. e \in PlanRecord /\ e.inc = rplan[p].inc /\ e.step = rplan[p].step
      /\ e.before = rplan[p].before
    BY <1>2, EndedOK
<1>5. ph \in {"verify", "idle"}
    OBVIOUS
<1> HIDE DEF e, ph
<1>6. /\ r \in PlanRecord /\ r.inc = rplan[p].inc /\ r.step = rplan[p].step
      /\ r.before = rplan[p].before /\ r.phase \in {"verify", "idle"}
    BY <1>4, <1>5 DEF PlanRecord
<1> HIDE DEF r
<1>7. /\ rplan' \in Seq(PlanRecord) /\ DOMAIN rplan' = DOMAIN rplan /\ rplan'[p] = r
      /\ Len(rplan') = Len(rplan)
      /\ \A q \in DOMAIN rplan \ {p} : rplan'[q] = rplan[q]
      /\ \A q \in DOMAIN rplan \ {p} :
           Executing(q)' = Executing(q) /\ AssetSet(q)' = AssetSet(q)
    BY <1>3, <1>6, PlanUpdated
<1>8. ~Executing(p)'
    BY <1>6, <1>7 DEF Executing
<1>9. LocksAreHeld' /\ LocksInRange' /\ assetLock' \in [Hosts -> Nat]
    BY <1>3, <1>7, <1>8, LocksReleased
<1>10. KeysOK'
    BY <1>1, <1>3, <1>7, KeysStay
<1>11. UndoOK(p)'
    BY <1>8 DEF UndoOK
<1>12. ResponseTypeOK'
    BY <1>3, <1>7, <1>9 DEF ResponseInv, ResponseTypeOK
<1>13. Len(r.step) = NumActions(p) /\ Len(r.before) = NumActions(p)
    BY <1>2, <1>6
<1> QED BY <1>1, <1>3, <1>6, <1>9, <1>10, <1>11, <1>12, <1>13, PlanStepKeeps

\* An execution that is refused changes the plan's status, and the incident's
\* if only the locks refused it.
LEMMA RefusedStep ==
  ASSUME ResponseInv, NEW p \in DOMAIN rplan,
         rplan' = [rplan EXCEPT ![p] = [rplan[p] EXCEPT !.status = "EXECUTING"]],
         \/ UNCHANGED incident
         \/ /\ incident[rplan[p].inc].status # "REMEDIATION"
            /\ incident' = [incident EXCEPT ![rplan[p].inc] =
                              [incident[rplan[p].inc] EXCEPT !.status = "REMEDIATION"]],
         UNCHANGED <<config, outcome, assetLock, dispatched>>
  PROVE  ResponseInv'
<1> SUFFICES ASSUME NEW i, i = rplan[p].inc PROVE ResponseInv'
    OBVIOUS
<1> DEFINE r == [rplan[p] EXCEPT !.status = "EXECUTING"]
           x == [incident[i] EXCEPT !.status = "REMEDIATION"]
<1>1. rplan[p] \in PlanRecord /\ i \in DOMAIN incident /\ incident[i] \in IncidentRecord
      /\ incident \in Seq(IncidentRecord)
    BY PlanFields DEF ResponseInv, ResponseTypeOK
<1>2. /\ r \in PlanRecord /\ r.inc = i /\ r.phase = rplan[p].phase /\ r.at = rplan[p].at
      /\ r.done = rplan[p].done /\ r.step = rplan[p].step /\ r.before = rplan[p].before
      /\ r.reused = rplan[p].reused /\ r.was = rplan[p].was
    BY <1>1 DEF PlanRecord
<1>3. x \in IncidentRecord /\ x.assets = incident[i].assets /\ x.status = "REMEDIATION"
    BY <1>1 DEF IncidentRecord, IncidentStatus
<1>4. rplan' = [rplan EXCEPT ![p] = r]
    OBVIOUS
<1>5. \/ UNCHANGED incident
      \/ incident[i].status # "REMEDIATION" /\ incident' = [incident EXCEPT ![i] = x]
    OBVIOUS
<1> HIDE DEF r, x
<1>6. /\ incident' \in Seq(IncidentRecord) /\ Len(incident') = Len(incident)
      /\ DOMAIN incident' = DOMAIN incident
      /\ \A j \in DOMAIN incident :
           incident'[j].assets = incident[j].assets /\ (j # i => incident'[j] = incident[j])
      /\ UNCHANGED incident \/ (incident[i].status # "REMEDIATION" /\ incident'[i] = x)
  <2>1. CASE UNCHANGED incident
      BY <1>1, <2>1
  <2>2. CASE incident[i].status # "REMEDIATION" /\ incident' = [incident EXCEPT ![i] = x]
    <3>1. /\ [incident EXCEPT ![i] = x] \in Seq(IncidentRecord)
          /\ Len([incident EXCEPT ![i] = x]) = Len(incident)
          /\ DOMAIN [incident EXCEPT ![i] = x] = DOMAIN incident
          /\ [incident EXCEPT ![i] = x][i] = x
          /\ \A j \in DOMAIN incident :
               /\ [incident EXCEPT ![i] = x][j].assets = incident[j].assets
               /\ j # i => [incident EXCEPT ![i] = x][j] = incident[j]
        BY <1>1, <1>3, IncidentUpdated
    <3> QED BY <2>2, <3>1
  <2> QED BY <1>5, <2>1, <2>2
<1>7. /\ rplan' \in Seq(PlanRecord) /\ DOMAIN rplan' = DOMAIN rplan /\ rplan'[p] = r
      /\ \A q \in DOMAIN rplan \ {p} : rplan'[q] = rplan[q]
      /\ AssetSet(p)' = AssetSet(p) /\ NumActions(p)' = NumActions(p)
      /\ \A n : /\ TargetAsset(p, n)' = TargetAsset(p, n)
                /\ HasRollbackCommand(p, n)' = HasRollbackCommand(p, n)
      /\ \A q \in DOMAIN rplan \ {p} :
           Executing(q)' = Executing(q) /\ AssetSet(q)' = AssetSet(q)
  <2>1. \A j \in DOMAIN incident :
          j \in DOMAIN incident' /\ incident'[j].assets = incident[j].assets
      BY <1>6
  <2>2. r \in PlanRecord /\ r.inc = rplan[p].inc
      BY <1>2
  <2> QED BY <1>4, <2>1, <2>2, PlanUpdated
<1>8. Executing(p)' = Executing(p)
    BY <1>2, <1>7 DEF Executing
<1>9. LocksAreHeld' /\ LocksInRange'
    BY <1>7, <1>8, LocksStay
<1>10. KeysOK'
  <2> SUFFICES ASSUME NEW j \in DOMAIN incident, NEW n \in 1..StepsOf(incident[j].assets)
               PROVE  /\ dispatched[j][n] <= 1
                      /\ dispatched[j][n] = 1 /\ outcome[j][n] = "none" =>
                           \E q \in DOMAIN rplan' :
                             rplan'[q].phase = "call" /\ rplan'[q].inc = j /\ rplan'[q].at = n
      BY <1>6 DEF KeysOK
  <2>1. \A q \in DOMAIN rplan :
          /\ rplan'[q].phase = rplan[q].phase /\ rplan'[q].inc = rplan[q].inc
          /\ rplan'[q].at = rplan[q].at
      BY <1>2, <1>7
  <2> QED BY <1>7, <2>1 DEF ResponseInv, KeysOK
<1>11. PlanShape(p)' /\ UndoOK(p)'
  <2>1. PlanShape(p) /\ UndoOK(p)
      BY DEF ResponseInv
  <2>2. PlanShape(p)'
      BY <1>1, <1>2, <1>6, <1>7, <1>8, <2>1 DEF PlanShape
  <2>3. UndoOK(p)'
    <3>1. /\ rplan'[p].phase = rplan[p].phase /\ rplan'[p].at = rplan[p].at
          /\ rplan'[p].done = rplan[p].done /\ rplan'[p].step = rplan[p].step
          /\ rplan'[p].before = rplan[p].before /\ rplan'[p].reused = rplan[p].reused
          /\ rplan'[p].was = rplan[p].was
        BY <1>2, <1>7
    <3>2. SUFFICES ASSUME Executing(p), ~rplan[p].reused PROVE UndoOK(p)'
        BY <1>8, <3>1 DEF UndoOK
    <3>3. /\ rplan[p].done = IF rplan[p].phase = "undo" THEN 1..rplan[p].at
                                                      ELSE 1..(rplan[p].at - 1)
          /\ rplan[p].phase = "undo" => rplan[p].step[rplan[p].at] = "FAILED"
          /\ \A n \in 1..(rplan[p].at - 1) :
               /\ rplan[p].step[n] = "SUCCESS"
               /\ HasRollbackCommand(p, n) =>
                    rplan[p].before[n] = rplan[p].was[TargetAsset(p, n)]
          /\ \A h \in AssetSet(p) :
               config[h] = IF \E n \in 3..(rplan[p].at - 1) : TargetAsset(p, n) = h
                           THEN "enforced" ELSE rplan[p].was[h]
        BY <2>1, <3>2 DEF UndoOK
    <3>4. \A n \in 1..(rplan'[p].at - 1) :
            /\ rplan'[p].step[n] = "SUCCESS"
            /\ HasRollbackCommand(p, n)' =>
                 rplan'[p].before[n] = rplan'[p].was[TargetAsset(p, n)']
        BY <1>7, <3>1, <3>3
    <3>5. \A h \in AssetSet(p)' :
            config'[h] = IF \E n \in 3..(rplan'[p].at - 1) : TargetAsset(p, n)' = h
                         THEN "enforced" ELSE rplan'[p].was[h]
      <4>1. config' = config /\ AssetSet(p)' = AssetSet(p)
            /\ \A n : TargetAsset(p, n)' = TargetAsset(p, n)
          BY <1>7
      <4> QED BY <3>1, <3>3, <4>1
    <3> QED BY <3>1, <3>3, <3>4, <3>5 DEF UndoOK
  <2> QED BY <2>2, <2>3
<1>12. ResponseTypeOK'
    BY <1>6, <1>7 DEF ResponseInv, ResponseTypeOK
<1>13. rplan[p].phase # "idle" => UNCHANGED incident /\ incident[i].status = "REMEDIATION"
  <2>1. rplan[p].phase # "idle" => incident[i].status = "REMEDIATION"
      BY DEF ResponseInv, OneRequest
  <2> QED BY <1>5, <2>1
<1>14. rplan'[p].phase # "idle" =>
         /\ incident'[rplan'[p].inc].status = "REMEDIATION"
         /\ \A q \in DOMAIN rplan \ {p} :
              rplan[q].inc = rplan'[p].inc => rplan[q].phase = "idle"
    BY <1>2, <1>7, <1>13, Alone
<1>15. \A q \in DOMAIN rplan \ {p} : rplan[q].phase # "idle" =>
         incident'[rplan[q].inc].status = incident[rplan[q].inc].status
  <2>1. CASE UNCHANGED incident
      BY <2>1
  <2>2. CASE incident[i].status # "REMEDIATION"
      BY <1>6, <2>2, Alone, PlanFields
  <2> QED BY <1>5, <2>1, <2>2
<1> QED BY <1>6, <1>7, <1>9, <1>10, <1>11, <1>12, <1>14, <1>15, StepKeeps

LEMMA BeginStep ==
  ASSUME ResponseInv, NEW p \in DOMAIN rplan,
         incident[rplan[p].inc].status # "REMEDIATION", ~Conflicts(p, PlanAssets(p)),
         rplan' = [rplan EXCEPT ![p] = Begun(rplan[p], "endpoint")],
         incident' = [incident EXCEPT ![rplan[p].inc] =
                        [incident[rplan[p].inc] EXCEPT !.status = "REMEDIATION"]],
         assetLock' = LockAll(p, PlanAssets(p)),
         UNCHANGED <<config, outcome, dispatched>>
  PROVE  ResponseInv'
<1> SUFFICES ASSUME NEW i, i = rplan[p].inc, NEW assets, assets = PlanAssets(p)
             PROVE ResponseInv'
    OBVIOUS
<1> DEFINE r == Begun(rplan[p], "endpoint")
           x == [incident[i] EXCEPT !.status = "REMEDIATION"]
<1>1. /\ rplan[p] \in PlanRecord /\ i \in DOMAIN incident /\ incident[i] \in IncidentRecord
      /\ assets \in AssetLists /\ p \in Nat \ {0} /\ PlanShape(p)
      /\ config \in [Hosts -> Config]
    BY PlanFields DEF ResponseInv, ResponseTypeOK
<1>2. /\ r \in PlanRecord /\ r.inc = i /\ r.phase = "run" /\ r.at = 1 /\ r.done = {}
      /\ r.step = rplan[p].step /\ r.before = rplan[p].before /\ r.was = config
    BY <1>1, BegunOK
<1>3. x \in IncidentRecord /\ x.assets = incident[i].assets /\ x.status = "REMEDIATION"
    BY <1>1 DEF IncidentRecord, IncidentStatus
<1> HIDE DEF r
<1>4. /\ rplan' = [rplan EXCEPT ![p] = r] /\ incident' = [incident EXCEPT ![i] = x]
      /\ assetLock' = LockAll(p, assets) /\ ~Conflicts(p, assets)
    BY DEF r
<1> HIDE DEF x
<1>5. /\ incident' \in Seq(IncidentRecord) /\ Len(incident') = Len(incident)
      /\ DOMAIN incident' = DOMAIN incident /\ incident'[i] = x
      /\ \A j \in DOMAIN incident :
           incident'[j].assets = incident[j].assets /\ (j # i => incident'[j] = incident[j])
    BY <1>1, <1>3, <1>4, IncidentUpdated
<1>6. /\ rplan' \in Seq(PlanRecord) /\ DOMAIN rplan' = DOMAIN rplan /\ rplan'[p] = r
      /\ Len(rplan') >= Len(rplan)
      /\ \A q \in DOMAIN rplan \ {p} : rplan'[q] = rplan[q]
      /\ PlanAssets(p)' = assets /\ NumActions(p)' = NumActions(p)
      /\ \A q \in DOMAIN rplan \ {p} :
           Executing(q)' = Executing(q) /\ AssetSet(q)' = AssetSet(q)
  <2>1. rplan \in Seq(PlanRecord)
      BY DEF ResponseInv, ResponseTypeOK
  <2>2. \A j \in DOMAIN incident :
          j \in DOMAIN incident' /\ incident'[j].assets = incident[j].assets
      BY <1>5
  <2>3. r \in PlanRecord /\ r.inc = rplan[p].inc
      BY <1>2
  <2>4. /\ rplan' \in Seq(PlanRecord) /\ Len(rplan') = Len(rplan)
        /\ DOMAIN rplan' = DOMAIN rplan /\ rplan'[p] = r
        /\ \A q \in DOMAIN rplan \ {p} : rplan'[q] = rplan[q]
        /\ PlanAssets(p)' = PlanAssets(p) /\ NumActions(p)' = NumActions(p)
        /\ \A q \in DOMAIN rplan \ {p} :
             Executing(q)' = Executing(q) /\ AssetSet(q)' = AssetSet(q)
      BY <1>4, <2>2, <2>3, PlanUpdated
  <2>5. Len(rplan) \in Nat
      BY <2>1
  <2> QED BY <2>4, <2>5
<1>7. Executing(p)'
    BY <1>2, <1>6 DEF Executing
<1>8. rplan[p].phase = "idle"
    BY DEF ResponseInv, OneRequest
<1>9. \A h \in Hosts : assetLock[h] # p
    BY <1>8 DEF ResponseInv, LocksAreHeld, Executing
<1>10. LocksAreHeld' /\ LocksInRange' /\ assetLock' \in [Hosts -> Nat]
    BY <1>1, <1>4, <1>6, <1>7, <1>9, LocksTaken
<1>11. KeysOK'
    BY <1>5, <1>6, <1>8, KeysStay
<1>12. PlanShape(p)'
  <2>1. NumActions(p) \in Nat
      BY TargetsApart
  <2> QED BY <1>1, <1>2, <1>5, <1>6, <2>1 DEF PlanShape
<1>13. UndoOK(p)'
    BY <1>2, <1>6, BegunUndo
<1>14. ResponseTypeOK'
    BY <1>5, <1>6, <1>10 DEF ResponseInv, ResponseTypeOK
<1>15. \A q \in DOMAIN rplan \ {p} : rplan[q].inc = i => rplan[q].phase = "idle"
    BY Alone
<1>16. \A q \in DOMAIN rplan \ {p} : rplan[q].phase # "idle" =>
         incident'[rplan[q].inc].status = incident[rplan[q].inc].status
    BY <1>5, <1>15, PlanFields
<1> QED BY <1>2, <1>3, <1>5, <1>6, <1>10, <1>11, <1>12, <1>13, <1>14, <1>15, <1>16, StepKeeps

LEMMA ExecuteStepKeeps ==
  ASSUME ResponseInv, NEW p \in DOMAIN rplan, ExecutePlan(p)
  PROVE  ResponseInv'
<1> DEFINE i == rplan[p].inc
           allowed == "REMEDIATION" \in AllowedTransitions(incident[i].status)
           starts == allowed /\ ~Conflicts(p, PlanAssets(p))
<1>1. /\ rplan' = [rplan EXCEPT ![p] =
                     IF starts THEN Begun(rplan[p], "endpoint")
                               ELSE [rplan[p] EXCEPT !.status = "EXECUTING"]]
      /\ incident' = IF allowed
                     THEN [incident EXCEPT ![i] = [incident[i] EXCEPT !.status = "REMEDIATION"]]
                     ELSE incident
      /\ assetLock' = IF starts THEN LockAll(p, PlanAssets(p)) ELSE assetLock
      /\ UNCHANGED <<config, outcome, dispatched>>
    BY DEF ExecutePlan
<1>2. allowed => incident[i].status # "REMEDIATION"
    BY DEF AllowedTransitions
<1> HIDE DEF allowed
<1>3. CASE starts
    BY <1>1, <1>2, <1>3, BeginStep
<1>4. CASE ~starts
    BY <1>1, <1>2, <1>4, RefusedStep
<1> QED BY <1>3, <1>4

LEMMA VerifyStep ==
  ASSUME ResponseInv, NEW p \in DOMAIN rplan, VerifyRemediation(p)
  PROVE  ResponseInv'
<1> SUFFICES ASSUME NEW i, i = rplan[p].inc PROVE ResponseInv'
    OBVIOUS
<1> DEFINE passed == config[PlanAssets(p)[1]] # "legacy"
           x == [incident[i] EXCEPT !.status = IF passed THEN "MONITORING" ELSE "VERIFICATION",
                                    !.verified = incident[i].verified \/ passed,
                                    !.watch = "active"]
           r == [rplan[p] EXCEPT !.phase = "idle"]
<1>1. /\ rplan[p] \in PlanRecord /\ i \in DOMAIN incident /\ incident[i] \in IncidentRecord
      /\ PlanShape(p) /\ rplan[p].phase = "verify"
    BY PlanFields DEF ResponseInv, VerifyRemediation
<1>2. /\ r \in PlanRecord /\ r.inc = i /\ r.phase = "idle"
      /\ r.step = rplan[p].step /\ r.before = rplan[p].before
    BY <1>1 DEF PlanRecord
<1>3. /\ rplan' = [rplan EXCEPT ![p] = r] /\ incident' = [incident EXCEPT ![i] = x]
      /\ UNCHANGED <<config, outcome, assetLock, dispatched>>
    BY DEF VerifyRemediation
<1> HIDE DEF passed
<1>4. x \in IncidentRecord /\ x.assets = incident[i].assets
  <2>1. (incident[i].verified \/ passed) \in BOOLEAN
      OBVIOUS
  <2> QED BY <1>1, <2>1 DEF IncidentRecord, IncidentStatus
<1> HIDE DEF r, x
<1>5. /\ incident' \in Seq(IncidentRecord) /\ Len(incident') = Len(incident)
      /\ DOMAIN incident' = DOMAIN incident
      /\ \A j \in DOMAIN incident :
           incident'[j].assets = incident[j].assets /\ (j # i => incident'[j] = incident[j])
    BY <1>1, <1>3, <1>4, IncidentUpdated
<1>6. /\ rplan' \in Seq(PlanRecord) /\ DOMAIN rplan' = DOMAIN rplan /\ rplan'[p] = r
      /\ \A q \in DOMAIN rplan \ {p} : rplan'[q] = rplan[q]
      /\ AssetSet(p)' = AssetSet(p) /\ NumActions(p)' = NumActions(p)
      /\ \A q \in DOMAIN rplan \ {p} :
           Executing(q)' = Executing(q) /\ AssetSet(q)' = AssetSet(q)
    BY <1>2, <1>3, <1>5, PlanUpdated
<1>7. ~Executing(p) /\ ~Executing(p)'
    BY <1>1, <1>2, <1>6 DEF Executing
<1>8. LocksAreHeld' /\ LocksInRange'
  <2>1. \A q \in DOMAIN rplan : Executing(q)' = Executing(q) /\ AssetSet(q)' = AssetSet(q)
    <3>1. Executing(p)' = Executing(p)
        BY <1>1, <1>2, <1>6 DEF Executing
    <3> QED BY <1>6, <3>1
  <2> QED BY <1>3, <1>6, <2>1, LocksStay
<1>9. KeysOK'
    BY <1>1, <1>3, <1>5, <1>6, KeysStay
<1>10. PlanShape(p)' /\ UndoOK(p)'
    BY <1>1, <1>2, <1>5, <1>6, <1>7 DEF PlanShape, UndoOK
<1>11. ResponseTypeOK'
    BY <1>3, <1>5, <1>6 DEF ResponseInv, ResponseTypeOK
<1>12. \A q \in DOMAIN rplan \ {p} : rplan[q].phase # "idle" =>
         incident'[rplan[q].inc].status = incident[rplan[q].inc].status
    BY <1>1, <1>5, Alone, PlanFields
<1> QED BY <1>2, <1>3, <1>5, <1>6, <1>8, <1>9, <1>10, <1>11, <1>12, StepKeeps

\* What a rollback does: it puts back assets of its own plan, and ends.
LEMMA RollbackFacts ==
  ASSUME ResponseInv, NEW p \in DOMAIN rplan, NEW broken \in SUBSET UndoneSteps(p, {}),
         RollBackPlan(p, broken)
  PROVE  /\ config' \in [Hosts -> Config]
         /\ \A h \in Hosts \ AssetSet(p) : config'[h] = config[h]
         /\ UndoneSteps(p, broken) \subseteq 1..NumActions(p)
         /\ rplan' \in Seq(PlanRecord) /\ Len(rplan') = Len(rplan)
         /\ DOMAIN rplan' = DOMAIN rplan
         /\ rplan'[p].inc = rplan[p].inc /\ rplan'[p].phase = "idle"
         /\ Len(rplan'[p].step) = NumActions(p) /\ Len(rplan'[p].before) = NumActions(p)
         /\ \A k \in 1..NumActions(p) :
              rplan'[p].step[k] = IF k \in UndoneSteps(p, broken) THEN "ROLLED_BACK"
                                                                  ELSE rplan[p].step[k]
         /\ \A q \in DOMAIN rplan \ {p} : rplan'[q] = rplan[q]
<1> SUFFICES ASSUME NEW undone, undone = UndoneSteps(p, broken)
             PROVE  /\ config' \in [Hosts -> Config]
                    /\ \A h \in Hosts \ AssetSet(p) : config'[h] = config[h]
                    /\ undone \subseteq 1..NumActions(p)
                    /\ rplan' \in Seq(PlanRecord) /\ Len(rplan') = Len(rplan)
                    /\ DOMAIN rplan' = DOMAIN rplan
                    /\ rplan'[p].inc = rplan[p].inc /\ rplan'[p].phase = "idle"
                    /\ Len(rplan'[p].step) = NumActions(p)
                    /\ Len(rplan'[p].before) = NumActions(p)
                    /\ \A k \in 1..NumActions(p) :
                         rplan'[p].step[k] = IF k \in undone THEN "ROLLED_BACK"
                                                            ELSE rplan[p].step[k]
                    /\ \A q \in DOMAIN rplan \ {p} : rplan'[q] = rplan[q]
    OBVIOUS
<1>1. rplan[p].phase = "undo"
    BY DEF RollBackPlan
<1>2. /\ rplan[p] \in PlanRecord /\ rplan[p].step \in Seq(StepResult)
      /\ rplan[p].before \in Seq(Config \cup {"none"})
      /\ DOMAIN rplan[p].step = 1..NumActions(p) /\ DOMAIN rplan[p].before = 1..NumActions(p)
      /\ Len(rplan[p].step) = NumActions(p) /\ Len(rplan[p].before) = NumActions(p)
      /\ NumActions(p) \in Nat /\ rplan[p].done \in SUBSET Nat
    BY <1>1, PlanAtWork
<1>3. config \in [Hosts -> Config] /\ rplan \in Seq(PlanRecord) /\ AssetSet(p) \subseteq Hosts
    BY PlanFields DEF ResponseInv, ResponseTypeOK
<1>4. undone \subseteq 3..(NumActions(p) - 2) /\ undone \subseteq 1..NumActions(p)
  <2>1. \A k \in undone : k \in Nat /\ HasRollbackCommand(p, k)
      BY <1>2 DEF UndoneSteps
  <2> QED BY <1>2, <2>1, TargetsApart
<1>5. \A k \in 1..NumActions(p) : Restored(p, k) \in Config
    BY <1>2 DEF Restored, Config
<1>6. \A k \in undone : TargetAsset(p, k) \in AssetSet(p)
    BY <1>2, <1>4, PlanFields
<1>7. config' = [h \in Hosts |->
           IF \E k \in undone : TargetAsset(p, k) = h
           THEN Restored(p, CHOOSE k \in undone : TargetAsset(p, k) = h) ELSE config[h]]
    BY DEF RollBackPlan
<1>8. ASSUME NEW h \in Hosts, NEW k \in undone, TargetAsset(p, k) = h
      PROVE  (CHOOSE n \in undone : TargetAsset(p, n) = h) \in undone
    BY <1>8
<1>9. config' \in [Hosts -> Config] /\ \A h \in Hosts \ AssetSet(p) : config'[h] = config[h]
  <2>1. ASSUME NEW h \in Hosts PROVE config'[h] \in Config
    <3>1. CASE \E k \in undone : TargetAsset(p, k) = h
      <4>1. Restored(p, CHOOSE k \in undone : TargetAsset(p, k) = h) \in Config
          BY <1>4, <1>5, <1>8, <3>1
      <4> QED BY <1>7, <3>1, <4>1
    <3>2. CASE ~\E k \in undone : TargetAsset(p, k) = h
        BY <1>3, <1>7, <3>2
    <3> QED BY <3>1, <3>2
  <2>2. ASSUME NEW h \in Hosts \ AssetSet(p) PROVE config'[h] = config[h]
      BY <1>6, <1>7
  <2> QED BY <1>7, <2>1, <2>2
<1> DEFINE st == [k \in DOMAIN rplan[p].step |->
                   IF k \in undone THEN "ROLLED_BACK" ELSE rplan[p].step[k]]
           e == Ended(rplan[p])
           r == [e EXCEPT !.status = "ROLLED_BACK", !.step = st]
<1>10. rplan' = [rplan EXCEPT ![p] = r]
    BY DEF RollBackPlan
<1>11. /\ st \in Seq(StepResult) /\ Len(st) = NumActions(p)
       /\ \A k \in 1..NumActions(p) :
            st[k] = IF k \in undone THEN "ROLLED_BACK" ELSE rplan[p].step[k]
  <2>1. \A k \in 1..NumActions(p) :
          (IF k \in undone THEN "ROLLED_BACK" ELSE rplan[p].step[k]) \in StepResult
      BY <1>2 DEF StepResult
  <2>2. st \in [1..NumActions(p) -> StepResult]
      BY <1>2, <2>1
  <2>3. st \in Seq(StepResult) /\ Len(st) = NumActions(p)
      BY <1>2, <2>2
  <2> QED BY <1>2, <2>3
<1>12. /\ e \in PlanRecord /\ e.inc = rplan[p].inc /\ e.before = rplan[p].before
       /\ e.phase = "idle"
    BY <1>2, EndedOK DEF Ended, PlanRecord
<1> HIDE DEF st, e
<1>13. /\ r \in PlanRecord /\ r.inc = rplan[p].inc /\ r.phase = "idle"
       /\ r.step = st /\ r.before = rplan[p].before
    BY <1>11, <1>12 DEF PlanRecord
<1> HIDE DEF r
<1>14. /\ rplan' \in Seq(PlanRecord) /\ Len(rplan') = Len(rplan)
       /\ DOMAIN rplan' = DOMAIN rplan /\ rplan'[p] = r
       /\ \A q \in DOMAIN rplan \ {p} : rplan'[q] = rplan[q]
    BY <1>3, <1>10, <1>13, SeqUpdated
<1> QED BY <1>2, <1>4, <1>9, <1>11, <1>13, <1>14

LEMMA RollBackStep ==
  ASSUME ResponseInv, NEW p \in DOMAIN rplan, NEW broken \in SUBSET UndoneSteps(p, {}),
         RollBackPlan(p, broken)
  PROVE  ResponseInv'
<1> SUFFICES ASSUME NEW i, i = rplan[p].inc PROVE ResponseInv'
    OBVIOUS
<1> DEFINE x == [incident[i] EXCEPT !.status = "ROLLBACK"]
<1>1. /\ rplan[p].phase = "undo" /\ assetLock' = Unlock(p)
      /\ incident' = [incident EXCEPT ![i] = x] /\ UNCHANGED <<outcome, dispatched>>
    BY DEF RollBackPlan
<1>2. /\ i \in DOMAIN incident /\ incident[i] \in IncidentRecord /\ Executing(p)
    BY <1>1, PlanFields DEF Executing
<1>3. x \in IncidentRecord /\ x.assets = incident[i].assets
    BY <1>2 DEF IncidentRecord, IncidentStatus
<1> HIDE DEF x
<1>4. /\ incident' \in Seq(IncidentRecord) /\ Len(incident') = Len(incident)
      /\ DOMAIN incident' = DOMAIN incident
      /\ \A j \in DOMAIN incident :
           incident'[j].assets = incident[j].assets /\ (j # i => incident'[j] = incident[j])
    BY <1>1, <1>2, <1>3, IncidentUpdated
<1>5. /\ config' \in [Hosts -> Config]
      /\ \A h \in Hosts \ AssetSet(p) : config'[h] = config[h]
      /\ rplan' \in Seq(PlanRecord) /\ Len(rplan') = Len(rplan)
      /\ DOMAIN rplan' = DOMAIN rplan
      /\ rplan'[p].inc = i /\ rplan'[p].phase = "idle"
      /\ Len(rplan'[p].step) = NumActions(p) /\ Len(rplan'[p].before) = NumActions(p)
      /\ \A q \in DOMAIN rplan \ {p} : rplan'[q] = rplan[q]
    BY RollbackFacts
<1>6. \A q \in DOMAIN rplan : incident'[rplan'[q].inc].assets = incident[rplan[q].inc].assets
    BY <1>2, <1>4, <1>5, PlanFields
<1>7. /\ \A q \in DOMAIN rplan \ {p} :
           Executing(q)' = Executing(q) /\ AssetSet(q)' = AssetSet(q)
      /\ NumActions(p)' = NumActions(p)
    BY <1>5, <1>6, SamePlan DEF Executing
<1>8. ~Executing(p)'
    BY <1>5 DEF Executing
<1>9. LocksAreHeld' /\ LocksInRange' /\ assetLock' \in [Hosts -> Nat]
    BY <1>1, <1>5, <1>7, <1>8, LocksReleased
<1>10. KeysOK'
    BY <1>1, <1>4, <1>5, KeysStay
<1>11. PlanShape(p)' /\ UndoOK(p)'
    BY <1>2, <1>4, <1>5, <1>7, <1>8 DEF PlanShape, UndoOK
<1>12. ResponseTypeOK'
    BY <1>1, <1>4, <1>5, <1>9 DEF ResponseInv, ResponseTypeOK
<1>13. \A q \in DOMAIN rplan \ {p} : rplan[q].phase # "idle" =>
         incident'[rplan[q].inc].status = incident[rplan[q].inc].status
    BY <1>1, <1>4, Alone, PlanFields
<1>14. \A q \in DOMAIN rplan \ {p} : Executing(q) =>
         \A h \in AssetSet(q) : config'[h] = config[h]
    BY <1>2, <1>5, ExecutionsApart, PlanFields
<1> QED BY <1>4, <1>5, <1>9, <1>10, <1>11, <1>12, <1>13, <1>14, StepKeeps

LEMMA ResponseStep == ResponseInv /\ [ResponseNext]_responseVars => ResponseInv'
<1> SUFFICES ASSUME ResponseInv, [ResponseNext]_responseVars PROVE ResponseInv'
    OBVIOUS
<1>1. ASSUME NEW s \in AssetLists, QualifyAndRespond(s) PROVE ResponseInv'
    BY <1>1, QualifyStep
<1>2. ASSUME NEW s \in AssetLists, NEW e \in BOOLEAN, CreateIncident(s, e) PROVE ResponseInv'
    BY <1>2, CreateStep
<1>3. ASSUME NEW i \in DOMAIN incident, GenerateResponsePlan(i) PROVE ResponseInv'
    BY <1>3, GenerateStep
<1>4. ASSUME NEW i \in DOMAIN incident, Reopen(i) PROVE ResponseInv'
    BY <1>4, ReopenStep
<1>5. ASSUME NEW i \in DOMAIN incident, NEW t \in IncidentStatus, Transition(i, t)
      PROVE  ResponseInv'
    BY <1>5, TransitionStep
<1>6. ASSUME NEW p \in DOMAIN rplan,
             \/ ExecutePlan(p) \/ SkipAction(p) \/ CallConnector(p) \/ ActionSucceeds(p)
             \/ ActionFails(p) \/ CompletePlan(p) \/ VerifyRemediation(p)
      PROVE  ResponseInv'
    BY <1>6, ExecuteStepKeeps, SkipStep, CallStep, SucceedStep, FailStep, CompleteStep,
       VerifyStep
<1>7. ASSUME NEW p \in DOMAIN rplan, NEW broken \in SUBSET UndoneSteps(p, {}),
             RollBackPlan(p, broken)
      PROVE  ResponseInv'
    BY <1>7, RollBackStep
<1>8. CASE UNCHANGED responseVars
    BY <1>8 DEF responseVars, ResponseInv, ResponseTypeOK, OneRequest, LocksAreHeld,
                LocksInRange, KeysOK, PlanShape, UndoOK, Executing, NumActions, PlanAssets,
                AssetSet, TargetAsset, HasRollbackCommand
<1> QED BY <1>1, <1>2, <1>3, <1>4, <1>5, <1>6, <1>7, <1>8 DEF ResponseNext

\* The state of incident response has its types, a request works alone on its
\* incident, keys and locks say what is under way, and an execution that called
\* its steps itself can be undone (ActionOrchestrator).
THEOREM ResponseSafe == ResponseSpec => []ResponseInv
<1> QED BY ResponseInitial, ResponseStep, PTL DEF ResponseSpec

\* An executed plan holds its assets, and no asset is held otherwise
\* (acquire_locks, release_locks).
THEOREM LocksSafe == ResponseSpec => []LocksAreHeld
<1>1. ResponseInv => LocksAreHeld
    BY DEF ResponseInv
<1> QED BY <1>1, ResponseSafe, PTL

\* A key reaches a connector once (executed_idempotency_keys).
THEOREM KeysAreUsedOnce == ResponseSpec => []DispatchedOnce
<1>1. ResponseInv => DispatchedOnce
  <2> SUFFICES ASSUME ResponseInv, NEW i \in DOMAIN dispatched, NEW k \in DOMAIN dispatched[i]
               PROVE  dispatched[i][k] <= 1
      BY DEF DispatchedOnce
  <2>1. /\ dispatched \in Seq(Seq(Nat)) /\ incident \in Seq(IncidentRecord)
        /\ Len(dispatched) = Len(incident)
        /\ \A j \in DOMAIN incident : Len(dispatched[j]) = StepsOf(incident[j].assets)
      BY DEF ResponseInv, ResponseTypeOK
  <2>2. i \in DOMAIN incident /\ dispatched[i] \in Seq(Nat)
      BY <2>1
  <2>3. k \in 1..StepsOf(incident[i].assets)
      BY <2>1, <2>2
  <2> QED BY <2>2, <2>3 DEF ResponseInv, KeysOK
<1> QED BY <1>1, ResponseSafe, PTL

\* Only a rollback ends a plan that failed.
LEMMA UndoEndsByRollback ==
  ASSUME ResponseInv, [ResponseNext]_responseVars, NEW p \in DOMAIN rplan,
         rplan[p].phase = "undo", rplan'[p].phase = "idle"
  PROVE  \E broken \in SUBSET UndoneSteps(p, {}) : RollBackPlan(p, broken)
<1>1. rplan \in Seq(PlanRecord) /\ \A q \in DOMAIN rplan : rplan[q] \in PlanRecord
    BY DEF ResponseInv, ResponseTypeOK
<1> SUFFICES ASSUME \A broken \in SUBSET UndoneSteps(p, {}) : ~RollBackPlan(p, broken)
             PROVE  rplan'[p] = rplan[p]
    OBVIOUS
<1>2. ASSUME UNCHANGED rplan PROVE rplan'[p] = rplan[p]
    BY <1>2
<1>3. ASSUME NEW x, rplan' = Append(rplan, x) PROVE rplan'[p] = rplan[p]
    BY <1>1, <1>3
<1>4. ASSUME NEW q \in DOMAIN rplan, NEW x, rplan' = [rplan EXCEPT ![q] = x], q # p
      PROVE  rplan'[p] = rplan[p]
    BY <1>4
<1>5. ASSUME NEW s \in AssetLists, QualifyAndRespond(s) PROVE rplan'[p] = rplan[p]
    BY <1>3, <1>5 DEF QualifyAndRespond
<1>6. ASSUME NEW i \in DOMAIN incident, GenerateResponsePlan(i) PROVE rplan'[p] = rplan[p]
    BY <1>3, <1>6 DEF GenerateResponsePlan
<1>7. ASSUME NEW q \in DOMAIN rplan, SkipAction(q) PROVE rplan'[p] = rplan[p]
  <2>1. q # p
      BY <1>7 DEF SkipAction, At
  <2> QED BY <1>4, <1>7, <2>1 DEF SkipAction
<1>8. ASSUME NEW q \in DOMAIN rplan, CallConnector(q) PROVE rplan'[p] = rplan[p]
  <2>1. q # p
      BY <1>8 DEF CallConnector, At
  <2> QED BY <1>4, <1>8, <2>1 DEF CallConnector
<1>9. ASSUME NEW q \in DOMAIN rplan, ActionSucceeds(q) PROVE rplan'[p] = rplan[p]
  <2>1. q # p
      BY <1>9 DEF ActionSucceeds
  <2> QED BY <1>4, <1>9, <2>1 DEF ActionSucceeds
<1>10. ASSUME NEW q \in DOMAIN rplan, ActionFails(q) PROVE rplan'[p] = rplan[p]
  <2>1. q # p
      BY <1>10 DEF ActionFails
  <2> QED BY <1>4, <1>10, <2>1 DEF ActionFails
<1>11. ASSUME NEW q \in DOMAIN rplan, CompletePlan(q) PROVE rplan'[p] = rplan[p]
  <2>1. q # p
      BY <1>11 DEF CompletePlan
  <2> QED BY <1>4, <1>11, <2>1 DEF CompletePlan
<1>12. ASSUME NEW q \in DOMAIN rplan, VerifyRemediation(q) PROVE rplan'[p] = rplan[p]
  <2>1. q # p
      BY <1>12 DEF VerifyRemediation
  <2> QED BY <1>4, <1>12, <2>1 DEF VerifyRemediation
<1>13. ASSUME NEW q \in DOMAIN rplan, ExecutePlan(q) PROVE rplan'[p] = rplan[p]
  <2>1. rplan[p].phase # "idle" /\ incident[rplan[p].inc].status = "REMEDIATION"
      BY DEF ResponseInv, OneRequest
  <2>2. CASE q = p
    <3>1. "REMEDIATION" \notin AllowedTransitions(incident[rplan[p].inc].status)
        BY <2>1 DEF AllowedTransitions
    <3>2. rplan' = [rplan EXCEPT ![p] = [rplan[p] EXCEPT !.status = "EXECUTING"]]
        BY <1>13, <2>2, <3>1 DEF ExecutePlan
    <3>3. rplan'[p].phase = rplan[p].phase
        BY <1>1, <3>2 DEF PlanRecord
    <3> QED BY <3>3
  <2>3. CASE q # p
      BY <1>4, <1>13, <2>3 DEF ExecutePlan
  <2> QED BY <2>2, <2>3
<1>14. ASSUME NEW q \in DOMAIN rplan, NEW broken \in SUBSET UndoneSteps(q, {}),
              RollBackPlan(q, broken)
       PROVE  rplan'[p] = rplan[p]
  <2>1. q # p
      BY <1>14
  <2> QED BY <1>4, <1>14, <2>1 DEF RollBackPlan
<1> QED BY <1>2, <1>5, <1>6, <1>7, <1>8, <1>9, <1>10, <1>11, <1>12, <1>13, <1>14
        DEF ResponseNext, responseVars, CreateIncident, Reopen, Transition

\* A rollback in which no connector fails puts each asset of a plan back that
\* took over no result.
LEMMA RollbackPutsBack ==
  ASSUME ResponseInv, NEW p \in DOMAIN rplan, NEW broken \in SUBSET UndoneSteps(p, {}),
         RollBackPlan(p, broken), ~rplan[p].reused,
         \A k \in UndoneSteps(p, {}) : rplan'[p].step[k] = "ROLLED_BACK",
         NEW h \in AssetSet(p)
  PROVE  config'[h] = rplan[p].was[h]
<1> SUFFICES ASSUME NEW undone, undone = UndoneSteps(p, {}), NEW a, a = rplan[p].at
             PROVE  config'[h] = rplan[p].was[h]
    OBVIOUS
<1>1. rplan[p].phase = "undo" /\ Executing(p)
    BY DEF RollBackPlan, Executing
<1>2. /\ rplan[p] \in PlanRecord /\ a \in 1..NumActions(p) /\ NumActions(p) \in Nat
      /\ NumActions(p) >= 5 /\ rplan[p].was \in [Hosts -> Config] /\ h \in Hosts
  <2>1. rplan[p] \in PlanRecord /\ a \in 1..NumActions(p) /\ NumActions(p) \in Nat
      BY <1>1, PlanAtWork
  <2>2. NumActions(p) >= 5 /\ h \in Hosts
      BY TargetsApart, PlanFields
  <2> QED BY <2>1, <2>2 DEF PlanRecord
<1>3. /\ rplan[p].done = 1..a /\ rplan[p].step[a] = "FAILED"
      /\ \A k \in 1..(a - 1) :
           /\ rplan[p].step[k] = "SUCCESS"
           /\ HasRollbackCommand(p, k) => rplan[p].before[k] = rplan[p].was[TargetAsset(p, k)]
      /\ config[h] = IF \E k \in 3..(a - 1) : TargetAsset(p, k) = h
                     THEN "enforced" ELSE rplan[p].was[h]
    BY <1>1 DEF ResponseInv, UndoOK
<1>4. undone = {k \in 1..(a - 1) : HasRollbackCommand(p, k)}
  <2>1. undone = {k \in 1..a : HasRollbackCommand(p, k) /\ rplan[p].step[k] = "SUCCESS"}
      BY <1>3 DEF UndoneSteps
  <2>2. ASSUME NEW k \in 1..a, k # a PROVE k \in 1..(a - 1)
      BY <1>2, <2>2
  <2>3. 1..(a - 1) \subseteq 1..a
      BY <1>2
  <2> QED BY <1>3, <2>1, <2>2, <2>3
<1>5. broken = {}
  <2>1. UndoneSteps(p, broken) = undone \ broken /\ broken \subseteq undone
      BY DEF UndoneSteps
  <2>2. ASSUME NEW k \in broken PROVE FALSE
    <3>1. /\ k \in 1..(a - 1) /\ k \in 1..NumActions(p) /\ k \notin UndoneSteps(p, broken)
        BY <1>2, <1>4, <2>1
    <3>2. rplan'[p].step[k] = rplan[p].step[k]
        BY <3>1, RollbackFacts
    <3> QED BY <1>3, <2>1, <3>1, <3>2
  <2> QED BY <2>2
<1>6. config'[h] = IF \E k \in undone : TargetAsset(p, k) = h
                   THEN Restored(p, CHOOSE k \in undone : TargetAsset(p, k) = h) ELSE config[h]
    BY <1>2, <1>5 DEF RollBackPlan
<1>7. CASE \E k \in undone : TargetAsset(p, k) = h
  <2>1. PICK k : k = CHOOSE n \in undone : TargetAsset(p, n) = h
      OBVIOUS
  <2>2. k \in undone /\ TargetAsset(p, k) = h
      BY <1>7, <2>1
  <2>3. rplan[p].before[k] = rplan[p].was[h]
      BY <1>3, <1>4, <2>2
  <2>4. rplan[p].was[h] # "none"
      BY <1>2 DEF Config
  <2> QED BY <1>6, <1>7, <2>1, <2>3, <2>4 DEF Restored
<1>8. CASE ~\E k \in undone : TargetAsset(p, k) = h
  <2>1. ASSUME NEW k \in 3..(a - 1), TargetAsset(p, k) = h PROVE FALSE
    <3>1. k \in Nat /\ k \in 1..(a - 1) /\ 3 \in 1..(a - 1)
        BY <1>2
    <3>2. CASE k <= NumActions(p) - 2
      <4>1. HasRollbackCommand(p, k)
          BY <1>2, <3>1, <3>2, TargetsApart
      <4> QED BY <1>4, <1>8, <2>1, <3>1, <4>1
    <3>3. CASE k > NumActions(p) - 2
      <4>1. TargetAsset(p, 3) = h /\ HasRollbackCommand(p, 3)
          BY <1>2, <2>1, <3>1, <3>3, TargetsApart
      <4> QED BY <1>4, <1>8, <3>1, <4>1
    <3> QED BY <1>2, <3>1, <3>2, <3>3
  <2> QED BY <1>3, <1>6, <1>8, <2>1
<1> QED BY <1>7, <1>8

\* A rollback without failures puts the plan's assets back to what they were,
\* unless a step took over the result of an earlier execution (rollback_plan).
THEOREM RollbackPutsAssetsBack == ResponseSpec => RollbackRestores
<1> DEFINE Restores ==
      \A p \in DOMAIN rplan :
        /\ rplan[p].phase = "undo" /\ rplan'[p].phase = "idle"
        /\ ~rplan[p].reused
        /\ \A k \in UndoneSteps(p, {}) : rplan'[p].step[k] = "ROLLED_BACK"
        => \A h \in AssetSet(p) : config'[h] = rplan[p].was[h]
<1>1. ResponseInv /\ [ResponseNext]_responseVars => Restores
    BY UndoEndsByRollback, RollbackPutsBack
<1>2. ResponseInv /\ [ResponseNext]_responseVars => [Restores]_responseVars
    BY <1>1
<1> QED BY <1>2, ResponseSafe, PTL DEF ResponseSpec, RollbackRestores
=============================================================================
