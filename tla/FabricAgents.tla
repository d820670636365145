---------------------------- MODULE FabricAgents ----------------------------
(***************************************************************************)
(* Agent runs on top of the fabric core (fabric/distributed_agents.py).    *)
(* The orchestrator keeps its own record of a run, with a node of its own, *)
(* beside the job the queue fails over.                                    *)
(***************************************************************************)
EXTENDS Fabric

CONSTANT PlanSteps   \* steps of an agent's plan

ASSUME AgentAssumption == PlanSteps \in Nat \ {0}

VARIABLE runs   \* DistributedAgentOrchestrator._active_agent_runs

AgentInit == Init /\ runs = <<>>

\* What the job remembers of the request: create_job is called without the
\* classification, the model and the zones, and records its defaults.
JobWork(w) == [w EXCEPT !.cls = "INTERNAL", !.model = FALSE, !.zones = {}]

\* dispatch_agent_task schedules with priority HIGH, registers the job and
\* opens the run.
Dispatch(w) ==
  /\ MayStart
  /\ Len(job) < MaxJobs
  /\ \E n \in Placements(node, userJobs[SystemUser], w, "HIGH") :
       /\ job' = Append(job, NewJob([user |-> SystemUser, node |-> n, work |-> JobWork(w)]))
       /\ node' = Allocated(node, n)
       /\ runs' = Append(runs, [job |-> Len(job) + 1, asked |-> w.cls, node |-> n,
                                step |-> 0, done |-> FALSE])
  /\ userJobs' = Charged(userJobs, SystemUser)
  /\ UNCHANGED <<offers, affected, scanAt>>

\* execute_agent_step within the plan: the step, its checkpoint, and after
\* the last step the completion of the job.
AgentStep(r) ==
  LET j == runs[r].job
      last == runs[r].step + 1 = PlanSteps
  IN  /\ MayStart
      /\ runs[r].step < PlanSteps
      /\ runs' = [runs EXCEPT ![r].step = @ + 1, ![r].done = @ \/ last]
      /\ job' = [job EXCEPT ![j].ckpts = @ + 1,
                            ![j].state = IF last THEN "COMPLETED" ELSE "CHECKPOINTED"]
      /\ node' = IF last THEN Released(node, job[j].node) ELSE node
      /\ userJobs' = IF last THEN Refunded(userJobs, SystemUser) ELSE userJobs
      /\ UNCHANGED <<offers, affected, scanAt>>

\* execute_agent_step past the end completes the job once more.
AgentStepPastEnd(r) ==
  /\ MayStart
  /\ runs[r].step = PlanSteps
  /\ runs' = [runs EXCEPT ![r].done = TRUE]
  /\ job' = [job EXCEPT ![runs[r].job].state = "COMPLETED"]
  /\ node' = Released(node, job[runs[r].job].node)
  /\ userJobs' = Refunded(userJobs, SystemUser)
  /\ UNCHANGED <<offers, affected, scanAt>>

MigratedFromScratch(run, m) == [run EXCEPT !.node = m, !.step = 0]
Migrated(run, m) == [run EXCEPT !.node = m]

\* migrate_agent_task changes the run's node and not the job's.
Migrate(r, m) ==
  /\ MayStart
  /\ runs' = [runs EXCEPT ![r] = Migrated(@, m)]
  /\ UNCHANGED vars

AgentNext ==
  \/ \E w \in Requests : Dispatch(w)
  \/ \E r \in DOMAIN runs :
       \/ AgentStep(r)
       \/ AgentStepPastEnd(r)
       \/ \E m \in Node : Migrate(r, m)
  \/ Fleet /\ UNCHANGED runs

agentVars == <<vars, runs>>

AgentSpec == AgentInit /\ [][AgentNext]_agentVars

-----------------------------------------------------------------------------
\* Each step a run has executed left exactly one checkpoint in its job,
\* whatever migrations and failovers came between, so that a resumed run
\* neither skips nor repeats a step.
CheckpointPerStep ==
  \A r \in DOMAIN runs : job[runs[r].job].ckpts = runs[r].step

\* A run that has finished keeps its job completed: no later failover of the
\* node it ran on takes the job up again.
FinishedStaysFinished ==
  \A r \in DOMAIN runs : runs[r].done => job[runs[r].job].state = "COMPLETED"

\* "RESTRICTED and TOP_SECRET data strictly confined to RESTRICTED_AI
\* sovereign zones": the job of a run is on a node whose zone admits the
\* classification the task was dispatched with.
AgentsConfined ==
  \A r \in DOMAIN runs :
    ZoneAdmits([job[runs[r].job].work EXCEPT !.cls = runs[r].asked],
               ZoneOf[job[runs[r].job].node])
=============================================================================
