---------------------------- MODULE MCOperations ----------------------------
(***************************************************************************)
(* Small instances of the autonomous operations plane (phase 35), of       *)
(* incident response (phase 24) and of security validation (phase 26).     *)
(* The components share no variable within one request, so a behaviour     *)
(* follows one of them, chosen at the start from Foci, and the others stay *)
(* as they begin.  The action types are one of each kind: automatic with   *)
(* and without handler, on a worker or not, needing approval, forbidden.   *)
(***************************************************************************)
EXTENDS ActionPlans, DurableWorkflow, QueueControl, IncidentResponse, CyberRange,
  FiniteSets, TLC

CONSTANTS h1, h2, w1, w2

MCWorker == {"NODE-001"}
MCStart == [w \in MCWorker |-> "HEALTHY"]
MCProposed ==
  {"mark_worker_unhealthy", "quarantine_worker", "evict_idle_cache",
   "disable_audit_logging"}
MCOnWorkers == {"mark_worker_unhealthy", "quarantine_worker"}
MCMode == "RECOMMEND_AND_APPROVE"
MCUsers == {"u1", "u2"}
MCModels == {"m1"}
MCOffered == {1, 3, 5}
MCHosts == {h1, h2}
MCAssetLists == {<<h1>>, <<h1, h2>>}
MCStartConfig == (h1 :> "legacy") @@ (h2 :> "modern")

MCScenarios == {"s1", "s2"}
MCRanges == {"A", "B"}
MCThreads == {w1, w2}
MCHome == [s \in MCScenarios |-> "A"]
MCCampaign == <<"s1", "s2">>

FailedCalls ==
  {ik \in (1..2) \X (1..6) :
     /\ ik[1] \in DOMAIN outcome /\ ik[2] \in DOMAIN outcome[ik[1]]
     /\ outcome[ik[1]][ik[2]] = "FAILED"}

\* Analysts are followed with one incident and at most one plan, two plans
\* without analysts; one connector call fails, two when only one incident is
\* followed.  One queued item at a time
\* is cancelled or expired.  Gaps are simulated by a
\* scenario run alone, gaps moved by their teams without stops, and three
\* scenarios run when two of them are the campaign.
MCBound ==
  /\ moves > 0 => Len(incident) = 1 /\ Len(rplan) <= 1
  /\ Cardinality(FailedCalls) <= (IF Len(incident) = 1 /\ moves = 0 THEN 2 ELSE 1)
  /\ Cardinality(cancelled \cup expired) <= 1
  /\ \A w \in Workers : job[w].sim # "nothing" => used.runs = 1
  /\ used.stops > 0 => used.moves = 0
  /\ used.runs > 2 => campaign # "DRAFT"

\* The components that runs follow.
CONSTANT Foci
MCFoci == {"plans", "workflow", "queue", "response", "validation"}
MCResponse == {"response"}

VARIABLE focus

MCVars == <<focus, vars, wfVars, queueVars, responseVars, cyberVars>>

MCInit ==
  /\ Init /\ WorkflowInit /\ QueueInit /\ ResponseInit
  /\ CyberInit
  /\ focus \in Foci
  /\ focus # "workflow" => ~sensitive

MCNext ==
  /\ UNCHANGED focus
  /\ \/ focus = "plans" /\ Next
        /\ UNCHANGED <<wfVars, queueVars, responseVars, cyberVars>>
     \/ focus = "workflow" /\ WorkflowNext
        /\ UNCHANGED <<vars, queueVars, responseVars, cyberVars>>
     \/ focus = "queue" /\ QueueNext
        /\ UNCHANGED <<vars, wfVars, responseVars, cyberVars>>
     \/ focus = "response" /\ ResponseNext
        /\ UNCHANGED <<vars, wfVars, queueVars, cyberVars>>
     \/ focus = "validation" /\ CyberNext
        /\ UNCHANGED <<vars, wfVars, queueVars, responseVars>>

\* Fairness of the component that the behaviour follows.
MCSpec ==
  /\ MCInit /\ [][MCNext]_MCVars
  /\ WF_MCVars(/\ focus = "workflow" /\ ExecuteNextStep
               /\ UNCHANGED <<focus, vars, queueVars, responseVars, cyberVars>>)
  /\ WF_MCVars(/\ focus = "queue" /\ Dequeue
               /\ UNCHANGED <<focus, vars, wfVars, responseVars, cyberVars>>)
  /\ \A w \in Workers :
       WF_MCVars(/\ focus = "validation" /\ WorkerStep(w)
                 /\ UNCHANGED <<focus, vars, wfVars, queueVars, responseVars>>)
=============================================================================
