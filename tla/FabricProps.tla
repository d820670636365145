----------------------------- MODULE FabricProps -----------------------------
(***************************************************************************)
(* What the fabric core should guarantee, stated about module Fabric.      *)
(***************************************************************************)
EXTENDS Fabric

\* Sovereign confinement: a job is only ever on a node whose zone admits the
\* data classification and the zones recorded for it, from creation through
\* every failover (stage 4 of schedule(), and the fields create_job records
\* so that handle_node_failure can ask for them again).
SovereignConfinement ==
  \A j \in DOMAIN job : ZoneAdmits(job[j].work, ZoneOf[job[j].node])

\* A placement decision not yet used names a node that admits the data: zones
\* never change, so it does so still when the job is created.
OffersAdmitted == \A o \in offers : ZoneAdmits(o.work, ZoneOf[o.node])

\* Retry budget: no sequence of failovers, of one node or of several, takes a
\* job past max_retries, and each recorded move used up a retry.
RetryBudget ==
  \A j \in DOMAIN job :
    /\ job[j].retries <= MaxRetries
    /\ Len(job[j].hist) <= job[j].retries

\* A node quarantined in the registry stays out of service: heartbeats, scans
\* and manual failovers may at most make it UNAVAILABLE.
QuarantineIsPermanent ==
  \A n \in Node :
    node[n].trust = "QUARANTINED" => node[n].status \in {"QUARANTINED", "UNAVAILABLE"}

\* The jobs whose place changes in a step, or that appear in it.
Placed(j) == j \notin DOMAIN job \/ job'[j].node # job[j].node

\* "Quarantined nodes receive 0 work": no step puts a job on a node whose
\* status or trust is QUARANTINED.
QuarantinedGetNoWork ==
  [][\A j \in DOMAIN job' : Placed(j) => ~Quarantined(node[job'[j].node])]_vars

\* Failover never hands a job back to the node it is recovering it from.
NeverBackToFailedNode ==
  \A j \in DOMAIN job : \A k \in DOMAIN job[j].hist :
    job[j].hist[k].from # job[j].hist[k].to

\* When the failover of a node ends, no job is left active on it.
FailoverEmptiesNode ==
  [][\A n \in Node : affected[n] # {} /\ affected'[n] = {} => LiveOn(n)' = {}]_vars

\* A node is never charged for more jobs than are active on it, so capacity
\* that failover, completion or failure frees is not lost to the scheduler.
NoPhantomSlots == \A n \in Node : node[n].active <= Cardinality(LiveOn(n))

\* A failover that has begun deals with every job it set out to move: each
\* ends up elsewhere or in a final state.
FailoverCompletes ==
  \A n \in Node, j \in 1 .. MaxJobs :
    (j \in affected[n]) ~> (j \notin LiveOn(n))
=============================================================================
