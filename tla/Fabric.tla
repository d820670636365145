------------------------------- MODULE Fabric -------------------------------
(***************************************************************************)
(* The core of the distributed AI fabric: node registry, health manager,   *)
(* scheduler bookkeeping and durable job queue, as they share one process  *)
(* (phase_34_distributed_ai_fabric.py wires the singletons together).      *)
(*                                                                         *)
(* Granularity.  A handler that runs to its end without calling another    *)
(* component is one action.  Three activities span several actions,        *)
(* because other work can be done in the middle of them: a placement       *)
(* decision and the create_job call that uses it; one pass of the failure  *)
(* scanner, which visits the nodes in order and runs each failover before  *)
(* it goes on; and handle_node_failure, which snapshots the affected jobs  *)
(* and then moves them one by one.  With Threads = FALSE nothing else runs *)
(* in between (the CLI, the demos, the tests); with Threads = TRUE other   *)
(* requests do, as FastAPI runs plain "def" endpoints in a thread pool and *)
(* the singletons have no lock.                                            *)
(*                                                                         *)
(* Bounds: MaxJobs jobs are ever created, MaxCkpts checkpoints saved per   *)
(* job, and a node has at most one failover in flight.                     *)
(***************************************************************************)
EXTENDS FabricScheduler

CONSTANTS
  Threads,      \* may other requests run inside a multi-step activity?
  SeedTrust,    \* trust of each node when the registry is seeded
  Requests,     \* workloads that callers submit
  Priorities,   \* priorities that callers submit them with
  Reports,      \* statuses that workers report in heartbeats
  VramReports,  \* VRAM levels that workers report
  SystemUser,   \* the default caller_id, "system-user"
  MaxRetries,   \* max_retries of a job
  MaxJobs,
  MaxCkpts

ASSUME FabricCoreAssumption ==
  /\ Threads \in BOOLEAN
  /\ SeedTrust \in [Node -> NodeTrust]
  /\ Requests \subseteq Work
  /\ Priorities \subseteq WorkloadPriority
  /\ Reports \subseteq NodeStatus
  /\ VramReports \subseteq Vram
  /\ SystemUser \in User
  /\ MaxRetries \in Nat
  /\ MaxJobs \in Nat
  /\ MaxCkpts \in Nat

VARIABLES
  node,       \* NodeRegistry._nodes: status, trust and vitals of each node
  job,        \* JobQueueManager._jobs, in creation order
  userJobs,   \* WorkloadScheduler._user_active_jobs
  offers,     \* decisions returned by schedule() whose create_job is to come
  affected,   \* affected[n]: jobs that the failover of n has still to handle
  scanAt      \* node the failure scanner looks at next, 0 when it is not running

vars == <<node, job, userJobs, offers, affected, scanAt>>

JobState ==
  {"QUEUED", "ASSIGNED", "RUNNING", "CHECKPOINTED", "COMPLETED", "FAILED",
   "FAILOVER_PENDING", "RETRYING"}

Final == {"COMPLETED", "FAILED"}

\* failover_history keeps where each failover took the job from and to;
\* owner is the caller_id the creator used, which the record does not keep.
Hop == [from : Node, to : Node]
JobRecord ==
  [work : Work, initial : Node, node : Node, state : JobState, retries : Nat,
   ckpts : Nat, hist : Seq(Hop), owner : User]

Offer == [user : User, node : Node, work : Work]

TypeOK ==
  /\ node \in [Node -> NodeRecord]
  /\ job \in Seq(JobRecord)
  /\ userJobs \in [User -> Nat]
  /\ offers \subseteq Offer
  /\ affected \in [Node -> SUBSET DOMAIN job]
  /\ scanAt \in 0 .. N

Live(j) == job[j].state \notin Final
LiveOn(n) == {j \in DOMAIN job : job[j].node = n /\ Live(j)}

Idle == offers = {} /\ scanAt = 0 /\ \A n \in Node : affected[n] = {}

\* A new handler may start.
MayStart == Threads \/ Idle

-----------------------------------------------------------------------------
(* Slot bookkeeping of the scheduler: allocate_job and release_job.        *)

Allocated(nodes, n) == [nodes EXCEPT ![n].active = @ + 1]
ReleasedUnguarded(nodes, n) == [nodes EXCEPT ![n].active = @ - 1]
Released(nodes, n) ==
  [nodes EXCEPT ![n].active = IF @ > 0 THEN @ - 1 ELSE @]
Charged(counts, u) == [counts EXCEPT ![u] = @ + 1]
Refunded(counts, u) == [counts EXCEPT ![u] = IF @ > 0 THEN @ - 1 ELSE @]

-----------------------------------------------------------------------------
Init ==
  /\ node = [n \in Node |->
       [status |-> IF SeedTrust[n] = "QUARANTINED" THEN "QUARANTINED"
                   ELSE "HEALTHY",
        trust |-> SeedTrust[n], active |-> 0, vram |-> "ample", age |-> 0]]
  /\ job = <<>>
  /\ userJobs = [u \in User |-> 0]
  /\ offers = {}
  /\ affected = [n \in Node |-> {}]
  /\ scanAt = 0

\* A caller asks for a placement and is given one of the possible nodes.  A
\* denied request changes nothing.
Schedule(u, w, prio) ==
  /\ MayStart
  /\ Len(job) + Cardinality(offers) < MaxJobs
  /\ \A o \in offers : o.user # u
  /\ \E n \in Placements(node, userJobs[u], w, prio) :
       offers' = offers \cup {[user |-> u, node |-> n, work |-> w]}
  /\ UNCHANGED <<node, job, userJobs, affected, scanAt>>

NewJob(o) ==
  [work |-> o.work, initial |-> o.node, node |-> o.node, state |-> "ASSIGNED",
   retries |-> 0, ckpts |-> 0, hist |-> <<>>, owner |-> o.user]

\* The caller registers the job on the node it was given, whatever has become
\* of that node.
CreateJob(o) ==
  /\ offers' = offers \ {o}
  /\ job' = Append(job, NewJob(o))
  /\ node' = Allocated(node, o.node)
  /\ userJobs' = Charged(userJobs, o.user)
  /\ UNCHANGED <<affected, scanAt>>

\* None of the three updates below looks at the state the job is in.
CheckpointJob(j) ==
  /\ MayStart
  /\ job[j].ckpts < MaxCkpts
  /\ job' = [job EXCEPT ![j].ckpts = @ + 1, ![j].state = "CHECKPOINTED"]
  /\ UNCHANGED <<node, userJobs, offers, affected, scanAt>>

EndJob(j, final) ==
  /\ MayStart
  /\ job' = [job EXCEPT ![j].state = final]
  /\ node' = Released(node, job[j].node)
  /\ userJobs' = Refunded(userJobs, job[j].owner)
  /\ UNCHANGED <<offers, affected, scanAt>>

CompleteJob(j) == EndJob(j, "COMPLETED")
FailJob(j) == EndJob(j, "FAILED")

-----------------------------------------------------------------------------
(* Heartbeats and the failure scanner (fabric/health.py).                  *)

\* Time passes without a heartbeat; a scan is short beside the thresholds.
Tick ==
  /\ MayStart
  /\ scanAt = 0
  /\ \E n \in Node : node[n].age < 2
  /\ node' = [n \in Node |->
       [node[n] EXCEPT !.age = IF @ < 2 THEN @ + 1 ELSE 2]]
  /\ UNCHANGED <<job, userJobs, offers, affected, scanAt>>

QuarantinedByStatus(r) == r.status = "QUARANTINED"
Quarantined(r) == r.status = "QUARANTINED" \/ r.trust = "QUARANTINED"

\* A quarantined node is only seen; its payload is ignored.
HeartbeatIgnored(n) ==
  /\ MayStart
  /\ Quarantined(node[n])
  /\ node' = [node EXCEPT ![n].age = 0]
  /\ UNCHANGED <<job, userJobs, offers, affected, scanAt>>

\* The status a heartbeat leaves: saturation degrades, an outage is over
\* (RECOVERING is only announced), and otherwise the worker's word is taken.
StatusAfter(old, reported, v) ==
  IF v = "full" THEN "DEGRADED"
  ELSE IF old \in {"UNAVAILABLE", "DEGRADED"} THEN "HEALTHY"
  ELSE reported

\* The worker's count of active jobs replaces the scheduler's.  A worker
\* reports at most the jobs it has.
Heartbeat(n, reported, v, load) ==
  /\ MayStart
  /\ ~Quarantined(node[n])
  /\ load <= Cardinality(LiveOn(n))
  /\ node' = [node EXCEPT ![n] =
       [status |-> StatusAfter(@.status, reported, v), trust |-> @.trust,
        active |-> load, vram |-> v, age |-> 0]]
  /\ UNCHANGED <<job, userJobs, offers, affected, scanAt>>

\* The jobs handle_node_failure sets out to move.
AffectedByNotRunning(n) ==
  {j \in DOMAIN job : job[j].node = n /\ job[j].state \in {"ASSIGNED", "CHECKPOINTED"}}
AffectedAnyState(n) == {j \in DOMAIN job : job[j].node = n}
AffectedBy(n) ==
  {j \in DOMAIN job :
     job[j].node = n /\ job[j].state \in {"ASSIGNED", "RUNNING", "CHECKPOINTED"}}

\* Both callers take the node out of service before the failover starts.
MarkedNotAtAll(n) == node
MarkedUnavailable(n) == [node EXCEPT ![n].status = "UNAVAILABLE"]

\* handle_node_failure begins: the jobs to move are chosen once.
BeginFailover(n) ==
  /\ affected[n] = {}
  /\ node' = MarkedUnavailable(n)
  /\ affected' = [affected EXCEPT ![n] = AffectedBy(n)]

ScanStart ==
  /\ MayStart
  /\ scanAt = 0
  /\ N > 0
  /\ scanAt' = 1
  /\ UNCHANGED <<node, job, userJobs, offers, affected>>

\* The listener runs inside the loop, so the next node waits for it.
ScanReady(n) ==
  /\ scanAt = n
  /\ n > 1 => affected[n - 1] = {}
  /\ scanAt' = IF n = N THEN 0 ELSE n + 1
  /\ UNCHANGED <<job, userJobs, offers>>

Overdue(r) == r.status \notin {"QUARANTINED", "UNAVAILABLE"} /\ r.age = 2
Late(r) == r.status = "HEALTHY" /\ r.age = 1

ScanUnavailable(n) ==
  /\ ScanReady(n)
  /\ Overdue(node[n])
  /\ BeginFailover(n)

ScanDegraded(n) ==
  /\ ScanReady(n)
  /\ Late(node[n])
  /\ node' = [node EXCEPT ![n].status = "DEGRADED"]
  /\ UNCHANGED affected

ScanPass(n) ==
  /\ ScanReady(n)
  /\ ~Overdue(node[n])
  /\ ~Late(node[n])
  /\ UNCHANGED <<node, affected>>

\* POST /api/v1/fabric/jobs/failover: the status is set whatever it was.
TriggerFailover(n) ==
  /\ MayStart
  /\ BeginFailover(n)
  /\ UNCHANGED <<job, userJobs, offers, scanAt>>

\* NodeRegistry.quarantine_node.
QuarantineNode(n) ==
  /\ MayStart
  /\ node' = [node EXCEPT ![n].status = "QUARANTINED", ![n].trust = "QUARANTINED"]
  /\ UNCHANGED <<job, userJobs, offers, affected, scanAt>>

-----------------------------------------------------------------------------
(* One iteration of the loop of handle_node_failure, over the oldest job   *)
(* left.  The slot released is the failed node's and the default caller's, *)
(* and the job is taken as it is now, wherever it may have gone since.     *)

FreedNothing(n) == node
FreedNodes(n) == Released(node, n)
FreedUsers == Refunded(userJobs, SystemUser)

NextAffected(n, j) ==
  /\ j \in affected[n]
  /\ \A k \in affected[n] : j <= k
  /\ affected' = [affected EXCEPT ![n] = @ \ {j}]
  /\ UNCHANGED <<offers, scanAt>>

BudgetOffByOne(j) == job[j].retries <= MaxRetries
BudgetLeft(j) == job[j].retries < MaxRetries

\* The retry budget is spent.
FailoverExhausted(n, j) ==
  /\ NextAffected(n, j)
  /\ ~BudgetLeft(j)
  /\ job' = [job EXCEPT ![j].state = "FAILED"]
  /\ node' = FreedNodes(n)
  /\ userJobs' = FreedUsers

ReplacementsAsInternal(n, j) ==
  Placements(FreedNodes(n), FreedUsers[SystemUser],
             [job[j].work EXCEPT !.cls = "INTERNAL"], "CRITICAL")

\* Where the job may be restarted: failover schedules it as CRITICAL.
Replacements(n, j) ==
  Placements(FreedNodes(n), FreedUsers[SystemUser], job[j].work, "CRITICAL")

FailoverLeftPending(n, j) ==
  /\ NextAffected(n, j)
  /\ BudgetLeft(j)
  /\ Replacements(n, j) = {}
  /\ job' = [job EXCEPT ![j].state = "FAILOVER_PENDING", ![j].retries = @ + 1]
  /\ node' = FreedNodes(n)
  /\ userJobs' = FreedUsers

FailoverUnplaced(n, j) ==
  /\ NextAffected(n, j)
  /\ BudgetLeft(j)
  /\ Replacements(n, j) = {}
  /\ job' = [job EXCEPT ![j].state = "FAILED", ![j].retries = @ + 1]
  /\ node' = FreedNodes(n)
  /\ userJobs' = FreedUsers

FailoverRecord(n, j, m) == [from |-> n, to |-> m]

FailoverMoved(n, j, m) ==
  /\ NextAffected(n, j)
  /\ BudgetLeft(j)
  /\ m \in Replacements(n, j)
  /\ job' = [job EXCEPT ![j].state = "RUNNING", ![j].retries = @ + 1,
                        ![j].node = m,
                        ![j].hist = Append(@, FailoverRecord(n, j, m))]
  /\ node' = Allocated(FreedNodes(n), m)
  /\ userJobs' = Charged(FreedUsers, SystemUser)

FailoverStep(n) ==
  \E j \in affected[n] :
    \/ FailoverExhausted(n, j)
    \/ FailoverUnplaced(n, j)
    \/ \E m \in Node : FailoverMoved(n, j, m)

-----------------------------------------------------------------------------
JobUpdate(j) == CheckpointJob(j) \/ CompleteJob(j) \/ FailJob(j)

Scan == ScanStart \/ \E n \in Node : ScanUnavailable(n) \/ ScanDegraded(n) \/ ScanPass(n)

\* What happens to the nodes, and to the jobs when a node fails.
Fleet ==
  \/ Tick
  \/ \E n \in Node :
       \/ HeartbeatIgnored(n)
       \/ \E s \in Reports, v \in VramReports, load \in 0 .. MaxJobs :
            Heartbeat(n, s, v, load)
       \/ TriggerFailover(n)
       \/ QuarantineNode(n)
       \/ FailoverStep(n)
  \/ Scan

Next ==
  \/ \E u \in User, w \in Requests, p \in Priorities : Schedule(u, w, p)
  \/ \E o \in offers : CreateJob(o)
  \/ \E j \in DOMAIN job : JobUpdate(j)
  \/ Fleet

Spec == Init /\ [][Next]_vars

\* A call that has begun is carried to its end.
FairSpec == Spec /\ \A n \in Node : WF_vars(FailoverStep(n))
=============================================================================
