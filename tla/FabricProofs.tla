---------------------------- MODULE FabricProofs ----------------------------
(***************************************************************************)
(* Safety of the fabric core for every number of nodes, jobs and users,    *)
(* whether or not requests are interleaved.  The inductive invariant is    *)
(* FabricInv; each of its conjuncts is kept by every action.               *)
(*                                                                         *)
(* The last part is about agent runs and their jobs, for every number of   *)
(* nodes, jobs and steps of a plan.                                        *)
(***************************************************************************)
EXTENDS FabricProps, FabricAgents, FiniteSetTheorems, SequenceTheorems, TLAPS

FabricInv ==
  /\ TypeOK
  /\ SovereignConfinement
  /\ OffersAdmitted
  /\ RetryBudget
  /\ QuarantineIsPermanent

\* What the record of one job owes the invariant.
JobOK(r) ==
  /\ ZoneAdmits(r.work, ZoneOf[r.node])
  /\ r.retries <= MaxRetries
  /\ Len(r.hist) <= r.retries

\* Replacing one record of the queue keeps its type and its other records.
LEMMA JobReplaced ==
  ASSUME NEW q \in Seq(JobRecord), NEW j \in DOMAIN q, NEW r \in JobRecord
  PROVE  /\ [q EXCEPT ![j] = r] \in Seq(JobRecord)
         /\ DOMAIN [q EXCEPT ![j] = r] = DOMAIN q
         /\ \A k \in DOMAIN q : [q EXCEPT ![j] = r][k] = IF k = j THEN r ELSE q[k]
BY ExceptSeq, LenProperties

\* Appending a record keeps the type of the queue and its other records.
LEMMA JobAppended ==
  ASSUME NEW q \in Seq(JobRecord), NEW r \in JobRecord
  PROVE  /\ Append(q, r) \in Seq(JobRecord)
         /\ DOMAIN q \subseteq DOMAIN Append(q, r)
         /\ \A k \in DOMAIN Append(q, r) :
              Append(q, r)[k] = IF k \in DOMAIN q THEN q[k] ELSE r
OBVIOUS

\* The job invariants say that every record is in order.
LEMMA JobsOK ==
  SovereignConfinement /\ RetryBudget <=> \A j \in DOMAIN job : JobOK(job[j])
BY DEF SovereignConfinement, RetryBudget, JobOK

\* Slot bookkeeping keeps types and leaves status and trust alone.
LEMMA SlotTypes ==
  ASSUME NEW nodes \in [Node -> NodeRecord], NEW n \in Node
  PROVE  /\ Allocated(nodes, n) \in [Node -> NodeRecord]
         /\ Released(nodes, n) \in [Node -> NodeRecord]
         /\ \A m \in Node : /\ Allocated(nodes, n)[m].status = nodes[m].status
                            /\ Allocated(nodes, n)[m].trust = nodes[m].trust
                            /\ Released(nodes, n)[m].status = nodes[m].status
                            /\ Released(nodes, n)[m].trust = nodes[m].trust
BY DEF Allocated, Released, NodeRecord

LEMMA CountTypes ==
  ASSUME NEW counts \in [User -> Nat], NEW u \in User
  PROVE  /\ Charged(counts, u) \in [User -> Nat]
         /\ Refunded(counts, u) \in [User -> Nat]
BY DEF Charged, Refunded

\* A step that replaces one record by a good one keeps the job invariants.
LEMMA JobStep ==
  ASSUME FabricInv, NEW j \in DOMAIN job, NEW r \in JobRecord, JobOK(r),
         job' = [job EXCEPT ![j] = r]
  PROVE  /\ job' \in Seq(JobRecord)
         /\ DOMAIN job' = DOMAIN job
         /\ SovereignConfinement'
         /\ RetryBudget'
<1>1. job \in Seq(JobRecord)
  BY DEF FabricInv, TypeOK
<1>2. /\ job' \in Seq(JobRecord)
      /\ DOMAIN job' = DOMAIN job
      /\ \A k \in DOMAIN job : job'[k] = IF k = j THEN r ELSE job[k]
  BY <1>1, JobReplaced
<1>3. \A k \in DOMAIN job : JobOK(job[k])
  BY JobsOK DEF FabricInv
<1>4. \A k \in DOMAIN job' : JobOK(job'[k])
  BY <1>2, <1>3
<1>5. QED
  BY <1>2, <1>4 DEF SovereignConfinement, RetryBudget, JobOK

\* A record of the queue, by its fields.
LEMMA JobFields ==
  ASSUME TypeOK, NEW j \in DOMAIN job
  PROVE  /\ job[j] \in JobRecord
         /\ job[j].work \in Work
         /\ job[j].node \in Node
         /\ job[j].owner \in User
         /\ job[j].retries \in Nat
         /\ job[j].hist \in Seq(Hop)
<1>1. job \in Seq(JobRecord)
  BY DEF TypeOK
<1>2. job[j] \in JobRecord
  BY <1>1, ElementOfSeq, LenProperties
<1>3. QED
  BY <1>2 DEF JobRecord

LEMMA FabricInitial == Init => FabricInv
<1> SUFFICES ASSUME Init PROVE FabricInv
  OBVIOUS
<1>1. node \in [Node -> NodeRecord]
  BY FabricCoreAssumption DEF Init, NodeRecord, NodeStatus, NodeTrust, Vram
<1>2. job \in Seq(JobRecord) /\ DOMAIN job = {}
  BY EmptySeq DEF Init
<1>3. TypeOK
  BY <1>1, <1>2, FabricAssumption DEF Init, TypeOK, Offer
<1>4. SovereignConfinement /\ RetryBudget /\ OffersAdmitted
  BY <1>2 DEF Init, SovereignConfinement, RetryBudget, OffersAdmitted
<1>5. QuarantineIsPermanent
  BY FabricCoreAssumption DEF Init, QuarantineIsPermanent
<1>6. QED
  BY <1>3, <1>4, <1>5 DEF FabricInv

LEMMA ScheduleStep ==
  ASSUME FabricInv, NEW u \in User, NEW w \in Requests, NEW p \in Priorities,
         Schedule(u, w, p)
  PROVE  FabricInv'
<1>1. PICK n \in Placements(node, userJobs[u], w, p) :
        offers' = offers \cup {[user |-> u, node |-> n, work |-> w]}
  BY DEF Schedule
<1>2. n \in Node /\ ZoneAdmits(w, ZoneOf[n])
  BY <1>1 DEF Placements, Eligible
<1>3. w \in Work
  BY FabricCoreAssumption
<1>4. offers' \subseteq Offer /\ OffersAdmitted'
  BY <1>1, <1>2, <1>3 DEF FabricInv, TypeOK, Offer, OffersAdmitted
<1>5. UNCHANGED <<node, job, userJobs, affected, scanAt>>
  BY DEF Schedule
<1>6. QED
  BY <1>4, <1>5 DEF FabricInv, TypeOK, SovereignConfinement, RetryBudget,
                    QuarantineIsPermanent

\* The record of a new job.
LEMMA NewJobRecord ==
  ASSUME NEW o \in Offer
  PROVE  /\ NewJob(o) \in JobRecord
         /\ NewJob(o).node = o.node
         /\ NewJob(o).state = "ASSIGNED"
         /\ NewJob(o).hist = <<>>
         /\ NewJob(o).work = o.work
         /\ NewJob(o).retries = 0
         /\ NewJob(o).ckpts = 0
<1>1. <<>> \in Seq(Hop)
  BY EmptySeq
<1>2. QED
  BY <1>1 DEF NewJob, JobRecord, JobState, Offer

\* A job that is appended to the queue on a node that admits its data.
LEMMA AppendStep ==
  ASSUME FabricInv, NEW o \in Offer, ZoneAdmits(o.work, ZoneOf[o.node]),
         job' = Append(job, NewJob(o)), node' = Allocated(node, o.node),
         userJobs' = Charged(userJobs, o.user), offers' \subseteq offers,
         UNCHANGED <<affected, scanAt>>
  PROVE  FabricInv'
<1>1. o.user \in User /\ o.node \in Node
  BY DEF Offer
<1>2. NewJob(o) \in JobRecord /\ JobOK(NewJob(o))
  BY NewJobRecord, FabricCoreAssumption DEF JobOK
<1>3. /\ job' \in Seq(JobRecord)
      /\ DOMAIN job \subseteq DOMAIN job'
      /\ \A k \in DOMAIN job' :
           job'[k] = IF k \in DOMAIN job THEN job[k] ELSE NewJob(o)
  BY <1>2, JobAppended DEF FabricInv, TypeOK
<1>4. \A k \in DOMAIN job' : JobOK(job'[k])
  BY <1>2, <1>3, JobsOK DEF FabricInv
<1>5. SovereignConfinement' /\ RetryBudget'
  BY <1>4 DEF SovereignConfinement, RetryBudget, JobOK
<1>6. /\ node' \in [Node -> NodeRecord]
      /\ QuarantineIsPermanent'
  BY <1>1, SlotTypes DEF FabricInv, TypeOK, QuarantineIsPermanent
<1>7. userJobs' \in [User -> Nat]
  BY <1>1, CountTypes DEF FabricInv, TypeOK
<1>8. /\ offers' \subseteq Offer
      /\ OffersAdmitted'
      /\ affected' \in [Node -> SUBSET DOMAIN job']
      /\ scanAt' \in 0 .. N
  BY <1>3 DEF FabricInv, TypeOK, OffersAdmitted
<1>9. QED
  BY <1>3, <1>5, <1>6, <1>7, <1>8 DEF FabricInv, TypeOK

LEMMA CreateJobStep ==
  ASSUME FabricInv, NEW o \in offers, CreateJob(o)
  PROVE  FabricInv'
<1>1. o \in Offer /\ ZoneAdmits(o.work, ZoneOf[o.node])
  BY DEF FabricInv, TypeOK, OffersAdmitted
<1>2. QED
  BY <1>1, AppendStep DEF CreateJob

\* A step that rewrites one record and may release a slot of its node.
LEMMA RewriteStep ==
  ASSUME FabricInv, NEW j \in DOMAIN job, NEW r \in JobRecord, JobOK(r),
         job' = [job EXCEPT ![j] = r],
         NEW p \in Node, node' \in {node, Released(node, p)},
         NEW u \in User, userJobs' \in {userJobs, Refunded(userJobs, u)},
         UNCHANGED <<offers, affected, scanAt>>
  PROVE  FabricInv'
<1>1. /\ job' \in Seq(JobRecord) /\ DOMAIN job' = DOMAIN job
      /\ SovereignConfinement' /\ RetryBudget'
  BY JobStep
<1>2. node' \in [Node -> NodeRecord] /\ QuarantineIsPermanent'
  <2>1. node \in [Node -> NodeRecord] /\ QuarantineIsPermanent
    BY DEF FabricInv, TypeOK
  <2>2. CASE node' = node
    BY <2>1, <2>2 DEF QuarantineIsPermanent
  <2>3. CASE node' = Released(node, p)
    BY <2>1, <2>3, SlotTypes DEF QuarantineIsPermanent
  <2>4. QED
    BY <2>2, <2>3
<1>3. userJobs' \in [User -> Nat]
  BY CountTypes DEF FabricInv, TypeOK
<1>4. QED
  BY <1>1, <1>2, <1>3 DEF FabricInv, TypeOK, OffersAdmitted

LEMMA JobUpdateStep ==
  ASSUME FabricInv, NEW j \in DOMAIN job, JobUpdate(j)
  PROVE  FabricInv'
<1>1. TypeOK /\ job[j] \in JobRecord /\ JobOK(job[j]) /\ job[j].node \in Node
        /\ job[j].owner \in User
  BY JobFields, JobsOK DEF FabricInv
<1>2. CASE CheckpointJob(j)
  <2> DEFINE c == [job[j] EXCEPT !.ckpts = @ + 1]
             r == [c EXCEPT !.state = "CHECKPOINTED"]
  <2>1. r \in JobRecord /\ JobOK(r)
    <3>1. job[j].ckpts + 1 \in Nat
      BY <1>1 DEF JobRecord
    <3>2. c \in JobRecord
      BY <1>1, <3>1 DEF JobRecord
    <3>3. r \in JobRecord
      BY <3>2 DEF JobRecord, JobState
    <3>4. r.work = job[j].work /\ r.node = job[j].node
            /\ r.retries = job[j].retries /\ r.hist = job[j].hist
      BY <1>1 DEF JobRecord
    <3>5. QED
      BY <1>1, <3>3, <3>4 DEF JobOK
  <2>2. job' = [job EXCEPT ![j] = r]
    BY <1>2 DEF CheckpointJob
  <2>3. QED
    BY <1>1, <1>2, <2>1, <2>2, RewriteStep DEF CheckpointJob
<1>3. ASSUME NEW final \in {"COMPLETED", "FAILED"}, EndJob(j, final)
      PROVE  FabricInv'
  <2> DEFINE r == [job[j] EXCEPT !.state = final]
  <2>1. r \in JobRecord /\ JobOK(r)
    BY <1>1 DEF JobRecord, JobState, JobOK
  <2>2. job' = [job EXCEPT ![j] = r]
    BY <1>3 DEF EndJob
  <2>3. QED
    BY <1>1, <1>3, <2>1, <2>2, RewriteStep DEF EndJob
<1>4. QED
  BY <1>2, <1>3 DEF JobUpdate, CompleteJob, FailJob

\* A step that leaves jobs and decisions alone, and changes nodes so that a
\* quarantined one stays out of service, keeps the invariant.
LEMMA NodeStep ==
  ASSUME FabricInv,
         UNCHANGED <<job, userJobs, offers>>,
         node' \in [Node -> NodeRecord],
         \A n \in Node : node'[n].trust = "QUARANTINED" =>
           node'[n].status \in {"QUARANTINED", "UNAVAILABLE"},
         affected' \in [Node -> SUBSET DOMAIN job],
         scanAt' \in 0 .. N
  PROVE  FabricInv'
BY DEF FabricInv, TypeOK, SovereignConfinement, OffersAdmitted, RetryBudget,
       QuarantineIsPermanent

LEMMA HealthStep ==
  ASSUME FabricInv,
         \/ Tick
         \/ \E n \in Node :
              \/ HeartbeatIgnored(n)
              \/ \E s \in Reports, v \in VramReports, load \in 0 .. MaxJobs :
                   Heartbeat(n, s, v, load)
              \/ QuarantineNode(n)
  PROVE  FabricInv'
<1>1. /\ node \in [Node -> NodeRecord]
      /\ affected \in [Node -> SUBSET DOMAIN job]
      /\ scanAt \in 0 .. N
      /\ QuarantineIsPermanent
  BY DEF FabricInv, TypeOK
<1>2. CASE Tick
  <2>1. node' \in [Node -> NodeRecord]
    BY <1>1, <1>2 DEF Tick, NodeRecord
  <2>2. \A n \in Node : node'[n].status = node[n].status /\ node'[n].trust = node[n].trust
    BY <1>1, <1>2 DEF Tick, NodeRecord
  <2>3. QED
    BY <1>1, <1>2, <2>1, <2>2, NodeStep DEF Tick, QuarantineIsPermanent
<1>3. ASSUME NEW n \in Node, HeartbeatIgnored(n) PROVE FabricInv'
  <2>1. node' \in [Node -> NodeRecord]
    BY <1>1, <1>3 DEF HeartbeatIgnored, NodeRecord
  <2>2. \A m \in Node : node'[m].status = node[m].status /\ node'[m].trust = node[m].trust
    BY <1>1, <1>3 DEF HeartbeatIgnored, NodeRecord
  <2>3. QED
    BY <1>1, <1>3, <2>1, <2>2, NodeStep DEF HeartbeatIgnored, QuarantineIsPermanent
<1>4. ASSUME NEW n \in Node, NEW s \in Reports, NEW v \in VramReports,
             NEW load \in 0 .. MaxJobs, Heartbeat(n, s, v, load)
      PROVE  FabricInv'
  <2>1. s \in NodeStatus /\ v \in Vram /\ load \in Nat
    BY FabricCoreAssumption
  <2>2. StatusAfter(node[n].status, s, v) \in NodeStatus
    BY <2>1 DEF StatusAfter, NodeStatus
  <2>3. node' \in [Node -> NodeRecord]
    BY <1>1, <1>4, <2>1, <2>2 DEF Heartbeat, NodeRecord
  <2>4. \A m \in Node : /\ node'[m].trust = node[m].trust
                        /\ m # n => node'[m].status = node[m].status
    BY <1>1, <1>4 DEF Heartbeat, NodeRecord
  <2>5. node[n].trust # "QUARANTINED"
    BY <1>4 DEF Heartbeat, Quarantined
  <2>6. QED
    BY <1>1, <1>4, <2>3, <2>4, <2>5, NodeStep DEF Heartbeat, QuarantineIsPermanent
<1>5. ASSUME NEW n \in Node, QuarantineNode(n) PROVE FabricInv'
  <2>1. node' \in [Node -> NodeRecord]
    BY <1>1, <1>5 DEF QuarantineNode, NodeRecord, NodeStatus, NodeTrust
  <2>2. \A m \in Node :
          node'[m].trust = "QUARANTINED" =>
            node'[m].status \in {"QUARANTINED", "UNAVAILABLE"}
    BY <1>1, <1>5 DEF QuarantineNode, QuarantineIsPermanent, NodeRecord
  <2>3. QED
    BY <1>1, <1>5, <2>1, <2>2, NodeStep DEF QuarantineNode
<1>6. QED
  BY <1>2, <1>3, <1>4, <1>5

LEMMA ScanAndTriggerStep ==
  ASSUME FabricInv, Scan \/ \E n \in Node : TriggerFailover(n)
  PROVE  FabricInv'
<1>1. /\ node \in [Node -> NodeRecord]
      /\ affected \in [Node -> SUBSET DOMAIN job]
      /\ scanAt \in 0 .. N
      /\ QuarantineIsPermanent
  BY DEF FabricInv, TypeOK
<1>2. N \in Nat
  BY FabricAssumption
<1>3. CASE ScanStart
  BY <1>1, <1>2, <1>3, NodeStep DEF ScanStart, QuarantineIsPermanent
<1>4. ASSUME NEW n \in Node, ScanReady(n) PROVE scanAt' \in 0 .. N
  BY <1>2, <1>4 DEF ScanReady, Node
<1>5. ASSUME NEW n \in Node, BeginFailover(n)
      PROVE  /\ node' \in [Node -> NodeRecord]
             /\ affected' \in [Node -> SUBSET DOMAIN job]
             /\ \A m \in Node : node'[m].trust = "QUARANTINED" =>
                  node'[m].status \in {"QUARANTINED", "UNAVAILABLE"}
  <2>1. AffectedBy(n) \subseteq DOMAIN job
    BY DEF AffectedBy
  <2>2. QED
    BY <1>1, <1>5, <2>1
    DEF BeginFailover, MarkedUnavailable, NodeRecord, NodeStatus, QuarantineIsPermanent
<1>6. ASSUME NEW n \in Node, ScanUnavailable(n) PROVE FabricInv'
  BY <1>4, <1>5, <1>6, NodeStep DEF ScanUnavailable, ScanReady
<1>7. ASSUME NEW n \in Node, ScanDegraded(n) PROVE FabricInv'
  <2>1. node' \in [Node -> NodeRecord]
    BY <1>1, <1>7 DEF ScanDegraded, NodeRecord, NodeStatus
  <2>2. node[n].trust # "QUARANTINED"
    BY <1>1, <1>7 DEF ScanDegraded, Late, QuarantineIsPermanent
  <2>3. \A m \in Node : node'[m].trust = "QUARANTINED" =>
          node'[m].status \in {"QUARANTINED", "UNAVAILABLE"}
    BY <1>1, <1>7, <2>2 DEF ScanDegraded, NodeRecord, QuarantineIsPermanent
  <2>4. QED
    BY <1>1, <1>4, <1>7, <2>1, <2>3, NodeStep DEF ScanDegraded, ScanReady
<1>8. ASSUME NEW n \in Node, ScanPass(n) PROVE FabricInv'
  BY <1>1, <1>4, <1>8, NodeStep DEF ScanPass, ScanReady, QuarantineIsPermanent
<1>9. ASSUME NEW n \in Node, TriggerFailover(n) PROVE FabricInv'
  BY <1>1, <1>5, <1>9, NodeStep DEF TriggerFailover
<1>10. QED
  BY <1>3, <1>6, <1>7, <1>8, <1>9 DEF Scan

LEMMA FailoverKeeps ==
  ASSUME FabricInv, NEW n \in Node, FailoverStep(n)
  PROVE  FabricInv'
<1>1. PICK j \in affected[n] :
        \/ FailoverExhausted(n, j)
        \/ FailoverUnplaced(n, j)
        \/ \E m \in Node : FailoverMoved(n, j, m)
  BY DEF FailoverStep
<1>2. TypeOK /\ j \in DOMAIN job
  BY DEF FabricInv, TypeOK
<1>3. /\ job[j] \in JobRecord
      /\ job[j].node \in Node
      /\ job[j].retries \in Nat
      /\ job[j].hist \in Seq(Hop)
      /\ JobOK(job[j])
  BY <1>2, JobFields, JobsOK DEF FabricInv
<1>4. /\ FreedNodes(n) \in [Node -> NodeRecord]
      /\ \A m \in Node : /\ FreedNodes(n)[m].status = node[m].status
                         /\ FreedNodes(n)[m].trust = node[m].trust
  BY <1>2, SlotTypes DEF TypeOK, FreedNodes
<1>5. SystemUser \in User /\ FreedUsers \in [User -> Nat]
  BY <1>2, CountTypes, FabricCoreAssumption DEF TypeOK, FreedUsers
<1>6. ASSUME NextAffected(n, j), DOMAIN job' = DOMAIN job
      PROVE  /\ offers' \subseteq Offer
             /\ OffersAdmitted'
             /\ affected' \in [Node -> SUBSET DOMAIN job']
             /\ scanAt' \in 0 .. N
  BY <1>2, <1>6 DEF NextAffected, FabricInv, TypeOK, OffersAdmitted
<1>7. ASSUME node' = FreedNodes(n)
      PROVE  node' \in [Node -> NodeRecord] /\ QuarantineIsPermanent'
  BY <1>4, <1>7 DEF FabricInv, QuarantineIsPermanent
<1>8. CASE FailoverExhausted(n, j)
  <2> DEFINE r == [job[j] EXCEPT !.state = "FAILED"]
  <2>1. r \in JobRecord /\ JobOK(r)
    BY <1>3 DEF JobRecord, JobState, JobOK
  <2>2. job' = [job EXCEPT ![j] = r]
    BY <1>8 DEF FailoverExhausted
  <2>3. job' \in Seq(JobRecord) /\ DOMAIN job' = DOMAIN job
          /\ SovereignConfinement' /\ RetryBudget'
    BY <1>2, <2>1, <2>2, JobStep
  <2>4. QED
    BY <1>5, <1>6, <1>7, <1>8, <2>3 DEF FailoverExhausted, FabricInv, TypeOK
<1>9. CASE FailoverUnplaced(n, j)
  <2> DEFINE c == [job[j] EXCEPT !.retries = @ + 1]
             r == [c EXCEPT !.state = "FAILED"]
  <2>1. job[j].retries + 1 \in Nat /\ job[j].retries + 1 <= MaxRetries
    BY <1>3, <1>9, FabricCoreAssumption DEF FailoverUnplaced, BudgetLeft
  <2>2. c \in JobRecord
    BY <1>3, <2>1 DEF JobRecord
  <2>3. r \in JobRecord
    BY <2>2 DEF JobRecord, JobState
  <2>4. r.work = job[j].work /\ r.node = job[j].node
          /\ r.retries = job[j].retries + 1 /\ r.hist = job[j].hist
    BY <1>3 DEF JobRecord
  <2>5. Len(job[j].hist) \in Nat
    BY <1>3, LenProperties
  <2>6. JobOK(r)
    BY <1>3, <2>1, <2>4, <2>5 DEF JobOK
  <2>7. job' = [job EXCEPT ![j] = r]
    BY <1>9 DEF FailoverUnplaced
  <2>8. job' \in Seq(JobRecord) /\ DOMAIN job' = DOMAIN job
          /\ SovereignConfinement' /\ RetryBudget'
    BY <1>2, <2>3, <2>6, <2>7, JobStep
  <2>9. QED
    BY <1>5, <1>6, <1>7, <1>9, <2>8 DEF FailoverUnplaced, FabricInv, TypeOK
<1>10. ASSUME NEW m \in Node, FailoverMoved(n, j, m) PROVE FabricInv'
  <2> DEFINE hop == [from |-> n, to |-> m]
             h == Append(job[j].hist, hop)
             a == [job[j] EXCEPT !.state = "RUNNING"]
             b == [a EXCEPT !.retries = @ + 1]
             c == [b EXCEPT !.node = m]
             r == [c EXCEPT !.hist = h]
  <2>1. job[j].retries + 1 \in Nat /\ job[j].retries + 1 <= MaxRetries
    BY <1>3, <1>10, FabricCoreAssumption DEF FailoverMoved, BudgetLeft
  <2>2. h \in Seq(Hop) /\ Len(h) = Len(job[j].hist) + 1 /\ Len(job[j].hist) \in Nat
    BY <1>3, LenProperties DEF Hop
  <2>3. /\ r.work = job[j].work
        /\ r.node = m
        /\ r.retries = job[j].retries + 1
        /\ r.hist = h
    BY <1>3 DEF JobRecord
  <2>4. r \in JobRecord
    <3>1. a \in JobRecord /\ a.retries = job[j].retries
      BY <1>3 DEF JobRecord, JobState
    <3>2. b \in JobRecord
      BY <2>1, <3>1 DEF JobRecord
    <3>3. c \in JobRecord
      BY <3>2 DEF JobRecord
    <3>4. QED
      BY <2>2, <3>3 DEF JobRecord
  <2>5. ZoneAdmits(job[j].work, ZoneOf[m])
    BY <1>10 DEF FailoverMoved, Replacements, Placements, Eligible
  <2>6. JobOK(r)
    BY <1>3, <2>1, <2>2, <2>3, <2>5 DEF JobOK
  <2>7. job' = [job EXCEPT ![j] = r]
    BY <1>10 DEF FailoverMoved, FailoverRecord
  <2>8. job' \in Seq(JobRecord) /\ DOMAIN job' = DOMAIN job
          /\ SovereignConfinement' /\ RetryBudget'
    BY <1>2, <2>4, <2>6, <2>7, JobStep
  <2>9. node' \in [Node -> NodeRecord] /\ QuarantineIsPermanent'
    <3>1. node' = Allocated(FreedNodes(n), m)
      BY <1>10 DEF FailoverMoved
    <3>2. node' \in [Node -> NodeRecord]
            /\ \A k \in Node : /\ node'[k].status = FreedNodes(n)[k].status
                              /\ node'[k].trust = FreedNodes(n)[k].trust
      BY <1>4, <3>1, SlotTypes
    <3>3. QED
      BY <1>4, <3>2 DEF FabricInv, QuarantineIsPermanent
  <2>10. userJobs' \in [User -> Nat]
    BY <1>5, <1>10, CountTypes DEF FailoverMoved
  <2>11. QED
    BY <1>6, <1>10, <2>8, <2>9, <2>10 DEF FailoverMoved, FabricInv, TypeOK
<1>11. QED
  BY <1>1, <1>8, <1>9, <1>10

LEMMA FabricStep == FabricInv /\ [Next]_vars => FabricInv'
<1> SUFFICES ASSUME FabricInv, [Next]_vars PROVE FabricInv'
  OBVIOUS
<1>1. CASE UNCHANGED vars
  BY <1>1 DEF vars, FabricInv, TypeOK, SovereignConfinement, OffersAdmitted,
              RetryBudget, QuarantineIsPermanent
<1>2. CASE Next
  BY <1>2, ScheduleStep, CreateJobStep, JobUpdateStep, HealthStep,
     ScanAndTriggerStep, FailoverKeeps DEF Next, Fleet
<1>3. QED
  BY <1>1, <1>2

\* Every reachable state satisfies the inductive invariant.
THEOREM FabricSafe == Spec => []FabricInv
BY FabricInitial, FabricStep, PTL DEF Spec

\* Type correctness of the fabric core.
THEOREM FabricTypes == Spec => []TypeOK
BY FabricSafe, PTL DEF FabricInv

\* No job is ever on a node whose zone does not admit its recorded data,
\* however failovers, scans, heartbeats and requests interleave.
THEOREM FabricConfines == Spec => []SovereignConfinement
BY FabricSafe, PTL DEF FabricInv

\* The retry budget bounds every job's failovers.
THEOREM FabricBoundsRetries == Spec => []RetryBudget
BY FabricSafe, PTL DEF FabricInv

\* A node quarantined in the registry never comes back into service.
THEOREM FabricQuarantines == Spec => []QuarantineIsPermanent
BY FabricSafe, PTL DEF FabricInv

-----------------------------------------------------------------------------
(* Quarantined nodes receive no work when requests are not interleaved:    *)
(* from a decision to its create_job nothing else may happen, so the node  *)
(* chosen is still sound when it is used.                                  *)

OneAtATime ==
  offers # {} =>
    /\ scanAt = 0
    /\ \A n \in Node : affected[n] = {}
    /\ \A o \in offers : Sound(node[o.node])

LEMMA SoundNotQuarantined ==
  ASSUME NEW r, Sound(r) PROVE ~Quarantined(r)
BY DEF Sound, Quarantined

LEMMA OneAtATimeStep ==
  ASSUME ~Threads, FabricInv, OneAtATime, [Next]_vars
  PROVE  OneAtATime'
<1>1. N \in Nat /\ scanAt \in 0 .. N /\ offers \subseteq Offer
  BY FabricAssumption DEF FabricInv, TypeOK
<1>2. CASE UNCHANGED vars
  BY <1>2 DEF vars, OneAtATime
<1>3. ASSUME NEW u \in User, NEW w \in Requests, NEW p \in Priorities,
             Schedule(u, w, p)
      PROVE  OneAtATime'
  <2>1. Idle
    BY <1>3 DEF Schedule, MayStart
  <2>2. PICK n \in Placements(node, userJobs[u], w, p) :
          offers' = {[user |-> u, node |-> n, work |-> w]}
    BY <1>3, <2>1 DEF Schedule, Idle
  <2>3. Sound(node[n])
    BY <2>2 DEF Placements, Eligible
  <2>4. \A q \in offers' : q.node = n
    BY <2>2
  <2>5. UNCHANGED <<node, affected, scanAt>>
    BY <1>3 DEF Schedule
  <2>6. QED
    BY <2>1, <2>3, <2>4, <2>5 DEF Idle, OneAtATime
<1>4. ASSUME NEW o \in offers, CreateJob(o) PROVE OneAtATime'
  <2>1. node \in [Node -> NodeRecord] /\ o.node \in Node
    BY DEF FabricInv, TypeOK, Offer
  <2>2. \A m \in Node : /\ node'[m].status = node[m].status
                        /\ node'[m].trust = node[m].trust
    BY <1>4, <2>1, SlotTypes DEF CreateJob
  <2>3. \A q \in offers' : q \in offers /\ q.node \in Node
    BY <1>1, <1>4 DEF CreateJob, Offer
  <2>4. QED
    BY <1>4, <2>2, <2>3 DEF CreateJob, OneAtATime, Sound
<1>5. CASE Idle /\ offers' = offers
  BY <1>5 DEF Idle, OneAtATime
<1>6. ASSUME NEW j \in DOMAIN job, JobUpdate(j) PROVE OneAtATime'
  BY <1>5, <1>6 DEF JobUpdate, CheckpointJob, CompleteJob, FailJob, EndJob, MayStart
<1>7. CASE Tick
  BY <1>5, <1>7 DEF Tick, MayStart
<1>8. ASSUME NEW n \in Node,
             \/ HeartbeatIgnored(n)
             \/ \E s \in Reports, v \in VramReports, load \in 0 .. MaxJobs :
                  Heartbeat(n, s, v, load)
             \/ TriggerFailover(n)
             \/ QuarantineNode(n)
      PROVE  OneAtATime'
  BY <1>5, <1>8 DEF HeartbeatIgnored, Heartbeat, TriggerFailover, QuarantineNode, MayStart
<1>9. ASSUME NEW n \in Node, FailoverStep(n) PROVE OneAtATime'
  <2>1. affected[n] # {} /\ offers' = offers
    BY <1>9 DEF FailoverStep, FailoverExhausted, FailoverUnplaced, FailoverMoved,
                NextAffected
  <2>2. QED
    BY <2>1 DEF OneAtATime
<1>10. CASE Scan
  <2>1. CASE ScanStart
    BY <1>5, <2>1 DEF ScanStart, MayStart
  <2>2. ASSUME NEW n \in Node, ScanUnavailable(n) \/ ScanDegraded(n) \/ ScanPass(n)
        PROVE  OneAtATime'
    <3>1. scanAt = n /\ offers' = offers
      BY <2>2 DEF ScanUnavailable, ScanDegraded, ScanPass, ScanReady
    <3>2. scanAt # 0
      BY <1>1, <3>1 DEF Node
    <3>3. QED
      BY <3>1, <3>2 DEF OneAtATime
  <2>3. QED
    BY <1>10, <2>1, <2>2 DEF Scan
<1>11. QED
  BY <1>2, <1>3, <1>4, <1>6, <1>7, <1>8, <1>9, <1>10 DEF Next, Fleet

\* The steps that leave every job where it is.
LEMMA NobodyMoves ==
  ASSUME FabricInv, NEW j \in DOMAIN job,
         DOMAIN job' = DOMAIN job, job'[j].node = job[j].node
  PROVE  ~Placed(j)
BY DEF Placed

LEMMA NoWorkForQuarantined ==
  ASSUME ~Threads, FabricInv, OneAtATime, Next, NEW j \in DOMAIN job', Placed(j)
  PROVE  ~Quarantined(node[job'[j].node])
<1>1. job \in Seq(JobRecord) /\ node \in [Node -> NodeRecord] /\ TypeOK
  BY DEF FabricInv, TypeOK
<1>2. CASE UNCHANGED job
  BY <1>2 DEF Placed
<1>3. ASSUME NEW k \in DOMAIN job, JobUpdate(k)
      PROVE  DOMAIN job' = DOMAIN job /\ job'[j].node = job[j].node
  <2>1. job[k] \in JobRecord
    BY <1>1, JobFields
  <2>2. CASE CheckpointJob(k)
    <3> DEFINE c == [job[k] EXCEPT !.ckpts = @ + 1]
               r == [c EXCEPT !.state = "CHECKPOINTED"]
    <3>1. job' = [job EXCEPT ![k] = r]
      BY <2>2 DEF CheckpointJob
    <3>2. r.node = job[k].node
      BY <2>1 DEF JobRecord
    <3>3. QED
      BY <1>1, <3>1, <3>2
  <2>3. ASSUME NEW final, EndJob(k, final)
        PROVE  DOMAIN job' = DOMAIN job /\ job'[j].node = job[j].node
    <3> DEFINE r == [job[k] EXCEPT !.state = final]
    <3>1. job' = [job EXCEPT ![k] = r]
      BY <2>3 DEF EndJob
    <3>2. r.node = job[k].node
      BY <2>1 DEF JobRecord
    <3>3. QED
      BY <1>1, <3>1, <3>2
  <2>4. QED
    BY <1>3, <2>2, <2>3 DEF JobUpdate, CompleteJob, FailJob
<1>4. ASSUME NEW o \in offers, CreateJob(o)
      PROVE  ~Quarantined(node[job'[j].node])
  <2>1. /\ \A k \in DOMAIN job : job'[k] = job[k]
        /\ j \notin DOMAIN job => job'[j] = NewJob(o)
    BY <1>1, <1>4 DEF CreateJob
  <2>2. job'[j] = NewJob(o)
    BY <2>1 DEF Placed
  <2>3. job'[j].node = o.node
    BY <2>2 DEF NewJob
  <2>4. QED
    BY <2>3, SoundNotQuarantined DEF OneAtATime
<1>5. ASSUME NEW n \in Node, FailoverStep(n)
      PROVE  ~Quarantined(node[job'[j].node])
  <2>1. PICK k \in affected[n] :
          \/ FailoverExhausted(n, k)
          \/ FailoverUnplaced(n, k)
          \/ \E m \in Node : FailoverMoved(n, k, m)
    BY <1>5 DEF FailoverStep
  <2>2. k \in DOMAIN job /\ job[k] \in JobRecord
    <3>1. k \in DOMAIN job
      BY DEF FabricInv, TypeOK
    <3>2. QED
      BY <1>1, <3>1, JobFields
  <2>3. CASE FailoverExhausted(n, k)
    <3> DEFINE r == [job[k] EXCEPT !.state = "FAILED"]
    <3>1. job' = [job EXCEPT ![k] = r] /\ r.node = job[k].node
      BY <2>2, <2>3 DEF FailoverExhausted, JobRecord
    <3>2. DOMAIN job' = DOMAIN job /\ job'[j].node = job[j].node
      BY <1>1, <3>1
    <3>3. QED
      BY <3>2, NobodyMoves
  <2>4. CASE FailoverUnplaced(n, k)
    <3> DEFINE c == [job[k] EXCEPT !.state = "FAILED"]
               r == [c EXCEPT !.retries = @ + 1]
    <3>1. job' = [job EXCEPT ![k] = r]
      BY <2>4 DEF FailoverUnplaced
    <3>2. r.node = job[k].node
      BY <2>2 DEF JobRecord
    <3>3. DOMAIN job' = DOMAIN job /\ job'[j].node = job[j].node
      BY <1>1, <3>1, <3>2
    <3>4. QED
      BY <3>3, NobodyMoves
  <2>5. ASSUME NEW m \in Node, FailoverMoved(n, k, m)
        PROVE  ~Quarantined(node[job'[j].node])
    <3> DEFINE a == [job[k] EXCEPT !.state = "RUNNING"]
               b == [a EXCEPT !.retries = @ + 1]
               c == [b EXCEPT !.node = m]
               r == [c EXCEPT !.hist = Append(@, FailoverRecord(n, k, m))]
    <3>1. job' = [job EXCEPT ![k] = r]
      BY <2>5 DEF FailoverMoved
    <3>2. r.node = m
      BY <2>2 DEF JobRecord
    <3>3. Sound(FreedNodes(n)[m])
      BY <2>5 DEF FailoverMoved, Replacements, Placements, Eligible
    <3>4. Sound(node[m])
      BY <1>1, <3>3, SlotTypes DEF FreedNodes, Sound
    <3>5. CASE j = k
      BY <1>1, <2>2, <3>1, <3>2, <3>4, <3>5, SoundNotQuarantined
    <3>6. CASE j # k
      BY <1>1, <3>1, <3>6 DEF Placed
    <3>7. QED
      BY <3>5, <3>6
  <2>6. QED
    BY <2>1, <2>3, <2>4, <2>5
<1>6. CASE \/ \E u \in User, w \in Requests, p \in Priorities : Schedule(u, w, p)
           \/ Tick
           \/ Scan
           \/ \E n \in Node :
                \/ HeartbeatIgnored(n)
                \/ \E s \in Reports, v \in VramReports, load \in 0 .. MaxJobs :
                     Heartbeat(n, s, v, load)
                \/ TriggerFailover(n)
                \/ QuarantineNode(n)
  BY <1>2, <1>6 DEF Schedule, Tick, Scan, ScanStart, ScanUnavailable, ScanDegraded,
     ScanPass, ScanReady, HeartbeatIgnored, Heartbeat, TriggerFailover, QuarantineNode
<1>7. QED
  BY <1>3, <1>4, <1>5, <1>6, NobodyMoves DEF Next, Fleet

\* "Quarantined nodes receive 0 work", as long as one request is served at a
\* time: between a decision and its create_job the node may be quarantined.
THEOREM FabricQuarantinedIdle ==
  ASSUME ~Threads
  PROVE  Spec => QuarantinedGetNoWork
<1>1. Init => OneAtATime
  BY DEF Init, OneAtATime
<1>2. FabricInv /\ OneAtATime /\ [Next]_vars => OneAtATime'
  BY OneAtATimeStep
<1>3. FabricInv /\ OneAtATime /\ [Next]_vars
        => [\A j \in DOMAIN job' : Placed(j) => ~Quarantined(node[job'[j].node])]_vars
  BY NoWorkForQuarantined
<1>4. QED
  BY <1>1, <1>2, <1>3, FabricSafe, PTL DEF Spec, QuarantinedGetNoWork

-----------------------------------------------------------------------------
(* How a step changes the queue: it leaves it alone, appends a job, or     *)
(* replaces one record.  The lemmas name the record.                       *)

\* The jobs that live on a node when one record is replaced.
LEMMA LiveAfterUpdate ==
  ASSUME TypeOK, NEW j \in DOMAIN job, NEW r \in JobRecord,
         job' = [job EXCEPT ![j] = r]
  PROVE  /\ DOMAIN job' = DOMAIN job
         /\ \A k \in DOMAIN job : job'[k] = IF k = j THEN r ELSE job[k]
         /\ \A n \in Node :
              LiveOn(n)' = IF r.node = n /\ r.state \notin Final
                           THEN LiveOn(n) \cup {j} ELSE LiveOn(n) \ {j}
<1>1. /\ DOMAIN job' = DOMAIN job
      /\ \A k \in DOMAIN job : job'[k] = IF k = j THEN r ELSE job[k]
  BY JobReplaced DEF TypeOK
<1>2. QED
  BY <1>1 DEF LiveOn, Live

\* The jobs that live on a node when a job is appended.
LEMMA LiveAfterAppend ==
  ASSUME TypeOK, NEW r \in JobRecord, r.state \notin Final, job' = Append(job, r)
  PROVE  /\ DOMAIN job' = DOMAIN job \cup {Len(job) + 1}
         /\ \A k \in DOMAIN job' : job'[k] = IF k \in DOMAIN job THEN job[k] ELSE r
         /\ Len(job) + 1 \notin DOMAIN job
         /\ \A n \in Node :
              LiveOn(n)' = IF n = r.node THEN LiveOn(n) \cup {Len(job) + 1} ELSE LiveOn(n)
<1>1. job \in Seq(JobRecord)
  BY DEF TypeOK
<1>2. /\ DOMAIN job' = DOMAIN job \cup {Len(job) + 1}
      /\ Len(job) + 1 \notin DOMAIN job
      /\ \A k \in DOMAIN job : job'[k] = job[k]
      /\ job'[Len(job) + 1] = r
  BY <1>1
<1>3. QED
  BY <1>2 DEF LiveOn, Live

\* A checkpoint keeps the place and the moves of a job.
LEMMA CheckpointRecord ==
  ASSUME TypeOK, NEW j \in DOMAIN job, CheckpointJob(j)
  PROVE  \E r \in JobRecord :
           /\ job' = [job EXCEPT ![j] = r]
           /\ r.state = "CHECKPOINTED"
           /\ r.node = job[j].node
           /\ r.hist = job[j].hist
<1> DEFINE c == [job[j] EXCEPT !.ckpts = @ + 1]
           r == [c EXCEPT !.state = "CHECKPOINTED"]
<1>1. job[j] \in JobRecord /\ job[j].ckpts + 1 \in Nat
  BY JobFields DEF JobRecord
<1>2. c \in JobRecord /\ c.node = job[j].node /\ c.hist = job[j].hist
  BY <1>1 DEF JobRecord
<1>3. r \in JobRecord /\ r.state = "CHECKPOINTED" /\ r.node = job[j].node /\ r.hist = job[j].hist
  BY <1>2 DEF JobRecord, JobState
<1>4. job' = [job EXCEPT ![j] = r]
  BY DEF CheckpointJob
<1>5. QED
  BY <1>3, <1>4

LEMMA EndRecord ==
  ASSUME TypeOK, NEW j \in DOMAIN job, NEW final \in Final, EndJob(j, final)
  PROVE  \E r \in JobRecord :
           /\ job' = [job EXCEPT ![j] = r]
           /\ r.state = final
           /\ r.node = job[j].node
           /\ r.hist = job[j].hist
<1> DEFINE r == [job[j] EXCEPT !.state = final]
<1>1. r \in JobRecord /\ r.state = final /\ r.node = job[j].node /\ r.hist = job[j].hist
  BY JobFields DEF JobRecord, JobState, Final
<1>2. job' = [job EXCEPT ![j] = r]
  BY DEF EndJob
<1>3. QED
  BY <1>1, <1>2

\* A failover that finds no budget or no node leaves the job FAILED where it is.
LEMMA FailedRecord ==
  ASSUME TypeOK, NEW n \in Node, NEW j \in DOMAIN job,
         FailoverExhausted(n, j) \/ FailoverUnplaced(n, j)
  PROVE  \E r \in JobRecord :
           /\ job' = [job EXCEPT ![j] = r]
           /\ r.state = "FAILED"
           /\ r.node = job[j].node
           /\ r.hist = job[j].hist
           /\ r.ckpts = job[j].ckpts
<1> DEFINE c == [job[j] EXCEPT !.state = "FAILED"]
           r == [c EXCEPT !.retries = @ + 1]
<1>1. job[j] \in JobRecord
  BY JobFields
<1>2. c \in JobRecord /\ c.state = "FAILED" /\ c.node = job[j].node /\ c.hist = job[j].hist
        /\ c.ckpts = job[j].ckpts
  BY <1>1 DEF JobRecord, JobState
<1>3. r \in JobRecord /\ r.state = "FAILED" /\ r.node = job[j].node /\ r.hist = job[j].hist
        /\ r.ckpts = job[j].ckpts
  <2>1. c.retries + 1 \in Nat
    BY <1>2 DEF JobRecord
  <2>2. QED
    BY <1>2, <2>1 DEF JobRecord
<1>4. CASE FailoverExhausted(n, j)
  BY <1>2, <1>4 DEF FailoverExhausted
<1>5. CASE FailoverUnplaced(n, j)
  <2>1. job' = [job EXCEPT ![j] = r]
    BY <1>5 DEF FailoverUnplaced
  <2>2. QED
    BY <1>3, <2>1
<1>6. QED
  BY <1>4, <1>5

\* A failover that finds a node runs the job there and records the move.
LEMMA MovedRecord ==
  ASSUME TypeOK, NEW n \in Node, NEW m \in Node, NEW j \in DOMAIN job,
         FailoverMoved(n, j, m)
  PROVE  \E r \in JobRecord :
           /\ job' = [job EXCEPT ![j] = r]
           /\ r.state = "RUNNING"
           /\ r.node = m
           /\ r.hist = Append(job[j].hist, [from |-> n, to |-> m])
           /\ r.ckpts = job[j].ckpts
<1> DEFINE hop == [from |-> n, to |-> m]
           h == Append(job[j].hist, hop)
           a == [job[j] EXCEPT !.state = "RUNNING"]
           b == [a EXCEPT !.retries = @ + 1]
           c == [b EXCEPT !.node = m]
           r == [c EXCEPT !.hist = h]
<1>1. job[j] \in JobRecord
  BY JobFields
<1>2. h \in Seq(Hop)
  <2>1. job[j].hist \in Seq(Hop) /\ hop \in Hop
    BY JobFields DEF Hop
  <2>2. QED
    BY <2>1
<1>3. a \in JobRecord
  BY <1>1 DEF JobRecord, JobState
<1>4. b \in JobRecord
  <2>1. a.retries + 1 \in Nat
    BY <1>3 DEF JobRecord
  <2>2. QED
    BY <1>3, <2>1 DEF JobRecord
<1>5. c \in JobRecord
  BY <1>4 DEF JobRecord
<1>6. r \in JobRecord
  BY <1>2, <1>5 DEF JobRecord
<1>7. r.state = "RUNNING" /\ r.node = m /\ r.hist = h /\ r.ckpts = job[j].ckpts
  BY <1>1 DEF JobRecord
<1>8. job' = [job EXCEPT ![j] = r]
  BY DEF FailoverMoved, FailoverRecord
<1>9. QED
  BY <1>6, <1>7, <1>8

-----------------------------------------------------------------------------
(* What a failover in progress relies on when requests are not             *)
(* interleaved: its node is out of service, and the jobs it has still to   *)
(* handle are those that live on the node.                                 *)

\* The states that jobs are ever given.
StatesInUse == \A j \in DOMAIN job :
  job[j].state \in {"ASSIGNED", "RUNNING", "CHECKPOINTED", "COMPLETED", "FAILED"}

FailoverOnDeadNode ==
  \A n \in Node : affected[n] # {} =>
    /\ node[n].status = "UNAVAILABLE"
    /\ affected[n] = LiveOn(n)

FailoverInv == StatesInUse /\ FailoverOnDeadNode /\ NeverBackToFailedNode

\* The record that a step writes owes the invariant a state in use and moves
\* that lead away from the failed node.
LEMMA RecordStep ==
  ASSUME TypeOK, StatesInUse, NeverBackToFailedNode,
         NEW j \in DOMAIN job, NEW r \in JobRecord, job' = [job EXCEPT ![j] = r],
         r.state \in {"ASSIGNED", "RUNNING", "CHECKPOINTED", "COMPLETED", "FAILED"},
         \A k \in DOMAIN r.hist : r.hist[k].from # r.hist[k].to
  PROVE  StatesInUse' /\ NeverBackToFailedNode'
BY LiveAfterUpdate DEF StatesInUse, NeverBackToFailedNode

LEMMA FailoverInitially == Init => FailoverInv
BY DEF Init, FailoverInv, StatesInUse, FailoverOnDeadNode, NeverBackToFailedNode

LEMMA CreationKeepsFailover ==
  ASSUME TypeOK, FailoverInv, NEW o \in Offer, job' = Append(job, NewJob(o)),
         affected' = affected, \A n \in Node : affected[n] = {}
  PROVE  FailoverInv'
<1>1. \A k \in DOMAIN job' : job'[k] = IF k \in DOMAIN job THEN job[k] ELSE NewJob(o)
  BY LiveAfterAppend, NewJobRecord DEF Final
<1>2. StatesInUse' /\ NeverBackToFailedNode'
  BY <1>1, NewJobRecord DEF FailoverInv, StatesInUse, NeverBackToFailedNode
<1>3. QED
  BY <1>2 DEF FailoverInv, FailoverOnDeadNode

LEMMA UpdateKeepsFailover ==
  ASSUME ~Threads, FabricInv, FailoverInv, NEW j \in DOMAIN job, JobUpdate(j)
  PROVE  FailoverInv'
<1>1. TypeOK /\ StatesInUse /\ NeverBackToFailedNode
  BY DEF FabricInv, FailoverInv
<1>2. \A k \in DOMAIN job[j].hist : job[j].hist[k].from # job[j].hist[k].to
  BY <1>1 DEF NeverBackToFailedNode
<1>3. StatesInUse' /\ NeverBackToFailedNode'
  <2>1. CASE CheckpointJob(j)
    BY <1>1, <1>2, <2>1, CheckpointRecord, RecordStep
  <2>2. ASSUME NEW final \in Final, EndJob(j, final)
        PROVE  StatesInUse' /\ NeverBackToFailedNode'
    <3>1. PICK r \in JobRecord :
            /\ job' = [job EXCEPT ![j] = r]
            /\ r.state = final
            /\ r.hist = job[j].hist
      BY <1>1, <2>2, EndRecord
    <3>2. r.state \in {"COMPLETED", "FAILED"}
      BY <3>1 DEF Final
    <3>3. QED
      BY <1>1, <1>2, <3>1, <3>2, RecordStep
  <2>3. QED
    BY <2>1, <2>2 DEF JobUpdate, CompleteJob, FailJob, Final
<1>4. Idle /\ affected' = affected
  BY DEF JobUpdate, CheckpointJob, CompleteJob, FailJob, EndJob, MayStart
<1>5. QED
  BY <1>3, <1>4 DEF Idle, FailoverInv, FailoverOnDeadNode

\* What a failover sets out to move is what lives on its node.
LEMMA BeginKeepsFailover ==
  ASSUME FabricInv, FailoverInv, NEW n \in Node, BeginFailover(n),
         UNCHANGED <<job, offers>>
  PROVE  FailoverInv'
<1>1. node \in [Node -> NodeRecord] /\ affected \in [Node -> SUBSET DOMAIN job]
  BY DEF FabricInv, TypeOK
<1>2. AffectedBy(n) = LiveOn(n)
  BY DEF FailoverInv, StatesInUse, AffectedBy, LiveOn, Live, Final
<1>3. \A m \in Node : LiveOn(m)' = LiveOn(m)
  BY DEF LiveOn, Live
<1>4. /\ node'[n].status = "UNAVAILABLE" /\ affected'[n] = LiveOn(n)
      /\ \A m \in Node \ {n} : node'[m] = node[m] /\ affected'[m] = affected[m]
  BY <1>1, <1>2 DEF BeginFailover, MarkedUnavailable, NodeRecord
<1>5. FailoverOnDeadNode'
  BY <1>3, <1>4 DEF FailoverInv, FailoverOnDeadNode
<1>6. QED
  BY <1>5 DEF FailoverInv, StatesInUse, NeverBackToFailedNode

LEMMA ScanKeepsFailover ==
  ASSUME ~Threads, FabricInv, FailoverInv, Scan
  PROVE  FailoverInv'
<1>1. node \in [Node -> NodeRecord] /\ \A m \in Node : job' = job => LiveOn(m)' = LiveOn(m)
  BY DEF FabricInv, TypeOK, LiveOn, Live
<1>2. CASE ScanStart
  BY <1>1, <1>2 DEF ScanStart, FailoverInv, StatesInUse, FailoverOnDeadNode,
                    NeverBackToFailedNode
<1>3. ASSUME NEW n \in Node, ScanUnavailable(n) PROVE FailoverInv'
  BY <1>3, BeginKeepsFailover DEF ScanUnavailable, ScanReady
<1>4. ASSUME NEW n \in Node, ScanDegraded(n) PROVE FailoverInv'
  <2>1. affected[n] = {}
    BY <1>4 DEF ScanDegraded, Late, FailoverInv, FailoverOnDeadNode
  <2>2. \A m \in Node : affected[m] # {} => node'[m] = node[m]
    BY <1>1, <1>4, <2>1 DEF ScanDegraded
  <2>3. QED
    BY <1>1, <1>4, <2>2 DEF ScanDegraded, ScanReady, FailoverInv, StatesInUse,
                            FailoverOnDeadNode, NeverBackToFailedNode
<1>5. ASSUME NEW n \in Node, ScanPass(n) PROVE FailoverInv'
  BY <1>1, <1>5 DEF ScanPass, ScanReady, FailoverInv, StatesInUse,
                    FailoverOnDeadNode, NeverBackToFailedNode
<1>6. QED
  BY <1>2, <1>3, <1>4, <1>5 DEF Scan

\* A failover's replacement is another node, one whose own jobs are not being
\* moved.
LEMMA ReplacementLives ==
  ASSUME FabricInv, FailoverInv, NEW n \in Node, NEW m \in Node, NEW j \in affected[n],
         FailoverMoved(n, j, m)
  PROVE  m # n /\ affected[m] = {}
<1>1. Sound(FreedNodes(n)[m])
  BY DEF FailoverMoved, Replacements, Placements, Eligible
<1>2. FreedNodes(n)[m].status = node[m].status
  BY SlotTypes DEF FabricInv, TypeOK, FreedNodes
<1>3. node[m].status # "UNAVAILABLE"
  BY <1>1, <1>2 DEF Sound
<1>4. QED
  BY <1>3 DEF FailoverInv, FailoverOnDeadNode

LEMMA FailoverKeepsFailover ==
  ASSUME FabricInv, FailoverInv, NEW n \in Node, FailoverStep(n)
  PROVE  /\ FailoverInv'
         /\ \A k \in Node : affected[k] # {} => affected'[k] = LiveOn(k)'
<1> DEFINE Goal == \A k \in Node : affected[k] # {} => affected'[k] = LiveOn(k)'
<1>1. PICK j \in affected[n] :
        \/ FailoverExhausted(n, j) \/ FailoverUnplaced(n, j)
        \/ \E m \in Node : FailoverMoved(n, j, m)
  BY DEF FailoverStep
<1>2. /\ TypeOK /\ StatesInUse /\ NeverBackToFailedNode
      /\ j \in DOMAIN job /\ job[j].node = n
      /\ affected \in [Node -> SUBSET DOMAIN job]
  BY DEF FabricInv, FailoverInv, TypeOK, FailoverOnDeadNode, LiveOn
<1>3. /\ affected'[n] = affected[n] \ {j}
      /\ \A m \in Node \ {n} : affected'[m] = affected[m]
  BY <1>1, <1>2 DEF FailoverExhausted, FailoverUnplaced, FailoverMoved, NextAffected
<1>4. \A m \in Node : node'[m].status = node[m].status
  <2>1. /\ FreedNodes(n) \in [Node -> NodeRecord]
        /\ \A m \in Node : FreedNodes(n)[m].status = node[m].status
    BY <1>2, SlotTypes DEF TypeOK, FreedNodes
  <2>2. CASE node' = FreedNodes(n)
    BY <2>1, <2>2
  <2>3. ASSUME NEW m \in Node, node' = Allocated(FreedNodes(n), m)
        PROVE  \A k \in Node : node'[k].status = node[k].status
    BY <2>1, <2>3, SlotTypes
  <2>4. QED
    BY <1>1, <2>2, <2>3 DEF FailoverExhausted, FailoverUnplaced, FailoverMoved
<1>5. \A k \in DOMAIN job[j].hist : job[j].hist[k].from # job[j].hist[k].to
  BY <1>2 DEF NeverBackToFailedNode
<1>6. /\ affected[n] = LiveOn(n)
      /\ \A k \in Node \ {n} : affected[k] # {} => affected[k] = LiveOn(k)
      /\ \A k \in Node \ {n} : j \notin LiveOn(k)
  BY <1>2 DEF FailoverInv, FailoverOnDeadNode, LiveOn
<1>7. ASSUME Goal, StatesInUse', NeverBackToFailedNode' PROVE FailoverInv'
  <2>1. \A k \in Node : affected'[k] # {} => affected[k] # {}
    BY <1>3
  <2>2. FailoverOnDeadNode'
    BY <1>4, <1>7, <2>1 DEF FailoverInv, FailoverOnDeadNode
  <2>3. QED
    BY <1>7, <2>2 DEF FailoverInv
<1>8. CASE FailoverExhausted(n, j) \/ FailoverUnplaced(n, j)
  <2>1. PICK r \in JobRecord :
          /\ job' = [job EXCEPT ![j] = r]
          /\ r.state = "FAILED" /\ r.node = n /\ r.hist = job[j].hist
    BY <1>2, <1>8, FailedRecord
  <2>2. StatesInUse' /\ NeverBackToFailedNode'
    BY <1>2, <1>5, <2>1, RecordStep
  <2>3. \A m \in Node : LiveOn(m)' = LiveOn(m) \ {j}
    BY <1>2, <2>1, LiveAfterUpdate DEF Final
  <2>4. Goal
    BY <1>3, <1>6, <2>3
  <2>5. QED
    BY <1>7, <2>2, <2>4
<1>9. ASSUME NEW m \in Node, FailoverMoved(n, j, m) PROVE FailoverInv' /\ Goal
  <2>1. PICK r \in JobRecord :
          /\ job' = [job EXCEPT ![j] = r]
          /\ r.state = "RUNNING" /\ r.node = m
          /\ r.hist = Append(job[j].hist, [from |-> n, to |-> m])
    BY <1>2, <1>9, MovedRecord
  <2>2. m # n /\ affected[m] = {}
    BY <1>9, ReplacementLives
  <2>3. \A k \in DOMAIN r.hist : r.hist[k].from # r.hist[k].to
    <3>1. job[j].hist \in Seq(Hop)
      BY <1>2, JobFields
    <3>2. QED
      BY <1>5, <2>1, <2>2, <3>1
  <2>4. StatesInUse' /\ NeverBackToFailedNode'
    BY <1>2, <2>1, <2>3, RecordStep
  <2>5. \A k \in Node \ {m} : LiveOn(k)' = LiveOn(k) \ {j}
    BY <1>2, <2>1, LiveAfterUpdate DEF Final
  <2>6. ASSUME NEW k \in Node, affected[k] # {} PROVE affected'[k] = LiveOn(k)'
    <3>1. LiveOn(k)' = LiveOn(k) \ {j}
      BY <2>2, <2>5, <2>6
    <3>2. CASE k = n
      BY <1>3, <1>6, <3>1, <3>2
    <3>3. CASE k # n
      BY <1>3, <1>6, <2>6, <3>1, <3>3
    <3>4. QED
      BY <3>2, <3>3
  <2>7. QED
    BY <1>7, <2>4, <2>6
<1>10. QED
  BY <1>1, <1>8, <1>9

LEMMA FailoverInvStep ==
  ASSUME ~Threads, FabricInv, OneAtATime, FailoverInv, [Next]_vars
  PROVE  FailoverInv'
<1>1. CASE UNCHANGED vars
  BY <1>1 DEF vars, FailoverInv, StatesInUse, FailoverOnDeadNode,
              NeverBackToFailedNode, LiveOn, Live
<1>2. CASE UNCHANGED <<job, affected>> /\ Idle
  BY <1>2 DEF Idle, FailoverInv, StatesInUse, FailoverOnDeadNode, NeverBackToFailedNode
<1>3. CASE \/ \E u \in User, w \in Requests, p \in Priorities : Schedule(u, w, p)
           \/ Tick
           \/ \E n \in Node :
                \/ HeartbeatIgnored(n)
                \/ \E s \in Reports, v \in VramReports, load \in 0 .. MaxJobs :
                     Heartbeat(n, s, v, load)
                \/ QuarantineNode(n)
  BY <1>2, <1>3 DEF Schedule, Tick, HeartbeatIgnored, Heartbeat, QuarantineNode, MayStart
<1>4. ASSUME NEW n \in Node, TriggerFailover(n) PROVE FailoverInv'
  BY <1>4, BeginKeepsFailover DEF TriggerFailover
<1>5. ASSUME NEW o \in offers, CreateJob(o) PROVE FailoverInv'
  <2>1. TypeOK /\ o \in Offer
    BY DEF FabricInv, TypeOK
  <2>2. QED
    BY <1>5, <2>1, CreationKeepsFailover DEF CreateJob, OneAtATime
<1>6. QED
  BY <1>1, <1>3, <1>4, <1>5, UpdateKeepsFailover,
     ScanKeepsFailover, FailoverKeepsFailover DEF Next, Fleet

\* What a failover has still to do stays what lives on its node, to the end.
LEMMA DrainStep ==
  ASSUME ~Threads, FabricInv, OneAtATime, FailoverInv, Next,
         NEW n \in Node, affected[n] # {}
  PROVE  affected'[n] = LiveOn(n)'
<1>1. affected[n] = LiveOn(n) /\ ~Idle /\ offers = {}
  BY DEF FailoverInv, FailoverOnDeadNode, Idle, OneAtATime
<1>2. CASE Scan
  <2>1. job' = job /\ affected'[n] = affected[n]
    BY <1>1, <1>2 DEF FabricInv, TypeOK, Scan, ScanStart, ScanUnavailable, ScanDegraded, ScanPass,
       ScanReady, BeginFailover
  <2>2. QED
    BY <1>1, <2>1 DEF LiveOn, Live
<1>3. ASSUME NEW m \in Node, FailoverStep(m) PROVE affected'[n] = LiveOn(n)'
  BY <1>3, FailoverKeepsFailover
<1>4. QED
  BY <1>1, <1>2, <1>3 DEF Next, Fleet, Schedule, JobUpdate, CheckpointJob, CompleteJob,
     FailJob, EndJob, Tick, HeartbeatIgnored, Heartbeat, TriggerFailover,
     QuarantineNode, MayStart

\* Failover never hands a job back to the node it recovers it from, as long as
\* one request is served at a time; with interleaved requests a heartbeat may
\* bring the node back in the middle of its failover.
THEOREM FabricMovesAway ==
  ASSUME ~Threads
  PROVE  Spec => []NeverBackToFailedNode
<1>1. Init => OneAtATime
  BY DEF Init, OneAtATime
<1>2. FabricInv /\ OneAtATime /\ FailoverInv /\ [Next]_vars => OneAtATime' /\ FailoverInv'
  BY OneAtATimeStep, FailoverInvStep
<1>3. FailoverInv => NeverBackToFailedNode
  BY DEF FailoverInv
<1>4. QED
  BY <1>1, <1>2, <1>3, FabricSafe, FailoverInitially, PTL DEF Spec

\* When the failover of a node ends, no job is left active on it.
THEOREM FabricDrains ==
  ASSUME ~Threads
  PROVE  Spec => FailoverEmptiesNode
<1>1. Init => OneAtATime
  BY DEF Init, OneAtATime
<1>2. FabricInv /\ OneAtATime /\ FailoverInv /\ [Next]_vars => OneAtATime' /\ FailoverInv'
  BY OneAtATimeStep, FailoverInvStep
<1>3. FabricInv /\ OneAtATime /\ FailoverInv /\ [Next]_vars
        => [\A n \in Node : affected[n] # {} /\ affected'[n] = {} => LiveOn(n)' = {}]_vars
  BY DrainStep
<1>4. QED
  BY <1>1, <1>2, <1>3, FabricSafe, FailoverInitially, PTL DEF Spec, FailoverEmptiesNode

-----------------------------------------------------------------------------
(* Slots.  The counter of a node is compared with the number of jobs that  *)
(* live on it, so each step is weighed on both sides.                      *)

\* Taking an element from a finite set or adding one moves its size by one.
LEMMA SizeMoves ==
  ASSUME NEW S, IsFiniteSet(S), NEW x
  PROVE  /\ Cardinality(S) \in Nat
         /\ Cardinality(S \cup {x}) >= Cardinality(S)
         /\ x \notin S => Cardinality(S \cup {x}) = Cardinality(S) + 1
         /\ Cardinality(S \ {x}) \in Nat
         /\ Cardinality(S \ {x}) >= Cardinality(S) - 1
<1>1. Cardinality(S) \in Nat
  BY FS_CardinalityType
<1>2. Cardinality(S \cup {x}) = IF x \in S THEN Cardinality(S) ELSE Cardinality(S) + 1
  BY FS_AddElement
<1>3. Cardinality(S \ {x}) = IF x \in S THEN Cardinality(S) - 1 ELSE Cardinality(S)
  BY FS_RemoveElement
<1>4. Cardinality(S \ {x}) \in Nat
  BY FS_RemoveElement, FS_CardinalityType
<1>5. QED
  BY <1>1, <1>2, <1>3, <1>4

LEMMA LiveFinite ==
  ASSUME TypeOK, NEW n \in Node
  PROVE  IsFiniteSet(LiveOn(n)) /\ Cardinality(LiveOn(n)) \in Nat
<1>1. IsFiniteSet(DOMAIN job)
  BY FS_Interval DEF TypeOK
<1>2. IsFiniteSet(LiveOn(n))
  BY <1>1, FS_Subset DEF LiveOn
<1>3. QED
  BY <1>2, FS_CardinalityType

\* What slot bookkeeping does to the counters.
LEMMA SlotCounts ==
  ASSUME NEW nodes \in [Node -> NodeRecord], NEW n \in Node, NEW m \in Node
  PROVE  /\ nodes[m].active \in Nat
         /\ Allocated(nodes, n)[m].active =
              IF m = n THEN nodes[m].active + 1 ELSE nodes[m].active
         /\ Released(nodes, n)[m].active =
              IF m = n /\ nodes[m].active > 0 THEN nodes[m].active - 1 ELSE nodes[m].active
BY DEF Allocated, Released, NodeRecord

LEMMA SlotsInitially == Init => NoPhantomSlots
<1> SUFFICES ASSUME Init, NEW n \in Node PROVE node[n].active <= Cardinality(LiveOn(n))
  BY DEF NoPhantomSlots
<1>1. TypeOK
  BY FabricInitial DEF FabricInv
<1>2. node[n].active = 0
  BY DEF Init
<1>3. QED
  BY <1>1, <1>2, LiveFinite

LEMMA CreationKeepsSlots ==
  ASSUME FabricInv, NoPhantomSlots, NEW o \in offers, CreateJob(o)
  PROVE  NoPhantomSlots'
<1> SUFFICES ASSUME NEW n \in Node PROVE node'[n].active <= Cardinality(LiveOn(n)')
  BY DEF NoPhantomSlots
<1>1. TypeOK /\ node \in [Node -> NodeRecord] /\ o.node \in Node
  BY DEF FabricInv, TypeOK, Offer
<1>2. IsFiniteSet(LiveOn(n)) /\ Cardinality(LiveOn(n)) \in Nat
  BY <1>1, LiveFinite
<1>3. /\ LiveOn(n)' = IF n = o.node THEN LiveOn(n) \cup {Len(job) + 1} ELSE LiveOn(n)
      /\ Len(job) + 1 \notin LiveOn(n)
  <2>1. /\ NewJob(o) \in JobRecord
        /\ NewJob(o).node = o.node
        /\ NewJob(o).state \notin Final
    BY <1>1, NewJobRecord DEF TypeOK, Final
  <2>2. QED
    BY <1>1, <2>1, LiveAfterAppend DEF CreateJob, LiveOn
<1>4. /\ node[n].active \in Nat
      /\ node'[n].active = IF n = o.node THEN node[n].active + 1 ELSE node[n].active
  BY <1>1, SlotCounts DEF CreateJob
<1>5. node[n].active <= Cardinality(LiveOn(n))
  BY DEF NoPhantomSlots
<1>6. CASE n = o.node
  <2>1. Cardinality(LiveOn(n) \cup {Len(job) + 1}) = Cardinality(LiveOn(n)) + 1
    BY <1>2, <1>3, SizeMoves
  <2>2. QED
    BY <1>2, <1>3, <1>4, <1>5, <1>6, <2>1
<1>7. CASE n # o.node
  BY <1>3, <1>4, <1>5, <1>7
<1>8. QED
  BY <1>6, <1>7

\* A job that leaves its node, or ends on it, takes at most one from the jobs
\* that live there, and the slot that is released is that of its node.
LEMMA LeavingKeepsSlots ==
  ASSUME TypeOK, NoPhantomSlots, NEW j \in DOMAIN job, NEW p \in Node, job[j].node = p,
         NEW n \in Node, LiveOn(n)' = LiveOn(n) \ {j}
  PROVE  Released(node, p)[n].active <= Cardinality(LiveOn(n)')
<1>1. node \in [Node -> NodeRecord]
  BY DEF TypeOK
<1>2. IsFiniteSet(LiveOn(n)) /\ Cardinality(LiveOn(n)) \in Nat
  BY LiveFinite
<1>3. node[n].active \in Nat /\ node[n].active <= Cardinality(LiveOn(n))
  BY <1>1, SlotCounts DEF NoPhantomSlots
<1>4. Released(node, p)[n].active =
        IF n = p /\ node[n].active > 0 THEN node[n].active - 1 ELSE node[n].active
  BY <1>1, SlotCounts
<1>5. CASE n = p
  <2>1. /\ Cardinality(LiveOn(n) \ {j}) >= Cardinality(LiveOn(n)) - 1
        /\ Cardinality(LiveOn(n) \ {j}) \in Nat
    BY <1>2, SizeMoves
  <2>2. QED
    BY <1>2, <1>3, <1>4, <1>5, <2>1
<1>6. CASE n # p
  <2>1. LiveOn(n) \ {j} = LiveOn(n)
    BY <1>6 DEF LiveOn
  <2>2. QED
    BY <1>3, <1>4, <1>6, <2>1
<1>7. QED
  BY <1>5, <1>6

LEMMA UpdateKeepsSlots ==
  ASSUME FabricInv, NoPhantomSlots, NEW j \in DOMAIN job, JobUpdate(j)
  PROVE  NoPhantomSlots'
<1>1. TypeOK /\ node \in [Node -> NodeRecord] /\ job[j].node \in Node
  BY JobFields DEF FabricInv, TypeOK
<1>2. CASE CheckpointJob(j)
  <2> SUFFICES ASSUME NEW n \in Node PROVE node'[n].active <= Cardinality(LiveOn(n)')
    BY DEF NoPhantomSlots
  <2>1. PICK r \in JobRecord :
          job' = [job EXCEPT ![j] = r] /\ r.state = "CHECKPOINTED" /\ r.node = job[j].node
    BY <1>1, <1>2, CheckpointRecord
  <2>2. LiveOn(n)' = IF r.node = n /\ r.state \notin Final
                     THEN LiveOn(n) \cup {j} ELSE LiveOn(n) \ {j}
    BY <1>1, <2>1, LiveAfterUpdate
  <2>3. LiveOn(n)' = LiveOn(n) \cup {j} \/ LiveOn(n)' = LiveOn(n)
    BY <2>1, <2>2 DEF Final, LiveOn
  <2>4. IsFiniteSet(LiveOn(n)) /\ Cardinality(LiveOn(n)) \in Nat
    BY <1>1, LiveFinite
  <2>5. Cardinality(LiveOn(n) \cup {j}) >= Cardinality(LiveOn(n))
    BY <2>4, SizeMoves
  <2>6. Cardinality(LiveOn(n) \cup {j}) \in Nat
    BY <2>4, FS_AddElement, FS_CardinalityType
  <2>7. node'[n].active = node[n].active /\ node[n].active \in Nat
          /\ node[n].active <= Cardinality(LiveOn(n))
    BY <1>1, <1>2, SlotCounts DEF CheckpointJob, NoPhantomSlots
  <2>8. CASE LiveOn(n)' = LiveOn(n)
    BY <2>7, <2>8
  <2>9. CASE LiveOn(n)' = LiveOn(n) \cup {j}
    BY <2>4, <2>5, <2>6, <2>7, <2>9
  <2>10. QED
    BY <2>3, <2>8, <2>9
<1>3. ASSUME NEW final \in Final, EndJob(j, final) PROVE NoPhantomSlots'
  <2> SUFFICES ASSUME NEW n \in Node PROVE node'[n].active <= Cardinality(LiveOn(n)')
    BY DEF NoPhantomSlots
  <2>1. PICK r \in JobRecord : job' = [job EXCEPT ![j] = r] /\ r.state = final
    BY <1>1, <1>3, EndRecord
  <2>2. LiveOn(n)' = LiveOn(n) \ {j}
    BY <1>1, <2>1, LiveAfterUpdate
  <2>3. node' = Released(node, job[j].node)
    BY <1>3 DEF EndJob
  <2>4. QED
    BY <1>1, <2>2, <2>3, LeavingKeepsSlots
<1>4. QED
  BY <1>2, <1>3 DEF JobUpdate, CompleteJob, FailJob, Final

LEMMA FailoverKeepsSlots ==
  ASSUME FabricInv, FailoverInv, NoPhantomSlots, NEW n \in Node, FailoverStep(n)
  PROVE  NoPhantomSlots'
<1> SUFFICES ASSUME NEW k \in Node PROVE node'[k].active <= Cardinality(LiveOn(k)')
  BY DEF NoPhantomSlots
<1>1. PICK j \in affected[n] :
        \/ FailoverExhausted(n, j) \/ FailoverUnplaced(n, j)
        \/ \E m \in Node : FailoverMoved(n, j, m)
  BY DEF FailoverStep
<1>2. /\ TypeOK /\ node \in [Node -> NodeRecord]
      /\ j \in DOMAIN job /\ job[j].node = n
  BY DEF FabricInv, FailoverInv, TypeOK, FailoverOnDeadNode, LiveOn
<1>3. CASE FailoverExhausted(n, j) \/ FailoverUnplaced(n, j)
  <2>1. PICK r \in JobRecord : job' = [job EXCEPT ![j] = r] /\ r.state = "FAILED"
    BY <1>2, <1>3, FailedRecord
  <2>2. LiveOn(k)' = LiveOn(k) \ {j}
    BY <1>2, <2>1, LiveAfterUpdate DEF Final
  <2>3. node' = Released(node, n)
    BY <1>3 DEF FailoverExhausted, FailoverUnplaced, FreedNodes
  <2>4. QED
    BY <1>2, <2>2, <2>3, LeavingKeepsSlots
<1>4. ASSUME NEW m \in Node, FailoverMoved(n, j, m)
      PROVE  node'[k].active <= Cardinality(LiveOn(k)')
  <2>1. PICK r \in JobRecord :
          /\ job' = [job EXCEPT ![j] = r] /\ r.state = "RUNNING" /\ r.node = m
          /\ r.hist = Append(job[j].hist, [from |-> n, to |-> m])
    BY <1>2, <1>4, MovedRecord
  <2>2. /\ LiveOn(k)' = IF k = m THEN LiveOn(k) \cup {j} ELSE LiveOn(k) \ {j}
        /\ m # n
    <3>1. m # n
      BY <1>4, ReplacementLives
    <3>2. LiveOn(k)' = IF r.node = k /\ r.state \notin Final
                       THEN LiveOn(k) \cup {j} ELSE LiveOn(k) \ {j}
      BY <1>2, <2>1, LiveAfterUpdate
    <3>3. QED
      BY <2>1, <3>1, <3>2 DEF Final
  <2>3. /\ Released(node, n) \in [Node -> NodeRecord]
        /\ node' = Allocated(Released(node, n), m)
    BY <1>2, <1>4, SlotTypes DEF FailoverMoved, FreedNodes
  <2>4. CASE k # m
    <3>1. node'[k].active = Released(node, n)[k].active
      BY <2>3, <2>4, SlotCounts
    <3>2. QED
      BY <1>2, <2>2, <2>4, <3>1, LeavingKeepsSlots
  <2>5. CASE k = m
    <3>1. node'[k].active = node[k].active + 1 /\ node[k].active \in Nat
      BY <1>2, <2>2, <2>3, <2>5, SlotCounts
    <3>2. j \notin LiveOn(k) /\ IsFiniteSet(LiveOn(k)) /\ Cardinality(LiveOn(k)) \in Nat
      BY <1>2, <2>2, <2>5, LiveFinite DEF LiveOn
    <3>3. Cardinality(LiveOn(k) \cup {j}) = Cardinality(LiveOn(k)) + 1
      BY <3>2, SizeMoves
    <3>4. node[k].active <= Cardinality(LiveOn(k))
      BY DEF NoPhantomSlots
    <3>5. QED
      BY <2>2, <2>5, <3>1, <3>2, <3>3, <3>4
  <2>6. QED
    BY <2>4, <2>5
<1>5. QED
  BY <1>1, <1>3, <1>4

LEMMA SlotStep ==
  ASSUME FabricInv, FailoverInv, NoPhantomSlots, [Next]_vars
  PROVE  NoPhantomSlots'
<1>1. node \in [Node -> NodeRecord] /\ TypeOK
  BY DEF FabricInv, TypeOK
<1>2. ASSUME job' = job, \A n \in Node : node'[n].active = node[n].active
      PROVE  NoPhantomSlots'
  BY <1>2 DEF NoPhantomSlots, LiveOn, Live
<1>3. CASE UNCHANGED <<job, node>>
  BY <1>2, <1>3
<1>4. CASE UNCHANGED vars
  BY <1>3, <1>4 DEF vars
<1>5. CASE \E u \in User, w \in Requests, p \in Priorities : Schedule(u, w, p)
  BY <1>3, <1>5 DEF Schedule
<1>6. CASE Tick
  BY <1>1, <1>2, <1>6 DEF Tick, NodeRecord
<1>7. ASSUME NEW n \in Node, BeginFailover(n), job' = job PROVE NoPhantomSlots'
  BY <1>1, <1>2, <1>7 DEF BeginFailover, MarkedUnavailable, NodeRecord
<1>8. CASE Scan
  <2>1. CASE ScanStart
    BY <1>3, <2>1 DEF ScanStart
  <2>2. ASSUME NEW n \in Node, ScanUnavailable(n) PROVE NoPhantomSlots'
    BY <1>7, <2>2 DEF ScanUnavailable, ScanReady
  <2>3. ASSUME NEW n \in Node, ScanDegraded(n) PROVE NoPhantomSlots'
    BY <1>1, <1>2, <2>3 DEF ScanDegraded, ScanReady, NodeRecord
  <2>4. ASSUME NEW n \in Node, ScanPass(n) PROVE NoPhantomSlots'
    BY <1>3, <2>4 DEF ScanPass, ScanReady
  <2>5. QED
    BY <1>8, <2>1, <2>2, <2>3, <2>4 DEF Scan
<1>9. ASSUME NEW n \in Node, HeartbeatIgnored(n) \/ QuarantineNode(n)
      PROVE  NoPhantomSlots'
  BY <1>1, <1>2, <1>9 DEF HeartbeatIgnored, QuarantineNode, NodeRecord
<1>10. ASSUME NEW n \in Node, NEW s \in Reports, NEW v \in VramReports,
              NEW load \in 0 .. MaxJobs, Heartbeat(n, s, v, load)
       PROVE  NoPhantomSlots'
  <2>1. /\ node'[n].active = load /\ load <= Cardinality(LiveOn(n))
        /\ \A m \in Node \ {n} : node'[m].active = node[m].active
        /\ \A m \in Node : LiveOn(m)' = LiveOn(m)
    BY <1>1, <1>10 DEF Heartbeat, LiveOn, Live
  <2>2. ASSUME NEW m \in Node PROVE node'[m].active <= Cardinality(LiveOn(m)')
    <3>1. CASE m = n
      BY <2>1, <3>1
    <3>2. CASE m # n
      BY <2>1, <3>2 DEF NoPhantomSlots
    <3>3. QED
      BY <3>1, <3>2
  <2>3. QED
    BY <2>2 DEF NoPhantomSlots
<1>11. ASSUME NEW n \in Node, TriggerFailover(n) PROVE NoPhantomSlots'
  BY <1>7, <1>11 DEF TriggerFailover
<1>12. QED
  BY <1>4, <1>5, <1>6, <1>8, <1>9, <1>10, <1>11, CreationKeepsSlots,
     UpdateKeepsSlots, FailoverKeepsSlots DEF Next, Fleet

\* Capacity is not lost: a node is never charged for more jobs than live on it,
\* as long as one request is served at a time.
THEOREM FabricReturnsSlots ==
  ASSUME ~Threads
  PROVE  Spec => []NoPhantomSlots
<1>1. Init => OneAtATime
  BY DEF Init, OneAtATime
<1>2. FabricInv /\ OneAtATime /\ FailoverInv /\ [Next]_vars => OneAtATime' /\ FailoverInv'
  BY OneAtATimeStep, FailoverInvStep
<1>3. FabricInv /\ FailoverInv /\ NoPhantomSlots /\ [Next]_vars => NoPhantomSlots'
  BY SlotStep
<1>4. QED
  BY <1>1, <1>2, <1>3, FabricSafe, FailoverInitially, SlotsInitially, PTL DEF Spec

-----------------------------------------------------------------------------
(* Agents.  The fabric's invariants hold under the actions of the          *)
(* orchestrator as well, and RunsInv ties each run to its job: it says     *)
(* that run and job have the same position, which is what makes an update  *)
(* of one job leave the other runs alone.                                  *)

RunRecord ==
  [job : Nat, asked : DataClassification, node : Node, step : 0 .. PlanSteps,
   done : BOOLEAN]

\* What one run owes the invariant.
RunOK(r) ==
  /\ runs[r].job = r
  /\ job[r].ckpts = runs[r].step
  /\ runs[r].done => /\ runs[r].step = PlanSteps
                     /\ job[r].state = "COMPLETED"

RunsInv ==
  /\ runs \in Seq(RunRecord)
  /\ Len(runs) = Len(job)
  /\ \A r \in DOMAIN runs : RunOK(r)

AgentInv == FabricInv /\ FailoverInv /\ offers = {} /\ RunsInv

LEMMA AgentInitial == AgentInit => AgentInv
<1> SUFFICES ASSUME AgentInit PROVE AgentInv
  OBVIOUS
<1>1. FabricInv /\ FailoverInv
  BY FabricInitial, FailoverInitially DEF AgentInit
<1>2. RunsInv
  BY EmptySeq DEF AgentInit, Init, RunsInv
<1>3. QED
  BY <1>1, <1>2 DEF AgentInit, Init, AgentInv

\* A run, by its fields.
LEMMA RunFields ==
  ASSUME AgentInv, NEW r \in DOMAIN runs
  PROVE  /\ runs[r] \in RunRecord
         /\ runs[r].step \in 0 .. PlanSteps
         /\ runs[r].job = r
         /\ r \in DOMAIN job
         /\ RunOK(r)
<1>1. runs \in Seq(RunRecord) /\ job \in Seq(JobRecord) /\ Len(runs) = Len(job)
  BY DEF AgentInv, RunsInv, FabricInv, TypeOK
<1>2. runs[r] \in RunRecord /\ r \in DOMAIN job
  BY <1>1
<1>3. QED
  BY <1>2 DEF AgentInv, RunsInv, RunRecord, RunOK

-----------------------------------------------------------------------------
(* The fleet: heartbeats, scans and failovers as they are in Fabric.       *)

\* A step of the fleet changes no job but those being moved, which have not
\* ended, and touches no checkpoint.
LEMMA FleetKeepsEndedJobs ==
  ASSUME FabricInv, FailoverInv, Fleet
  PROVE  /\ DOMAIN job' = DOMAIN job
         /\ Len(job') = Len(job)
         /\ \A j \in DOMAIN job : /\ job'[j].ckpts = job[j].ckpts
                                  /\ job[j].state = "COMPLETED" => job'[j].state = "COMPLETED"
<1>1. TypeOK /\ job \in Seq(JobRecord)
  BY DEF FabricInv, TypeOK
<1>2. CASE UNCHANGED job
  BY <1>2
<1>3. ASSUME NEW n \in Node, FailoverStep(n)
      PROVE  /\ DOMAIN job' = DOMAIN job
             /\ Len(job') = Len(job)
             /\ \A k \in DOMAIN job :
                  /\ job'[k].ckpts = job[k].ckpts
                  /\ job[k].state = "COMPLETED" => job'[k].state = "COMPLETED"
  <2>1. PICK j \in affected[n] :
          \/ FailoverExhausted(n, j) \/ FailoverUnplaced(n, j)
          \/ \E m \in Node : FailoverMoved(n, j, m)
    BY <1>3 DEF FailoverStep
  <2>2. j \in DOMAIN job /\ job[j].state # "COMPLETED"
    BY DEF FabricInv, TypeOK, FailoverInv, FailoverOnDeadNode, LiveOn, Live, Final
  <2>3. \E r \in JobRecord : job' = [job EXCEPT ![j] = r] /\ r.ckpts = job[j].ckpts
    <3>1. CASE FailoverExhausted(n, j) \/ FailoverUnplaced(n, j)
      BY <1>1, <2>2, <3>1, FailedRecord
    <3>2. ASSUME NEW m \in Node, FailoverMoved(n, j, m)
          PROVE  \E r \in JobRecord : job' = [job EXCEPT ![j] = r] /\ r.ckpts = job[j].ckpts
      <4>1. PICK r \in JobRecord :
              /\ job' = [job EXCEPT ![j] = r]
              /\ r.state = "RUNNING"
              /\ r.node = m
              /\ r.hist = Append(job[j].hist, [from |-> n, to |-> m])
              /\ r.ckpts = job[j].ckpts
        BY <1>1, <2>2, <3>2, MovedRecord
      <4>2. QED
        BY <4>1
    <3>3. QED
      BY <2>1, <3>1, <3>2
  <2>4. PICK r \in JobRecord : job' = [job EXCEPT ![j] = r] /\ r.ckpts = job[j].ckpts
    BY <2>3
  <2>5. QED
    BY <1>1, <2>2, <2>4
<1>4. QED
  BY <1>2, <1>3 DEF Fleet, Tick, HeartbeatIgnored, Heartbeat, TriggerFailover,
     QuarantineNode, Scan, ScanStart, ScanUnavailable, ScanDegraded, ScanPass, ScanReady

LEMMA FleetStep ==
  ASSUME ~Threads, AgentInv, Fleet, UNCHANGED runs
  PROVE  AgentInv'
<1>1. FabricInv' /\ FailoverInv'
  <2>1. FabricInv /\ OneAtATime /\ FailoverInv /\ Next
    BY DEF AgentInv, OneAtATime, Next
  <2>2. QED
    BY <2>1, FabricStep, FailoverInvStep
<1>2. offers' = {}
  <2>1. Scan => offers' = offers
    BY DEF Scan, ScanStart, ScanUnavailable, ScanDegraded, ScanPass, ScanReady
  <2>2. ASSUME NEW n \in Node, FailoverStep(n) PROVE offers' = offers
    BY <2>2 DEF FailoverStep, FailoverExhausted, FailoverUnplaced, FailoverMoved,
       NextAffected
  <2>3. offers' = offers
    BY <2>1, <2>2 DEF Fleet, Tick, HeartbeatIgnored, Heartbeat, TriggerFailover,
       QuarantineNode
  <2>4. QED
    BY <2>3 DEF AgentInv
<1>3. RunsInv'
  <2>1. /\ Len(job') = Len(job)
        /\ \A j \in DOMAIN job :
             /\ job'[j].ckpts = job[j].ckpts
             /\ job[j].state = "COMPLETED" => job'[j].state = "COMPLETED"
    BY FleetKeepsEndedJobs DEF AgentInv
  <2>2. \A r \in DOMAIN runs : r \in DOMAIN job /\ RunOK(r)
    BY RunFields
  <2>3. \A r \in DOMAIN runs' : RunOK(r)'
    BY <2>1, <2>2 DEF RunOK
  <2>4. QED
    BY <2>1, <2>3 DEF AgentInv, RunsInv
<1>4. QED
  BY <1>1, <1>2, <1>3 DEF AgentInv

-----------------------------------------------------------------------------
(* The orchestrator's own actions.                                         *)

LEMMA DispatchStep ==
  ASSUME ~Threads, AgentInv, NEW w \in Requests, Dispatch(w)
  PROVE  AgentInv'
<1>1. PICK n \in Placements(node, userJobs[SystemUser], w, "HIGH") :
        /\ job' = Append(job, NewJob([user |-> SystemUser, node |-> n, work |-> JobWork(w)]))
        /\ node' = Allocated(node, n)
        /\ runs' = Append(runs, [job |-> Len(job) + 1, asked |-> w.cls, node |-> n,
                                 step |-> 0, done |-> FALSE])
  BY DEF Dispatch
<1> DEFINE o == [user |-> SystemUser, node |-> n, work |-> JobWork(w)]
           run == [job |-> Len(job) + 1, asked |-> w.cls, node |-> n, step |-> 0,
                   done |-> FALSE]
<1>2. n \in Node
  BY <1>1 DEF Placements
<1>3. w \in Work /\ w.cls \in DataClassification
  BY FabricCoreAssumption DEF Work
<1>4. JobWork(w) \in Work /\ JobWork(w).cls = "INTERNAL" /\ JobWork(w).zones = {}
  <2> DEFINE x == [w EXCEPT !.cls = "INTERNAL"]
             y == [x EXCEPT !.model = FALSE]
             z == [y EXCEPT !.zones = {}]
  <2>1. x \in Work /\ x.cls = "INTERNAL"
    BY <1>3 DEF Work, DataClassification
  <2>2. y \in Work /\ y.cls = "INTERNAL"
    BY <2>1 DEF Work
  <2>3. z \in Work /\ z.cls = "INTERNAL" /\ z.zones = {}
    BY <2>2 DEF Work
  <2>4. QED
    BY <2>3 DEF JobWork
<1>5. o \in Offer /\ ZoneAdmits(o.work, ZoneOf[o.node])
  BY <1>2, <1>4, FabricCoreAssumption DEF Offer, ZoneAdmits
<1>6. /\ FabricInv /\ FailoverInv /\ TypeOK /\ offers = {} /\ Idle
      /\ affected' = affected /\ offers' = offers /\ scanAt' = scanAt
      /\ userJobs' = Charged(userJobs, SystemUser)
  BY DEF AgentInv, FabricInv, Dispatch, MayStart
<1>7. FabricInv'
  BY <1>1, <1>5, <1>6, AppendStep
<1>8. FailoverInv'
  BY <1>1, <1>5, <1>6, CreationKeepsFailover DEF Idle
<1>9. RunsInv'
  <2>1. /\ runs \in Seq(RunRecord) /\ job \in Seq(JobRecord) /\ Len(runs) = Len(job)
        /\ \A r \in DOMAIN runs : RunOK(r) /\ r \in DOMAIN job
    BY <1>6, RunFields DEF AgentInv, RunsInv, TypeOK
  <2>2. run \in RunRecord
    BY <1>2, <1>3, <2>1, AgentAssumption DEF RunRecord
  <2>3. NewJob(o) \in JobRecord /\ NewJob(o).ckpts = 0
    BY <1>5, NewJobRecord
  <2>4. /\ runs' \in Seq(RunRecord) /\ Len(runs') = Len(job')
        /\ DOMAIN runs' = DOMAIN runs \cup {Len(job) + 1}
        /\ runs'[Len(job) + 1] = run /\ job'[Len(job) + 1] = NewJob(o)
        /\ \A r \in DOMAIN runs : runs'[r] = runs[r] /\ job'[r] = job[r]
    BY <1>1, <2>1, <2>2, <2>3
  <2>5. \A r \in DOMAIN runs : RunOK(r)'
    BY <2>1, <2>4 DEF RunOK
  <2>6. \A r : r = Len(job) + 1 => RunOK(r)'
    BY <2>3, <2>4 DEF RunOK
  <2>7. \A r \in DOMAIN runs' : RunOK(r)'
    BY <2>4, <2>5, <2>6
  <2>8. QED
    BY <2>4, <2>7 DEF RunsInv
<1>10. QED
  BY <1>6, <1>7, <1>8, <1>9 DEF AgentInv

\* A step that rewrites the records of one run and of its job.
LEMMA RunStep ==
  ASSUME AgentInv, Idle, NEW r \in DOMAIN runs, NEW run \in RunRecord, NEW rec \in JobRecord,
         runs' = [runs EXCEPT ![r] = run], run.job = r,
         job' = [job EXCEPT ![r] = rec],
         rec.node = job[r].node, rec.work = job[r].work, rec.retries = job[r].retries,
         rec.hist = job[r].hist, rec.state \in {"CHECKPOINTED", "COMPLETED"},
         rec.ckpts = run.step,
         run.done => run.step = PlanSteps /\ rec.state = "COMPLETED",
         node' \in {node, Released(node, job[r].node)},
         userJobs' \in {userJobs, Refunded(userJobs, SystemUser)},
         UNCHANGED <<offers, affected, scanAt>>
  PROVE  AgentInv'
<1>1. /\ FabricInv /\ TypeOK /\ FailoverInv /\ offers = {}
      /\ r \in DOMAIN job /\ JobOK(job[r]) /\ job[r].node \in Node
  BY RunFields, JobFields, JobsOK DEF AgentInv, FabricInv
<1>2. FabricInv'
  <2>1. JobOK(rec)
    BY <1>1 DEF JobOK
  <2>2. QED
    BY <1>1, <2>1, RewriteStep, FabricCoreAssumption
<1>3. FailoverInv'
  <2>1. \A k \in DOMAIN rec.hist : rec.hist[k].from # rec.hist[k].to
    BY <1>1 DEF FailoverInv, NeverBackToFailedNode
  <2>2. StatesInUse' /\ NeverBackToFailedNode'
    BY <1>1, <2>1, RecordStep DEF FailoverInv
  <2>3. QED
    BY <2>2 DEF FailoverInv, FailoverOnDeadNode, Idle
<1>4. RunsInv'
  <2>1. /\ runs \in Seq(RunRecord) /\ job \in Seq(JobRecord) /\ Len(runs) = Len(job)
        /\ \A k \in DOMAIN runs : RunOK(k) /\ k \in DOMAIN job
    BY <1>1, RunFields DEF AgentInv, RunsInv, TypeOK
  <2>2. /\ runs' \in Seq(RunRecord) /\ Len(runs') = Len(job') /\ DOMAIN runs' = DOMAIN runs
        /\ \A k \in DOMAIN runs : /\ runs'[k] = IF k = r THEN run ELSE runs[k]
                                  /\ job'[k] = IF k = r THEN rec ELSE job[k]
    BY <1>1, <2>1
  <2>3. \A k \in DOMAIN runs : RunOK(k)'
    BY <2>1, <2>2 DEF RunOK
  <2>4. QED
    BY <2>2, <2>3 DEF RunsInv
<1>5. QED
  BY <1>1, <1>2, <1>3, <1>4 DEF AgentInv

LEMMA AgentStepStep ==
  ASSUME ~Threads, AgentInv, NEW r \in DOMAIN runs, AgentStep(r)
  PROVE  AgentInv'
<1> DEFINE last == runs[r].step + 1 = PlanSteps
           a == [job[r] EXCEPT !.ckpts = @ + 1]
           rec == [a EXCEPT !.state = IF last THEN "COMPLETED" ELSE "CHECKPOINTED"]
           b == [runs[r] EXCEPT !.step = @ + 1]
           run == [b EXCEPT !.done = @ \/ last]
<1>1. /\ runs[r] \in RunRecord /\ runs[r].job = r /\ r \in DOMAIN job /\ RunOK(r)
      /\ job[r] \in JobRecord /\ runs[r].step \in 0 .. PlanSteps
  BY RunFields, JobFields DEF AgentInv, FabricInv
<1>2. runs[r].step < PlanSteps /\ PlanSteps \in Nat /\ ~runs[r].done
  BY <1>1, AgentAssumption DEF AgentStep, RunOK
<1>3. rec \in JobRecord /\ rec.state = IF last THEN "COMPLETED" ELSE "CHECKPOINTED"
  <2>1. job[r].ckpts + 1 \in Nat
    BY <1>1 DEF JobRecord
  <2>2. a \in JobRecord
    BY <1>1, <2>1 DEF JobRecord
  <2>3. QED
    BY <2>2 DEF JobRecord, JobState
<1>4. /\ rec.node = job[r].node /\ rec.work = job[r].work
      /\ rec.retries = job[r].retries /\ rec.hist = job[r].hist
      /\ rec.ckpts = job[r].ckpts + 1
  BY <1>1 DEF JobRecord
<1>5. /\ run \in RunRecord /\ run.job = r /\ run.step = runs[r].step + 1
      /\ run.done = last
  <2>1. runs[r].step + 1 \in 0 .. PlanSteps
    BY <1>1, <1>2
  <2>2. b \in RunRecord /\ b.job = r /\ b.step = runs[r].step + 1 /\ b.done = runs[r].done
    BY <1>1, <2>1 DEF RunRecord
  <2>3. QED
    BY <1>2, <2>2 DEF RunRecord
<1>6. runs' = [runs EXCEPT ![r] = run] /\ job' = [job EXCEPT ![r] = rec]
  BY <1>1 DEF AgentStep
<1>7. /\ node' \in {node, Released(node, job[r].node)}
      /\ userJobs' \in {userJobs, Refunded(userJobs, SystemUser)}
      /\ UNCHANGED <<offers, affected, scanAt>>
      /\ Idle
  BY <1>1 DEF AgentStep, MayStart
<1>8. /\ rec.ckpts = run.step
      /\ rec.state \in {"CHECKPOINTED", "COMPLETED"}
      /\ run.done => run.step = PlanSteps /\ rec.state = "COMPLETED"
  BY <1>1, <1>3, <1>4, <1>5 DEF RunOK
<1> HIDE DEF rec, run
<1>9. QED
  BY <1>3, <1>4, <1>5, <1>6, <1>7, <1>8, RunStep

LEMMA AgentStepPastEndStep ==
  ASSUME ~Threads, AgentInv, NEW r \in DOMAIN runs, AgentStepPastEnd(r)
  PROVE  AgentInv'
<1> DEFINE rec == [job[r] EXCEPT !.state = "COMPLETED"]
           run == [runs[r] EXCEPT !.done = TRUE]
<1>1. /\ runs[r] \in RunRecord /\ runs[r].job = r /\ RunOK(r) /\ runs[r].step = PlanSteps
      /\ job[r] \in JobRecord
  BY RunFields, JobFields DEF AgentInv, FabricInv, AgentStepPastEnd
<1>2. /\ rec \in JobRecord /\ rec.state = "COMPLETED"
      /\ rec.node = job[r].node /\ rec.work = job[r].work
      /\ rec.retries = job[r].retries /\ rec.hist = job[r].hist
      /\ rec.ckpts = job[r].ckpts
  BY <1>1 DEF JobRecord, JobState
<1>3. run \in RunRecord /\ run.job = r /\ run.step = PlanSteps
  BY <1>1 DEF RunRecord
<1>4. runs' = [runs EXCEPT ![r] = run] /\ job' = [job EXCEPT ![r] = rec]
  BY <1>1 DEF AgentStepPastEnd
<1>5. /\ node' \in {node, Released(node, job[r].node)}
      /\ userJobs' \in {userJobs, Refunded(userJobs, SystemUser)}
      /\ UNCHANGED <<offers, affected, scanAt>>
      /\ Idle
  BY <1>1 DEF AgentStepPastEnd, MayStart
<1>6. rec.ckpts = run.step
  BY <1>1, <1>2, <1>3 DEF RunOK
<1>7. QED
  BY <1>2, <1>3, <1>4, <1>5, <1>6, RunStep

LEMMA MigrateStep ==
  ASSUME AgentInv, NEW r \in DOMAIN runs, NEW m \in Node, Migrate(r, m)
  PROVE  AgentInv'
<1> DEFINE run == [runs[r] EXCEPT !.node = m]
<1>1. FabricInv' /\ FailoverInv' /\ offers' = {} /\ job' = job
  BY DEF Migrate, vars, AgentInv, FabricInv, TypeOK, SovereignConfinement, OffersAdmitted,
     RetryBudget, QuarantineIsPermanent, FailoverInv, StatesInUse, FailoverOnDeadNode,
     NeverBackToFailedNode, LiveOn, Live
<1>2. runs[r] \in RunRecord /\ runs \in Seq(RunRecord)
  BY RunFields DEF AgentInv, RunsInv
<1>3. /\ run \in RunRecord /\ run.job = runs[r].job /\ run.step = runs[r].step
      /\ run.done = runs[r].done
  BY <1>2 DEF RunRecord
<1>4. runs' = [runs EXCEPT ![r] = run]
  BY DEF Migrate, Migrated
<1> HIDE DEF run
<1>5. /\ runs' \in Seq(RunRecord) /\ Len(runs') = Len(runs) /\ DOMAIN runs' = DOMAIN runs
      /\ \A k \in DOMAIN runs : runs'[k] = IF k = r THEN run ELSE runs[k]
  BY <1>2, <1>3, <1>4
<1>6. \A k \in DOMAIN runs' : RunOK(k)'
  <2>1. \A k \in DOMAIN runs : RunOK(k)
    BY DEF AgentInv, RunsInv
  <2>2. ASSUME NEW k \in DOMAIN runs PROVE RunOK(k)'
    <3>1. /\ runs'[k].job = runs[k].job
          /\ runs'[k].step = runs[k].step
          /\ runs'[k].done = runs[k].done
      BY <1>3, <1>5
    <3>2. QED
      BY <1>1, <2>1, <3>1 DEF RunOK
  <2>3. QED
    BY <1>5, <2>2
<1>7. QED
  BY <1>1, <1>5, <1>6 DEF AgentInv, RunsInv

LEMMA AgentInvStep ==
  ASSUME ~Threads, AgentInv, [AgentNext]_agentVars
  PROVE  AgentInv'
<1>1. CASE UNCHANGED agentVars
  <2>1. FabricInv' /\ FailoverInv'
    BY <1>1 DEF agentVars, vars, AgentInv, FabricInv, TypeOK, SovereignConfinement,
       OffersAdmitted, RetryBudget, QuarantineIsPermanent, FailoverInv, StatesInUse,
       FailoverOnDeadNode, NeverBackToFailedNode, LiveOn, Live
  <2>2. QED
    BY <1>1, <2>1 DEF agentVars, vars, AgentInv, RunsInv, RunOK
<1>2. CASE AgentNext
  BY <1>2, DispatchStep, AgentStepStep, AgentStepPastEndStep, MigrateStep, FleetStep
  DEF AgentNext
<1>3. QED
  BY <1>1, <1>2

\* Every reachable state of agents on the fabric satisfies the invariant, as
\* long as one request is served at a time.
THEOREM AgentsSafe ==
  ASSUME ~Threads
  PROVE  AgentSpec => []AgentInv
<1>1. AgentInv /\ [AgentNext]_agentVars => AgentInv'
  BY AgentInvStep
<1>2. QED
  BY <1>1, AgentInitial, PTL DEF AgentSpec

\* Each step that a run executed left exactly one checkpoint in its job,
\* whatever failovers and migrations came between.
THEOREM AgentsCheckpointEachStep ==
  ASSUME ~Threads
  PROVE  AgentSpec => []CheckpointPerStep
<1>1. AgentInv => CheckpointPerStep
  BY RunFields DEF CheckpointPerStep, RunOK
<1>2. QED
  BY <1>1, AgentsSafe, PTL

\* The job of a finished run stays COMPLETED: no failover takes it up again.
THEOREM AgentsStayFinished ==
  ASSUME ~Threads
  PROVE  AgentSpec => []FinishedStaysFinished
<1>1. AgentInv => FinishedStaysFinished
  BY RunFields DEF FinishedStaysFinished, RunOK
<1>2. QED
  BY <1>1, AgentsSafe, PTL
=============================================================================
