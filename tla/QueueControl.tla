----------------------------- MODULE QueueControl -----------------------------
(***************************************************************************)
(* The workload queue of the autonomous operations plane                   *)
(* (autonomous_ops/queue_control.py): admission by user, by depth and by   *)
(* model, strict priorities, cancellation, expiry and shedding.  Each call *)
(* of the manager is one action.                                           *)
(*                                                                         *)
(* Priorities are numbered from 1, the most urgent.                        *)
(* Bound: at most MaxItems items are queued or running.                    *)
(***************************************************************************)
EXTENDS Integers, Sequences, FiniteSets

CONSTANTS
  Users, Models,
  Offered,       \* the priorities that callers use
  MaxTotal,      \* max_total_queue
  MaxPerUser,    \* max_per_user_concurrency
  MaxPerModel,   \* max_per_model_queue
  ShedTo,        \* rejection_threshold of the callers that shed
  MaxItems

ASSUME QueueAssumption ==
  Offered \subseteq 1..5 /\ {MaxTotal, MaxPerUser, MaxPerModel, ShedTo, MaxItems} \subseteq Nat

Critical == 1
High == 2
Low == 4
Background == 5
Priorities == 1..5

VARIABLES
  queue,         \* _queues, the items of each priority in order
  cancelled,     \* ids of the cancelled items that are still queued
  expired,       \* ids of the queued items whose timeout has passed
  active,        \* _user_active_count
  running,       \* items handed out and not released yet
  backpressure   \* _backpressure_active

queueVars == <<queue, cancelled, expired, active, running, backpressure>>

QueueInit ==
  /\ queue = [p \in Priorities |-> <<>>]
  /\ cancelled = {} /\ expired = {}
  /\ active = [u \in Users |-> 0]
  /\ running = {}
  /\ backpressure = FALSE

Queued(p) == {queue[p][i] : i \in DOMAIN queue[p]}
AllQueued == UNION {Queued(p) : p \in Priorities}
Uncancelled == {it \in AllQueued : it.id \notin cancelled}
TotalQueued == Cardinality(AllQueued)

First(S) == CHOOSE n \in S : \A k \in S : n <= k

FreeIds == 1..MaxItems \ {it.id : it \in AllQueued \cup running}
NewId == First(FreeIds)

OverFairShare(u, p) ==
  /\ p > High
  /\ active[u] + Cardinality({it \in Uncancelled : it.user = u}) >= MaxPerUser

IsFull == TotalQueued >= MaxTotal

OverModelShare(m, p) ==
  /\ p # Critical
  /\ Cardinality({it \in Uncancelled : it.model = m}) >= MaxPerModel

\* A full queue raises backpressure, even if the model limit then refuses.
Enqueue(u, m, p) ==
  /\ FreeIds # {}
  /\ ~OverFairShare(u, p)
  /\ backpressure' = (backpressure \/ IsFull)
  /\ IF (IsFull /\ p >= Low) \/ OverModelShare(m, p)
     THEN UNCHANGED queue
     ELSE queue' = [queue EXCEPT ![p] = Append(@, [id |-> NewId, user |-> u, model |-> m])]
  /\ UNCHANGED <<cancelled, expired, active, running>>

IsLive(it) == it.id \notin cancelled \cup expired

Live(p) == {i \in DOMAIN queue[p] : IsLive(queue[p][i])}

\* Mutant: less urgent work is served while there is some.
ServingLeastUrgent ==
  LET waiting == {p \in Priorities : Live(p) # {}}
  IN  {p \in waiting : \A q \in waiting : q <= p}

Serving == {p \in Priorities : Live(p) # {}}

\* Items that have left the queue are forgotten.
Forget ==
  LET left == UNION {{queue'[p][i].id : i \in DOMAIN queue'[p]} : p \in Priorities}
  IN  cancelled' = cancelled \cap left /\ expired' = expired \cap left

\* Mutant: skipped items are counted as handed out.
ChargeSkipped(p, i) ==
  LET taken == {queue[p][k] : k \in 1..i}
  IN  [u \in Users |-> active[u] + Cardinality({it \in taken : it.user = u})]

Charge(p, i) == [active EXCEPT ![queue[p][i].user] = @ + 1]

\* The first live item of the first priority that has one; everything before
\* it is dead and thrown away.
DequeueNext ==
  /\ Serving # {}
  /\ LET p == First(Serving)
         i == First(Live(p))
     IN  /\ queue' = [q \in Priorities |->
                        IF q < p /\ Live(q) = {} THEN <<>>
                        ELSE IF q = p THEN SubSeq(queue[q], i + 1, Len(queue[q]))
                        ELSE queue[q]]
         /\ active' = Charge(p, i)
         /\ running' = running \cup
              {[id |-> queue[p][i].id, user |-> queue[p][i].user, priority |-> p]}
  /\ Forget
  /\ UNCHANGED backpressure

DequeueNothing ==
  /\ Serving = {}
  /\ queue' = [p \in Priorities |-> <<>>]
  /\ backpressure' = FALSE
  /\ Forget
  /\ UNCHANGED <<active, running>>

Dequeue == DequeueNext \/ DequeueNothing

ReleaseJob(it) ==
  /\ running' = running \ {it}
  /\ active' = [active EXCEPT ![it.user] = IF @ > 0 THEN @ - 1 ELSE @]
  /\ UNCHANGED <<queue, cancelled, expired, backpressure>>

CancelJob(it) ==
  /\ cancelled' = cancelled \cup {it.id}
  /\ UNCHANGED <<queue, expired, active, running, backpressure>>

\* The timeout of a queued item passes.
Expire(it) ==
  /\ expired' = expired \cup {it.id}
  /\ UNCHANGED <<queue, cancelled, active, running, backpressure>>

Excess == TotalQueued - ShedTo
Least(a, b) == IF a < b THEN a ELSE b

\* How many items of a priority are shed.
Shed(p) ==
  CASE Excess <= 0 \/ p < Low -> 0
    [] Excess > 0 /\ p = Background -> Least(Excess, Len(queue[Background]))
    [] Excess > 0 /\ p = Low ->
         Least(Excess - Least(Excess, Len(queue[Background])), Len(queue[Low]))

ShedLowPriorityLoad ==
  /\ queue' = [p \in Priorities |-> SubSeq(queue[p], 1, Len(queue[p]) - Shed(p))]
  /\ Forget
  /\ UNCHANGED <<active, running, backpressure>>

QueueNext ==
  \/ \E u \in Users, m \in Models, p \in Offered : Enqueue(u, m, p)
  \/ Dequeue
  \/ \E it \in running : ReleaseJob(it)
  \/ \E it \in AllQueued : CancelJob(it) \/ Expire(it)
  \/ ShedLowPriorityLoad

\* A worker keeps asking for work.
QueueSpec == QueueInit /\ [][QueueNext]_queueVars /\ WF_queueVars(Dequeue)

-----------------------------------------------------------------------------
(* Properties *)

\* A user's counter is the number of items of that user being worked on,
\* whatever was cancelled, expired or shed; a counter that drifts up would
\* throttle the user for ever (dequeue_next, release_job).
SlotsMatch ==
  \A u \in Users : active[u] = Cardinality({it \in running : it.user = u})

\* No user has more than the fair share of work below HIGH in the system,
\* queued and running together (enqueue, the fair-use check).
FairShare ==
  \A u \in Users :
    Cardinality({it \in running : it.user = u /\ it.priority > High})
      + Cardinality({it \in UNION {Queued(p) : p \in 3..5} :
                       it.user = u /\ it.id \notin cancelled}) <= MaxPerUser

\* A user's share is neither exceeded nor used up by work that is gone.
SharesAreKept == SlotsMatch /\ FairShare

\* A CRITICAL item (the one with id 1, all ids being alike) does not stay in
\* the queue for ever, whatever else arrives (the strict priorities of dequeue_next).
CriticalIsServed ==
  (\E it \in Queued(Critical) : it.id = 1) ~> (\A it \in Queued(Critical) : it.id # 1)
=============================================================================
