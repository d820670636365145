---------------------------- MODULE CaseResponse ----------------------------
(***************************************************************************)
(* From a case to a verified response (security_operations/): the case     *)
(* state machine, staged actions with their approval requests, the         *)
(* executor with its idempotency table and asset locks, verification,      *)
(* rollback, closing and reopening.                                        *)
(*                                                                         *)
(* The service runs its handlers on a pool of threads.  A handler is one   *)
(* action on an idle thread, but for the execution of an action: there     *)
(* another thread may run between taking the asset lock, the call of the   *)
(* adapter with the entry in the idempotency table, and the release.  One  *)
(* thread is the command line and the validation runner.                   *)
(*                                                                         *)
(* Timelines, audit ledgers, reports and the stability monitor record      *)
(* and decide nothing; the blast radius the investigation yields never     *)
(* reaches the executor's ceiling.  Both are left out.                     *)
(***************************************************************************)
EXTENDS Naturals, FiniteSets, Sequences

CONSTANTS
  Cases, Actions,   \* identifiers yet to be given out
  Targets,          \* assets and indicators that actions work on
  Approvers,
  Threads,          \* request threads of the service
  Stagings,         \* pairs of an action kind and a risk class
  None

RiskClass == {"R0", "R1", "R2", "R3", "R4"}

\* Kinds by the adapter that serves them; "forbidden" is the one type the
\* safety engine blocks.  A network or identity adapter undoes by removing
\* the block; the others write back what they found.
Kind == {"network", "identity", "service", "certificates", "forbidden"}
ClearsOnRollback == {"network", "identity"}

ActionRecord ==
  [case : Cases, kind : Kind, target : Targets, risk : RiskClass,
   state : {"REQUESTED", "STARTED", "COMPLETED", "FAILED", "VERIFIED", "ROLLED_BACK"},
   before : {None, "original", "changed"}]

\* Between the lock and the adapter, and between the adapter and the release.
ThreadRecord == [action : Actions, at : {"locked", "applied"}]

ASSUME CaseAssumption ==
  /\ Stagings \subseteq Kind \X RiskClass
  /\ None \notin Targets
  /\ None \notin ActionRecord /\ None \notin ThreadRecord

VARIABLES
  pool,       \* the threads this process serves requests with
  case,       \* status of each case, None before it is opened
  action,     \* record of each action, None before it is staged
  votes,      \* decisions on the approval request of each action
  request,    \* status of that request
  plant,      \* what the adapters have made of each target
  executed,   \* IdempotencyManager._executed_actions: its keys
  lock,       \* ConcurrencyLockManager._locked_assets
  thread,     \* what each thread is in the middle of
  calls       \* history: how often adapters executed a key

caseVars == <<pool, case, action, votes, request, plant, executed, lock, thread, calls>>

Key == Cases \X Kind \X Targets
KeyOf(a) == <<action[a].case, action[a].kind, action[a].target>>

CaseInit ==
  /\ pool \in SUBSET Threads
  /\ pool # {}
  /\ case = [c \in Cases |-> None]
  /\ action = [a \in Actions |-> None]
  /\ votes = [a \in Actions |-> <<>>]
  /\ request = [a \in Actions |-> "PENDING"]
  /\ plant = [kt \in Kind \X Targets |-> "original"]
  /\ executed = {}
  /\ lock = [t \in Targets |-> None]
  /\ thread = [th \in Threads |-> None]
  /\ calls = [k \in Key |-> 0]

SomeThreadIdle == \E th \in pool : thread[th] = None

-----------------------------------------------------------------------------
(* The case state machine *)

ValidTransitions(s) ==
  CASE s = "NEW" -> {"TRIAGED", "INVESTIGATING", "DUPLICATE", "FALSE_POSITIVE"}
    [] s = "TRIAGED" -> {"INVESTIGATING", "BENIGN", "FALSE_POSITIVE", "ESCALATED"}
    [] s = "INVESTIGATING" -> {"EVIDENCE_COLLECTED", "SUSPENDED", "FALSE_POSITIVE"}
    [] s = "EVIDENCE_COLLECTED" -> {"ASSESSED", "INVESTIGATING"}
    [] s = "ASSESSED" -> {"AWAITING_DECISION", "ESCALATED"}
    [] s = "AWAITING_DECISION" -> {"RESPONDING", "RESOLVED", "ESCALATED"}
    [] s = "RESPONDING" -> {"VERIFYING", "ESCALATED"}
    [] s = "VERIFYING" -> {"RESOLVED", "RESPONDING", "ESCALATED"}
    [] s = "RESOLVED" -> {"CLOSED", "REOPENED"}
    [] s = "CLOSED" -> {"REOPENED"}
    [] s = "REOPENED" -> {"INVESTIGATING", "RESPONDING"}
    [] s = "ESCALATED" -> {"AWAITING_DECISION", "RESPONDING", "RESOLVED"}
    [] s = "SUSPENDED" -> {"INVESTIGATING"}
    [] OTHER -> {}

CanTransition(s, t) == s = t \/ t \in ValidTransitions(s)

\* A case is opened by an analyst (NEW) or by the alert intake (TRIAGED).
OpenCase(c) ==
  /\ SomeThreadIdle /\ case[c] = None
  /\ \E s \in {"NEW", "TRIAGED"} : case' = [case EXCEPT ![c] = s]
  /\ UNCHANGED <<action, votes, request, plant, executed, lock, thread, calls>>

\* investigate_case walks through four legal transitions; only the first one
\* can be refused.
Investigate(c) ==
  /\ SomeThreadIdle /\ case[c] # None /\ CanTransition(case[c], "INVESTIGATING")
  /\ case' = [case EXCEPT ![c] = "AWAITING_DECISION"]
  /\ UNCHANGED <<action, votes, request, plant, executed, lock, thread, calls>>

\* The escalation engine writes the status without asking the state machine.
EvaluateEscalation(c) ==
  /\ SomeThreadIdle /\ case[c] = "NEW"
  /\ case' = [case EXCEPT ![c] = "ESCALATED"]
  /\ UNCHANGED <<action, votes, request, plant, executed, lock, thread, calls>>

CloseCase(c) ==
  /\ SomeThreadIdle /\ case[c] # None /\ CanTransition(case[c], "CLOSED")
  /\ case' = [case EXCEPT ![c] = "CLOSED"]
  /\ UNCHANGED <<action, votes, request, plant, executed, lock, thread, calls>>

EvaluateRecurrence(c) ==
  /\ SomeThreadIdle /\ case[c] \in {"RESOLVED", "CLOSED"}
  /\ case' = [case EXCEPT ![c] = "REOPENED"]
  /\ UNCHANGED <<action, votes, request, plant, executed, lock, thread, calls>>

-----------------------------------------------------------------------------
(* Staging and approval *)

RequiredApprovals(risk) ==
  CASE risk = "R4" -> 2
    [] risk \in {"R2", "R3"} -> 1
    [] OTHER -> 0

StageAction(a, c) ==
  /\ SomeThreadIdle /\ action[a] = None /\ case[c] # None
  /\ \E s \in Stagings, t \in Targets :
       /\ action' = [action EXCEPT ![a] =
            [case |-> c, kind |-> s[1], target |-> t, risk |-> s[2],
             state |-> "REQUESTED", before |-> None]]
       /\ request' = [request EXCEPT ![a] =
            IF RequiredApprovals(s[2]) = 0 THEN "APPROVED" ELSE "PENDING"]
  /\ UNCHANGED <<case, votes, plant, executed, lock, thread, calls>>

Approvals(ballots) == {i \in DOMAIN ballots : ballots[i].verdict = "APPROVED"}

\* Mutant: the check for a second vote by the same approver is missing.
HasVotedNever(a, p) == FALSE

HasVoted(a, p) == \E i \in DOMAIN votes[a] : votes[a][i].by = p

\* A request that was rejected may still be decided again.
SubmitDecision(a, p) ==
  /\ SomeThreadIdle /\ action[a] # None /\ ~HasVoted(a, p)
  /\ \E verdict \in {"APPROVED", "REJECTED"} :
       LET ballots == Append(votes[a], [by |-> p, verdict |-> verdict]) IN
       /\ votes' = [votes EXCEPT ![a] = ballots]
       /\ request' = [request EXCEPT ![a] =
            CASE verdict = "REJECTED" -> "REJECTED"
              [] verdict = "APPROVED"
                 /\ Cardinality(Approvals(ballots)) >= RequiredApprovals(action[a].risk)
                   -> "APPROVED"
              [] OTHER -> @]
  /\ UNCHANGED <<case, action, plant, executed, lock, thread, calls>>

-----------------------------------------------------------------------------
(* Execution *)

\* What the orchestrator asks before anything else.
MayExecute(a, dry) ==
  /\ action[a] # None
  /\ dry \/ request[a] = "APPROVED"
  /\ CanTransition(case[action[a].case], "RESPONDING")

Free(t, c) == lock[t] \in {None, c}

\* Mutant: an action that was rolled back may be executed again.
AlreadyRunUnlessUndone(a) ==
  KeyOf(a) \in executed /\ action[a].state # "ROLLED_BACK"

AlreadyRun(a) == KeyOf(a) \in executed

\* The case is RESPONDING from here on, whatever becomes of the action.
StartResponding(a) == case' = [case EXCEPT ![action[a].case] = "RESPONDING"]

\* Refused as already executed, or as a dry run or a lock conflict.
ExecuteWithoutEffect(a, dry) ==
  /\ SomeThreadIdle /\ MayExecute(a, dry)
  /\ \/ AlreadyRun(a) /\ ~dry
     \/ action[a].kind # "forbidden" /\ dry
     \/ action[a].kind # "forbidden" /\ ~Free(action[a].target, action[a].case)
  /\ StartResponding(a)
  /\ UNCHANGED <<action, votes, request, plant, executed, lock, thread, calls>>

ExecuteUnsafe(a, dry) ==
  /\ SomeThreadIdle /\ MayExecute(a, dry)
  /\ ~(AlreadyRun(a) /\ ~dry)
  /\ action[a].kind = "forbidden"
  /\ StartResponding(a)
  /\ action' = [action EXCEPT ![a].state = "FAILED"]
  /\ UNCHANGED <<votes, request, plant, executed, lock, thread, calls>>

ExecuteLocked(th, a) ==
  /\ th \in pool /\ thread[th] = None /\ MayExecute(a, FALSE)
  /\ ~AlreadyRun(a)
  /\ action[a].kind # "forbidden"
  /\ Free(action[a].target, action[a].case)
  /\ StartResponding(a)
  /\ action' = [action EXCEPT ![a].state = "STARTED"]
  /\ lock' = [lock EXCEPT ![action[a].target] = action[a].case]
  /\ thread' = [thread EXCEPT ![th] = [action |-> a, at |-> "locked"]]
  /\ UNCHANGED <<votes, request, plant, executed, calls>>

\* The network adapter takes every target for unblocked before.
Snapshot(a) ==
  IF action[a].kind \in ClearsOnRollback
    THEN "original" ELSE plant[<<action[a].kind, action[a].target>>]

AdapterExecutes(th) ==
  /\ thread[th] # None /\ thread[th].at = "locked"
  /\ LET a == thread[th].action IN
     /\ action' = [action EXCEPT ![a].state = "COMPLETED", ![a].before = Snapshot(a)]
     /\ plant' = [plant EXCEPT ![<<action[a].kind, action[a].target>>] = "changed"]
     /\ executed' = executed \cup {KeyOf(a)}
     /\ calls' = [calls EXCEPT ![KeyOf(a)] = @ + 1]
  /\ thread' = [thread EXCEPT ![th].at = "applied"]
  /\ UNCHANGED <<case, votes, request, lock>>

\* A parameter the network adapter cannot read; nothing is changed yet.
AdapterFails(th) ==
  /\ thread[th] # None /\ thread[th].at = "locked"
  /\ action[thread[th].action].kind = "network"
  /\ action' = [action EXCEPT ![thread[th].action].state = "FAILED"]
  /\ thread' = [thread EXCEPT ![th].at = "applied"]
  /\ UNCHANGED <<case, votes, request, plant, executed, lock, calls>>

\* The release gives up the lock of the case, whoever of its threads took it.
ReleaseLock(th) ==
  /\ thread[th] # None /\ thread[th].at = "applied"
  /\ LET a == thread[th].action IN
     lock' = [lock EXCEPT ![action[a].target] =
                IF @ = action[a].case THEN None ELSE @]
  /\ thread' = [thread EXCEPT ![th] = None]
  /\ UNCHANGED <<case, action, votes, request, plant, executed, calls>>

-----------------------------------------------------------------------------
(* Verification and rollback *)

Reversible(a) == action[a] # None /\ action[a].before # None

\* What the target is after an adapter has undone action a.
Undone(a) ==
  [plant EXCEPT ![<<action[a].kind, action[a].target>>] =
     IF action[a].kind \in ClearsOnRollback THEN "original" ELSE action[a].before]

\* Any staged action can be verified while its case is responding.
VerifySucceeds(a) ==
  /\ SomeThreadIdle /\ action[a] # None
  /\ CanTransition(case[action[a].case], "VERIFYING")
  /\ case' = [case EXCEPT ![action[a].case] = "RESOLVED"]
  /\ action' = [action EXCEPT ![a].state = "VERIFIED"]
  /\ UNCHANGED <<votes, request, plant, executed, lock, thread, calls>>

VerifyFails(a) ==
  /\ SomeThreadIdle /\ action[a] # None
  /\ CanTransition(case[action[a].case], "VERIFYING")
  /\ case' = [case EXCEPT ![action[a].case] = "ESCALATED"]
  /\ IF Reversible(a)
       THEN /\ plant' = Undone(a)
            /\ action' = [action EXCEPT ![a].state = "ROLLED_BACK"]
       ELSE UNCHANGED <<plant, action>>
  /\ UNCHANGED <<votes, request, executed, lock, thread, calls>>

\* Requested by an analyst, at any time and as often as wanted.
ExecuteRollback(a) ==
  /\ SomeThreadIdle /\ Reversible(a)
  /\ plant' = Undone(a)
  /\ action' = [action EXCEPT ![a].state = "ROLLED_BACK"]
  /\ UNCHANGED <<case, votes, request, executed, lock, thread, calls>>

CaseNext ==
  /\ \/ \E c \in Cases :
          \/ OpenCase(c) \/ Investigate(c) \/ EvaluateEscalation(c)
          \/ CloseCase(c) \/ EvaluateRecurrence(c)
          \/ \E a \in Actions : StageAction(a, c)
     \/ \E a \in Actions, p \in Approvers : SubmitDecision(a, p)
     \/ \E a \in Actions, dry \in BOOLEAN :
          ExecuteWithoutEffect(a, dry) \/ ExecuteUnsafe(a, dry)
     \/ \E th \in Threads, a \in Actions : ExecuteLocked(th, a)
     \/ \E th \in Threads :
          AdapterExecutes(th) \/ AdapterFails(th) \/ ReleaseLock(th)
     \/ \E a \in Actions : VerifySucceeds(a) \/ VerifyFails(a) \/ ExecuteRollback(a)
  /\ UNCHANGED pool

CaseSpec ==
  CaseInit /\ [][CaseNext]_caseVars /\ \A th \in Threads :
    WF_caseVars(AdapterExecutes(th) \/ AdapterFails(th) \/ ReleaseLock(th))
=============================================================================
