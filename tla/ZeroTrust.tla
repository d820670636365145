------------------------------- MODULE ZeroTrust -------------------------------
(***************************************************************************)
(* Zero-trust access control (phase 27): the policy decision point with    *)
(* its decision cache, the enforcement point that opens sessions, their    *)
(* re-evaluation and revocation (zero_trust/policy, decision, enforcement, *)
(* sessions).                                                              *)
(*                                                                         *)
(* Requests run on threads of the service (Callers): deciding, and then    *)
(* storing the decision and acting on it, are two actions, and policies    *)
(* may be deployed in between.  Policies come from a catalogue whose first *)
(* six are the defaults; a policy is known by its place in it, and an      *)
(* administrator deploys the others.  The actions of a policy, and         *)
(* attributes that no policy of the catalogue asks for, are left out, and  *)
(* so are signals that set a score directly or override what a context     *)
(* says of the device and the service.                                     *)
(*                                                                         *)
(* A posture score is a percentage.  The risk of a connection is an input: *)
(* it depends on the fingerprint, the TLS version and the hour.  A request *)
(* may name a session or leave it to the service, which numbers sessions   *)
(* by the second: a new number, or the last one again.                     *)
(*                                                                         *)
(* Bounds: MaxSessions numbers, MaxCalls requests.                         *)
(***************************************************************************)
EXTENDS Integers, Sequences, FiniteSets

CONSTANTS
  Callers, Subjects, Devices, Services,
  GroupOf,      \* group of each subject in the identity directory
  Strangers,    \* subjects that the directory does not know at first
  Managed,      \* managed devices
  ClassOf,      \* classification of each service
  Catalogue,    \* sequence of policies
  ConnRisks,    \* risks that connections are given
  Signals,      \* pairs of a posture and a connection risk, or "none" of either
  MaxSessions, MaxCalls

Effects == {"ALLOW", "DENY", "STEP_UP", "RESTRICT"}
Postures == {"HEALTHY", "DEGRADED", "NONCOMPLIANT"}
Risks == {"LOW", "MEDIUM", "HIGH", "CRITICAL"}
Defaults == 1..6

ASSUME ZeroTrustAssumption ==
  /\ Defaults \subseteq DOMAIN Catalogue
  /\ \A p \in DOMAIN Catalogue :
       Catalogue[p].effect \in Effects /\ Catalogue[p].priority \in Int
  /\ Strangers \subseteq Subjects /\ Managed \subseteq Devices
  /\ ConnRisks \subseteq Risks
  /\ Signals \subseteq (Postures \cup {"none"}) \X (Risks \cup {"none"})
  /\ {MaxSessions, MaxCalls} \subseteq Nat

VARIABLES
  known,      \* subjects in the directory
  deployed,   \* PolicyDecisionPoint._policies, in the order of its keys
  cache,      \* _decision_cache: decisions with the contexts they were made for
  access,     \* _sessions by number
  asking,     \* per thread, the request between its decision and its effects
  overtaken,  \* history: policies were deployed while a request was decided
  asked       \* requests so far

zeroVars == <<known, deployed, cache, access, asking, overtaken, asked>>

NoRequest == [phase |-> "idle"]

ZeroInit ==
  /\ known = Subjects \ Strangers
  /\ deployed = [p \in Defaults |-> p]
  /\ cache = {}
  /\ access = <<>>
  /\ asking = [th \in Callers |-> NoRequest]
  /\ overtaken = FALSE
  /\ asked = 0

-----------------------------------------------------------------------------
(* Policies *)

\* A policy asks of an attribute that it is one of a set.
Matches(policy, ctx) ==
  /\ ctx.service \in policy.services /\ ctx.group \in policy.groups
  /\ ctx.managed \in policy.managed /\ ctx.posture \in policy.postures
  /\ ctx.class \in policy.classes /\ ctx.risk \in policy.risks

Matching(ctx) == {i \in DOMAIN deployed : Matches(Catalogue[deployed[i]], ctx)}
PriorityAt(i) == Catalogue[deployed[i]].priority

\* The sort by priority is stable.
Precedes(i, j) ==
  PriorityAt(i) < PriorityAt(j) \/ (PriorityAt(i) = PriorityAt(j) /\ i <= j)

Winner(matching) == CHOOSE i \in matching : \A j \in matching : Precedes(i, j)

Decision(ctx) ==
  LET matching == Matching(ctx)
  IN  IF matching = {} THEN "DENY" ELSE Catalogue[deployed[Winner(matching)]].effect

\* Mutant: the compiled policies are replaced and the cache is kept.
CacheAfterRecompileKept == cache

CacheAfterRecompile == {}

\* create_policy, and deploy_policy and rollback_policy for one that is there.
RegisterPolicy(p) ==
  /\ deployed' = IF \E i \in DOMAIN deployed : deployed[i] = p THEN deployed
                 ELSE Append(deployed, p)
  /\ cache' = CacheAfterRecompile
  /\ overtaken' = (overtaken \/ \E th \in Callers : asking[th] # NoRequest)
  /\ UNCHANGED <<known, access, asking, asked>>

RegisterIdentity(u) ==
  /\ u \notin known /\ known' = known \cup {u}
  /\ UNCHANGED <<deployed, cache, access, asking, overtaken, asked>>

-----------------------------------------------------------------------------
(* Requests *)

Context(u, d, s, risk) ==
  [subject |-> u, device |-> d, service |-> s,
   group |-> IF u \in known THEN GroupOf[u] ELSE "general",
   managed |-> d \in Managed,
   posture |-> IF d \in Managed THEN "HEALTHY" ELSE "NONCOMPLIANT",
   class |-> ClassOf[s], risk |-> risk]

\* The group and the class of the context are not part of the key.
SameKey(c, d) ==
  /\ c.subject = d.subject /\ c.device = d.device /\ c.service = d.service
  /\ c.managed = d.managed /\ c.posture = d.posture /\ c.risk = d.risk

Cached(ctx) == {c \in cache : SameKey(c.ctx, ctx)}

PostureScore(ctx) == IF ctx.managed THEN 100 ELSE 55

RiskLevel(score) ==
  CASE score >= 75 -> "CRITICAL" [] score >= 50 -> "HIGH" [] score >= 30 -> "MEDIUM"
    [] OTHER -> "LOW"

\* An active session of the same subject, device and service.
KnownSessions(u, d, s) ==
  {n \in DOMAIN access : /\ access[n].status = "ACTIVE" /\ access[n].subject = u
                         /\ access[n].device = d /\ access[n].service = s}

\* The number of the session and the risk that the request is judged by.
Connections(u, d, s, named) ==
  IF ~named /\ KnownSessions(u, d, s) # {}
  THEN {[n |-> n, risk |-> RiskLevel(access[n].risk)] : n \in KnownSessions(u, d, s)}
  ELSE [n : {k \in 1..(Len(access) + 1) : k <= MaxSessions /\ (named \/ k >= Len(access))},
        risk : ConnRisks]

\* request_access (opens) and evaluate_decision, up to the decision.
Decide(th, u, d, s, named, opens) ==
  /\ asking[th] = NoRequest /\ asked < MaxCalls
  /\ asked' = asked + 1
  /\ \E conn \in Connections(u, d, s, named) :
       LET ctx == Context(u, d, s, conn.risk)
           hit == Cached(ctx)
       IN  asking' = [asking EXCEPT ![th] =
             [phase |-> "decided", ctx |-> ctx, n |-> IF opens THEN conn.n ELSE 1, opens |-> opens,
              stores |-> hit = {},
              decision |-> IF hit = {} THEN Decision(ctx)
                           ELSE (CHOOSE c \in hit : TRUE).decision]]
  /\ UNCHANGED <<known, deployed, cache, access, overtaken>>

NewAccess(ctx) ==
  [subject |-> ctx.subject, device |-> ctx.device, service |-> ctx.service,
   status |-> "ACTIVE", score |-> PostureScore(ctx), risk |-> 10]

Opened(n, ctx) ==
  [k \in 1..(IF n > Len(access) THEN n ELSE Len(access)) |->
     IF k = n THEN NewAccess(ctx) ELSE access[k]]

\* What the enforcement point forwards.
Forwards(decision) == decision \in {"ALLOW", "RESTRICT"}

Enforce(th) ==
  LET r == asking[th]
  IN  /\ r.phase = "decided"
      /\ cache' = IF r.stores
                  THEN (cache \ Cached(r.ctx)) \cup {[ctx |-> r.ctx, decision |-> r.decision]}
                  ELSE cache
      /\ access' = IF r.opens /\ Forwards(r.decision)
                   THEN Opened(r.n, r.ctx) ELSE access
      /\ asking' = [asking EXCEPT ![th] = NoRequest]
      /\ UNCHANGED <<known, deployed, overtaken, asked>>

-----------------------------------------------------------------------------
(* Sessions *)

\* The score after a posture signal; HEALTHY leaves it as it is.
Rescored(score, posture) ==
  CASE posture = "NONCOMPLIANT" -> 10 [] posture = "DEGRADED" -> 50 [] OTHER -> score

Rerisked(score, risk) ==
  CASE risk \in {"HIGH", "CRITICAL"} -> 75 [] risk = "MEDIUM" -> 40 [] OTHER -> score

PostureOf(score) ==
  IF score >= 80 THEN "HEALTHY" ELSE IF score >= 50 THEN "DEGRADED" ELSE "NONCOMPLIANT"

StatusFor(decision) ==
  CASE decision = "DENY" -> "REVOKED" [] decision = "STEP_UP" -> "STEP_UP_PENDING"
    [] decision = "RESTRICT" -> "RESTRICTED" [] OTHER -> "ACTIVE"

\* Mutant: a boundary put too low.
LooksManagedLow(score) == score >= 10

LooksManaged(score) == score > 40

\* The context of a re-evaluation: the group is fixed, the service taken for
\* a critical one, and the device for managed unless its score is too low.
Recontext(r, score, risk, posture, connRisk) ==
  [subject |-> r.subject, device |-> r.device, service |-> r.service,
   group |-> "security-ops", managed |-> LooksManaged(score),
   posture |-> IF posture = "none" THEN PostureOf(score) ELSE posture,
   class |-> "CRITICAL",
   risk |-> IF connRisk = "none" THEN RiskLevel(risk) ELSE connRisk]

\* trigger_reevaluation with signals about the posture and the risk, or none.
Reevaluate(n, posture, connRisk) ==
  LET score == Rescored(access[n].score, posture)
      risk == Rerisked(access[n].risk, connRisk)
      ctx == Recontext(access[n], score, risk, posture, connRisk)
  IN  /\ access' = [access EXCEPT ![n] =
           [@ EXCEPT !.score = score, !.risk = risk, !.status = StatusFor(Decision(ctx))]]
      /\ UNCHANGED <<known, deployed, cache, asking, overtaken, asked>>

RevokeSession(n) ==
  /\ access' = [access EXCEPT ![n].status = "REVOKED"]
  /\ UNCHANGED <<known, deployed, cache, asking, overtaken, asked>>

ZeroNext ==
  \/ \E th \in Callers :
       \/ Enforce(th)
       \/ \E u \in Subjects, d \in Devices, s \in Services, named, opens \in BOOLEAN :
            Decide(th, u, d, s, named, opens)
  \/ \E p \in DOMAIN Catalogue : RegisterPolicy(p)
  \/ \E u \in Strangers : RegisterIdentity(u)
  \/ \E n \in DOMAIN access :
       \/ RevokeSession(n)
       \/ \E sig \in Signals : Reevaluate(n, sig[1], sig[2])

ZeroSpec == ZeroInit /\ [][ZeroNext]_zeroVars

-----------------------------------------------------------------------------
(* Properties *)

\* No decision outlives the policies it was made under: what the cache answers
\* is what the policies deployed now say of the same context, unless they were
\* deployed while a request was between its decision and the cache
\* (_recompile, evaluate_access).
CacheFollowsPolicies ==
  ~overtaken => \A c \in cache : c.decision = Decision(c.ctx)

\* POL-BLOCK-UNMANAGED-CRITICAL, the second default, asks for nothing but an
\* unmanaged device and a critical service, and no other policy is more urgent.
BlockIsMostUrgent ==
  LET block == Catalogue[2]
  IN  /\ block.effect = "DENY" /\ FALSE \in block.managed /\ "CRITICAL" \in block.classes
      /\ Services \subseteq block.services
      /\ {"general", "security-ops"} \cup {GroupOf[u] : u \in Subjects} \subseteq block.groups
      /\ Postures \subseteq block.postures /\ Risks \subseteq block.risks
      /\ \A p \in DOMAIN Catalogue : block.priority <= Catalogue[p].priority
      /\ block.priority < Catalogue[1].priority

\* An unmanaged device never holds a live session on a critical service,
\* whatever other policies are deployed, cached or raced with, as long as none
\* is more urgent than POL-BLOCK-UNMANAGED-CRITICAL.
CriticalNeedsManaged ==
  \A n \in DOMAIN access :
    /\ access[n].status \in {"ACTIVE", "RESTRICTED"}
    /\ ClassOf[access[n].service] = "CRITICAL"
    => access[n].device \in Managed

\* A session whose device was reported as noncompliant stays revoked through
\* every policy, risk signal and report of health, until access is requested
\* anew or the device is reported as merely degraded (trigger_reevaluation).
NoncompliantStaysOut ==
  \A n \in DOMAIN access : access[n].score <= 40 => access[n].status = "REVOKED"

\* A device that must not be in is not in, by any order of requests,
\* signals, re-evaluations and deployments.
BarredDevicesStayOut == CriticalNeedsManaged /\ NoncompliantStaysOut
=============================================================================
