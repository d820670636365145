---------------------------- MODULE SecurityProofs ----------------------------
(***************************************************************************)
(* Proofs about security operations: zero-trust access, alert intake, case *)
(* response and the order of investigation tasks, for any number of        *)
(* requests, alerts, cases, people and tasks.                              *)
(***************************************************************************)
EXTENDS CaseProps, AlertIntake, InvestigationDag, ZeroTrust, SequenceTheorems, FiniteSetTheorems, TLAPS

-----------------------------------------------------------------------------
(* Zero-trust access: the decision cache *)

\* A request between its decision and the cache that made the decision itself.
Deciding(th) == asking[th] # NoRequest /\ asking[th].stores

CacheInv ==
  /\ DOMAIN asking = Callers
  /\ ~overtaken =>
       /\ \A c \in cache : c.decision = Decision(c.ctx)
       /\ \A th \in Callers : Deciding(th) => asking[th].decision = Decision(asking[th].ctx)

LEMMA SameDecision ==
  ASSUME UNCHANGED deployed
  PROVE  \A ctx : Decision(ctx)' = Decision(ctx)
BY DEF Decision, Winner, Precedes, PriorityAt, Matching

\* A request is answered by the policies, or by a cached decision of its key.
LEMMA Decided ==
  ASSUME NEW th, NEW u, NEW d, NEW s, NEW named, NEW opens, Decide(th, u, d, s, named, opens)
  PROVE  \E conn \in Connections(u, d, s, named) : \E r :
           /\ asking' = [asking EXCEPT ![th] = r]
           /\ r.phase = "decided" /\ r.ctx = Context(u, d, s, conn.risk)
           /\ r.n = IF opens THEN conn.n ELSE 1
           /\ r.stores => r.decision = Decision(r.ctx)
           /\ ~r.stores => \E c \in cache : SameKey(c.ctx, r.ctx) /\ r.decision = c.decision
<1>1. PICK conn \in Connections(u, d, s, named) :
        LET ctx == Context(u, d, s, conn.risk)
            hit == Cached(ctx)
        IN  asking' = [asking EXCEPT ![th] =
              [phase |-> "decided", ctx |-> ctx, n |-> IF opens THEN conn.n ELSE 1,
               opens |-> opens, stores |-> hit = {},
               decision |-> IF hit = {} THEN Decision(ctx)
                            ELSE (CHOOSE c \in hit : TRUE).decision]]
    BY DEF Decide
<1> DEFINE ctx == Context(u, d, s, conn.risk)
           hit == Cached(ctx)
           stores == hit = {}
           n == IF opens THEN conn.n ELSE 1
           decision == IF hit = {} THEN Decision(ctx) ELSE (CHOOSE c \in hit : TRUE).decision
           r == [phase |-> "decided", ctx |-> ctx, n |-> n, opens |-> opens,
                 stores |-> stores, decision |-> decision]
<1>2. asking' = [asking EXCEPT ![th] = r]
    BY <1>1
<1>3. stores => decision = Decision(ctx)
    OBVIOUS
<1>4. ~stores => \E c \in cache : SameKey(c.ctx, ctx) /\ decision = c.decision
    BY DEF Cached
<1>5. stores \in BOOLEAN
    OBVIOUS
<1> HIDE DEF stores, decision, ctx
<1>6. /\ r.phase = "decided" /\ r.ctx = ctx /\ r.n = n /\ r.decision = decision
      /\ r.stores = stores
    OBVIOUS
<1> HIDE DEF r
<1> QED BY <1>2, <1>3, <1>4, <1>6 DEF ctx

LEMMA CacheStep == CacheInv /\ [ZeroNext]_zeroVars => CacheInv'
<1> SUFFICES ASSUME CacheInv, [ZeroNext]_zeroVars PROVE CacheInv'
    OBVIOUS
<1>1. ASSUME NEW th \in Callers, Enforce(th) PROVE CacheInv'
  <2> DEFINE r == asking[th]
  <2>1. r.phase = "decided" /\ r # NoRequest
      BY <1>1 DEF Enforce, NoRequest
  <2>2. /\ asking' = [asking EXCEPT ![th] = NoRequest] /\ UNCHANGED <<deployed, overtaken>>
        /\ \A c \in cache' :
             c \in cache \/ (r.stores /\ c = [ctx |-> r.ctx, decision |-> r.decision])
      BY <1>1 DEF Enforce
  <2>3. \A ctx : Decision(ctx)' = Decision(ctx)
      BY <2>2, SameDecision
  <2>4. ASSUME ~overtaken, NEW c \in cache' PROVE c.decision = Decision(c.ctx)
      BY <2>1, <2>2, <2>4 DEF CacheInv, Deciding
  <2>5. ASSUME ~overtaken, NEW t \in Callers, Deciding(t)'
        PROVE  asking'[t].decision = Decision(asking'[t].ctx)
      BY <2>2, <2>5 DEF CacheInv, Deciding
  <2> QED BY <2>2, <2>3, <2>4, <2>5 DEF CacheInv
<1>2. ASSUME NEW th \in Callers, NEW u \in Subjects, NEW d \in Devices, NEW s \in Services,
             NEW named \in BOOLEAN, NEW opens \in BOOLEAN, Decide(th, u, d, s, named, opens)
      PROVE  CacheInv'
  <2>1. PICK r : /\ asking' = [asking EXCEPT ![th] = r]
                 /\ r.stores => r.decision = Decision(r.ctx)
      BY <1>2, Decided
  <2>2. UNCHANGED <<deployed, cache, overtaken>>
      BY <1>2 DEF Decide
  <2>3. \A ctx : Decision(ctx)' = Decision(ctx)
      BY <2>2, SameDecision
  <2> QED BY <2>1, <2>2, <2>3 DEF CacheInv, Deciding
<1>3. ASSUME NEW p \in DOMAIN Catalogue, RegisterPolicy(p) PROVE CacheInv'
    BY <1>3 DEF RegisterPolicy, CacheAfterRecompile, CacheInv, Deciding
<1>4. ASSUME UNCHANGED <<deployed, cache, asking, overtaken>> PROVE CacheInv'
    BY <1>4, SameDecision DEF CacheInv, Deciding
<1> QED BY <1>1, <1>2, <1>3, <1>4
        DEF ZeroNext, zeroVars, RegisterIdentity, RevokeSession, Reevaluate

\* No cached decision outlives the policies it was made under, unless they were
\* deployed while a request was decided (_recompile, evaluate_access).
THEOREM CacheSafe == ZeroSpec => []CacheFollowsPolicies
<1>1. ZeroInit => CacheInv
    BY DEF ZeroInit, CacheInv, Deciding
<1>2. CacheInv => CacheFollowsPolicies
    BY DEF CacheInv, CacheFollowsPolicies
<1> QED BY <1>1, <1>2, CacheStep, PTL DEF ZeroSpec

-----------------------------------------------------------------------------
(* Zero-trust access: who is let in *)

KnownGroups == {"general", "security-ops"} \cup {GroupOf[u] : u \in Subjects}

ContextRecord ==
  [subject : Subjects, device : Devices, service : Services, group : KnownGroups,
   managed : BOOLEAN, posture : Postures, class : {ClassOf[s] : s \in Services} \cup {"CRITICAL"},
   risk : Risks]

AccessRecord ==
  [subject : Subjects, device : Devices, service : Services,
   status : {"ACTIVE", "RESTRICTED", "STEP_UP_PENDING", "REVOKED"}, score : Nat, risk : Nat]

\* The context of a request says what the directory says, and what it was or
\* may be answered does not let an unmanaged device in.
Barred(ctx) == ctx.class = "CRITICAL" /\ ~ctx.managed

AnswerOK(ctx, decision) ==
  /\ ctx \in ContextRecord /\ ctx.class = ClassOf[ctx.service]
  /\ ctx.managed <=> ctx.device \in Managed
  /\ Barred(ctx) => decision = "DENY"

AccessInv ==
  /\ DOMAIN asking = Callers
  /\ deployed \in Seq(DOMAIN Catalogue) /\ Len(deployed) >= 6
  /\ \A p \in Defaults : deployed[p] = p
  /\ access \in Seq(AccessRecord)
  /\ \A c \in cache : AnswerOK(c.ctx, c.decision)
  /\ \A th \in Callers : asking[th] # NoRequest =>
       /\ AnswerOK(asking[th].ctx, asking[th].decision)
       /\ asking[th].n \in 1..(Len(access) + 1)
  /\ \A n \in DOMAIN access :
       /\ ClassOf[access[n].service] = "CRITICAL" => access[n].device \in Managed
       /\ access[n].score <= 40 => access[n].status = "REVOKED"

\* The block of POL-BLOCK-UNMANAGED-CRITICAL is the first policy that matches.
LEMMA BlockDenies ==
  ASSUME BlockIsMostUrgent, AccessInv, NEW ctx \in ContextRecord, Barred(ctx)
  PROVE  Decision(ctx) = "DENY"
<1>1. /\ deployed \in Seq(DOMAIN Catalogue) /\ 2 \in DOMAIN deployed
      /\ deployed[1] = 1 /\ deployed[2] = 2
      /\ \A i \in DOMAIN deployed : deployed[i] \in DOMAIN Catalogue /\ i \in Nat \ {0}
    BY DEF AccessInv, Defaults
<1>2. /\ ctx.service \in Services /\ ctx.group \in KnownGroups /\ ctx.managed = FALSE
      /\ ctx.posture \in Postures /\ ctx.class = "CRITICAL" /\ ctx.risk \in Risks
    BY DEF ContextRecord, Barred
<1>3. Matches(Catalogue[2], ctx)
    BY <1>2 DEF Matches, BlockIsMostUrgent, KnownGroups
<1>4. 2 \in Matching(ctx)
    BY <1>1, <1>3 DEF Matching
<1>5. \A i \in DOMAIN deployed : PriorityAt(i) \in Int
    BY <1>1, ZeroTrustAssumption DEF PriorityAt
<1>6. \A i \in DOMAIN deployed :
        PriorityAt(2) <= PriorityAt(i) /\ (i = 1 => PriorityAt(2) < PriorityAt(i))
    BY <1>1 DEF PriorityAt, BlockIsMostUrgent
<1>7. \A i \in DOMAIN deployed : Precedes(2, i) /\ (Precedes(i, 2) => i = 2)
    BY <1>1, <1>5, <1>6 DEF Precedes
<1>8. Matching(ctx) \subseteq DOMAIN deployed
    BY DEF Matching
<1>9. Winner(Matching(ctx)) = 2
    BY <1>4, <1>7, <1>8 DEF Winner
<1> QED BY <1>1, <1>4, <1>9 DEF Decision, BlockIsMostUrgent

LEMMA ConnectionOK ==
  ASSUME AccessInv, NEW u, NEW d, NEW s, NEW named, NEW conn \in Connections(u, d, s, named)
  PROVE  conn.n \in 1..(Len(access) + 1) /\ conn.risk \in Risks
<1>1. Len(access) \in Nat /\ DOMAIN access = 1..Len(access)
    BY DEF AccessInv
<1>2. CASE ~named /\ KnownSessions(u, d, s) # {}
  <2>1. PICK n \in KnownSessions(u, d, s) : conn = [n |-> n, risk |-> RiskLevel(access[n].risk)]
      BY <1>2 DEF Connections
  <2>2. n \in 1..Len(access)
      BY <1>1, <2>1 DEF KnownSessions
  <2>3. RiskLevel(access[n].risk) \in Risks
      BY DEF RiskLevel, Risks
  <2> QED BY <1>1, <2>1, <2>2, <2>3
<1>3. CASE ~(~named /\ KnownSessions(u, d, s) # {})
  <2>1. conn \in [n : {k \in 1..(Len(access) + 1) :
                         k <= MaxSessions /\ (named \/ k >= Len(access))}, risk : ConnRisks]
      BY <1>3 DEF Connections
  <2> QED BY <2>1, ZeroTrustAssumption
<1> QED BY <1>2, <1>3

LEMMA ContextOK ==
  ASSUME NEW u \in Subjects, NEW d \in Devices, NEW s \in Services, NEW risk \in Risks,
         NEW ctx, ctx = Context(u, d, s, risk)
  PROVE  /\ ctx \in ContextRecord /\ ctx.class = ClassOf[ctx.service]
         /\ ctx.managed <=> ctx.device \in Managed
         /\ ctx.service = s /\ ctx.device = d /\ ctx.subject = u
<1> DEFINE g == IF u \in known THEN GroupOf[u] ELSE "general"
           m == d \in Managed
           t == IF d \in Managed THEN "HEALTHY" ELSE "NONCOMPLIANT"
<1>1. g \in KnownGroups /\ m \in BOOLEAN /\ t \in Postures
    BY DEF KnownGroups, Postures
<1>2. ctx = [subject |-> u, device |-> d, service |-> s, group |-> g, managed |-> m,
             posture |-> t, class |-> ClassOf[s], risk |-> risk]
    BY DEF Context
<1>3. m <=> d \in Managed
    OBVIOUS
<1> HIDE DEF g, m, t
<1> QED BY <1>1, <1>2, <1>3 DEF ContextRecord

LEMMA DecideKeeps ==
  ASSUME BlockIsMostUrgent, AccessInv,
         NEW th \in Callers, NEW u \in Subjects, NEW d \in Devices, NEW s \in Services,
         NEW named \in BOOLEAN, NEW opens \in BOOLEAN, Decide(th, u, d, s, named, opens)
  PROVE  AccessInv'
<1> PICK conn \in Connections(u, d, s, named) : \E r :
           /\ asking' = [asking EXCEPT ![th] = r]
           /\ r.phase = "decided" /\ r.ctx = Context(u, d, s, conn.risk)
           /\ r.n = IF opens THEN conn.n ELSE 1
           /\ r.stores => r.decision = Decision(r.ctx)
           /\ ~r.stores => \E c \in cache : SameKey(c.ctx, r.ctx) /\ r.decision = c.decision
    BY Decided
<1>1. PICK r :
           /\ asking' = [asking EXCEPT ![th] = r]
           /\ r.phase = "decided" /\ r.ctx = Context(u, d, s, conn.risk)
           /\ r.n = IF opens THEN conn.n ELSE 1
           /\ r.stores => r.decision = Decision(r.ctx)
           /\ ~r.stores => \E c \in cache : SameKey(c.ctx, r.ctx) /\ r.decision = c.decision
    OBVIOUS
<1>2. conn.n \in 1..(Len(access) + 1) /\ conn.risk \in Risks
    BY ConnectionOK
<1>3. r.n \in 1..(Len(access) + 1)
  <2>1. Len(access) \in Nat
      BY DEF AccessInv
  <2> QED BY <1>1, <1>2, <2>1
<1>4. /\ r.ctx \in ContextRecord /\ r.ctx.class = ClassOf[r.ctx.service]
      /\ r.ctx.managed <=> r.ctx.device \in Managed
    BY <1>1, <1>2, ContextOK
<1>5. Barred(r.ctx) => r.decision = "DENY"
  <2>1. CASE r.stores
      BY <1>1, <1>4, <2>1, BlockDenies
  <2>2. CASE ~r.stores
    <3>1. PICK c \in cache : SameKey(c.ctx, r.ctx) /\ r.decision = c.decision
        BY <1>1, <2>2
    <3>2. AnswerOK(c.ctx, c.decision)
        BY DEF AccessInv
    <3> QED BY <1>4, <3>1, <3>2 DEF AnswerOK, Barred, SameKey
  <2> QED BY <2>1, <2>2
<1>6. AnswerOK(r.ctx, r.decision)
    BY <1>4, <1>5 DEF AnswerOK
<1>7. UNCHANGED <<deployed, cache, access>>
    BY DEF Decide
<1> QED BY <1>1, <1>3, <1>6, <1>7 DEF AccessInv

\* A session that is opened replaces one of its number, or is the next.
LEMMA SessionOpened ==
  ASSUME access \in Seq(AccessRecord), NEW n \in 1..(Len(access) + 1), NEW ctx \in ContextRecord,
         NEW q, q = Opened(n, ctx)
  PROVE  /\ q \in Seq(AccessRecord) /\ Len(q) >= Len(access)
         /\ \A k \in DOMAIN q : q[k] = NewAccess(ctx) \/ (k \in DOMAIN access /\ q[k] = access[k])
<1>1. Len(access) \in Nat /\ DOMAIN access = 1..Len(access)
    OBVIOUS
<1>2. NewAccess(ctx) \in AccessRecord
    BY DEF NewAccess, ContextRecord, AccessRecord, PostureScore
<1> DEFINE m == IF n > Len(access) THEN n ELSE Len(access)
<1>3. m \in Nat /\ m >= Len(access) /\ \A k \in 1..m : k = n \/ k \in 1..Len(access)
    BY <1>1
<1>4. q = [k \in 1..m |-> IF k = n THEN NewAccess(ctx) ELSE access[k]]
    BY DEF Opened
<1> HIDE DEF m
<1>5. \A k \in 1..m : (IF k = n THEN NewAccess(ctx) ELSE access[k]) \in AccessRecord
    BY <1>1, <1>2, <1>3
<1>6. q \in Seq(AccessRecord) /\ Len(q) = m /\ DOMAIN q = 1..m
    BY <1>3, <1>4, <1>5
<1> QED BY <1>1, <1>3, <1>4, <1>6

LEMMA EnforceKeeps ==
  ASSUME AccessInv, NEW th \in Callers, Enforce(th)
  PROVE  AccessInv'
<1> SUFFICES ASSUME NEW r, r = asking[th] PROVE AccessInv'
    OBVIOUS
<1>1. r.phase = "decided" /\ r # NoRequest
    BY DEF Enforce, NoRequest
<1>2. AnswerOK(r.ctx, r.decision) /\ r.n \in 1..(Len(access) + 1)
    BY <1>1 DEF AccessInv
<1>3. /\ asking' = [asking EXCEPT ![th] = NoRequest] /\ UNCHANGED deployed
      /\ \A c \in cache' : c \in cache \/ c = [ctx |-> r.ctx, decision |-> r.decision]
    BY DEF Enforce
<1>4. \A c \in cache' : AnswerOK(c.ctx, c.decision)
    BY <1>2, <1>3 DEF AccessInv
<1>5. CASE access' = access
    BY <1>3, <1>4, <1>5 DEF AccessInv
<1>6. CASE access' = Opened(r.n, r.ctx) /\ Forwards(r.decision)
  <2>1. r.ctx \in ContextRecord /\ access \in Seq(AccessRecord)
      BY <1>2 DEF AnswerOK, AccessInv
  <2>2. /\ access' \in Seq(AccessRecord) /\ Len(access') >= Len(access)
        /\ \A k \in DOMAIN access' :
             access'[k] = NewAccess(r.ctx) \/ (k \in DOMAIN access /\ access'[k] = access[k])
      BY <1>2, <1>6, <2>1, SessionOpened
  <2>3. ClassOf[r.ctx.service] = "CRITICAL" => r.ctx.device \in Managed
      BY <1>2, <1>6 DEF AnswerOK, Barred, Forwards
  <2>4. \A k \in DOMAIN access' :
          /\ ClassOf[access'[k].service] = "CRITICAL" => access'[k].device \in Managed
          /\ access'[k].score <= 40 => access'[k].status = "REVOKED"
    <3> SUFFICES ASSUME NEW k \in DOMAIN access'
                 PROVE  /\ ClassOf[access'[k].service] = "CRITICAL" => access'[k].device \in Managed
                        /\ access'[k].score <= 40 => access'[k].status = "REVOKED"
        OBVIOUS
    <3>1. CASE access'[k] = NewAccess(r.ctx)
        BY <2>3, <3>1 DEF NewAccess, PostureScore
    <3>2. CASE k \in DOMAIN access /\ access'[k] = access[k]
        BY <3>2 DEF AccessInv
    <3> QED BY <2>2, <3>1, <3>2
  <2>5. \A t \in Callers : asking'[t] # NoRequest =>
          /\ AnswerOK(asking'[t].ctx, asking'[t].decision)
          /\ asking'[t].n \in 1..(Len(access') + 1)
    <3>1. Len(access) \in Nat /\ Len(access') \in Nat
        BY <2>1, <2>2
    <3>2. 1..(Len(access) + 1) \subseteq 1..(Len(access') + 1)
        BY <2>2, <3>1
    <3> QED BY <1>3, <3>2 DEF AccessInv
  <2> QED BY <1>3, <1>4, <2>2, <2>4, <2>5 DEF AccessInv
<1> QED BY <1>5, <1>6 DEF Enforce

LEMMA RegisterKeeps ==
  ASSUME AccessInv, NEW p \in DOMAIN Catalogue, RegisterPolicy(p)
  PROVE  AccessInv'
<1>1. deployed \in Seq(DOMAIN Catalogue) /\ Len(deployed) >= 6
      /\ \A k \in Defaults : deployed[k] = k
    BY DEF AccessInv
<1>2. deployed' = deployed \/ deployed' = Append(deployed, p)
    BY DEF RegisterPolicy
<1>3. /\ deployed' \in Seq(DOMAIN Catalogue) /\ Len(deployed') >= 6
      /\ \A k \in Defaults : deployed'[k] = k
  <2>1. CASE deployed' = deployed
      BY <1>1, <2>1
  <2>2. CASE deployed' = Append(deployed, p)
    <3>1. /\ deployed' \in Seq(DOMAIN Catalogue) /\ Len(deployed') = Len(deployed) + 1
          /\ Len(deployed) \in Nat /\ \A k \in 1..Len(deployed) : deployed'[k] = deployed[k]
        BY <1>1, <2>2
    <3>2. Defaults \subseteq 1..Len(deployed)
        BY <1>1, <3>1 DEF Defaults
    <3> QED BY <1>1, <3>1, <3>2
  <2> QED BY <1>2, <2>1, <2>2
<1>4. cache' = {} /\ UNCHANGED <<access, asking>>
    BY DEF RegisterPolicy, CacheAfterRecompile
<1> QED BY <1>3, <1>4 DEF AccessInv

\* A changed session keeps its device and service.
LEMMA SessionChanged ==
  ASSUME AccessInv, NEW n \in DOMAIN access, NEW r \in AccessRecord,
         access' = [access EXCEPT ![n] = r],
         r.device = access[n].device, r.service = access[n].service,
         r.score <= 40 => r.status = "REVOKED", UNCHANGED <<deployed, cache, asking>>
  PROVE  AccessInv'
<1>1. access \in Seq(AccessRecord)
    BY DEF AccessInv
<1>2. /\ access' \in Seq(AccessRecord) /\ Len(access') = Len(access)
      /\ DOMAIN access' = DOMAIN access
      /\ \A k \in DOMAIN access : access'[k] = IF k = n THEN r ELSE access[k]
    BY <1>1, ExceptSeq
<1> QED BY <1>2 DEF AccessInv

LEMMA ReevaluateKeeps ==
  ASSUME BlockIsMostUrgent, AccessInv, NEW n \in DOMAIN access, NEW sig \in Signals,
         Reevaluate(n, sig[1], sig[2])
  PROVE  AccessInv'
<1> SUFFICES ASSUME NEW a, a = access[n], NEW posture, posture = sig[1],
                    NEW connRisk, connRisk = sig[2]
             PROVE  AccessInv'
    OBVIOUS
<1>1. /\ a \in AccessRecord /\ posture \in Postures \cup {"none"}
      /\ connRisk \in Risks \cup {"none"}
  <2>1. a \in AccessRecord
      BY DEF AccessInv
  <2>2. sig \in (Postures \cup {"none"}) \X (Risks \cup {"none"})
      BY ZeroTrustAssumption
  <2> QED BY <2>1, <2>2
<1> DEFINE score == Rescored(a.score, posture)
           risk == Rerisked(a.risk, connRisk)
           ctx == Recontext(a, score, risk, posture, connRisk)
           st == StatusFor(Decision(ctx))
           r == [a EXCEPT !.score = score, !.risk = risk, !.status = st]
<1>2. access' = [access EXCEPT ![n] = r] /\ UNCHANGED <<deployed, cache, asking>>
    BY DEF Reevaluate
<1>3. a.score \in Nat /\ a.risk \in Nat
    BY <1>1 DEF AccessRecord
<1>4. score \in Nat /\ risk \in Nat
    BY <1>3 DEF Rescored, Rerisked
<1>5. st \in {"ACTIVE", "RESTRICTED", "STEP_UP_PENDING", "REVOKED"}
    BY DEF StatusFor
<1>6. score <= 40 => st = "REVOKED"
  <2>1. SUFFICES ASSUME score <= 40 PROVE Decision(ctx) = "DENY"
      BY DEF StatusFor
  <2> DEFINE t == IF posture = "none" THEN PostureOf(score) ELSE posture
             k == IF connRisk = "none" THEN RiskLevel(risk) ELSE connRisk
             m == LooksManaged(score)
  <2>2. t \in Postures /\ k \in Risks
      BY <1>1 DEF PostureOf, RiskLevel, Postures, Risks
  <2>3. m = FALSE
      BY <1>4, <2>1 DEF LooksManaged
  <2>4. ctx = [subject |-> a.subject, device |-> a.device, service |-> a.service,
               group |-> "security-ops", managed |-> m, posture |-> t,
               class |-> "CRITICAL", risk |-> k]
      BY DEF Recontext
  <2> HIDE DEF t, k, m, ctx
  <2>5. ctx \in ContextRecord /\ Barred(ctx)
      BY <1>1, <2>2, <2>3, <2>4 DEF ContextRecord, KnownGroups, Barred, AccessRecord
  <2> QED BY <2>5, BlockDenies
<1> HIDE DEF score, risk, st
<1>7. /\ r \in AccessRecord /\ r.device = a.device /\ r.service = a.service
      /\ r.score = score /\ r.status = st
    BY <1>1, <1>4, <1>5 DEF AccessRecord
<1> HIDE DEF r
<1> QED BY <1>2, <1>6, <1>7, SessionChanged

LEMMA RevokeKeeps ==
  ASSUME AccessInv, NEW n \in DOMAIN access, RevokeSession(n)
  PROVE  AccessInv'
<1> DEFINE r == [access[n] EXCEPT !.status = "REVOKED"]
<1>1. access[n] \in AccessRecord
    BY DEF AccessInv
<1>2. /\ r \in AccessRecord /\ r.device = access[n].device /\ r.service = access[n].service
      /\ r.status = "REVOKED"
    BY <1>1 DEF AccessRecord
<1>3. access' = [access EXCEPT ![n] = r] /\ UNCHANGED <<deployed, cache, asking>>
    BY DEF RevokeSession
<1> HIDE DEF r
<1> QED BY <1>2, <1>3, SessionChanged

LEMMA AccessStep == BlockIsMostUrgent /\ AccessInv /\ [ZeroNext]_zeroVars => AccessInv'
<1> SUFFICES ASSUME BlockIsMostUrgent, AccessInv, [ZeroNext]_zeroVars PROVE AccessInv'
    OBVIOUS
<1>1. ASSUME UNCHANGED <<deployed, cache, access, asking>> PROVE AccessInv'
    BY <1>1 DEF AccessInv
<1> QED BY <1>1, EnforceKeeps, DecideKeeps, RegisterKeeps, ReevaluateKeeps, RevokeKeeps
        DEF ZeroNext, zeroVars, RegisterIdentity

LEMMA AccessInitial == ZeroInit => AccessInv
<1> SUFFICES ASSUME ZeroInit PROVE AccessInv
    OBVIOUS
<1>1. /\ deployed = [p \in 1..6 |-> p] /\ cache = {} /\ access = <<>>
      /\ asking = [th \in Callers |-> NoRequest]
    BY DEF ZeroInit, Defaults
<1>2. \A p \in 1..6 : p \in DOMAIN Catalogue
    BY ZeroTrustAssumption DEF Defaults
<1>3. deployed \in Seq(DOMAIN Catalogue) /\ Len(deployed) = 6
    BY <1>1, <1>2
<1>4. access \in Seq(AccessRecord) /\ DOMAIN access = {}
    BY <1>1
<1> QED BY <1>1, <1>3, <1>4 DEF AccessInv, Defaults

\* While no policy is more urgent than the block of unmanaged devices, no
\* unmanaged device has a session on a critical service, and a session whose
\* device was last reported as noncompliant is revoked (trigger_reevaluation).
THEOREM DevicesStayOut ==
  ASSUME BlockIsMostUrgent PROVE ZeroSpec => []BarredDevicesStayOut
<1>1. AccessInv => BarredDevicesStayOut
    BY DEF AccessInv, BarredDevicesStayOut, CriticalNeedsManaged, NoncompliantStaysOut
<1>2. AccessInv /\ [ZeroNext]_zeroVars => AccessInv'
    BY AccessStep
<1> QED BY <1>1, <1>2, AccessInitial, PTL DEF ZeroSpec

-----------------------------------------------------------------------------
(* Alert intake *)

ClusterRecord ==
  [asset : Assets, members : Seq(Nat), last : Nat, candidate : BOOLEAN]

CaseRecord == [cluster : Nat, alerts : SUBSET Nat, priority : Severities]

AlertTypeOK ==
  /\ alerts \in Seq(Alert) /\ prints \subseteq DOMAIN alerts
  /\ clusters \in Seq(ClusterRecord) /\ cases \in Seq(CaseRecord)
  /\ active \in [Assets -> 0..Len(clusters)]

\* Some alert is later than alert r.
Overtaken(r) == \E n \in DOMAIN alerts : alerts[n].time > alerts[r].time

\* The members of a cluster are representatives of its time; while alerts come
\* in order, those of another cluster than the active one are all past.
MembersOK ==
  \A c \in DOMAIN clusters : \A r \in Nat : Holds(c, r) =>
    /\ r \in prints
    /\ alerts[r].time <= clusters[c].last
    /\ active[alerts[r].asset] # 0
    /\ InOrder => c = active[alerts[r].asset] \/ Overtaken(r)

AlertInv ==
  /\ AlertTypeOK /\ MembersOK /\ OneCasePerIncident
  /\ \A r \in prints : \E c \in DOMAIN clusters : Holds(c, r)

LEMMA AppendFacts ==
  ASSUME NEW S, NEW q \in Seq(S), NEW x \in S
  PROVE  /\ Append(q, x) \in Seq(S)
         /\ Len(q) \in Nat /\ DOMAIN q = 1..Len(q)
         /\ Len(Append(q, x)) = Len(q) + 1
         /\ DOMAIN Append(q, x) = DOMAIN q \cup {Len(q) + 1}
         /\ \A n \in DOMAIN q : Append(q, x)[n] = q[n]
         /\ Append(q, x)[Len(q) + 1] = x
<1>1. /\ Append(q, x) \in Seq(S) /\ Len(q) \in Nat /\ DOMAIN q = 1..Len(q)
      /\ Len(Append(q, x)) = Len(q) + 1
      /\ DOMAIN Append(q, x) = 1..(Len(q) + 1)
    OBVIOUS
<1>2. \A n \in 1..Len(q) : Append(q, x)[n] = q[n]
    OBVIOUS
<1>3. Append(q, x)[Len(q) + 1] = x
    OBVIOUS
<1> QED BY <1>1, <1>2, <1>3

\* A set of severities that is not empty has a heaviest.
LEMMA HeaviestExists ==
  ASSUME NEW W \in SUBSET Severities, W # {}
  PROVE  \E w \in W : \A v \in W : v <= w
<1>1. \A w \in W : w \in {1, 2, 3, 4, 5}
    BY DEF Severities
<1>2. CASE 5 \in W
    BY <1>1, <1>2
<1>3. CASE 5 \notin W /\ 4 \in W
    BY <1>1, <1>3
<1>4. CASE 5 \notin W /\ 4 \notin W /\ 3 \in W
    BY <1>1, <1>4
<1>5. CASE 5 \notin W /\ 4 \notin W /\ 3 \notin W /\ 2 \in W
    BY <1>1, <1>5
<1>6. CASE 5 \notin W /\ 4 \notin W /\ 3 \notin W /\ 2 \notin W
    BY <1>1, <1>6
<1> QED BY <1>2, <1>3, <1>4, <1>5, <1>6

\* The cluster new is cl with alert r added.
IsAdded(all, cl, r, new) == new = AddAlert(all, cl, r)

LEMMA Added ==
  ASSUME NEW all, NEW cl \in ClusterRecord, NEW r \in Nat, all[r].time \in Nat,
         NEW new, IsAdded(all, cl, r, new)
  PROVE  /\ new \in ClusterRecord
         /\ new.members = Append(cl.members, r)
         /\ new.last >= cl.last /\ new.last >= all[r].time
         /\ new.members \in Seq(Nat) /\ DOMAIN new.members # {}
         /\ \A k \in Nat : (\E i \in DOMAIN new.members : new.members[i] = k) <=>
                             (k = r \/ \E i \in DOMAIN cl.members : cl.members[i] = k)
<1> DEFINE m == Append(cl.members, r)
           l == IF all[r].time > cl.last THEN all[r].time ELSE cl.last
           e == IsCandidate(all, m)
           d == cl.candidate \/ e
<1>1. cl.members \in Seq(Nat) /\ cl.last \in Nat /\ cl.candidate \in BOOLEAN
    BY DEF ClusterRecord
<1>2. new = [cl EXCEPT !.members = m, !.last = l, !.candidate = d]
    BY DEF AddAlert, IsAdded
<1>3. l \in Nat /\ l >= cl.last /\ l >= all[r].time
    BY <1>1
<1>4. d \in BOOLEAN
    OBVIOUS
<1>5. /\ m \in Seq(Nat) /\ DOMAIN m = DOMAIN cl.members \cup {Len(cl.members) + 1}
      /\ \A i \in DOMAIN cl.members : m[i] = cl.members[i]
      /\ m[Len(cl.members) + 1] = r
    BY <1>1, AppendFacts
<1> HIDE DEF m, l, d
<1>6. new \in ClusterRecord /\ new.members = m /\ new.last = l
    BY <1>2, <1>3, <1>4, <1>5 DEF ClusterRecord
<1>7. \A k \in Nat : (\E i \in DOMAIN m : m[i] = k) <=>
                       (k = r \/ \E i \in DOMAIN cl.members : cl.members[i] = k)
    BY <1>5
<1> QED BY <1>3, <1>5, <1>6, <1>7 DEF m

LEMMA HeaviestOK ==
  ASSUME NEW all, NEW members, DOMAIN members # {},
         \A i \in DOMAIN members : all[members[i]].severity \in Severities
  PROVE  HeaviestOf(all, members) \in Severities
<1> DEFINE W == {all[members[i]].severity : i \in DOMAIN members}
<1>1. W \in SUBSET Severities /\ W # {}
    OBVIOUS
<1>2. \E w \in W : \A v \in W : v <= w
    BY <1>1, HeaviestExists
<1>3. HeaviestOf(all, members) \in W
    BY <1>2 DEF HeaviestOf
<1> QED BY <1>1, <1>3

\* The cases after an alert was filed for cluster c.
LEMMA Filed ==
  ASSUME cases \in Seq(CaseRecord), NEW all, NEW n \in Nat, NEW c \in Nat,
         NEW cluster \in ClusterRecord, DOMAIN cluster.members # {},
         \A i \in DOMAIN cluster.members : all[cluster.members[i]].severity \in Severities,
         FileAlert(all, n, c, cluster)
  PROVE  /\ cases' \in Seq(CaseRecord)
         /\ \A k \in DOMAIN cases : k \in DOMAIN cases' /\ cases'[k].cluster = cases[k].cluster
         /\ \A k \in DOMAIN cases' \ DOMAIN cases :
              k = Len(cases) + 1 /\ cases'[k].cluster = c /\ CasesOf(c) = {}
         /\ cluster.candidate => \E k \in DOMAIN cases' : cases'[k].cluster = c
<1>1. CASE ~DeservesCase(cluster, all[n])
    BY <1>1 DEF FileAlert, DeservesCase
<1>2. CASE DeservesCase(cluster, all[n]) /\ CasesOf(c) # {}
  <2>1. \A k \in DOMAIN cases :
          /\ cases[k] \in CaseRecord
          /\ [cases[k] EXCEPT !.alerts = cases[k].alerts \cup {n}] \in CaseRecord
          /\ [cases[k] EXCEPT !.alerts = cases[k].alerts \cup {n}].cluster = cases[k].cluster
    <3> SUFFICES ASSUME NEW k \in DOMAIN cases, NEW S, S = cases[k].alerts \cup {n}
                 PROVE  /\ cases[k] \in CaseRecord /\ [cases[k] EXCEPT !.alerts = S] \in CaseRecord
                        /\ [cases[k] EXCEPT !.alerts = S].cluster = cases[k].cluster
        OBVIOUS
    <3>1. cases[k] \in CaseRecord
        OBVIOUS
    <3>2. S \in SUBSET Nat
        BY <3>1 DEF CaseRecord
    <3> QED BY <3>1, <3>2 DEF CaseRecord
  <2> DEFINE f(k) == IF k \in CasesOf(c) THEN [cases[k] EXCEPT !.alerts = cases[k].alerts \cup {n}]
                                       ELSE cases[k]
  <2>2. cases' = [k \in DOMAIN cases |-> f(k)]
      BY <1>2 DEF FileAlert
  <2>3. \A k \in DOMAIN cases : f(k) \in CaseRecord /\ f(k).cluster = cases[k].cluster
      BY <2>1
  <2> HIDE DEF f
  <2>4. Len(cases) \in Nat /\ DOMAIN cases = 1..Len(cases)
      OBVIOUS
  <2>5. cases' \in Seq(CaseRecord)
      BY <2>2, <2>3, <2>4
  <2> QED BY <1>2, <2>2, <2>3, <2>5 DEF CasesOf
<1>3. CASE DeservesCase(cluster, all[n]) /\ CasesOf(c) = {}
  <2> DEFINE m == {cluster.members[i] : i \in DOMAIN cluster.members}
             h == HeaviestOf(all, cluster.members)
             x == [cluster |-> c, alerts |-> m, priority |-> h]
  <2>1. m \in SUBSET Nat
      BY DEF ClusterRecord
  <2>2. h \in Severities
      BY HeaviestOK
  <2>3. cases' = Append(cases, x)
      BY <1>3 DEF FileAlert
  <2> HIDE DEF m, h
  <2>4. x \in CaseRecord /\ x.cluster = c
      BY <2>1, <2>2 DEF CaseRecord
  <2> HIDE DEF x
  <2> QED BY <1>3, <2>3, <2>4, AppendFacts
<1> QED BY <1>1, <1>2, <1>3

\* The representative of an alert is itself, or an earlier one that equals it
\* in asset and time.
IsArrival(alert, all, n, rep) ==
  all = Append(alerts, alert) /\ n = Len(alerts) + 1 /\ rep = Representative(all, n)

LEMMA RepresentativeOK ==
  ASSUME AlertTypeOK, NEW alert \in Alert, NEW all, NEW n, NEW rep,
         IsArrival(alert, all, n, rep)
  PROVE  /\ rep = n \/ rep \in prints
         /\ all[rep].asset = alert.asset /\ all[rep].time = alert.time
<1>1. all[n] = alert
    BY AppendFacts DEF AlertTypeOK, IsArrival
<1> DEFINE same == {r \in prints : Fingerprint(all[r]) = Fingerprint(all[n])}
<1>2. rep = IF same = {} THEN n ELSE CHOOSE r \in same : TRUE
    BY DEF Representative, IsArrival
<1>3. rep = n \/ rep \in same
    BY <1>2
<1> QED BY <1>1, <1>3 DEF Fingerprint

LEMMA IntakeStep ==
  ASSUME AlertInv, ProcessAlert
  PROVE  AlertInv'
<1>1. PICK alert \in Alert :
        LET all == Append(alerts, alert)
            n == Len(all)
            rep == Representative(all, n)
            c == IF InWindow(all, rep) THEN active[alert.asset] ELSE Len(clusters) + 1
            cluster == AddAlert(all, IF InWindow(all, rep) THEN clusters[c]
                                     ELSE NewCluster(all, rep), rep)
        IN  /\ alerts' = all
            /\ prints' = prints \cup {rep}
            /\ clusters' = IF c > Len(clusters) THEN Append(clusters, cluster)
                           ELSE [clusters EXCEPT ![c] = cluster]
            /\ active' = [active EXCEPT ![alert.asset] = c]
            /\ FileAlert(all, n, c, cluster)
    BY DEF ProcessAlert
<1>0. SUFFICES
      ASSUME NEW all, all = Append(alerts, alert), NEW n, n = Len(alerts) + 1,
             NEW rep, rep = Representative(all, n),
             NEW c, c = IF InWindow(all, rep) THEN active[alert.asset] ELSE Len(clusters) + 1,
             NEW old, old = IF InWindow(all, rep) THEN clusters[c] ELSE NewCluster(all, rep),
             NEW cluster, cluster = AddAlert(all, old, rep),
             alerts' = all, prints' = prints \cup {rep},
             clusters' = IF c > Len(clusters) THEN Append(clusters, cluster)
                         ELSE [clusters EXCEPT ![c] = cluster],
             active' = [active EXCEPT ![alert.asset] = c],
             FileAlert(all, n, c, cluster), alert \in Alert
      PROVE  AlertInv'
  <2>1. Len(Append(alerts, alert)) = Len(alerts) + 1
      BY AppendFacts DEF AlertInv, AlertTypeOK
  <2> QED BY <1>1, <2>1
<1>a. all = Append(alerts, alert) /\ n = Len(alerts) + 1 /\ alert \in Alert
    BY <1>0
<1>b. rep = Representative(all, n)
    BY <1>0
<1>c. c = IF InWindow(all, rep) THEN active[alert.asset] ELSE Len(clusters) + 1
    BY <1>0
<1>d. /\ old = IF InWindow(all, rep) THEN clusters[c] ELSE NewCluster(all, rep)
      /\ cluster = AddAlert(all, old, rep)
    BY <1>0
<1>e. clusters' = IF c > Len(clusters) THEN Append(clusters, cluster)
                  ELSE [clusters EXCEPT ![c] = cluster]
    BY <1>0
<1>f. /\ alerts' = all /\ prints' = prints \cup {rep}
      /\ active' = [active EXCEPT ![alert.asset] = c]
    BY <1>0
<1>2. /\ alerts \in Seq(Alert) /\ all \in Seq(Alert) /\ n \in Nat /\ n \notin DOMAIN alerts
      /\ DOMAIN all = DOMAIN alerts \cup {n} /\ all[n] = alert
      /\ \A r \in DOMAIN alerts : all[r] = alerts[r] /\ r \in Nat /\ r < n
      /\ \A r \in DOMAIN all : all[r] \in Alert
  <2>1. alerts \in Seq(Alert)
      BY DEF AlertInv, AlertTypeOK
  <2>2. /\ all \in Seq(Alert) /\ Len(alerts) \in Nat /\ DOMAIN alerts = 1..Len(alerts)
        /\ DOMAIN all = DOMAIN alerts \cup {n} /\ all[n] = alert
        /\ \A r \in DOMAIN alerts : all[r] = alerts[r]
      BY <1>a, <2>1, AppendFacts
  <2> QED BY <1>a, <2>1, <2>2
<1>3. /\ rep = n \/ rep \in prints
      /\ all[rep].asset = alert.asset /\ all[rep].time = alert.time
      /\ rep \in DOMAIN all /\ rep \in Nat
  <2>1. /\ rep = n \/ rep \in prints
        /\ all[rep].asset = alert.asset /\ all[rep].time = alert.time
    <3>1. AlertTypeOK /\ alert \in Alert
        BY <1>a DEF AlertInv
    <3>2. IsArrival(alert, all, n, rep)
        BY <1>a, <1>b DEF IsArrival
    <3> QED BY <3>1, <3>2, RepresentativeOK
  <2> QED BY <1>2, <2>1 DEF AlertInv, AlertTypeOK
<1>4. /\ alert.asset \in Assets /\ alert.time \in Nat /\ alert.severity \in Severities
      /\ \A r \in DOMAIN all : all[r].time \in Nat /\ all[r].severity \in Severities
                               /\ all[r].asset \in Assets
    BY <1>2, <1>a, AlertAssumption DEF Alert
<1>5. /\ clusters \in Seq(ClusterRecord) /\ Len(clusters) \in Nat
      /\ DOMAIN clusters = 1..Len(clusters)
      /\ active \in [Assets -> 0..Len(clusters)] /\ cases \in Seq(CaseRecord)
      /\ \A k \in DOMAIN clusters :
           clusters[k] \in ClusterRecord /\ clusters[k].last \in Nat /\ k \in Nat \ {0}
  <2>1. /\ clusters \in Seq(ClusterRecord) /\ Len(clusters) \in Nat
        /\ DOMAIN clusters = 1..Len(clusters)
        /\ active \in [Assets -> 0..Len(clusters)] /\ cases \in Seq(CaseRecord)
      BY DEF AlertInv, AlertTypeOK
  <2>2. \A k \in DOMAIN clusters : clusters[k] \in ClusterRecord
      BY <2>1
  <2>3. \A k \in DOMAIN clusters : clusters[k].last \in Nat
      BY <2>2 DEF ClusterRecord
  <2> QED BY <2>1, <2>2, <2>3
<1>6. /\ InWindow(all, rep) => c = active[alert.asset] /\ c \in DOMAIN clusters
                               /\ alert.time <= clusters[c].last + 2
      /\ ~InWindow(all, rep) =>
           /\ c = Len(clusters) + 1
           /\ active[alert.asset] # 0 =>
                /\ active[alert.asset] \in DOMAIN clusters
                /\ alert.time > clusters[active[alert.asset]].last + 2
  <2> SUFFICES ASSUME NEW k, k = active[alert.asset]
               PROVE  /\ InWindow(all, rep) => c = k /\ c \in DOMAIN clusters
                               /\ alert.time <= clusters[c].last + 2
                      /\ ~InWindow(all, rep) =>
                           /\ c = Len(clusters) + 1
                           /\ k # 0 => k \in DOMAIN clusters /\ alert.time > clusters[k].last + 2
      OBVIOUS
  <2>1. k \in 0..Len(clusters)
      BY <1>4, <1>5
  <2>2. k # 0 => k \in DOMAIN clusters /\ clusters[k].last \in Nat
      BY <1>5, <2>1
  <2>3. InWindow(all, rep) <=> (k # 0 /\ alert.time <= clusters[k].last + 2)
      BY <1>3 DEF InWindow, ClusterWindow
  <2> QED BY <1>4, <1>5, <1>c, <2>1, <2>2, <2>3
<1>7. old \in ClusterRecord /\ (InWindow(all, rep) => old = clusters[c])
      /\ (~InWindow(all, rep) => old.members = <<>>)
  <2>1. CASE InWindow(all, rep)
      BY <1>5, <1>6, <1>d, <2>1
  <2>2. CASE ~InWindow(all, rep)
    <3> DEFINE e == <<>>
    <3>1. old = [asset |-> all[rep].asset, members |-> e, last |-> all[rep].time,
                 candidate |-> FALSE]
        BY <1>d, <2>2 DEF NewCluster
    <3>2. e \in Seq(Nat) /\ all[rep].time \in Nat /\ all[rep].asset \in Assets
        BY <1>3, <1>4
    <3> HIDE DEF e
    <3>3. old \in ClusterRecord /\ old.members = e
        BY <3>1, <3>2 DEF ClusterRecord
    <3> QED BY <2>2, <3>3 DEF e
  <2> QED BY <2>1, <2>2
<1>8. /\ cluster \in ClusterRecord
      /\ cluster.last >= old.last /\ cluster.last >= alert.time
      /\ cluster.members \in Seq(Nat) /\ DOMAIN cluster.members # {}
      /\ \A k \in Nat : (\E i \in DOMAIN cluster.members : cluster.members[i] = k) <=>
                          (k = rep \/ \E i \in DOMAIN old.members : old.members[i] = k)
  <2>1. all[rep].time \in Nat /\ rep \in Nat /\ old \in ClusterRecord
      BY <1>3, <1>4, <1>7
  <2>3. IsAdded(all, old, rep, cluster)
      BY <1>d DEF IsAdded
  <2>2. /\ cluster \in ClusterRecord
        /\ cluster.members = Append(old.members, rep)
        /\ cluster.last >= old.last /\ cluster.last >= all[rep].time
        /\ cluster.members \in Seq(Nat) /\ DOMAIN cluster.members # {}
        /\ \A k \in Nat : (\E i \in DOMAIN cluster.members : cluster.members[i] = k) <=>
                            (k = rep \/ \E i \in DOMAIN old.members : old.members[i] = k)
      BY <2>1, <2>3, Added
  <2> QED BY <1>3, <2>2
<1>9. /\ clusters' \in Seq(ClusterRecord) /\ c \in Nat /\ c \in DOMAIN clusters'
      /\ DOMAIN clusters' = DOMAIN clusters \cup {c} /\ Len(clusters') >= Len(clusters)
      /\ Len(clusters') \in Nat /\ DOMAIN clusters' = 1..Len(clusters')
      /\ clusters'[c] = cluster
      /\ \A k \in DOMAIN clusters : k # c => clusters'[k] = clusters[k]
      /\ c \in DOMAIN clusters <=> InWindow(all, rep)
  <2>0. cluster \in ClusterRecord /\ clusters \in Seq(ClusterRecord)
      BY <1>5, <1>8
  <2>1. CASE InWindow(all, rep)
    <3>1. c \in DOMAIN clusters /\ ~(c > Len(clusters)) /\ c \in Nat
        BY <1>5, <1>6, <2>1
    <3>2. clusters' = [clusters EXCEPT ![c] = cluster]
        BY <1>e, <3>1
    <3>3. /\ clusters' \in Seq(ClusterRecord) /\ Len(clusters') = Len(clusters)
          /\ DOMAIN clusters' = DOMAIN clusters
          /\ \A k \in DOMAIN clusters : clusters'[k] = IF k = c THEN cluster ELSE clusters[k]
        BY <2>0, <3>1, <3>2, ExceptSeq
    <3> QED BY <1>5, <2>1, <3>1, <3>3
  <2>2. CASE ~InWindow(all, rep)
    <3>1. c = Len(clusters) + 1 /\ c > Len(clusters) /\ c \in Nat /\ c \notin DOMAIN clusters
        BY <1>5, <1>6, <2>2
    <3>2. clusters' = Append(clusters, cluster)
        BY <1>e, <3>1
    <3>3. /\ clusters' \in Seq(ClusterRecord) /\ Len(clusters') = Len(clusters) + 1
          /\ DOMAIN clusters' = DOMAIN clusters \cup {c} /\ clusters'[c] = cluster
          /\ \A k \in DOMAIN clusters : clusters'[k] = clusters[k]
        BY <2>0, <3>1, <3>2, AppendFacts
    <3> QED BY <1>5, <2>2, <3>1, <3>3
  <2> QED BY <2>1, <2>2
<1>10. \A k \in DOMAIN clusters', r \in Nat :
         Holds(k, r)' <=> ((k = c /\ r = rep) \/ (k \in DOMAIN clusters /\ Holds(k, r)))
  <2> SUFFICES ASSUME NEW k \in DOMAIN clusters', NEW r \in Nat
               PROVE  (\E i \in DOMAIN clusters'[k].members : clusters'[k].members[i] = r) <=>
                        \/ k = c /\ r = rep
                        \/ /\ k \in DOMAIN clusters
                           /\ \E i \in DOMAIN clusters[k].members : clusters[k].members[i] = r
      BY DEF Holds
  <2>1. CASE k # c
      BY <1>9, <2>1
  <2>2. CASE k = c /\ InWindow(all, rep)
      BY <1>7, <1>8, <1>9, <2>2
  <2>3. CASE k = c /\ ~InWindow(all, rep)
      BY <1>7, <1>8, <1>9, <2>3
  <2> QED BY <2>1, <2>2, <2>3
<1>11. active' \in [Assets -> 0..Len(clusters')] /\ active'[alert.asset] = c
       /\ \A s \in Assets : s # alert.asset => active'[s] = active[s]
  <2>1. c \in 0..Len(clusters')
      BY <1>9
  <2>2. 0..Len(clusters) \subseteq 0..Len(clusters')
      BY <1>5, <1>9
  <2> QED BY <1>4, <1>5, <1>f, <2>1, <2>2
<1>12. \A i \in DOMAIN cluster.members : all[cluster.members[i]].severity \in Severities
  <2> SUFFICES ASSUME NEW i \in DOMAIN cluster.members
               PROVE  cluster.members[i] \in DOMAIN all
      BY <1>4
  <2>1. cluster.members[i] \in Nat
      BY <1>8
  <2>2. Holds(c, cluster.members[i])'
      BY <1>9 DEF Holds
  <2>3. cluster.members[i] = rep \/ (c \in DOMAIN clusters /\ Holds(c, cluster.members[i]))
      BY <1>9, <1>10, <2>1, <2>2
  <2> QED BY <1>2, <1>3, <2>1, <2>3 DEF AlertInv, MembersOK, AlertTypeOK
<1>13. /\ cases' \in Seq(CaseRecord)
       /\ \A k \in DOMAIN cases : k \in DOMAIN cases' /\ cases'[k].cluster = cases[k].cluster
       /\ \A k \in DOMAIN cases' \ DOMAIN cases :
            k = Len(cases) + 1 /\ cases'[k].cluster = c /\ CasesOf(c) = {}
       /\ cluster.candidate => \E k \in DOMAIN cases' : cases'[k].cluster = c
  <2>1. FileAlert(all, n, c, cluster)
      BY <1>0
  <2>2. cases \in Seq(CaseRecord) /\ n \in Nat /\ c \in Nat
      BY <1>2, <1>5, <1>9
  <2>3. cluster \in ClusterRecord /\ DOMAIN cluster.members # {}
      BY <1>8
  <2> QED BY <1>12, <2>1, <2>2, <2>3, Filed, Zenon
<1>14. AlertTypeOK'
  <2>1. prints' \subseteq DOMAIN all
      BY <1>2, <1>3, <1>f DEF AlertInv, AlertTypeOK
  <2> QED BY <1>2, <1>9, <1>11, <1>13, <1>f, <2>1 DEF AlertTypeOK
<1>15. CandidatesHaveOneCase'
  <2>1. CandidatesHaveOneCase
      BY DEF AlertInv, OneCasePerIncident
  <2>2. ASSUME NEW k \in DOMAIN clusters', clusters'[k].candidate
        PROVE  \E j \in DOMAIN cases' : cases'[j].cluster = k
    <3>1. CASE k = c
        BY <1>9, <1>13, <2>2, <3>1
    <3>2. CASE k # c
      <4>1. k \in DOMAIN clusters /\ clusters[k].candidate
          BY <1>9, <2>2, <3>2
      <4>2. CasesOf(k) # {}
          BY <2>1, <4>1 DEF CandidatesHaveOneCase
      <4>3. PICK j \in DOMAIN cases : cases[j].cluster = k
          BY <4>2 DEF CasesOf
      <4> QED BY <1>13, <4>3
    <3> QED BY <3>1, <3>2
  <2>3. ASSUME NEW j \in DOMAIN cases', NEW k \in DOMAIN cases',
               cases'[j].cluster = cases'[k].cluster
        PROVE  j = k
      BY <1>13, <2>1, <2>3 DEF CandidatesHaveOneCase, CasesOf
  <2> QED BY <2>2, <2>3 DEF CandidatesHaveOneCase, CasesOf
<1>16. \A r \in prints' : \E k \in DOMAIN clusters' : Holds(k, r)'
  <2>1. \A r \in prints' : r \in Nat
      BY <1>2, <1>3, <1>f DEF AlertInv, AlertTypeOK
  <2> QED BY <1>9, <1>10, <1>f, <2>1 DEF AlertInv
<1>17. \A r \in DOMAIN alerts : Overtaken(r) => Overtaken(r)'
    BY <1>2, <1>f DEF Overtaken
<1>18. InOrder' => InOrder /\ \A r \in DOMAIN alerts : alerts[r].time <= alert.time
    BY <1>2, <1>f DEF InOrder
<1>19. \A k \in DOMAIN clusters, r \in Nat : Holds(k, r) =>
         /\ r \in prints /\ r \in DOMAIN alerts /\ alerts[r].time <= clusters[k].last
         /\ alerts[r].asset \in Assets /\ active[alerts[r].asset] # 0
         /\ InOrder => k = active[alerts[r].asset] \/ Overtaken(r)
    BY <1>2, <1>4 DEF AlertInv, MembersOK, AlertTypeOK
\* While alerts come in order, a duplicate joins the one cluster of its
\* representative.
<1>20. InOrder' /\ rep # n => \A k \in DOMAIN clusters : Holds(k, rep) => k = c
  <2> SUFFICES ASSUME InOrder', rep # n, NEW k \in DOMAIN clusters, Holds(k, rep)
               PROVE  k = c
      OBVIOUS
  <2>1. rep \in DOMAIN alerts /\ alerts[rep] = all[rep] /\ InOrder
      BY <1>2, <1>3, <1>18, <1>19
  <2>2. ~Overtaken(rep)
    <3> SUFFICES ASSUME NEW m \in DOMAIN alerts, alerts[m].time > alerts[rep].time PROVE FALSE
        BY DEF Overtaken
    <3>1. alerts[m].time <= alerts[rep].time
        BY <1>3, <1>18, <2>1
    <3>2. alerts[m].time \in Nat /\ alerts[rep].time \in Nat
        BY <1>2, <1>4, <2>1
    <3> QED BY <3>1, <3>2
  <2>3. k = active[alert.asset] /\ alert.time <= clusters[k].last
      BY <1>3, <1>19, <2>1, <2>2
  <2>4. clusters[k].last \in Nat /\ k # 0
      BY <1>5
  <2>5. InWindow(all, rep)
      BY <1>4, <1>6, <2>3, <2>4
  <2> QED BY <1>6, <2>3, <2>5
<1>21. MembersOK'
  <2> SUFFICES ASSUME NEW k \in DOMAIN clusters', NEW r \in Nat, Holds(k, r)'
               PROVE  /\ r \in prints'
                      /\ all[r].time <= clusters'[k].last
                      /\ active'[all[r].asset] # 0
                      /\ InOrder' => k = active'[all[r].asset] \/ Overtaken(r)'
      BY <1>f DEF MembersOK
  <2>1. CASE k = c /\ r = rep
      BY <1>3, <1>8, <1>9, <1>11, <1>f, <2>1
  <2>2. CASE k \in DOMAIN clusters /\ Holds(k, r)
    <3>1. /\ r \in prints /\ r \in DOMAIN alerts /\ all[r] = alerts[r]
          /\ alerts[r].time <= clusters[k].last
          /\ alerts[r].asset \in Assets /\ active[alerts[r].asset] # 0
          /\ InOrder => k = active[alerts[r].asset] \/ Overtaken(r)
        BY <1>2, <1>19, <2>2
    <3>2. all[r].time <= clusters'[k].last
      <4>1. CASE k # c
          BY <1>9, <2>2, <3>1, <4>1
      <4>2. CASE k = c
        <5>1. old = clusters[k]
            BY <1>7, <1>9, <2>2, <4>2
        <5>2. all[r].time \in Nat /\ old.last \in Nat /\ cluster.last \in Nat
            BY <1>4, <1>7, <1>8, <1>2, <3>1 DEF ClusterRecord
        <5> QED BY <1>8, <1>9, <3>1, <4>2, <5>1, <5>2
      <4> QED BY <4>1, <4>2
    <3>3. active'[all[r].asset] # 0
        BY <1>9, <1>11, <3>1
    <3>4. ASSUME InOrder' PROVE k = active'[all[r].asset] \/ Overtaken(r)'
      <4>1. k = active[alerts[r].asset] \/ Overtaken(r)
          BY <1>18, <3>1, <3>4
      <4>2. CASE Overtaken(r)
          BY <1>17, <3>1, <4>2
      <4>3. CASE k = active[alerts[r].asset] /\ alerts[r].asset # alert.asset
          BY <1>11, <3>1, <4>3
      <4>4. CASE k = active[alerts[r].asset] /\ alerts[r].asset = alert.asset
        <5>1. CASE InWindow(all, rep)
            BY <1>6, <1>11, <3>1, <4>4, <5>1
        <5>2. CASE ~InWindow(all, rep)
          <6>1. alert.time > clusters[k].last + 2
              BY <1>6, <3>1, <4>4, <5>2
          <6>2. clusters[k].last \in Nat /\ alerts[r].time \in Nat
              BY <1>2, <1>4, <1>5, <2>2, <3>1
          <6>3. alert.time > alerts[r].time
              BY <1>4, <3>1, <6>1, <6>2
          <6> QED BY <1>2, <1>f, <3>1, <6>3 DEF Overtaken
        <5> QED BY <5>1, <5>2
      <4> QED BY <4>1, <4>2, <4>3, <4>4
    <3> QED BY <1>f, <3>1, <3>2, <3>3, <3>4
  <2> QED BY <1>10, <2>1, <2>2
<1>22. FloodStaysTogether'
  <2> SUFFICES ASSUME InOrder', NEW j \in DOMAIN clusters', NEW k \in DOMAIN clusters',
                      NEW r \in prints', Holds(j, r)', Holds(k, r)'
               PROVE  j = k
      BY DEF FloodStaysTogether
  <2>1. r \in Nat /\ (r = rep \/ r \in prints)
      BY <1>2, <1>3, <1>f DEF AlertInv, AlertTypeOK
  <2>2. CASE r = rep /\ rep # n
      BY <1>10, <1>20, <2>1, <2>2
  <2>3. CASE r = rep /\ rep = n
      BY <1>2, <1>10, <1>19, <2>1, <2>3
  <2>4. CASE r # rep
    <3>1. /\ j \in DOMAIN clusters /\ Holds(j, r) /\ k \in DOMAIN clusters /\ Holds(k, r)
          /\ r \in prints
        BY <1>10, <2>1, <2>4
    <3> QED BY <1>18, <3>1 DEF AlertInv, OneCasePerIncident, FloodStaysTogether
  <2> QED BY <2>2, <2>3, <2>4
<1> QED BY <1>14, <1>15, <1>16, <1>21, <1>22 DEF AlertInv, OneCasePerIncident

LEMMA AlertInitial == AlertInit => AlertInv
<1> SUFFICES ASSUME AlertInit PROVE AlertInv
    OBVIOUS
<1>1. /\ alerts = <<>> /\ prints = {} /\ clusters = <<>> /\ cases = <<>>
      /\ active = [s \in Assets |-> 0]
    BY DEF AlertInit
<1>2. /\ <<>> \in Seq(Alert) /\ <<>> \in Seq(ClusterRecord) /\ <<>> \in Seq(CaseRecord)
      /\ DOMAIN <<>> = {} /\ 0 \in 0..Len(<<>>)
    OBVIOUS
<1>3. AlertTypeOK
    BY <1>1, <1>2 DEF AlertTypeOK
<1> QED BY <1>1, <1>2, <1>3 DEF AlertInv, MembersOK, OneCasePerIncident,
        CandidatesHaveOneCase, FloodStaysTogether

\* Every candidate has one case, and a flood of one alert that arrives in
\* order is one cluster (process_alert, dedup.py and clustering.py).
THEOREM IncidentsHaveOneCase == AlertSpec => []OneCasePerIncident
<1>1. AlertInv /\ [ProcessAlert]_alertVars => AlertInv'
  <2>1. ASSUME AlertInv, UNCHANGED alertVars PROVE AlertInv'
    <3>1. UNCHANGED <<alerts, prints, clusters, active, cases>>
        BY <2>1 DEF alertVars
    <3> QED BY <2>1, <3>1 DEF AlertInv, AlertTypeOK, MembersOK, OneCasePerIncident, InOrder,
            CandidatesHaveOneCase, FloodStaysTogether, Holds, CasesOf, Overtaken
  <2> QED BY <2>1, IntakeStep
<1>2. AlertInv => OneCasePerIncident
    BY DEF AlertInv
<1> QED BY <1>1, <1>2, AlertInitial, PTL DEF AlertSpec
-----------------------------------------------------------------------------
(* Case response: four eyes *)

Ballot == [by : Approvers, verdict : {"APPROVED", "REJECTED"}]

CaseTypeOK ==
  /\ action \in [Actions -> ActionRecord \cup {None}]
  /\ votes \in [Actions -> Seq(Ballot)]
  /\ request \in [Actions -> {"PENDING", "APPROVED", "REJECTED"}]
  /\ thread \in [Threads -> ThreadRecord \cup {None}]
  /\ plant \in [Kind \X Targets -> {"original", "changed"}]

\* No approver has two votes on one request.
OneVoteEach ==
  \A a \in Actions : \A i, j \in DOMAIN votes[a] : votes[a][i].by = votes[a][j].by => i = j

Enough(a) == Cardinality(Approvals(votes[a])) >= RequiredApprovals(action[a].risk)

\* Whatever is approved, is being executed or was executed has its approvals.
ApprovedEnough ==
  /\ \A a \in Actions : action[a] # None /\ (request[a] = "APPROVED" \/ Ran(a)) => Enough(a)
  /\ \A th \in Threads : thread[th] # None =>
       action[thread[th].action] # None /\ Enough(thread[th].action)

CaseInv == CaseTypeOK /\ OneVoteEach /\ ApprovedEnough

LEMMA BallotsFinite ==
  ASSUME NEW q \in Seq(Ballot)
  PROVE  IsFiniteSet(Approvals(q)) /\ Cardinality(Approvals(q)) \in Nat
<1>1. DOMAIN q = 1..Len(q) /\ Len(q) \in Nat
    OBVIOUS
<1>2. IsFiniteSet(1..Len(q))
    BY <1>1, FS_Interval
<1>3. Approvals(q) \in SUBSET (1..Len(q))
    BY <1>1 DEF Approvals
<1> QED BY <1>2, <1>3, FS_Subset, FS_CardinalityType

\* With a vote each, there are as many people as approvals.
LEMMA AsManyPeople ==
  ASSUME NEW q \in Seq(Ballot), \A i, j \in DOMAIN q : q[i].by = q[j].by => i = j
  PROVE  Cardinality({q[i].by : i \in Approvals(q)}) = Cardinality(Approvals(q))
<1> DEFINE A == Approvals(q)
           P == {q[i].by : i \in A}
           f == [i \in A |-> q[i].by]
<1>1. A \subseteq DOMAIN q
    BY DEF Approvals
<1>2. f \in Bijection(A, P)
    BY <1>1 DEF Bijection, Injection, Surjection, IsInjective
<1>3. ExistsBijection(A, P)
    BY <1>2 DEF ExistsBijection
<1>4. IsFiniteSet(A)
    BY BallotsFinite
<1> HIDE DEF A, P, f
<1>5. Cardinality(P) = Cardinality(A)
    BY <1>3, <1>4, FS_Bijection
<1> QED BY <1>5 DEF A, P

\* An action keeps what it was staged with.
StagedStays ==
  \A b \in Actions :
    /\ action'[b] # None <=> action[b] # None
    /\ action[b] # None =>
         /\ action'[b].case = action[b].case /\ action'[b].kind = action[b].kind
         /\ action'[b].target = action[b].target /\ action'[b].risk = action[b].risk

LEMMA StateChanged ==
  ASSUME CaseTypeOK, NEW a \in Actions, action[a] # None,
         NEW s \in {"STARTED", "FAILED", "VERIFIED", "ROLLED_BACK"},
         action' = [action EXCEPT ![a].state = s]
  PROVE  /\ action' \in [Actions -> ActionRecord \cup {None}] /\ StagedStays
         /\ \A b \in Actions : Ran(b)' <=> Ran(b)
<1>1. action \in [Actions -> ActionRecord \cup {None}] /\ None \notin ActionRecord
    BY CaseAssumption DEF CaseTypeOK
<1> DEFINE r == [action[a] EXCEPT !.state = s]
<1>2. action[a] \in ActionRecord
    BY <1>1
<1>3. /\ r \in ActionRecord /\ r.case = action[a].case /\ r.kind = action[a].kind
      /\ r.target = action[a].target /\ r.risk = action[a].risk /\ r.before = action[a].before
    BY <1>2 DEF ActionRecord
<1>4. action' = [action EXCEPT ![a] = r]
    OBVIOUS
<1> HIDE DEF r
<1>5. action'[a] = r /\ \A b \in Actions : b # a => action'[b] = action[b]
    BY <1>1, <1>4
<1>6. action' \in [Actions -> ActionRecord \cup {None}]
    BY <1>1, <1>3, <1>4
<1>7. StagedStays
    BY <1>1, <1>3, <1>5 DEF StagedStays
<1>8. \A b \in Actions : Ran(b)' <=> Ran(b)
    BY <1>1, <1>3, <1>5 DEF Ran
<1> QED BY <1>6, <1>7, <1>8

\* What every step but a vote and a staging keeps.
LEMMA ApprovalsStay ==
  ASSUME CaseInv, CaseTypeOK', UNCHANGED <<votes, request>>, StagedStays,
         \A b \in Actions : Ran(b)' => Ran(b) \/ (action[b] # None /\ Enough(b)),
         \A th \in Threads : thread'[th] # None =>
           /\ thread'[th].action \in Actions
           /\ action[thread'[th].action] # None /\ Enough(thread'[th].action)
  PROVE  CaseInv'
<1>1. \A b \in Actions : action[b] # None => (Enough(b)' <=> Enough(b))
    BY DEF Enough, StagedStays, Approvals
<1>2. OneVoteEach'
    BY DEF CaseInv, OneVoteEach
<1>3. ApprovedEnough'
  <2>1. ASSUME NEW b \in Actions, action'[b] # None, (request'[b] = "APPROVED" \/ Ran(b)')
        PROVE  Enough(b)'
    <3>1. action[b] # None
        BY <2>1 DEF StagedStays
    <3>2. Enough(b)
        BY <2>1, <3>1 DEF CaseInv, ApprovedEnough
    <3> QED BY <1>1, <3>1, <3>2
  <2>2. ASSUME NEW th \in Threads, thread'[th] # None
        PROVE  (action[thread[th].action] # None /\ Enough(thread[th].action))'
    <3> SUFFICES ASSUME NEW b \in Actions, b = thread'[th].action
                 PROVE  action'[b] # None /\ Enough(b)'
        BY <2>2 DEF Enough
    <3>1. action[b] # None /\ Enough(b)
        BY <2>2
    <3> QED BY <1>1, <3>1 DEF StagedStays
  <2> QED BY <2>1, <2>2 DEF ApprovedEnough
<1> QED BY <1>2, <1>3 DEF CaseInv

LEMMA ThreadsHold ==
  ASSUME CaseInv, NEW th \in Threads, thread[th] # None
  PROVE  /\ thread[th] \in ThreadRecord /\ thread[th].action \in Actions
         /\ action[thread[th].action] # None /\ Enough(thread[th].action)
<1>1. thread[th] \in ThreadRecord
    BY DEF CaseInv, CaseTypeOK
<1> QED BY <1>1 DEF CaseInv, ApprovedEnough, ThreadRecord

\* A step that changes at most the status of cases and the state of one action.
LEMMA MovesKeep ==
  ASSUME CaseInv, UNCHANGED <<votes, request, thread>>,
         plant' \in [Kind \X Targets -> {"original", "changed"}],
         \/ UNCHANGED action
         \/ \E a \in Actions, s \in {"STARTED", "FAILED", "VERIFIED", "ROLLED_BACK"} :
              action[a] # None /\ action' = [action EXCEPT ![a].state = s]
  PROVE  CaseInv' /\ StagedStays
<1>0. CaseTypeOK
    BY DEF CaseInv
<1>1. /\ action' \in [Actions -> ActionRecord \cup {None}] /\ StagedStays
      /\ \A b \in Actions : Ran(b)' <=> Ran(b)
  <2>1. CASE UNCHANGED action
      BY <1>0, <2>1 DEF CaseTypeOK, StagedStays, Ran
  <2> QED BY <1>0, <2>1, StateChanged
<1>2. CaseTypeOK'
    BY <1>0, <1>1 DEF CaseTypeOK
<1>3. \A th \in Threads : thread'[th] # None =>
        /\ thread'[th].action \in Actions
        /\ action[thread'[th].action] # None /\ Enough(thread'[th].action)
    BY ThreadsHold
<1> QED BY <1>1, <1>2, <1>3, ApprovalsStay

LEMMA UndoneOK ==
  ASSUME CaseTypeOK, NEW a \in Actions, Reversible(a)
  PROVE  Undone(a) \in [Kind \X Targets -> {"original", "changed"}]
<1>1. action[a] \in ActionRecord /\ action[a].before # None
    BY DEF CaseTypeOK, Reversible
<1>2. /\ action[a].before \in {"original", "changed"}
      /\ action[a].kind \in Kind /\ action[a].target \in Targets
    BY <1>1 DEF ActionRecord
<1> DEFINE x == IF action[a].kind \in ClearsOnRollback THEN "original" ELSE action[a].before
           k == <<action[a].kind, action[a].target>>
<1>3. x \in {"original", "changed"} /\ plant \in [Kind \X Targets -> {"original", "changed"}]
    BY <1>2 DEF CaseTypeOK
<1>4. Undone(a) = [plant EXCEPT ![k] = x]
    BY DEF Undone
<1> HIDE DEF x, k
<1> QED BY <1>3, <1>4

LEMMA StageKeeps ==
  ASSUME CaseInv, NEW a \in Actions, NEW c \in Cases, StageAction(a, c)
  PROVE  CaseInv'
<1>1. PICK s \in Stagings, t \in Targets :
        /\ action' = [action EXCEPT ![a] =
             [case |-> c, kind |-> s[1], target |-> t, risk |-> s[2],
              state |-> "REQUESTED", before |-> None]]
        /\ request' = [request EXCEPT ![a] =
             IF RequiredApprovals(s[2]) = 0 THEN "APPROVED" ELSE "PENDING"]
    BY DEF StageAction
<1>2. action[a] = None /\ UNCHANGED <<votes, plant, thread>>
    BY DEF StageAction
<1>3. s \in Kind \X RiskClass
    BY CaseAssumption
<1> DEFINE r == [case |-> c, kind |-> s[1], target |-> t, risk |-> s[2],
                 state |-> "REQUESTED", before |-> None]
           q == IF RequiredApprovals(s[2]) = 0 THEN "APPROVED" ELSE "PENDING"
<1>4. r \in ActionRecord /\ r.before = None /\ r.risk = s[2] /\ r # None
    BY <1>3, CaseAssumption DEF ActionRecord
<1>5. q \in {"PENDING", "APPROVED"} /\ (q = "APPROVED" => RequiredApprovals(s[2]) = 0)
    OBVIOUS
<1>6. action' = [action EXCEPT ![a] = r] /\ request' = [request EXCEPT ![a] = q]
    BY <1>1
<1> HIDE DEF r, q
<1>7. /\ action \in [Actions -> ActionRecord \cup {None}]
      /\ request \in [Actions -> {"PENDING", "APPROVED", "REJECTED"}]
    BY DEF CaseInv, CaseTypeOK
<1>8. /\ action'[a] = r /\ request'[a] = q
      /\ \A b \in Actions : b # a => action'[b] = action[b] /\ request'[b] = request[b]
    BY <1>6, <1>7
<1>9. CaseTypeOK'
    BY <1>2, <1>4, <1>5, <1>6, <1>7 DEF CaseInv, CaseTypeOK
<1>10. \A b \in Actions : b # a /\ Enough(b) => Enough(b)'
    BY <1>2, <1>8 DEF Enough, Approvals
<1>11. ASSUME request'[a] = "APPROVED" PROVE Enough(a)'
  <2>1. RequiredApprovals(action'[a].risk) = 0 /\ votes'[a] = votes[a]
      BY <1>2, <1>4, <1>5, <1>8, <1>11
  <2>2. Cardinality(Approvals(votes[a])) \in Nat
      BY BallotsFinite DEF CaseInv, CaseTypeOK
  <2> QED BY <2>1, <2>2 DEF Enough, Approvals
<1>12. ApprovedEnough'
  <2>1. ASSUME NEW b \in Actions, action'[b] # None, (request'[b] = "APPROVED" \/ Ran(b)')
        PROVE  Enough(b)'
    <3>1. CASE b = a
        BY <1>4, <1>8, <1>11, <2>1, <3>1 DEF Ran
    <3>2. CASE b # a
        BY <1>8, <1>10, <2>1, <3>2 DEF Ran, CaseInv, ApprovedEnough
    <3> QED BY <3>1, <3>2
  <2>2. ASSUME NEW th \in Threads, thread'[th] # None
        PROVE  (action[thread[th].action] # None /\ Enough(thread[th].action))'
    <3>1. thread'[th] = thread[th] /\ thread[th] # None
        BY <1>2, <2>2
    <3> SUFFICES ASSUME NEW b \in Actions, b = thread[th].action, b # a,
                        action[b] # None, Enough(b)
                 PROVE  action'[b] # None /\ Enough(b)'
        BY <1>2, <3>1, ThreadsHold DEF Enough
    <3> QED BY <1>8, <1>10
  <2> QED BY <2>1, <2>2 DEF ApprovedEnough
<1> QED BY <1>2, <1>9, <1>12 DEF CaseInv, OneVoteEach

LEMMA VoteKeeps ==
  ASSUME CaseInv, NEW a \in Actions, NEW p \in Approvers, SubmitDecision(a, p)
  PROVE  CaseInv'
<1>1. PICK verdict \in {"APPROVED", "REJECTED"} :
        LET ballots == Append(votes[a], [by |-> p, verdict |-> verdict]) IN
        /\ votes' = [votes EXCEPT ![a] = ballots]
        /\ request' = [request EXCEPT ![a] =
             CASE verdict = "REJECTED" -> "REJECTED"
               [] verdict = "APPROVED"
                  /\ Cardinality(Approvals(ballots)) >= RequiredApprovals(action[a].risk)
                    -> "APPROVED"
               [] OTHER -> request[a]]
    BY DEF SubmitDecision
<1>2. action[a] # None /\ ~HasVoted(a, p) /\ UNCHANGED <<action, plant, thread>>
    BY DEF SubmitDecision
<1> DEFINE v == [by |-> p, verdict |-> verdict]
           q == Append(votes[a], v)
           s == CASE verdict = "REJECTED" -> "REJECTED"
                  [] verdict = "APPROVED"
                     /\ Cardinality(Approvals(q)) >= RequiredApprovals(action[a].risk)
                       -> "APPROVED"
                  [] OTHER -> request[a]
<1>3. /\ votes \in [Actions -> Seq(Ballot)] /\ votes[a] \in Seq(Ballot)
      /\ request \in [Actions -> {"PENDING", "APPROVED", "REJECTED"}]
    BY DEF CaseInv, CaseTypeOK
<1>4. v \in Ballot /\ v.by = p
    BY DEF Ballot
<1>5. /\ votes' = [votes EXCEPT ![a] = q] /\ request' = [request EXCEPT ![a] = s]
      /\ s \in {"PENDING", "APPROVED", "REJECTED"}
      /\ s = "APPROVED" => (\/ Cardinality(Approvals(q)) >= RequiredApprovals(action[a].risk)
                            \/ request[a] = "APPROVED")
    BY <1>1, <1>3
<1> HIDE DEF v, s
<1>6. /\ q \in Seq(Ballot) /\ DOMAIN q = DOMAIN votes[a] \cup {Len(votes[a]) + 1}
      /\ \A i \in DOMAIN votes[a] : q[i] = votes[a][i]
      /\ q[Len(votes[a]) + 1] = v
    BY <1>3, <1>4, AppendFacts
<1>7. Approvals(votes[a]) \subseteq Approvals(q)
    BY <1>6 DEF Approvals
<1>8. Cardinality(Approvals(votes[a])) <= Cardinality(Approvals(q))
      /\ Cardinality(Approvals(votes[a])) \in Nat /\ Cardinality(Approvals(q)) \in Nat
    BY <1>3, <1>6, <1>7, BallotsFinite, FS_Subset
<1>9. \A i, j \in DOMAIN q : q[i].by = q[j].by => i = j
  <2>1. \A i, j \in DOMAIN votes[a] : votes[a][i].by = votes[a][j].by => i = j
      BY DEF CaseInv, OneVoteEach
  <2>2. \A i \in DOMAIN votes[a] : votes[a][i].by # p
      BY <1>2 DEF HasVoted
  <2> QED BY <1>4, <1>6, <2>1, <2>2
<1> HIDE DEF q
<1>10. /\ votes'[a] = q /\ request'[a] = s
       /\ \A b \in Actions : b # a => votes'[b] = votes[b] /\ request'[b] = request[b]
    BY <1>3, <1>5
<1>11. CaseTypeOK'
    BY <1>2, <1>3, <1>5, <1>6 DEF CaseInv, CaseTypeOK
<1>12. OneVoteEach'
    BY <1>9, <1>10 DEF CaseInv, OneVoteEach
<1>13. RequiredApprovals(action[a].risk) \in Nat
    BY DEF RequiredApprovals
<1>14. \A b \in Actions : Enough(b) => Enough(b)'
  <2> SUFFICES ASSUME NEW b \in Actions, Enough(b) PROVE Enough(b)'
      OBVIOUS
  <2>1. CASE b = a
    <3>1. Cardinality(Approvals(votes[a])) >= RequiredApprovals(action[a].risk)
        BY <2>1 DEF Enough
    <3>2. Cardinality(Approvals(q)) >= RequiredApprovals(action[a].risk)
        BY <1>8, <1>13, <3>1
    <3> QED BY <1>2, <1>10, <2>1, <3>2 DEF Enough, Approvals
  <2>2. CASE b # a
      BY <1>2, <1>10, <2>2 DEF Enough, Approvals
  <2> QED BY <2>1, <2>2
<1>15. ASSUME s = "APPROVED" PROVE Enough(a)'
  <2>1. CASE Cardinality(Approvals(q)) >= RequiredApprovals(action[a].risk)
      BY <1>2, <1>10, <2>1 DEF Enough, Approvals
  <2>2. CASE request[a] = "APPROVED"
    <3>1. Enough(a)
        BY <1>2, <2>2 DEF CaseInv, ApprovedEnough
    <3> QED BY <1>14, <3>1
  <2> QED BY <1>5, <1>15, <2>1, <2>2
<1>16. ApprovedEnough'
  <2>1. ASSUME NEW b \in Actions, action'[b] # None, (request'[b] = "APPROVED" \/ Ran(b)')
        PROVE  Enough(b)'
    <3>1. action[b] # None /\ (Ran(b)' => Ran(b))
        BY <1>2, <2>1 DEF Ran
    <3>2. CASE request[b] = "APPROVED" \/ Ran(b)
        BY <1>14, <3>1, <3>2 DEF CaseInv, ApprovedEnough
    <3>3. CASE b = a /\ s = "APPROVED"
        BY <1>15, <3>3
    <3> QED BY <1>10, <2>1, <3>1, <3>2, <3>3
  <2>2. ASSUME NEW th \in Threads, thread'[th] # None
        PROVE  (action[thread[th].action] # None /\ Enough(thread[th].action))'
    <3>1. thread'[th] = thread[th] /\ thread[th] # None
        BY <1>2, <2>2
    <3> SUFFICES ASSUME NEW b \in Actions, b = thread[th].action, action[b] # None, Enough(b)
                 PROVE  action'[b] # None /\ Enough(b)'
        BY <1>2, <3>1, ThreadsHold DEF Enough
    <3> QED BY <1>2, <1>14
  <2> QED BY <2>1, <2>2 DEF ApprovedEnough
<1> QED BY <1>11, <1>12, <1>16 DEF CaseInv

LEMMA LockKeeps ==
  ASSUME CaseInv, NEW th \in Threads, NEW a \in Actions, ExecuteLocked(th, a)
  PROVE  CaseInv' /\ StagedStays
<1>1. /\ action[a] # None /\ request[a] = "APPROVED"
      /\ action' = [action EXCEPT ![a].state = "STARTED"]
      /\ thread' = [thread EXCEPT ![th] = [action |-> a, at |-> "locked"]]
      /\ UNCHANGED <<votes, request, plant>>
    BY DEF ExecuteLocked, MayExecute
<1>2. CaseTypeOK
    BY DEF CaseInv
<1>3. /\ action' \in [Actions -> ActionRecord \cup {None}] /\ StagedStays
      /\ \A b \in Actions : Ran(b)' <=> Ran(b)
    BY <1>1, <1>2, StateChanged
<1> DEFINE r == [action |-> a, at |-> "locked"]
<1>4. r \in ThreadRecord /\ r.action = a
    BY DEF ThreadRecord
<1>5. thread' = [thread EXCEPT ![th] = r]
    BY <1>1
<1> HIDE DEF r
<1>6. /\ thread' \in [Threads -> ThreadRecord \cup {None}] /\ thread'[th] = r
      /\ \A u \in Threads : u # th => thread'[u] = thread[u]
    BY <1>2, <1>4, <1>5 DEF CaseTypeOK
<1>7. CaseTypeOK'
    BY <1>1, <1>2, <1>3, <1>6 DEF CaseTypeOK
<1>8. Enough(a)
    BY <1>1 DEF CaseInv, ApprovedEnough
<1>9. \A u \in Threads : thread'[u] # None =>
        /\ thread'[u].action \in Actions
        /\ action[thread'[u].action] # None /\ Enough(thread'[u].action)
    BY <1>1, <1>4, <1>6, <1>8, ThreadsHold
<1> QED BY <1>1, <1>3, <1>7, <1>9, ApprovalsStay

\* A step of thread th that goes on to x, or is done.
LEMMA ThreadMoves ==
  ASSUME CaseInv, NEW th \in Threads, thread[th] # None,
         \/ thread' = [thread EXCEPT ![th].at = "applied"]
         \/ thread' = [thread EXCEPT ![th] = None]
  PROVE  /\ thread' \in [Threads -> ThreadRecord \cup {None}]
         /\ \A u \in Threads : thread'[u] # None =>
              /\ thread[u] # None /\ thread'[u].action = thread[u].action
              /\ thread'[u].at = "locked" => u # th /\ thread[u].at = "locked"
         /\ \A u \in Threads : thread'[u] # None =>
              /\ thread'[u].action \in Actions
              /\ action[thread'[u].action] # None /\ Enough(thread'[u].action)
<1>1. /\ thread \in [Threads -> ThreadRecord \cup {None}] /\ thread[th] \in ThreadRecord
    BY DEF CaseInv, CaseTypeOK
<1>2. /\ thread' \in [Threads -> ThreadRecord \cup {None}]
      /\ \A u \in Threads : thread'[u] # None =>
           /\ thread[u] # None /\ thread'[u].action = thread[u].action
           /\ thread'[u].at = "locked" => u # th /\ thread[u].at = "locked"
  <2>1. CASE thread' = [thread EXCEPT ![th].at = "applied"]
    <3> DEFINE r == [thread[th] EXCEPT !.at = "applied"]
    <3>1. r \in ThreadRecord /\ r.action = thread[th].action /\ r.at = "applied"
        BY <1>1 DEF ThreadRecord
    <3>2. thread' = [thread EXCEPT ![th] = r]
        BY <2>1
    <3> HIDE DEF r
    <3> QED BY <1>1, <3>1, <3>2
  <2>2. CASE thread' = [thread EXCEPT ![th] = None]
      BY <1>1, <2>2
  <2> QED BY <2>1, <2>2
<1> QED BY <1>2, ThreadsHold

LEMMA AdapterKeeps ==
  ASSUME CaseInv, NEW th \in Threads, AdapterExecutes(th)
  PROVE  CaseInv' /\ StagedStays
<1> SUFFICES ASSUME NEW a, a = thread[th].action PROVE CaseInv' /\ StagedStays
    OBVIOUS
<1>1. /\ thread[th] # None
      /\ action' = [action EXCEPT ![a].state = "COMPLETED", ![a].before = Snapshot(a)]
      /\ plant' = [plant EXCEPT ![<<action[a].kind, action[a].target>>] = "changed"]
      /\ thread' = [thread EXCEPT ![th].at = "applied"]
      /\ UNCHANGED <<votes, request>>
    BY DEF AdapterExecutes
<1>2. a \in Actions /\ action[a] # None /\ Enough(a)
    BY <1>1, ThreadsHold
<1>3. CaseTypeOK /\ action[a] \in ActionRecord
    BY <1>2 DEF CaseInv, CaseTypeOK
<1>4. action[a].kind \in Kind /\ action[a].target \in Targets
    BY <1>3 DEF ActionRecord
<1>5. Snapshot(a) \in {"original", "changed"}
    BY <1>3, <1>4 DEF Snapshot, CaseTypeOK
<1> DEFINE r == [action[a] EXCEPT !.state = "COMPLETED", !.before = Snapshot(a)]
<1>6. /\ r \in ActionRecord /\ r.case = action[a].case /\ r.kind = action[a].kind
      /\ r.target = action[a].target /\ r.risk = action[a].risk
    BY <1>3, <1>5 DEF ActionRecord
<1>7. action \in [Actions -> ActionRecord \cup {None}]
    BY <1>3 DEF CaseTypeOK
<1>8. action' = [action EXCEPT ![a] = r]
    BY <1>1, <1>2, <1>7
<1> HIDE DEF r
<1>9. /\ action' \in [Actions -> ActionRecord \cup {None}] /\ action'[a] = r
      /\ \A b \in Actions : b # a => action'[b] = action[b]
    BY <1>2, <1>6, <1>7, <1>8
<1>10. StagedStays
    BY <1>2, <1>6, <1>9, CaseAssumption DEF StagedStays
<1>11. \A b \in Actions : Ran(b)' => Ran(b) \/ (action[b] # None /\ Enough(b))
    BY <1>2, <1>9 DEF Ran
<1>12. /\ thread' \in [Threads -> ThreadRecord \cup {None}]
       /\ \A u \in Threads : thread'[u] # None =>
            /\ thread'[u].action \in Actions
            /\ action[thread'[u].action] # None /\ Enough(thread'[u].action)
    BY <1>1, ThreadMoves
<1>13. plant' \in [Kind \X Targets -> {"original", "changed"}]
    BY <1>1, <1>3, <1>4 DEF CaseTypeOK
<1>14. CaseTypeOK'
    BY <1>1, <1>3, <1>9, <1>12, <1>13 DEF CaseTypeOK
<1> QED BY <1>1, <1>10, <1>11, <1>12, <1>14, ApprovalsStay

LEMMA AdapterFailsKeeps ==
  ASSUME CaseInv, NEW th \in Threads, AdapterFails(th)
  PROVE  CaseInv' /\ StagedStays
<1> SUFFICES ASSUME NEW a, a = thread[th].action PROVE CaseInv' /\ StagedStays
    OBVIOUS
<1>1. /\ thread[th] # None /\ action' = [action EXCEPT ![a].state = "FAILED"]
      /\ thread' = [thread EXCEPT ![th].at = "applied"]
      /\ UNCHANGED <<votes, request, plant>>
    BY DEF AdapterFails
<1>2. a \in Actions /\ action[a] # None
    BY <1>1, ThreadsHold
<1>3. CaseTypeOK
    BY DEF CaseInv
<1>4. /\ action' \in [Actions -> ActionRecord \cup {None}] /\ StagedStays
      /\ \A b \in Actions : Ran(b)' <=> Ran(b)
    BY <1>1, <1>2, <1>3, StateChanged
<1>5. /\ thread' \in [Threads -> ThreadRecord \cup {None}]
      /\ \A u \in Threads : thread'[u] # None =>
           /\ thread'[u].action \in Actions
           /\ action[thread'[u].action] # None /\ Enough(thread'[u].action)
    BY <1>1, ThreadMoves
<1>6. CaseTypeOK'
    BY <1>1, <1>3, <1>4, <1>5 DEF CaseTypeOK
<1> QED BY <1>1, <1>4, <1>5, <1>6, ApprovalsStay

LEMMA ReleaseKeeps ==
  ASSUME CaseInv, NEW th \in Threads, ReleaseLock(th)
  PROVE  CaseInv' /\ StagedStays
<1>1. /\ thread[th] # None /\ thread' = [thread EXCEPT ![th] = None]
      /\ UNCHANGED <<action, votes, request, plant>>
    BY DEF ReleaseLock
<1>2. CaseTypeOK
    BY DEF CaseInv
<1>3. StagedStays /\ \A b \in Actions : Ran(b)' <=> Ran(b)
    BY <1>1 DEF StagedStays, Ran
<1>4. /\ thread' \in [Threads -> ThreadRecord \cup {None}]
      /\ \A u \in Threads : thread'[u] # None =>
           /\ thread'[u].action \in Actions
           /\ action[thread'[u].action] # None /\ Enough(thread'[u].action)
    BY <1>1, ThreadMoves
<1>5. CaseTypeOK'
    BY <1>1, <1>2, <1>4 DEF CaseTypeOK
<1> QED BY <1>1, <1>3, <1>4, <1>5, ApprovalsStay

LEMMA HandlersKeep ==
  ASSUME CaseInv,
         \/ \E c \in Cases : OpenCase(c) \/ Investigate(c) \/ EvaluateEscalation(c)
                             \/ CloseCase(c) \/ EvaluateRecurrence(c)
         \/ \E a \in Actions, dry \in BOOLEAN :
              ExecuteWithoutEffect(a, dry) \/ ExecuteUnsafe(a, dry)
         \/ \E a \in Actions : VerifySucceeds(a) \/ VerifyFails(a) \/ ExecuteRollback(a)
  PROVE  CaseInv' /\ StagedStays /\ UNCHANGED <<thread, executed, calls>>
<1>1. UNCHANGED <<votes, request, thread, executed, calls>>
    BY DEF OpenCase, Investigate, EvaluateEscalation, CloseCase, EvaluateRecurrence,
           ExecuteWithoutEffect, ExecuteUnsafe, VerifySucceeds, VerifyFails, ExecuteRollback
<1>2. plant' \in [Kind \X Targets -> {"original", "changed"}]
  <2>1. CASE UNCHANGED plant
      BY <2>1 DEF CaseInv, CaseTypeOK
  <2>2. CASE \E a \in Actions : Reversible(a) /\ plant' = Undone(a)
      BY <2>2, UndoneOK DEF CaseInv
  <2> QED BY <2>1, <2>2 DEF OpenCase, Investigate, EvaluateEscalation, CloseCase,
          EvaluateRecurrence, ExecuteWithoutEffect, ExecuteUnsafe, VerifySucceeds,
          VerifyFails, ExecuteRollback
<1>3. \/ UNCHANGED action
      \/ \E a \in Actions, s \in {"STARTED", "FAILED", "VERIFIED", "ROLLED_BACK"} :
           action[a] # None /\ action' = [action EXCEPT ![a].state = s]
    BY DEF OpenCase, Investigate, EvaluateEscalation, CloseCase, EvaluateRecurrence,
           ExecuteWithoutEffect, ExecuteUnsafe, VerifySucceeds, VerifyFails,
           ExecuteRollback, Reversible, MayExecute
<1> QED BY <1>1, <1>2, <1>3, MovesKeep

LEMMA CaseStep == CaseInv /\ [CaseNext]_caseVars => CaseInv'
<1> SUFFICES ASSUME CaseInv, [CaseNext]_caseVars PROVE CaseInv'
    OBVIOUS
<1>1. CASE UNCHANGED caseVars
    BY <1>1 DEF caseVars, CaseInv, CaseTypeOK, OneVoteEach, ApprovedEnough, Enough, Ran, Approvals
<1>2. CASE \E th \in Threads : AdapterExecutes(th) \/ AdapterFails(th) \/ ReleaseLock(th)
    BY <1>2, AdapterKeeps, AdapterFailsKeeps, ReleaseKeeps
<1>3. CASE \E th \in Threads, a \in Actions : ExecuteLocked(th, a)
    BY <1>3, LockKeeps
<1>4. CASE \E a \in Actions, p \in Approvers : SubmitDecision(a, p)
    BY <1>4, VoteKeeps
<1>5. CASE \E a \in Actions, c \in Cases : StageAction(a, c)
    BY <1>5, StageKeeps
<1> QED BY <1>1, <1>2, <1>3, <1>4, <1>5, HandlersKeep DEF CaseNext

LEMMA CaseInitial == CaseInit => CaseInv
<1> SUFFICES ASSUME CaseInit PROVE CaseInv
    OBVIOUS
<1>1. /\ action = [a \in Actions |-> None] /\ votes = [a \in Actions |-> <<>>]
      /\ request = [a \in Actions |-> "PENDING"] /\ thread = [th \in Threads |-> None]
      /\ plant = [kt \in Kind \X Targets |-> "original"]
    BY DEF CaseInit
<1>2. <<>> \in Seq(Ballot) /\ DOMAIN <<>> = {}
    OBVIOUS
<1>3. votes \in [Actions -> Seq(Ballot)]
    BY <1>1, <1>2
<1> QED BY <1>1, <1>2, <1>3 DEF CaseInv, CaseTypeOK, OneVoteEach, ApprovedEnough, Ran

\* Whatever was executed had the approvals its risk asks for, from as many
\* people (workflow.py): for any number of approvers and threads.
THEOREM ApprovedByEnough == CaseSpec => []FourEyes
<1>1. CaseInv => FourEyes
  <2> SUFFICES ASSUME CaseInv, NEW a \in Actions, Ran(a)
               PROVE  Cardinality({votes[a][i].by : i \in Approvals(votes[a])})
                        >= RequiredApprovals(action[a].risk)
      BY DEF FourEyes
  <2>1. Enough(a)
      BY DEF CaseInv, ApprovedEnough, Ran
  <2>2. votes[a] \in Seq(Ballot)
      BY DEF CaseInv, CaseTypeOK
  <2>3. \A i, j \in DOMAIN votes[a] : votes[a][i].by = votes[a][j].by => i = j
      BY DEF CaseInv, OneVoteEach
  <2>4. Cardinality({votes[a][i].by : i \in Approvals(votes[a])})
          = Cardinality(Approvals(votes[a]))
      BY <2>2, <2>3, AsManyPeople
  <2> QED BY <2>1, <2>4 DEF Enough
<1>2. CaseInv /\ [CaseNext]_caseVars => CaseInv'
    BY CaseStep
<1> QED BY <1>1, <1>2, CaseInitial, PTL DEF CaseSpec

-----------------------------------------------------------------------------
(* Case response: an action runs once *)

\* With one request at a time, no thread holds a key that was executed.
OnceInv ==
  /\ calls \in [Key -> Nat]
  /\ Serial =>
       /\ \A th \in Threads \ pool : thread[th] = None
       /\ \A k \in Key : calls[k] <= 1 /\ (k \notin executed => calls[k] = 0)
       /\ \A th \in Threads : thread[th] # None /\ thread[th].at = "locked" =>
            KeyOf(thread[th].action) \notin executed

LEMMA KeysStay ==
  ASSUME StagedStays
  PROVE  \A b \in Actions : action[b] # None => KeyOf(b)' = KeyOf(b)
BY DEF StagedStays, KeyOf

\* A step that calls no adapter and takes no lock.
LEMMA OnceStays ==
  ASSUME CaseInv, OnceInv, StagedStays, UNCHANGED <<pool, executed, calls>>,
         \A th \in Threads : thread'[th] # None =>
           /\ thread[th] # None /\ thread'[th].action = thread[th].action
           /\ thread'[th].at = "locked" => thread[th].at = "locked"
  PROVE  OnceInv'
<1>1. calls' \in [Key -> Nat] /\ (Serial' <=> Serial)
    BY DEF OnceInv, Serial
<1>2. ASSUME Serial
      PROVE  /\ \A th \in Threads \ pool : thread'[th] = None
             /\ \A k \in Key : calls[k] <= 1 /\ (k \notin executed => calls[k] = 0)
             /\ \A th \in Threads : thread'[th] # None /\ thread'[th].at = "locked" =>
                  KeyOf(thread[th].action)' \notin executed
  <2>1. ASSUME NEW th \in Threads, thread'[th] # None, thread'[th].at = "locked"
        PROVE  KeyOf(thread[th].action)' \notin executed
    <3>1. thread[th] # None /\ thread'[th].action = thread[th].action /\ thread[th].at = "locked"
        BY <2>1
    <3>2. thread[th].action \in Actions /\ action[thread[th].action] # None
        BY <3>1, ThreadsHold
    <3> SUFFICES ASSUME NEW b \in Actions, b = thread[th].action, action[b] # None
                 PROVE  KeyOf(b)' \notin executed
        BY <3>1, <3>2 DEF KeyOf
    <3>3. KeyOf(b)' = KeyOf(b)
        BY KeysStay
    <3> QED BY <1>2, <3>1, <3>3 DEF OnceInv
  <2> QED BY <1>2, <2>1 DEF OnceInv
<1> QED BY <1>1, <1>2 DEF OnceInv

LEMMA OnceStep == CaseInv /\ OnceInv /\ [CaseNext]_caseVars => OnceInv'
<1> SUFFICES ASSUME CaseInv, OnceInv, [CaseNext]_caseVars PROVE OnceInv'
    OBVIOUS
<1>0. UNCHANGED pool
    BY DEF CaseNext, caseVars
<1>1. CASE UNCHANGED caseVars
    BY <1>1, OnceStays DEF caseVars, StagedStays
<1>2. ASSUME NEW th \in Threads, AdapterExecutes(th) PROVE OnceInv'
  <2> SUFFICES ASSUME NEW a, a = thread[th].action PROVE OnceInv'
      OBVIOUS
  <2>1. /\ thread[th] # None /\ thread[th].at = "locked"
        /\ executed' = executed \cup {KeyOf(a)}
        /\ calls' = [calls EXCEPT ![KeyOf(a)] = calls[KeyOf(a)] + 1]
        /\ thread' = [thread EXCEPT ![th].at = "applied"]
      BY <1>2 DEF AdapterExecutes
  <2>2. a \in Actions /\ action[a] \in ActionRecord
      BY <2>1, ThreadsHold DEF CaseInv, CaseTypeOK
  <2>3. KeyOf(a) \in Key
      BY <2>2 DEF KeyOf, Key, ActionRecord
  <2> SUFFICES ASSUME NEW k \in Key, k = KeyOf(a) PROVE OnceInv'
      BY <2>3
  <2>4. /\ calls \in [Key -> Nat] /\ calls' \in [Key -> Nat] /\ calls'[k] = calls[k] + 1
        /\ \A j \in Key : j # k => calls'[j] = calls[j]
      BY <2>1 DEF OnceInv
  <2>5. ASSUME Serial
        PROVE  /\ \A u \in Threads \ pool : thread'[u] = None
               /\ \A j \in Key : calls'[j] <= 1 /\ (j \notin executed' => calls'[j] = 0)
               /\ \A u \in Threads : thread'[u] # None => thread'[u].at # "locked"
    <3>1. PICK t0 \in Threads : pool = {t0}
        BY <2>5 DEF Serial
    <3>2. \A u \in Threads \ pool : thread[u] = None
        BY <2>5 DEF OnceInv
    <3>3. th = t0
        BY <2>1, <3>1, <3>2
    <3>4. k \notin executed /\ calls[k] = 0
        BY <2>1, <2>5 DEF OnceInv
    <3>5. thread \in [Threads -> ThreadRecord \cup {None}] /\ thread[th] \in ThreadRecord
        BY <2>1 DEF CaseInv, CaseTypeOK
    <3>6. thread'[th].at = "applied" /\ \A u \in Threads : u # th => thread'[u] = thread[u]
        BY <2>1, <3>5 DEF ThreadRecord
    <3>7. \A j \in Key : calls'[j] <= 1 /\ (j \notin executed' => calls'[j] = 0)
        BY <2>1, <2>4, <2>5, <3>4 DEF OnceInv
    <3> QED BY <3>1, <3>2, <3>3, <3>6, <3>7
  <2> QED BY <1>0, <2>4, <2>5 DEF OnceInv, Serial
<1>3. ASSUME NEW th \in Threads, (AdapterFails(th) \/ ReleaseLock(th)) PROVE OnceInv'
  <2>1. /\ thread[th] # None /\ UNCHANGED <<executed, calls>>
        /\ \/ thread' = [thread EXCEPT ![th].at = "applied"]
           \/ thread' = [thread EXCEPT ![th] = None]
      BY <1>3 DEF AdapterFails, ReleaseLock
  <2>2. \A u \in Threads : thread'[u] # None =>
          /\ thread[u] # None /\ thread'[u].action = thread[u].action
          /\ thread'[u].at = "locked" => thread[u].at = "locked"
      BY <2>1, ThreadMoves
  <2>3. StagedStays
      BY <1>3, AdapterFailsKeeps, ReleaseKeeps
  <2> QED BY <1>0, <2>1, <2>2, <2>3, OnceStays
<1>4. ASSUME NEW th \in Threads, NEW a \in Actions, ExecuteLocked(th, a) PROVE OnceInv'
  <2>1. /\ th \in pool /\ action[a] # None /\ KeyOf(a) \notin executed
        /\ thread' = [thread EXCEPT ![th] = [action |-> a, at |-> "locked"]]
        /\ UNCHANGED <<executed, calls>>
      BY <1>4 DEF ExecuteLocked, MayExecute, AlreadyRun
  <2>2. StagedStays
      BY <1>4, LockKeeps
  <2>3. thread \in [Threads -> ThreadRecord \cup {None}]
      BY DEF CaseInv, CaseTypeOK
  <2>4. thread'[th].action = a /\ \A u \in Threads : u # th => thread'[u] = thread[u]
      BY <2>1, <2>3
  <2>5. KeyOf(a)' = KeyOf(a)
      BY <2>1, <2>2, KeysStay
  <2>6. ASSUME Serial
        PROVE  /\ \A u \in Threads \ pool : thread'[u] = None
               /\ \A u \in Threads : thread'[u] # None =>
                    KeyOf(thread[u].action)' \notin executed
    <3>1. \A u \in Threads : u # th => thread[u] = None
        BY <2>1, <2>6 DEF OnceInv, Serial
    <3>2. ASSUME NEW u \in Threads, thread'[u] # None
          PROVE  KeyOf(thread[u].action)' \notin executed
      <4>1. thread'[u].action = a
          BY <2>4, <3>1, <3>2
      <4> QED BY <2>1, <2>5, <4>1 DEF KeyOf
    <3> QED BY <2>1, <2>4, <3>1, <3>2
  <2> QED BY <1>0, <2>1, <2>6 DEF OnceInv, Serial
<1>5. ASSUME NEW a \in Actions, NEW p \in Approvers, SubmitDecision(a, p) PROVE OnceInv'
  <2>1. UNCHANGED <<action, thread, executed, calls>>
      BY <1>5 DEF SubmitDecision
  <2> QED BY <1>0, <2>1, OnceStays DEF StagedStays
<1>6. ASSUME NEW a \in Actions, NEW c \in Cases, StageAction(a, c) PROVE OnceInv'
  <2>1. /\ action[a] = None /\ UNCHANGED <<thread, executed, calls>>
        /\ \E r : action' = [action EXCEPT ![a] = r]
      BY <1>6 DEF StageAction
  <2>2. action \in [Actions -> ActionRecord \cup {None}]
      BY DEF CaseInv, CaseTypeOK
  <2>3. \A th \in Threads : thread[th] # None => KeyOf(thread[th].action)' = KeyOf(thread[th].action)
    <3> SUFFICES ASSUME NEW th \in Threads, NEW b \in Actions, b # a
                 PROVE  KeyOf(b)' = KeyOf(b)
        BY <2>1, ThreadsHold DEF KeyOf
    <3> QED BY <2>1, <2>2 DEF KeyOf
  <2> QED BY <1>0, <2>1, <2>3 DEF OnceInv, Serial, KeyOf
<1>7. ASSUME \/ \E c \in Cases : OpenCase(c) \/ Investigate(c) \/ EvaluateEscalation(c)
                                \/ CloseCase(c) \/ EvaluateRecurrence(c)
             \/ \E a \in Actions, dry \in BOOLEAN :
                  ExecuteWithoutEffect(a, dry) \/ ExecuteUnsafe(a, dry)
             \/ \E a \in Actions : VerifySucceeds(a) \/ VerifyFails(a) \/ ExecuteRollback(a)
      PROVE  OnceInv'
  <2>1. StagedStays /\ UNCHANGED <<thread, executed, calls>>
      BY <1>7, HandlersKeep
  <2> QED BY <1>0, <2>1, OnceStays
<1> QED BY <1>1, <1>2, <1>3, <1>4, <1>5, <1>6, <1>7 DEF CaseNext

LEMMA OnceInitial == CaseInit => OnceInv
<1> SUFFICES ASSUME CaseInit PROVE OnceInv
    OBVIOUS
<1>1. calls = [k \in Key |-> 0] /\ thread = [th \in Threads |-> None]
    BY DEF CaseInit
<1> QED BY <1>1 DEF OnceInv

\* Served one request at a time, a case, action type and target is executed at
\* most once (idempotency.py); SecOpsThreads shows that threads break it.
THEOREM ExecutedOnce == CaseSpec => []ExactlyOnceIfSerial
<1>1. OnceInv => ExactlyOnceIfSerial
    BY DEF OnceInv, ExactlyOnceIfSerial, ExactlyOnce
<1>2. CaseInv /\ [CaseNext]_caseVars => CaseInv'
    BY CaseStep
<1>3. CaseInv /\ OnceInv /\ [CaseNext]_caseVars => OnceInv'
    BY OnceStep
<1> QED BY <1>1, <1>2, <1>3, CaseInitial, OnceInitial, PTL DEF CaseSpec

-----------------------------------------------------------------------------
(* Investigation tasks: the algorithm implements the promised order        *)

\* A task's count is what it still waits for, and the queue lists, each once,
\* tasks that are not ordered and wait for nothing.
DagInv ==
  /\ deps \in [Tasks -> SUBSET Tasks]
  /\ order \in Seq(Tasks) /\ queue \in Seq(Tasks)
  /\ inDegree = [n \in Tasks |-> Cardinality(deps[n] \ Elements(order))]
  /\ Once(queue)
  /\ Elements(queue) \cap Elements(order) = {}
  /\ \A n \in Elements(queue) \cup Elements(order) : deps[n] \subseteq Elements(order)

LEMMA TasksAreFinite == IsFiniteSet(Tasks)
<1>1. Registered \in Seq(Tasks)
    BY DagAssumption
<1>2. Len(Registered) \in Nat /\ DOMAIN Registered = 1..Len(Registered)
    BY <1>1, LenProperties
<1>3. IsFiniteSet(1..Len(Registered))
    BY <1>2, FS_Interval
<1>4. Registered \in Surjection(1..Len(Registered), Tasks)
    BY <1>1, <1>2 DEF Surjection, Tasks, Elements
<1> QED BY <1>3, <1>4, FS_Surjection

\* A listing of S is a sequence of S that has each of its members once.
LEMMA Listing ==
  ASSUME NEW S, S \subseteq Tasks, NEW s \in InRegisteredOrder(S)
  PROVE  s \in Seq(Tasks) /\ Elements(s) = S /\ Once(s)
<1>1. Cardinality(S) \in Nat
    BY TasksAreFinite, FS_Subset, FS_CardinalityType
<1>2. s \in [1..Cardinality(S) -> S] /\ Elements(s) = S
    BY DEF InRegisteredOrder
<1>3. s \in Seq(Tasks)
    BY <1>1, <1>2, SeqDef
<1>4. ASSUME NEW m \in Tasks PROVE ~Before(m, m)
  <2> SUFFICES ASSUME Before(m, m) PROVE FALSE
    OBVIOUS
  <2>1. PICK i, j \in DOMAIN Registered : i < j /\ Registered[i] = m /\ Registered[j] = m
    BY DEF Before
  <2>2. i \in Nat /\ j \in Nat
    BY DagAssumption, LenProperties
  <2> QED BY <2>1, <2>2, DagAssumption DEF Once
<1>5. ASSUME NEW i \in DOMAIN s, NEW j \in DOMAIN s, s[i] = s[j] PROVE i = j
  <2>1. i \in Nat /\ j \in Nat /\ s[i] \in Tasks
    BY <1>2
  <2>2. i < j => Before(s[i], s[j])
    BY DEF InRegisteredOrder
  <2>3. j < i => Before(s[j], s[i])
    BY DEF InRegisteredOrder
  <2> QED BY <1>4, <1>5, <2>1, <2>2, <2>3
<1> QED BY <1>2, <1>3, <1>5 DEF Once

\* A task is ready when nothing it depends on is missing.
LEMMA ReadyHasAll ==
  ASSUME NEW D, D \subseteq Tasks, NEW O
  PROVE  Cardinality(D \ O) = 0 <=> D \subseteq O
<1>1. IsFiniteSet(D \ O)
    BY TasksAreFinite, FS_Subset
<1> QED BY <1>1, FS_EmptySet

\* Ordering one more task counts it off where it was waited for.
LEMMA CountedOff ==
  ASSUME NEW D, D \subseteq Tasks, NEW O, NEW n, n \notin O
  PROVE  Cardinality(D \ (O \cup {n}))
           = IF n \in D THEN Cardinality(D \ O) - 1 ELSE Cardinality(D \ O)
<1>1. IsFiniteSet(D \ O)
    BY TasksAreFinite, FS_Subset
<1>2. D \ (O \cup {n}) = (D \ O) \ {n}
    OBVIOUS
<1> QED BY <1>1, <1>2, FS_RemoveElement

LEMMA DagInitial == DagInit => DagInv
<1> SUFFICES ASSUME DagInit PROVE DagInv
  OBVIOUS
<1> DEFINE S == {n \in Tasks : Ready(inDegree, n)}
<1>1. deps \in [Tasks -> SUBSET Tasks] /\ order = <<>> /\ order \in Seq(Tasks)
      /\ Elements(order) = {}
    BY EmptySeq DEF DagInit, Elements
<1>2. queue \in Seq(Tasks) /\ Elements(queue) = S /\ Once(queue)
    BY Listing DEF DagInit
<1>3. inDegree = [n \in Tasks |-> Cardinality(deps[n] \ Elements(order))]
    BY <1>1 DEF DagInit
<1>4. ASSUME NEW n \in S PROVE deps[n] \subseteq Elements(order)
    BY <1>1, <1>3, ReadyHasAll DEF Ready
<1> QED BY <1>1, <1>2, <1>3, <1>4 DEF DagInv

\* What taking the head of the queue does to queue and order.
LEMMA TakeTaskStep ==
  ASSUME DagInv, TakeTask
  PROVE  DagInv' /\ \E n \in Tasks : Promise!OrderTask(n)
<1> DEFINE node == Head(queue)
           counts == [n \in Tasks |-> IF n \in Dependents(node) THEN inDegree[n] - 1
                                                               ELSE inDegree[n]]
           fresh == {n \in Dependents(node) : Ready(counts, n)}
           O == Elements(order)
<1>1. PICK next \in InRegisteredOrder(fresh) : queue' = Tail(queue) \o next
    BY DEF TakeTask
<1>2. queue # <<>> /\ inDegree' = counts /\ order' = Append(order, node) /\ deps' = deps
    BY DEF TakeTask
<1>3. node \in Tasks /\ node \in Elements(queue) /\ Tail(queue) \in Seq(Tasks)
      /\ Len(Tail(queue)) = Len(queue) - 1 /\ Len(queue) \in Nat /\ Len(queue) > 0
      /\ \A i \in 1..Len(Tail(queue)) : Tail(queue)[i] = queue[i + 1]
      /\ DOMAIN queue = 1..Len(queue)
      /\ DOMAIN Tail(queue) = 1..Len(Tail(queue))
    BY <1>2, HeadTailProperties, LenProperties, EmptySeq DEF DagInv, Elements
<1>4. node \notin O /\ deps[node] \subseteq O /\ node = queue[1]
  <2>1. Head(queue) = queue[1]
    BY <1>2, HeadTailProperties DEF DagInv
  <2> QED BY <1>3, <2>1 DEF DagInv
<1>5. order' \in Seq(Tasks) /\ Elements(order') = O \cup {node}
  <2>1. order \in Seq(Tasks) /\ Len(order) \in Nat /\ DOMAIN order = 1..Len(order)
    BY LenProperties DEF DagInv
  <2>2. /\ order' \in Seq(Tasks) /\ DOMAIN order' = 1..(Len(order) + 1)
        /\ \A i \in 1..Len(order) : order'[i] = order[i]
        /\ order'[Len(order) + 1] = node
    BY <1>2, <1>3, <2>1, AppendProperties, LenProperties
  <2> HIDE DEF node
  <2> QED BY <2>1, <2>2 DEF Elements
<1>6. inDegree' = [n \in Tasks |-> Cardinality(deps'[n] \ Elements(order'))]
  <2> SUFFICES ASSUME NEW n \in Tasks
               PROVE  counts[n] = Cardinality(deps[n] \ (O \cup {node}))
    BY <1>2, <1>5
  <2>1. deps[n] \subseteq Tasks /\ inDegree[n] = Cardinality(deps[n] \ O)
    BY DEF DagInv
  <2> QED BY <1>4, <2>1, CountedOff DEF Dependents
<1>7. \A n \in fresh : /\ n \in Tasks /\ node \in deps[n] /\ deps[n] \subseteq Elements(order')
                       /\ n \notin Elements(queue) /\ n \notin O /\ n # node
  <2> SUFFICES ASSUME NEW n \in fresh
               PROVE  /\ n \in Tasks /\ node \in deps[n] /\ deps[n] \subseteq Elements(order')
                      /\ n \notin Elements(queue) /\ n \notin O /\ n # node
    OBVIOUS
  <2>1. n \in Tasks /\ node \in deps[n] /\ inDegree'[n] = 0
    BY <1>2 DEF Dependents, Ready
  <2>2. deps[n] \subseteq Tasks
    BY <2>1 DEF DagInv
  <2>3. Cardinality(deps[n] \ Elements(order')) = 0
    BY <1>2, <1>6, <2>1
  <2>4. deps[n] \subseteq Elements(order')
    BY <2>2, <2>3, ReadyHasAll
  <2> QED BY <1>4, <2>1, <2>4 DEF DagInv
<1>8. next \in Seq(Tasks) /\ Elements(next) = fresh /\ Once(next)
      /\ Len(next) \in Nat /\ DOMAIN next = 1..Len(next)
    BY <1>7, Listing, LenProperties
<1> HIDE DEF fresh, counts, node
<1>9. /\ queue' \in Seq(Tasks)
      /\ DOMAIN queue' = 1..(Len(Tail(queue)) + Len(next))
      /\ \A i \in 1..Len(Tail(queue)) : queue'[i] = queue[i + 1]
      /\ \A i \in 1..Len(next) : queue'[Len(Tail(queue)) + i] = next[i]
  <2>1. /\ queue' \in Seq(Tasks) /\ Len(queue') = Len(Tail(queue)) + Len(next)
        /\ \A i \in 1..(Len(Tail(queue)) + Len(next)) : queue'[i] =
             IF i <= Len(Tail(queue)) THEN Tail(queue)[i] ELSE next[i - Len(Tail(queue))]
    BY <1>1, <1>3, <1>8, ConcatProperties
  <2>2. DOMAIN queue' = 1..(Len(Tail(queue)) + Len(next))
    BY <2>1, LenProperties
  <2>3. Len(Tail(queue)) \in Nat /\ Len(next) \in Nat
    BY <1>3, <1>8
  <2>4. \A i \in 1..Len(Tail(queue)) : queue'[i] = queue[i + 1]
    BY <1>3, <2>1, <2>3
  <2>5. ASSUME NEW i \in 1..Len(next) PROVE queue'[Len(Tail(queue)) + i] = next[i]
    <3> DEFINE k == Len(Tail(queue))
    <3>1. k + i \in 1..(k + Len(next)) /\ ~(k + i <= k) /\ (k + i) - k = i
      BY <2>3
    <3>2. queue'[k + i] = IF k + i <= k THEN Tail(queue)[k + i] ELSE next[(k + i) - k]
      BY <2>1, <3>1
    <3> QED BY <3>1, <3>2
  <2> QED BY <2>1, <2>2, <2>4, <2>5
<1>10. Elements(queue') \subseteq (Elements(queue) \ {node}) \cup fresh
  <2> SUFFICES ASSUME NEW i \in DOMAIN queue'
               PROVE  queue'[i] \in (Elements(queue) \ {node}) \cup fresh
    BY DEF Elements
  <2>1. CASE i \in 1..Len(Tail(queue))
    <3>1. i + 1 \in DOMAIN queue /\ i + 1 # 1 /\ 1 \in DOMAIN queue
      BY <1>3, <2>1
    <3>2. queue[i + 1] # queue[1]
      BY <3>1 DEF DagInv, Once
    <3>3. queue[i + 1] # node
      BY <1>4, <3>2
    <3> QED BY <1>9, <2>1, <3>1, <3>3 DEF Elements
  <2>2. CASE i \notin 1..Len(Tail(queue))
    <3>1. i - Len(Tail(queue)) \in DOMAIN next /\ i = Len(Tail(queue)) + (i - Len(Tail(queue)))
      BY <1>3, <1>8, <1>9, <2>2
    <3>2. queue'[i] = next[i - Len(Tail(queue))]
      BY <1>8, <1>9, <3>1
    <3> QED BY <1>8, <3>1, <3>2 DEF Elements
  <2> QED BY <2>1, <2>2
<1>11. Once(queue')
  <2> DEFINE k == Len(Tail(queue))
  <2> SUFFICES ASSUME NEW i \in DOMAIN queue', NEW j \in DOMAIN queue', queue'[i] = queue'[j]
               PROVE  i = j
    BY DEF Once
  <2>1. k \in Nat /\ i \in Int /\ j \in Int
    BY <1>3, <1>9
  <2>2. \A x \in DOMAIN queue' : x \in 1..k =>
          queue'[x] = queue[x + 1] /\ x + 1 \in DOMAIN queue /\ queue'[x] \in Elements(queue)
    BY <1>3, <1>9 DEF Elements
  <2>3. \A x \in DOMAIN queue' : x \notin 1..k =>
          queue'[x] = next[x - k] /\ x - k \in DOMAIN next /\ queue'[x] \in fresh
    <3> SUFFICES ASSUME NEW x \in DOMAIN queue', x \notin 1..k
                 PROVE  queue'[x] = next[x - k] /\ x - k \in DOMAIN next /\ queue'[x] \in fresh
      OBVIOUS
    <3>1. x - k \in DOMAIN next /\ x = k + (x - k)
      BY <1>8, <1>9, <2>1
    <3>2. queue'[x] = next[x - k]
      BY <1>8, <1>9, <3>1
    <3> QED BY <1>8, <3>1, <3>2 DEF Elements
  <2> HIDE DEF k
  <2>4. CASE i \in 1..k /\ j \in 1..k
    BY <2>1, <2>2, <2>4 DEF DagInv, Once
  <2>5. CASE i \notin 1..k /\ j \notin 1..k
    <3>1. i - k = j - k
      BY <1>8, <2>3, <2>5 DEF Once
    <3> QED BY <2>1, <3>1
  <2>6. CASE (i \in 1..k) # (j \in 1..k)
    BY <1>7, <2>2, <2>3, <2>6
  <2> QED BY <2>4, <2>5, <2>6
<1>12. Elements(queue') \cap Elements(order') = {}
    BY <1>5, <1>7, <1>10 DEF DagInv
<1>13. \A n \in Elements(queue') \cup Elements(order') : deps'[n] \subseteq Elements(order')
    BY <1>2, <1>4, <1>5, <1>7, <1>10 DEF DagInv
<1>14. deps' \in [Tasks -> SUBSET Tasks]
    BY <1>2 DEF DagInv
<1>15. DagInv'
    BY <1>5, <1>6, <1>9, <1>11, <1>12, <1>13, <1>14 DEF DagInv
<1>16. Promise!OrderTask(node)
    BY <1>2, <1>4 DEF Promise!OrderTask, Promise!Ordered, Elements
<1> QED BY <1>3, <1>15, <1>16

LEMMA DagStep == DagInv /\ [DagNext]_dagVars => DagInv'
<1> SUFFICES ASSUME DagInv, [DagNext]_dagVars PROVE DagInv'
  OBVIOUS
<1>1. CASE TakeTask
    BY <1>1, TakeTaskStep
<1>2. CASE Return \/ UNCHANGED dagVars
  <2>1. UNCHANGED <<deps, inDegree, queue, order>>
    BY <1>2 DEF Return, dagVars
  <2> QED BY <2>1 DEF DagInv, Elements, Once
<1> QED BY <1>1, <1>2 DEF DagNext

\* The algorithm of get_execution_order (dag.py) implements the promise of
\* TaskOrder, for any tasks and any dependencies, cyclic ones included.
THEOREM TaskOrderKept == DagSpec => ImplementsTaskOrder
<1>1. DagInit => Promise!OrderInit
    BY DEF DagInit, Promise!OrderInit
<1>2. DagInv /\ [DagNext]_dagVars
        => [\E n \in Tasks : Promise!OrderTask(n)]_(Promise!orderVars)
    BY TakeTaskStep DEF DagNext, Return, dagVars, Promise!orderVars
<1> QED BY DagInitial, DagStep, <1>1, <1>2, PTL DEF DagSpec, ImplementsTaskOrder, Promise!OrderSpec

\* Therefore no task runs before what it depends on, and none twice.
THEOREM TasksComeInOrder ==
  DagSpec => [](Promise!DependenciesFirst /\ Promise!NoTaskTwice)
BY TaskOrderKept, Promise!OrderIsSafe DEF ImplementsTaskOrder
=============================================================================
