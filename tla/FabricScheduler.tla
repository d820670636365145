--------------------------- MODULE FabricScheduler ---------------------------
(***************************************************************************)
(* The placement filter of fabric/scheduler.py: which registered nodes a   *)
(* workload may be placed on.  The pipeline has five filters (health and   *)
(* trust, capability, model, data locality, resources) behind a fairness   *)
(* gate on the caller, and then takes the eligible node of highest score.  *)
(*                                                                         *)
(* The score is a sum of telemetry that every heartbeat rewrites (free     *)
(* VRAM, free RAM, CPU), so here any eligible node may win; the ranking    *)
(* itself is left out.                                                     *)
(*                                                                         *)
(* Telemetry is abstracted to what the filters tell apart: "ample" VRAM    *)
(* holds every catalogued model, "short" VRAM holds none, and "full" is    *)
(* the saturation that a heartbeat treats as a possible out-of-memory.     *)
(***************************************************************************)
EXTENDS Integers, FiniteSets, Sequences

CONSTANTS
  N,            \* number of registered nodes, in the order of their node_id
  ZoneOf,       \* network zone of each node
  CapsOf,       \* capabilities each node advertises
  HotModel,     \* nodes on which the catalogued model is READY
  ModelZones,   \* zones the catalogued model may be placed in
  JobCap,       \* max_active_jobs_per_node
  UserCap,      \* max_user_concurrency
  User,         \* caller identities
  Capability    \* workload capabilities

Node == 1 .. N

NodeStatus == {"HEALTHY", "DEGRADED", "UNAVAILABLE", "RECOVERING", "QUARANTINED"}
NodeTrust == {"TRUSTED", "LIMITED", "UNTRUSTED", "QUARANTINED"}
NetworkZone ==
  {"GENERAL_AI", "INTERNAL_AI", "RESTRICTED_AI", "STORAGE_NET", "MANAGEMENT_NET"}
DataClassification ==
  {"PUBLIC", "INTERNAL", "CONFIDENTIAL", "RESTRICTED", "TOP_SECRET"}
WorkloadPriority == {"CRITICAL", "HIGH", "NORMAL", "LOW", "BACKGROUND"}
Vram == {"ample", "short", "full"}

ASSUME FabricAssumption ==
  /\ N \in Nat
  /\ ZoneOf \in [Node -> NetworkZone]
  /\ CapsOf \in [Node -> SUBSET Capability]
  /\ HotModel \subseteq Node
  /\ ModelZones \subseteq NetworkZone
  /\ JobCap \in Nat
  /\ UserCap \in Nat

\* The mutable part of a node record that placement reads, and its silence:
\* age 0 is a heartbeat younger than the degraded threshold, 1 lies between
\* the two thresholds, 2 is past the unavailable threshold.
NodeRecord ==
  [status : NodeStatus, trust : NodeTrust, active : Nat, vram : Vram,
   age : 0 .. 2]

\* What a job remembers of the request it was created for.
Work ==
  [cap : Capability, model : BOOLEAN, cls : DataClassification,
   zones : SUBSET NetworkZone]

SoundIfReachable(r) ==
  r.status # "UNAVAILABLE" /\ r.trust \notin {"UNTRUSTED", "QUARANTINED"}

\* Stage 1: health and trust.
Sound(r) ==
  /\ r.status \notin {"UNAVAILABLE", "QUARANTINED"}
  /\ r.trust \notin {"UNTRUSTED", "QUARANTINED"}

\* Stage 3: the model is hot on the node, or could be placed there.
CanPlaceModel(r, n) == ZoneOf[n] \in ModelZones /\ r.vram = "ample"
ModelAvailable(r, n) == n \in HotModel \/ CanPlaceModel(r, n)

\* Stage 4: data locality.  An empty set of zones means the caller named none.
ZoneAdmits(w, z) ==
  /\ w.cls \in {"RESTRICTED", "TOP_SECRET"} => z = "RESTRICTED_AI"
  /\ w.cls = "CONFIDENTIAL" => z \in {"RESTRICTED_AI", "INTERNAL_AI"}
  /\ w.zones # {} => z \in w.zones

\* Stage 5: VRAM for the model, and room in the node's queue.
Roomy(r, w) ==
  /\ w.model => r.vram = "ample"
  /\ r.active < JobCap

Eligible(node, w, n) ==
  /\ Sound(node[n])
  /\ w.cap \in CapsOf[n]
  /\ w.model => ModelAvailable(node[n], n)
  /\ ZoneAdmits(w, ZoneOf[n])
  /\ Roomy(node[n], w)

\* The fair concurrency gate: a caller at the limit is throttled unless the
\* request is CRITICAL or HIGH.
Throttled(count, prio) == count >= UserCap /\ prio \notin {"CRITICAL", "HIGH"}

\* The nodes schedule() may select; none when the request is denied.
Placements(node, count, w, prio) ==
  IF Throttled(count, prio) THEN {} ELSE {n \in Node : Eligible(node, w, n)}
=============================================================================
