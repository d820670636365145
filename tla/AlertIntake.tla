----------------------------- MODULE AlertIntake -----------------------------
(***************************************************************************)
(* The alert intake of security_operations/: deduplication by fingerprint, *)
(* clustering by asset, and the case an alert opens or joins.              *)
(*                                                                         *)
(* Alerts carry the time of their source and arrive in any order.  Time is *)
(* counted in deduplication windows; a cluster stays open for two of them. *)
(* Rule, certificate, fingerprint of the client and destination take part  *)
(* in the fingerprint of an alert as its event type does: one stands for   *)
(* all.  Tenants are part of the asset.                                    *)
(*                                                                         *)
(* Bounds: MaxAlerts alerts arrive, with times up to MaxTime.              *)
(***************************************************************************)
EXTENDS Naturals, Sequences, FiniteSets

CONSTANTS
  Assets,
  EventTypes,
  Composite,   \* event types that name a certificate and a TLS or JA4 anomaly
  MaxTime,
  MaxAlerts

ASSUME AlertAssumption ==
  Composite \subseteq EventTypes /\ MaxTime \in Nat /\ MaxAlerts \in Nat

Severities == 1..5                  \* SEVERITY_WEIGHTS, INFO to CRITICAL
Urgent == {4, 5}
ClusterWindow == 2

VARIABLES
  alerts,    \* AlertIngestEngine._alerts, in the order of arrival
  prints,    \* AlertDeduplicator._fingerprints: numbers of the first alerts
  clusters,  \* ClusterManager._clusters, in the order of creation
  active,    \* _active_asset_clusters: cluster of each asset, 0 if none
  cases      \* cases opened for clusters, in the order of creation

alertVars == <<alerts, prints, clusters, active, cases>>

Alert == [asset : Assets, event : EventTypes, severity : Severities, time : 0..MaxTime]

AlertInit ==
  /\ alerts = <<>> /\ prints = {} /\ clusters = <<>> /\ cases = <<>>
  /\ active = [s \in Assets |-> 0]

Fingerprint(alert) == <<alert.asset, alert.event, alert.time>>

\* Number of the alert that stands for alert n: the first with its fingerprint.
Representative(all, n) ==
  LET same == {r \in prints : Fingerprint(all[r]) = Fingerprint(all[n])} IN
  IF same = {} THEN n ELSE CHOOSE r \in same : TRUE

HeaviestOf(all, members) ==
  LET weights == {all[members[i]].severity : i \in DOMAIN members} IN
  CHOOSE w \in weights : \A v \in weights : v <= w

\* The composite trigger: two event types, three alerts or one event that
\* names both a certificate and a TLS anomaly.
IsCandidate(all, members) ==
  LET types == {all[members[i]].event : i \in DOMAIN members} IN
  \/ Cardinality(types) >= 2
  \/ Len(members) >= 3
  \/ types \cap Composite # {}

\* A cluster stays a candidate.
AddAlert(all, cluster, n) ==
  LET members == Append(cluster.members, n) IN
  [cluster EXCEPT
     !.members = members,
     !.last = IF all[n].time > @ THEN all[n].time ELSE @,
     !.candidate = @ \/ IsCandidate(all, members)]

NewCluster(all, n) ==
  [asset |-> all[n].asset, members |-> <<>>, last |-> all[n].time, candidate |-> FALSE]

\* An alert older than the cluster is in its window, however old it is.
InWindow(all, n) ==
  LET c == active[all[n].asset] IN
  c # 0 /\ all[n].time <= clusters[c].last + ClusterWindow

CasesOf(c) == {k \in DOMAIN cases : cases[k].cluster = c}

\* Mutant: an alert that is not urgent by itself never opens a case.
DeservesCaseUrgently(cluster, alert) == alert.severity \in Urgent

DeservesCase(cluster, alert) == cluster.candidate \/ alert.severity \in Urgent

\* The case of cluster c takes alert n, or is opened with what the cluster has.
FileAlert(all, n, c, cluster) ==
  cases' =
    IF ~DeservesCase(cluster, all[n]) THEN cases
    ELSE IF CasesOf(c) # {}
      THEN [k \in DOMAIN cases |->
              IF k \in CasesOf(c) THEN [cases[k] EXCEPT !.alerts = @ \cup {n}]
                                  ELSE cases[k]]
    ELSE Append(cases,
           [cluster |-> c,
            alerts |-> {cluster.members[i] : i \in DOMAIN cluster.members},
            priority |-> HeaviestOf(all, cluster.members)])

\* process_alert: the representative joins the cluster, once more if alert n
\* duplicates it; whether a case is deserved is asked of alert n.
ProcessAlert ==
  /\ Len(alerts) < MaxAlerts
  /\ \E alert \in Alert :
       LET all == Append(alerts, alert)
           n == Len(all)
           rep == Representative(all, n)
           c == IF InWindow(all, rep) THEN active[alert.asset] ELSE Len(clusters) + 1
           cluster == AddAlert(all, IF InWindow(all, rep) THEN clusters[c]
                                    ELSE NewCluster(all, rep), rep)
       IN
       /\ alerts' = all
       /\ prints' = prints \cup {rep}
       /\ clusters' = IF c > Len(clusters) THEN Append(clusters, cluster)
                      ELSE [clusters EXCEPT ![c] = cluster]
       /\ active' = [active EXCEPT ![alert.asset] = c]
       /\ FileAlert(all, n, c, cluster)

AlertSpec == AlertInit /\ [][ProcessAlert]_alertVars

-----------------------------------------------------------------------------
(* Properties *)

\* Every cluster that became an incident candidate, and every alert that is
\* urgent by itself, has a case, and no cluster has two
\* (orchestrator/engine.py, process_alert).
CandidatesHaveOneCase ==
  /\ \A c \in DOMAIN clusters : clusters[c].candidate => CasesOf(c) # {}
  /\ \A j, k \in DOMAIN cases : cases[j].cluster = cases[k].cluster => j = k

InOrder ==
  \A i, j \in DOMAIN alerts : i < j => alerts[i].time <= alerts[j].time

Holds(c, n) == \E i \in DOMAIN clusters[c].members : clusters[c].members[i] = n

\* While alerts arrive in the order of their times, a flood of one alert stays
\* in one cluster and one case, whatever else arrives in between
\* (alerts/dedup.py and clustering.py, whose windows differ).
FloodStaysTogether ==
  InOrder => \A j, k \in DOMAIN clusters : \A r \in prints :
               Holds(j, r) /\ Holds(k, r) => j = k

\* One incident is one cluster and one case.
OneCasePerIncident == CandidatesHaveOneCase /\ FloodStaysTogether
=============================================================================
