----------------------------- MODULE MCSecurity -----------------------------
(***************************************************************************)
(* Small instances of the security operations components for TLC.  The     *)
(* components share no variable in one request, so a behaviour follows one *)
(* of them, chosen at the start, and the others stay as they begin.        *)
(***************************************************************************)
EXTENDS CaseProps, AlertIntake, InvestigationDag, ZeroTrust, TLC

CONSTANTS c1, c2, a1, a2, t1, p1, p2, th1, th2, s1, n1, n2, n3

MCCases == {c1, c2}
MCActions == {a1, a2}
MCTargets == {t1}
MCApprovers == {p1, p2}
MCThreads == {th1, th2}
MCStagings == {<<"service", "R4">>, <<"network", "R1">>, <<"forbidden", "R1">>}
MCAssets == {s1}
MCEventTypes == {"tls_downgrade", "new_ja4", "tls_cert_swap"}
MCComposite == {"tls_cert_swap"}
MCRegistered == <<n1, n2, n3>>

MCSubjects == {"newcomer"}
MCDevices == {"DEVICE-44", "DEVICE-77"}
MCManaged == {"DEVICE-44"}
MCServices == {"FORENSIC-API", "PUBLIC-WEBMAIL"}
MCGroupOf == [u \in MCSubjects |-> "security-ops"]
MCClassOf ==
  [s \in MCServices |-> IF s = "FORENSIC-API" THEN "CRITICAL" ELSE "INTERNAL"]
MCConnRisks == {"LOW", "HIGH"}
MCSignals == {<<"none", "none">>, <<"none", "HIGH">>, <<"NONCOMPLIANT", "none">>,
              <<"HEALTHY", "LOW">>}

Policy(effect, priority) ==
  [effect |-> effect, priority |-> priority, services |-> MCServices,
   groups |-> {"security-ops", "general"}, managed |-> BOOLEAN,
   postures |-> Postures, classes |-> {"INTERNAL", "CRITICAL"}, risks |-> Risks]

\* The default policies, none of whose services is left to POL-MTA-ADMIN and
\* none of whose subjects to POL-S2S-MICROSERVICE here, and two more: an open
\* door and a ban of those the directory does not know.
MCCatalogue ==
  <<[Policy("ALLOW", 10) EXCEPT !.services = {"FORENSIC-API"}, !.groups = {"security-ops"},
       !.managed = {TRUE}, !.postures = {"HEALTHY"}, !.risks = {"LOW", "MEDIUM"}],
    [Policy("DENY", 1) EXCEPT !.managed = {FALSE}, !.classes = {"CRITICAL"}],
    [Policy("STEP_UP", 5) EXCEPT !.risks = {"HIGH", "CRITICAL"}],
    [Policy("ALLOW", 20) EXCEPT !.services = {}, !.managed = {TRUE}],
    [Policy("ALLOW", 50) EXCEPT !.services = {"PUBLIC-WEBMAIL"}, !.managed = {TRUE}],
    [Policy("ALLOW", 15) EXCEPT !.groups = {}, !.managed = {TRUE}],
    Policy("ALLOW", 1),
    [Policy("DENY", 50) EXCEPT !.groups = {"general"}]>>

ASSUME PolicyAssumption == BlockIsMostUrgent

MCSymmetry ==
  Permutations(MCCases) \cup Permutations(MCActions)
    \cup Permutations(MCApprovers) \cup Permutations(MCThreads)

\* With two threads only what needs no approval is followed, and no vote; one
\* policy is deployed beside the defaults.
MCBound ==
  /\ Len(deployed) <= 7
  /\ ~Serial => \A a \in Actions :
                     /\ votes[a] = <<>>
                     /\ action[a] # None => action[a].kind = "network"

\* The components that runs follow.
CONSTANT Foci
MCFoci == {"cases", "alerts", "order", "access"}
MCCaseFocus == {"cases"}
VARIABLE focus

MCVars == <<focus, caseVars, alertVars, dagVars, zeroVars>>

MCInit ==
  /\ CaseInit /\ AlertInit /\ DagInit /\ ZeroInit
  /\ focus \in Foci
  /\ focus # "cases" => Serial
  /\ focus # "order" => deps = [n \in Tasks |-> {}]

MCNext ==
  \/ focus = "cases" /\ CaseNext /\ UNCHANGED <<focus, alertVars, dagVars, zeroVars>>
  \/ focus = "alerts" /\ ProcessAlert /\ UNCHANGED <<focus, caseVars, dagVars, zeroVars>>
  \/ focus = "order" /\ DagNext /\ UNCHANGED <<focus, caseVars, alertVars, zeroVars>>
  \/ focus = "access" /\ ZeroNext /\ UNCHANGED <<focus, caseVars, alertVars, dagVars>>

MCSpec == MCInit /\ [][MCNext]_MCVars
=============================================================================
