---------------------------- MODULE MCFabricAgents ----------------------------
(***************************************************************************)
(* Small instances of the agent orchestrator for TLC: two nodes in the     *)
(* sovereign and the internal zone.                                        *)
(***************************************************************************)
EXTENDS FabricAgents

MCCapability == {"llm"}
MCUsers == {"system-user"}
MCSystem == "system-user"
MCZones == <<"RESTRICTED_AI", "INTERNAL_AI">>
MCCaps == [n \in 1 .. 2 |-> MCCapability]
MCTrust == [n \in 1 .. 2 |-> "TRUSTED"]
MCModelZones == {"RESTRICTED_AI", "INTERNAL_AI"}
MCNoHot == {}
MCTasks == {[cap |-> "llm", model |-> FALSE, cls |-> c, zones |-> {}] :
              c \in {"INTERNAL", "RESTRICTED"}}
\* One classification is enough where the properties do not look at it.
MCInternalTask == {[cap |-> "llm", model |-> FALSE, cls |-> "INTERNAL", zones |-> {}]}
MCPriorities == {"HIGH"}
MCReports == {"HEALTHY"}
MCAmple == {"ample"}
=============================================================================
