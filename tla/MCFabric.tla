------------------------------ MODULE MCFabric ------------------------------
(***************************************************************************)
(* Small instances of the fabric core for TLC.                             *)
(***************************************************************************)
EXTENDS FabricProps

MCCapability == {"llm"}
MCUsers == {"system-user", "alice"}
MCOneUser == {"system-user"}
MCSystem == "system-user"

\* Two nodes, only one of them in the sovereign zone.
MCZones2 == <<"RESTRICTED_AI", "INTERNAL_AI">>
MCCaps2 == [n \in 1 .. 2 |-> MCCapability]
MCTrust2 == [n \in 1 .. 2 |-> "TRUSTED"]

\* Three nodes, the last seeded as quarantined as GARUDA-NODE-004 is.
MCZones3 == <<"RESTRICTED_AI", "INTERNAL_AI", "RESTRICTED_AI">>
MCCaps3 == [n \in 1 .. 3 |-> MCCapability]
MCTrust3 == <<"TRUSTED", "LIMITED", "QUARANTINED">>

MCModelZones == {"RESTRICTED_AI", "INTERNAL_AI"}
MCNoHot == {}

Request(model, cls) == [cap |-> "llm", model |-> model, cls |-> cls, zones |-> {}]
MCRequests == {Request(FALSE, "INTERNAL"), Request(FALSE, "RESTRICTED")}
MCModelRequests == {Request(TRUE, "INTERNAL"), Request(FALSE, "RESTRICTED")}
MCNormal == {"NORMAL"}
MCReports == {"HEALTHY"}
MCAnyReport == {"HEALTHY", "UNAVAILABLE", "QUARANTINED"}
MCAmple == {"ample"}
MCVram == {"ample", "full"}
=============================================================================
