SPECIFICATION AgentSpec
CONSTANTS
  Threads = FALSE
  N = 2
  ZoneOf <- MCZones
  CapsOf <- MCCaps
  SeedTrust <- MCTrust
  HotModel <- MCNoHot
  ModelZones <- MCModelZones
  JobCap = 2
  UserCap = 2
  User <- MCUsers
  Capability <- MCCapability
  Requests <- MCTasks
  Priorities <- MCPriorities
  Reports <- MCReports
  VramReports <- MCAmple
  SystemUser <- MCSystem
  MaxRetries = 1
  MaxJobs = 1
  MaxCkpts = 0
  PlanSteps = 2
INVARIANTS AgentsConfined
