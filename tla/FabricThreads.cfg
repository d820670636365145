SPECIFICATION Spec
CONSTANTS
  Threads = TRUE
  N = 2
  ZoneOf <- MCZones2
  CapsOf <- MCCaps2
  SeedTrust <- MCTrust2
  HotModel <- MCNoHot
  ModelZones <- MCModelZones
  JobCap = 2
  UserCap = 2
  User <- MCOneUser
  Capability <- MCCapability
  Requests <- MCRequests
  Priorities <- MCNormal
  Reports <- MCReports
  VramReports <- MCAmple
  SystemUser <- MCSystem
  MaxRetries = 2
  MaxJobs = 1
  MaxCkpts = 1
INVARIANTS TypeOK SovereignConfinement 
