SPECIFICATION FairSpec
CONSTANTS
  Threads = FALSE
  N = 2
  ZoneOf <- MCZones2
  CapsOf <- MCCaps2
  SeedTrust <- MCTrust2
  HotModel <- MCNoHot
  ModelZones <- MCModelZones
  JobCap = 2
  UserCap = 2
  User <- MCOneUser
  Capability <- MCCapability
  Requests <- MCRequests
  Priorities <- MCNormal
  Reports <- MCReports
  VramReports <- MCAmple
  SystemUser <- MCSystem
  MaxRetries = 2
  MaxJobs = 2
  MaxCkpts = 0
INVARIANTS NeverBackToFailedNode 
PROPERTIES FailoverEmptiesNode FailoverCompletes
