SPECIFICATION Spec
CONSTANTS
  Threads = FALSE
  N = 3
  ZoneOf <- MCZones3
  CapsOf <- MCCaps3
  SeedTrust <- MCTrust3
  HotModel <- MCNoHot
  ModelZones <- MCModelZones
  JobCap = 2
  UserCap = 2
  User <- MCOneUser
  Capability <- MCCapability
  Requests <- MCModelRequests
  Priorities <- MCNormal
  Reports <- MCAnyReport
  VramReports <- MCVram
  SystemUser <- MCSystem
  MaxRetries = 1
  MaxJobs = 1
  MaxCkpts = 1
INVARIANTS QuarantineIsPermanent
 
