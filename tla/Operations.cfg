SPECIFICATION MCSpec
CONSTANTS
  Worker <- MCWorker
  Proposed <- MCProposed
  StartStatus <- MCStart
  StartMode <- MCMode
  MaxPlans = 2
  NumSteps = 3
  Gate = 2
  MaxResumes = 2
  Users <- MCUsers
  Models <- MCModels
  Offered <- MCOffered
  MaxTotal = 2
  MaxPerUser = 2
  MaxPerModel = 2
  ShedTo = 1
  MaxItems = 3
  h1 = h1
  h2 = h2
  Hosts <- MCHosts
  AssetLists <- MCAssetLists
  StartConfig <- MCStartConfig
  MaxIncidents = 2
  MaxResponsePlans = 2
  MaxMoves = 2
  w1 = w1
  w2 = w2
  Scenarios <- MCScenarios
  Ranges <- MCRanges
  Workers <- MCThreads
  Home <- MCHome
  ScenarioSteps = 2
  Campaign <- MCCampaign
  TargetRange = "A"
  NoScenario = "-"
  MaxRuns = 3
  MaxStops = 1
  MaxGapMoves = 1
  Foci <- MCFoci
INVARIANTS  ExecutionFollowsPlan SharesAreKept  DispatchedOnce RangeFreed StopIsQuick ClosedWasSecured
PROPERTIES  CriticalIsServed  EveryRunEnds
CONSTRAINT MCBound
CHECK_DEADLOCK FALSE
