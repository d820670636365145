SPECIFICATION MCSpec
CONSTANTS
  Worker <- MCWorker
  Proposed <- MCOnWorkers
  StartStatus <- MCStart
  StartMode <- MCMode
  MaxPlans = 1
  NumSteps = 1
  Gate = 1
  MaxResumes = 0
  Users <- MCUsers
  Models <- MCModels
  Offered <- MCOffered
  MaxTotal = 1
  MaxPerUser = 1
  MaxPerModel = 1
  ShedTo = 1
  MaxItems = 1
  h1 = h1
  h2 = h2
  Hosts <- MCHosts
  AssetLists <- MCAssetLists
  StartConfig <- MCStartConfig
  MaxIncidents = 2
  MaxResponsePlans = 2
  MaxMoves = 2
  w1 = w1
  w2 = w2
  Scenarios <- MCScenarios
  Ranges <- MCRanges
  Workers <- MCThreads
  Home <- MCHome
  ScenarioSteps = 2
  Campaign <- MCCampaign
  TargetRange = "A"
  NoScenario = "-"
  MaxRuns = 3
  MaxStops = 1
  MaxGapMoves = 1
  Foci <- MCResponse
INVARIANTS CompletedMeansAllSucceeded
CONSTRAINT MCBound
