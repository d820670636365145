SPECIFICATION MCSpec
CONSTANTS
  c1 = c1
  c2 = c2
  a1 = a1
  a2 = a2
  t1 = t1
  p1 = p1
  p2 = p2
  th1 = th1
  th2 = th2
  s1 = s1
  n1 = n1
  n2 = n2
  n3 = n3
  Cases <- MCCases
  Actions <- MCActions
  Targets <- MCTargets
  Approvers <- MCApprovers
  Stagings <- MCStagings
  Threads <- MCThreads
  None = None
  Assets <- MCAssets
  EventTypes <- MCEventTypes
  Composite <- MCComposite
  MaxTime = 3
  MaxAlerts = 3
  Registered <- MCRegistered
  Callers <- MCThreads
  Subjects <- MCSubjects
  Devices <- MCDevices
  Services <- MCServices
  GroupOf <- MCGroupOf
  Strangers <- MCSubjects
  Managed <- MCManaged
  ClassOf <- MCClassOf
  Catalogue <- MCCatalogue
  ConnRisks <- MCConnRisks
  Signals <- MCSignals
  MaxSessions = 1
  MaxCalls = 2
  Foci <- MCFoci
INVARIANTS FourEyes ExactlyOnceIfSerial  CacheFollowsPolicies 
PROPERTIES ImplementsTaskOrder
SYMMETRY MCSymmetry
CONSTRAINT MCBound
CHECK_DEADLOCK FALSE
