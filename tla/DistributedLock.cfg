SPECIFICATION LockSpec
CONSTANTS
  c1 = c1
  c2 = c2
  NoLock = NoLock
  Clients <- TwoClients
  Ttl = 3
  MaxRetry = 1
  MaxLatency = 1
  MaxCalls = 2
  MaxTime = 5
INVARIANTS LockTypeOK MutualExclusion
PROPERTIES ExtensionMeansUnbroken
CHECK_DEADLOCK FALSE
