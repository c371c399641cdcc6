CONSTANTS
  Tab = {t1, t2}
  MaxLoads = 3
  MaxUpdates = 1
  MaxKernels = 2
SPECIFICATION FairSpec
INVARIANTS
  OneAutoReload
  ParkedIsServed
PROPERTIES
  AutoReloadIsSafe
  ListeningEnds
  RpcReturns
CHECK_DEADLOCK FALSE
