CONSTANTS
  MaxRpc = 3
  MaxMsg = 1
  MaxWin = 1
  MaxGrow = 1
  Timeouts = {1, 2, 3}
SPECIFICATION FairSpec
INVARIANTS
  RequestNotLost
PROPERTIES
  StaleStreamSilent
  CallReturnsUntilTimeout
