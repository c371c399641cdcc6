CONSTANTS
  MaxChannels = 2
  MaxCalls = 1
  MaxChunks = 1
SPECIFICATION FairSpec
PROPERTIES
  CallReturns
CHECK_DEADLOCK FALSE
