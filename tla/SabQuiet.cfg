CONSTANTS
  MaxRpc = 3
  MaxMsg = 2
  MaxWin = 2
  MaxGrow = 0
  Timeouts = {}
SPECIFICATION FairSpec
INVARIANTS
  OwnResponse
  CompleteOnReturn
  SentAtMostOnce
  ServesTheCaller
  BufferExclusion
PROPERTIES
  ImplementsChannel
  CallReturnsUntilTimeout
