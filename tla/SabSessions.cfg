CONSTANTS
  MaxChannels = 3
  MaxCalls = 4
  MaxChunks = 2
SPECIFICATION FairSpec
INVARIANTS
  TypeOK
  WaitingIsHeard
  ServesTheBlockedSession
PROPERTIES
  CallReturnsInTurn
CHECK_DEADLOCK FALSE
