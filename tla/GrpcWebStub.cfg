CONSTANTS
  MaxFrames = 3
  MaxPayload = 2
SPECIFICATION Spec
INVARIANTS
  ChunkingIrrelevant
  StopIsJustified
  ReturnIsJustified
CHECK_DEADLOCK FALSE
