CONSTANTS
  MaxBatches = 3
  MaxChunks = 2
  MaxRows = 2
  MaxFaults = 3
SPECIFICATION Spec
INVARIANTS
  NeverMixed
  RowExact
  GoodResultAccepted
CHECK_DEADLOCK FALSE
