CONSTANTS
  Op = {q1, q2}
  None = None
  MaxResponses = 3
  MaxFaults = 3
  Budget = 1
SPECIFICATION FairSpec
INVARIANTS
  OnceInOrder
  CutsAreInvisible
PROPERTIES
  ImplementsResult
  NextReturns
CHECK_DEADLOCK FALSE
