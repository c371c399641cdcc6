CONSTANTS
  MaxRuns = 3
  MaxLines = 1
SPECIFICATION FairSpec
INVARIANTS
  TypeOK
  OwnOutputAlone
PROPERTIES
  EveryRunSettles
CHECK_DEADLOCK FALSE
