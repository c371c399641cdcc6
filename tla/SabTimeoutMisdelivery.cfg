CONSTANTS
  MaxRpc = 2
  MaxMsg = 1
  MaxWin = 1
  MaxGrow = 0
  Timeouts = {1}
SPECIFICATION Spec
INVARIANTS
  OwnResponse
