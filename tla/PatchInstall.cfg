CONSTANTS
  Builders = {b1, b2}
  MaxInstalls = 3
SPECIFICATION PatchSpec
INVARIANTS
  Restored
  NoThreadsInPyodide
  NeverMixed
CHECK_DEADLOCK FALSE
