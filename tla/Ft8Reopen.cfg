SPECIFICATION Spec
CONSTANTS
  Modes <- TwoModes
  Limit = 5
INVARIANTS
  ReopenKeepsMode
CHECK_DEADLOCK FALSE
