SPECIFICATION Spec
CONSTANTS
  Sources = {"sstv"}
  Frames = 1
  Budgets <- OnePtt
INVARIANTS
  KeyedThroughLease
\* The bounds let the operator stop starting transmissions.
CHECK_DEADLOCK FALSE
