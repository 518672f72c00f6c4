SPECIFICATION Spec
CONSTANTS
  Learnt <- Exchanged
  Budgets <- Taps
INVARIANTS
  EdgesAreAtomic
CHECK_DEADLOCK FALSE
