SPECIFICATION FairSpec
CONSTANTS
  Learnt <- Exchanged
  Budgets <- Careful
INVARIANTS
  TypeOK
  HeldIsReal
PROPERTIES
  LetGoEndsKeying
\* The bounds let the operator stop.
CHECK_DEADLOCK FALSE
