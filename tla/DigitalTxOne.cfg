SPECIFICATION FairSpec
CONSTANTS
  Sources = {"ft8", "sstv"}
  Frames = 2
  Budgets <- OneStop
INVARIANTS
  TypeOK
  LeaseIsGuarded
PROPERTIES
  LeaseEnds
  ProgramEnds
\* The bounds let the operator stop starting transmissions.
CHECK_DEADLOCK FALSE
