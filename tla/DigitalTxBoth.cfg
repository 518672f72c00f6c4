SPECIFICATION Spec
CONSTANTS
  Sources = {"ft8", "sstv"}
  Frames = 1
  Budgets <- Several
INVARIANTS
  LeaseIsOwnedOrEnding
  AudioThreadIsFree
  NoMicInLease
PROPERTIES
  ImplementsLease
\* The bounds let the operator stop starting transmissions.
CHECK_DEADLOCK FALSE
