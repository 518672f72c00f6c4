SPECIFICATION Spec
CONSTANTS
  Radios = {"shack", "cabin"}
  Locals = {"shack", "cabin"}
  Secure = {}
  TlsAvailable = TRUE
  MaxTries = 2
  MaxCancels = 1
  Backlog = 0
INVARIANTS
  RightRadio
CHECK_DEADLOCK FALSE
