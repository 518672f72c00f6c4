SPECIFICATION AllSpec
CONSTANTS
  Limit = 5
  Modes <- TwoModes
  ModeLimit = 4
  Calibrations = 3
  Cancels = 2
  Touches = 1
  Sizes = {1, 2}
  MaxQueue = 6
  Room = 3
  Packets = 7
  Restarts = 2
  \* One radio of each kind.
  Radios = {"shack", "cabin", "remote", "club"}
  Locals = {"shack", "remote"}
  Secure = {"remote", "club"}
  TlsAvailable = TRUE
  Tries = 3
  Clicks = 1
  Backlog = 2
INVARIANTS
  TypesOK
  UiAgrees
  ConnectedAsAsked
  KeyedKnowingly
  OwnModeReturns
  TestIsKept
PROPERTIES
  AllEnds
  PacketsAreWhole
\* The bounds let the surroundings stop.
CHECK_DEADLOCK FALSE
