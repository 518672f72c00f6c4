SPECIFICATION AllSpec
CONSTANTS
  Period <- MCPeriod
  MaxQueued = 1
  Gap = 1
  Blocks = 4
  Changes = 2
  MaximumGain = 2
  CalibrationStart = 1
  PolicyTimes <- Times
  HighSamples = 2
  Transmissions = 2
  DialTones = {1, 2}
  DialCallsigns = {"a", "b"}
  DialTurns = 4
  DialChanges = 1
  MirrorLimit = 4
  SlotBegins = {64, 128}
  SlotStart = 90
  SlotPeriod = 318
  SlotOffset = 30
  SlotWave = 72
  SlotFrame = 12
  SlotDelays <- MCDelays
INVARIANTS
  TypesOK
  WindowIsWhole
  CopyIsRadio
  LevelIsNotRestored
  SlotIsTimely
  
PROPERTIES
  DecodesAreCurrent
  OthersAreKept
  MeterIsStrict
\* The bounds let the surroundings stop.
CHECK_DEADLOCK FALSE
