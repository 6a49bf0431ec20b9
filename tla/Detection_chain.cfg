SPECIFICATION Spec
CONSTANTS
  IdleInterval = 700
  ActiveInterval = 600
  IdleThreshold = 0
  ActiveThreshold = 1
  Byte = 2
  MaxDelta = 1
  PersistDelay = 1000
  Start = 800
  Steps <- MCSteps
  Errors <- MCErrors
  MaxTime = 3400
  MaxWrites = 1
  MaxSessions = 1
  MaxBoots = 1
INVARIANTS
  DetectionTypeOK
  ChainKept
  ClockNotAhead
  StampsPast
CHECK_DEADLOCK FALSE
