SPECIFICATION Spec
CONSTANTS
  IdleInterval = 700
  ActiveInterval = 600
  IdleThreshold = 0
  ActiveThreshold = 1
  Byte = 2
  MaxDelta = 1
  PersistDelay = 1000
  Start = 800
  Steps <- MCSteps
  Errors <- MCErrors
  MaxTime = 3400
  MaxWrites = 0
  MaxSessions = 0
  MaxBoots = 0
PROPERTIES PersistsLastEvent
CHECK_DEADLOCK FALSE
