SPECIFICATION Spec
CONSTANTS
  MaxSleep = 1800
  Latency = 1
  Steps <- MCSteps
  Clocks <- MCClocks
  MaxTime = 380000
  MaxLate = 1
  MaxEvents = 2
INVARIANTS
  ScheduleTypeOK
  HoursMatchCalendar
  RightOrDue
  Durable
CHECK_DEADLOCK FALSE
