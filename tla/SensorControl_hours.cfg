CONSTANT ShortSessions = FALSE
SPECIFICATION Spec
PROPERTIES CollectsInHours
CHECK_DEADLOCK FALSE
