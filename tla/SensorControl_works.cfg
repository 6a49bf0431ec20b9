CONSTANT ShortSessions = FALSE
SPECIFICATION FairSpec
INVARIANTS SensorTypeOK PausedCoherent AmbientAlive ArmedWhenSettled CancelHolds ActiveEnds
PROPERTIES SensorComesBack
CHECK_DEADLOCK FALSE
