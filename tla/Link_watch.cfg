SPECIFICATION Spec
CONSTANTS
  HeartbeatInterval = 9
  FeedInterval = 10
  Timeout = 12
  SensorLatency = 0
  SystemLatency = 1
  BootTime = 0
  MaxFaults = 1
  AdvertiseOnDisconnect = TRUE
  IdleStart = 1
  ActiveStart = 2
  Byte = 3
  SlowPeer = TRUE
INVARIANTS
  NoFalseReset
  StuckIsReset
  FlagTruthful
  NeverStartedTwice
  SpinsOnlyForStream
  UnpairsTheFailed
CHECK_DEADLOCK FALSE
PROPERTIES
  AdvertisesAgain
  AdvertisesOnRequest
