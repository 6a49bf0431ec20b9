CONSTANTS
  Chunk = 1
  RingSize <- TwoChunks
  Slots = 2
  MaxEvict = 2
  Overwrite = TRUE
  Faults = {"read"}
  Streams = TRUE
  MaxRec <- OneEach
  MaxReboot = 0
  Cap = 1
  MaxErr = 2
  NotifyErrs = {"nomem", "other"}
  Overlap = FALSE
  Stray = TRUE
  MaxStart = 1
  MaxCallbacks = 1
SPECIFICATION StreamFairSpec
PROPERTIES StreamEnds ImplementsStore
CHECK_DEADLOCK FALSE
