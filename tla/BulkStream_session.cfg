CONSTANTS
  Chunk = 2
  RingSize <- TwoChunks
  Slots = 2
  MaxEvict = 2
  Overwrite = TRUE
  Faults = {}
  Streams = TRUE
  MaxRec <- Mixed
  MaxReboot = 0
  Cap = 1
  MaxErr = 2
  NotifyErrs = {"other"}
  Overlap = FALSE
  Stray = TRUE
  MaxStart = 2
  MaxCallbacks = 1
SPECIFICATION StreamSpec
INVARIANTS StreamTypeOK SentInOrder SeqContiguous Complete NothingVanishes
CHECK_DEADLOCK FALSE
