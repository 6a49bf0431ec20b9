CONSTANTS
  Chunk = 2
  RingSize <- TwoChunks
  Slots = 2
  MaxEvict = 2
  Overwrite = FALSE
  Faults = {"write", "meta", "clear"}
  Streams = TRUE
  MaxRec <- BothStores
  MaxReboot = 0
SPECIFICATION Spec
INVARIANTS DownloadOrdered
CHECK_DEADLOCK FALSE
