CONSTANTS
  Chunk = 2
  RingSize <- TwoChunks
  Slots = 2
  MaxEvict = 2
  Overwrite = TRUE
  Faults = {"write", "delete", "meta", "mount"}
  Streams = TRUE
  MaxRec <- Few
  MaxReboot = 2
SPECIFICATION Spec
INVARIANTS TypeOK DownloadOrdered CountIsSpan
CHECK_DEADLOCK FALSE
