CONSTANTS
  Chunk = 2
  RingSize <- TwoChunks
  Slots = 2
  MaxEvict = 2
  Overwrite = TRUE
  Faults = {}
  Streams = TRUE
  MaxRec <- Few
  MaxReboot = 1
SPECIFICATION Spec
INVARIANTS ChunkClaimable
CHECK_DEADLOCK FALSE
