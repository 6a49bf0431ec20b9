CONSTANTS
  Chunk = 2
  RingSize <- TwoChunks
  Slots = 2
  MaxEvict = 4
  Overwrite = TRUE
  Faults = {}
  Streams = FALSE
  MaxRec <- StampOnly
  MaxReboot = 2
SPECIFICATION FairSpec
INVARIANTS OneOrphan OverwriteStores ChunkClaimable
PROPERTIES FullTailDrains ImplementsAbsLog
CHECK_DEADLOCK FALSE
