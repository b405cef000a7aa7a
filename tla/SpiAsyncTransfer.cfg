SPECIFICATION Spec
CONSTANTS
  FIFO_DEPTH = 2
  MaxLen = 3
  Modes <- LongTransfers
INVARIANT TransfersStoreAll
