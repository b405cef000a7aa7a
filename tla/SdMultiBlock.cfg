SPECIFICATION SdSpec
CONSTANTS
  BLOCK_LEN = 2
  CardBlocks = 3
  MaxRun = 2
  MaxErrors = 0
INVARIANT RunsConsecutive
CHECK_DEADLOCK FALSE
