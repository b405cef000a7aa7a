SPECIFICATION Spec
CONSTANTS
  FIFO_DEPTH = 2
  MaxLen = 2
  Modes <- ResetMode
PROPERTY CallEndsAfterReset
CHECK_DEADLOCK FALSE
