SPECIFICATION MCSpec
CONSTANTS
  FIFO_DEPTH = 4
  MaxLen = 9
  Modes <- AllModes
  RX_DEPTH = 3
  RX_TRIGGER = 2
  MaxBytes = 6
  RING = 4
  FRAMES = 2
  BUF = 2
  MaxMsgLen = 3
  MaxMsgs = 4
  Ratios <- MCRatios
INVARIANTS SliceAlive BytesOfThisWrite BytesInOrder NearRate
PROPERTIES WriteCompletes BytesDelivered MessagesWritten
CHECK_DEADLOCK FALSE
