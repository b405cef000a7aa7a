SPECIFICATION MCSpec
CONSTANTS
  FIFO_DEPTH = 2
  MaxLen = 5
  Modes <- DriverModes
  Waker = {w1, w2}
  WIDTH = 4
  SCALE = 2
  MaxAt = 3
  TimeModes <- AnyTimeMode
INVARIANT WordsAccountedFor
PROPERTIES TransferCompletes NeverEarly AlarmsRing
