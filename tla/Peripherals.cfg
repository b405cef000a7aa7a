SPECIFICATION MCSpec
CONSTANTS
  FIFO_DEPTH = 3
  MaxLen = 7
  Modes <- DriverModes
  WORD = 2
  QSPI_FIFO_DEPTH = 3
  PAGE_SIZE = 8
  SECTOR_SIZE = 8
  RECOMMENDED_PROGRAM_PAGE_SIZE = 4
  FlashSize = 24
  Sizes = {6, 7, 14, 16, 20}
  BLOCK_LEN = 2
  CardBlocks = 2
  MaxRun = 2
  MaxErrors = 2
  I2C_FIFO_DEPTH = 2
  MAX_READ_SIZE = 5
  Lengths = {0, 1, 3, 5, 6}
  MaxCalls = 2
  MaxFaults = 1
  Kinds = {"mio", "emio", "mio7"}
  HandlerModes = {"OutputPushPull", "OutputOpenDrain", "Periph"}
INVARIANTS WordsAccountedFor FlashedWhole TransfersRight MovesWhole PinsAsAsked
PROPERTIES CallEnds DriversEnd
CHECK_DEADLOCK FALSE
