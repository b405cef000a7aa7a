SPECIFICATION MCSpec
CONSTANTS
  Lines = 2
  Values = {0, 1}
  MaxRange = 2
  LIMIT = 4096
  NAME_WORDS = 3
  ELF_BASE_ADDR = 128
  BOOT_BIN_STAGING_OFFSET = 40
  DDR_WORDS = 210
  BootImages <- MCBootImages
  PS_CLK = 33333333
  Targets <- MCTargets
  DIVISOR_MAX = 63
  DCI_MAX_FREQ = 10000000
  Words = 3
  Bits = 3
  Faults <- MCFaults
  IrqLines = {27, 61}
  Pulses = {61}
  PlIds = {0}
  IrqCalls = 5
  MaxRaised = 2
  Accessed = {64}
  Kinds = {"Spi", "Uart", "I2c", "Sdio", "Lqspi", "Gem", "Ttc", "Gpio"}
  GpioPins = {7, 9, 18, 40, 52}
  MaxCalls = 2
  Boards <- MCBoards
  RateCalls <- MCRateCalls
  MaxRateCalls = 2
  Cores = {0}
  CoreHandlers = {0}
  U32_MAX = 3
  Delays = {0, 1, 3}
  MaxDelays = 2
  Intervals = {2, 5}
  Percents = {0, 50, 100}
  MaxPwmCalls = 4
INVARIANTS NewestValueSurvives FlushReachesMemory JumpsToWhole ClocksStable SectionsRight
INVARIANTS PinsServeDrivers ReadyIsConfigured RatesRight DelaysLast PeriodsAsAsked
PROPERTIES BootEnds Served
CHECK_DEADLOCK FALSE
