SPECIFICATION LinkSpec
CONSTANTS
  Speeds = {100, 1000}
  MaxChanges = 1
INVARIANT RunsAsNegotiated
CHECK_DEADLOCK FALSE
