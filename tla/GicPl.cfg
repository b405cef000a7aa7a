SPECIFICATION GicSpec
CONSTANTS
  Lines = {61}
  Pulses = {61}
  PlIds = {0, 1, 2, 3, 4, 5, 6, 7, 8, 9, 10, 11, 12, 13, 14, 15}
  MaxCalls = 1
  MaxRaised = 0
INVARIANT SensitivityAsAsked
CHECK_DEADLOCK FALSE
