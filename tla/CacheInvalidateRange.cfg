SPECIFICATION Spec
CONSTANTS
  Lines = 2
  Values = {0, 1}
  MaxRange = 2
INVARIANT InvalidateRefetches
