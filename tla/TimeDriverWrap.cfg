SPECIFICATION Spec
CONSTANTS
  Waker = {w1, w2}
  WIDTH = 4
  SCALE = 2
  MaxAt = 3
  Modes <- Wrapping
PROPERTY ReadEnds
