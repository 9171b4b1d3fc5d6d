SPECIFICATION Spec
CONSTANTS
  N = 5
  Six = 4
  Area <- Triangle
  MaxStones = 7
  MaxFrames = 3
  BLACK = BLACK
  WHITE = WHITE
  EMPTY = EMPTY
CHECK_DEADLOCK FALSE
INVARIANTS
  LinesCurrent
  NoTrace
  SixIsSeen
