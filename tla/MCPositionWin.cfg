SPECIFICATION Spec
CONSTANTS
  N = 5
  Six = 4
  Area <- Triangle
  MaxStones = 9
  MaxFrames = 0
  BLACK = BLACK
  WHITE = WHITE
  EMPTY = EMPTY
CHECK_DEADLOCK FALSE
PROPERTY WinStepWins
