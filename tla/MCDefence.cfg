SPECIFICATION GameSpec
CONSTANTS
  N = 6
  Six = 4
  Area <- Middle
  MaxStones = 7
  MaxFrames = 0
  BLACK = BLACK
  WHITE = WHITE
  EMPTY = EMPTY
CHECK_DEADLOCK FALSE
INVARIANTS
  NeverMore
  NeverLess
  AnswerThere
PROPERTY AnswerMeets
