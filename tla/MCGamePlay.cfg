SPECIFICATION FairSpec
CONSTANTS
  Cell = {p0, p1, p2, p3, p4, p5, p6}
  Center = p0
  None = None
  BLACK = BLACK
  WHITE = WHITE
  EMPTY = EMPTY
  Spare = 1
  Games <- Kinds
CHECK_DEADLOCK FALSE
INVARIANTS
  Agreement
  EngineTurn
PROPERTIES
  
  TurnComes
