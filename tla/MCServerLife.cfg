SPECIFICATION Spec
CONSTANTS
  Thread = {t1, t2, t3}
  Address = {a1, a2, a3}
  NULL = NULL
  MaxConnect = 2
  Scenarios <- Circumstances
SYMMETRY Symmetry
INVARIANTS
  NoDoubleFree
  OwnStructure
  NothingLeft
PROPERTIES
  RefinesSessions
