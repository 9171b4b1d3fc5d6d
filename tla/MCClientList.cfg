SPECIFICATION Spec
CONSTANTS
  Thread = {t1, t2}
  Client = {c1, c2, c3}
  NULL = NULL
SYMMETRY Symmetry
INVARIANTS
  WellFormed
  NoDanglingWalk
PROPERTY RefinesRegistry
