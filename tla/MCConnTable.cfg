SPECIFICATION Spec
CONSTANTS
  Client = {c1, c2, c3}
  Socket = {s1, s2, s3}
  MaxConnect = 2
  Together = 2
  NULL = NULL
  Gone = Gone
  Lost = Lost
  Scenarios <- Separate
SYMMETRY Symmetry
INVARIANTS
  Capacity
  InBounds
  Compact
  Isolation
PROPERTIES
  Affinity
  FullMeansFull
