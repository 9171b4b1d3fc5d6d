SPECIFICATION FairShutdown
CONSTANTS
  Thread = {t1}
  Client = {c1, c2, c3}
  NULL = NULL
  Main = Main
  Target = {Main}
INVARIANTS
  FreedOnce
  AllClosed
PROPERTIES
  LockReleased
  ShutdownEnds
