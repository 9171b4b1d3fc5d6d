SPECIFICATION FairShutdown
CONSTANTS
  Thread = {t1, t2}
  Client = {c1}
  NULL = NULL
  Main = Main
  Target = {t1, t2, Main}
CHECK_DEADLOCK FALSE
PROPERTY ShutdownEnds
