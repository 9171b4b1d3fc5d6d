SPECIFICATION Spec
CONSTANTS
  Thread = {t1, t2}
  Requests <- Two
  Lines <- OneHost
CHECK_DEADLOCK FALSE
INVARIANT OwnPieces
