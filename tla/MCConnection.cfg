SPECIFICATION FairSpec
CONSTANTS
  Kind <- All
  BUFFERSIZE = 16
  MAXMESSAGE = 24
  MaxFrames = 3
  MaxLost = 1
  HeadLen = 18
  Sizes = {1, 3}
CHECK_DEADLOCK FALSE
INVARIANTS
  Fits
  NotDropped
  NotEarly
PROPERTIES
  DeliversFrames
  AllHandled
