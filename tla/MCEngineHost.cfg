SPECIFICATION FairSpec
CONSTANTS
  Browsers = 3
  Fds = 2
  MaxBody = 2
  Settings <- MCSettings
CHECK_DEADLOCK FALSE
INVARIANTS
  InStep
  NeverOlder
  GivenAway
PROPERTIES
  OwnAnswer
  CallReturns
  SessionEnds
  LastGetsSession
