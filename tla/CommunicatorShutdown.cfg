SPECIFICATION FairSpec
CONSTANTS
  Conn = {c1}
  Host = host
  MayFail = {c1}
  MaxFrame = 2
PROPERTIES ShutdownReturns
CHECK_DEADLOCK FALSE
