SPECIFICATION FairSpec
CONSTANTS
  Conn = {c1, c2}
  Host = host
  MayFail = {c2}
  MaxFrame = 2
INVARIANTS TypeOK NothingMissed PromiseKept JoinsAfterItsFrame
PROPERTIES JoinsComplete
CHECK_DEADLOCK FALSE
