\* Three hosts, two of whose goroutines join at once; conns between them, and
\* payloads enough to overtake each other on one.
SPECIFICATION Spec
CONSTANTS
  Caller = {c1, c2}
  MaxHosts = 3
  MaxConns = 2
  MaxPayloads = 2
INVARIANTS TypeOK OneConnPerPair NewConnsReachTheirHost
PROPERTIES ImplementsConn CloseReturns
CHECK_DEADLOCK FALSE
