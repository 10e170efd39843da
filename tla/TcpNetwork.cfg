\* Two pieces a payload; a to_pnf channel of one; enough payloads to fill the
\* data channel and its routine's hands before a bundle follows.
SPECIFICATION Spec
CONSTANTS
  Pieces = 2
  Cap = 1
  MaxPayloads = 3
INVARIANTS JoinAgrees NoCrashWhileHosting
PROPERTIES ImplementsConn BundlesArrive CallsReturn
CHECK_DEADLOCK FALSE
