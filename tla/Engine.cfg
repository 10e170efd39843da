\* A host or a client with one conn; a buffer of one, so that every hop
\* of a remote bundle can be full.
SPECIFICATION Spec
CONSTANTS
  Event = {e}
  Conn = {c}
  HostConn = c
  MaxRemote = 2
  Cap = 1
  MaxDue = 1
INVARIANT RemoteConserved
PROPERTIES RemoteArrives EventsGetOut BundlerShutdownReturns
CHECK_DEADLOCK FALSE
