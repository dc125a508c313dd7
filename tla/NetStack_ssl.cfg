\* A plain and an SSL client sharing descriptors and workers; the SSL module loaded.
\* Routing, and the promise to the clients.
CONSTANTS
  c1 = c1
  s1 = s1
  Conns = {c1,s1}
  SslConns = {s1}
  Blank = {}
  Listing = {}
  NoConn = NoConn
  NbWorker = 2
  FirstFd = 6
  LastFd = 7
  WorkerFdLimit = 2
  BuffSize = 2
  ChanCap = 1
  MaxSent = 1
  MaxSignals = 0
  SslModule = TRUE
SPECIFICATION Spec
\* The server ends by its shutdown signals, and clients may stay silent.
CHECK_DEADLOCK FALSE
INVARIANTS
  RoutingInv
PROPERTIES
  RightConnection
  ImplementsClientService
