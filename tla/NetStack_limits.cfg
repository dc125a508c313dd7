\* One descriptor for two plain clients and an SSL one: failed accepts up to the
\* limit of poll and beyond. A full read buffer, no SSL module, requests without a
\* request line, polls cut short by a signal.
CONSTANTS
  b1 = b1
  s1 = s1
  b2 = b2
  Conns = {b1,b2,s1}
  SslConns = {s1}
  Blank = {b1,b2}
  Listing = {}
  NoConn = NoConn
  NbWorker = 1
  FirstFd = 2
  LastFd = 2
  WorkerFdLimit = 3
  BuffSize = 1
  ChanCap = 1
  MaxSent = 1
  MaxSignals = 1
  SslModule = FALSE
SPECIFICATION Spec
SYMMETRY BlankSymmetry
\* The server ends by its shutdown signals, and clients may stay silent.
CHECK_DEADLOCK FALSE
INVARIANTS
  PollListMatchesMap
  NoLostConnection
  WalkInv
