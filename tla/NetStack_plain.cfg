\* Two plain clients, two workers, requests that fill the buffer or not.
CONSTANTS
  c1 = c1
  c2 = c2
  Conns = {c1,c2}
  SslConns = {}
  Blank = {}
  Listing = {}
  NoConn = NoConn
  NbWorker = 2
  FirstFd = 6
  LastFd = 7
  WorkerFdLimit = 2
  BuffSize = 2
  ChanCap = 1
  MaxSent = 2
  MaxSignals = 0
  SslModule = TRUE
SPECIFICATION Spec
SYMMETRY Symmetry
\* The server ends by its shutdown signals, and clients may stay silent.
CHECK_DEADLOCK FALSE
INVARIANTS
  TypeOK
  NoSkippedEvent
  NoDoubleRequest
  OneWorkerPerConnection
  AnswersBacked
  UnansweredInv
