\* Two clients of one worker, under the processes' fairness: progress and answers.
\* What c1 asks for leaves a descriptor open in the worker.
CONSTANTS
  c1 = c1
  c2 = c2
  Conns = {c1,c2}
  SslConns = {}
  Blank = {}
  Listing = {c1}
  NoConn = NoConn
  NbWorker = 1
  FirstFd = 5
  LastFd = 6
  WorkerFdLimit = 2
  BuffSize = 2
  ChanCap = 1
  MaxSent = 1
  MaxSignals = 0
  SslModule = TRUE
SPECIFICATION FairSpec
\* The server ends by its shutdown signals, and clients may stay silent.
CHECK_DEADLOCK FALSE
PROPERTIES
  MasterProgress
  WorkersFollowMaster
  RequestAnswered
