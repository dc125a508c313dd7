\* A start of two workers, three reads of the file, another server on the same path.
CONSTANTS
  Keys <- MCKeys
  Values <- MCValues
  Null = Null
  Unreadable = Unreadable
  Names = {"php", "ssl", "log"}
  Dirs = {"dir1", "dir2"}
  Libraries <- MCLibraries
  Defaults <- MCDefaults
  Files <- MCFiles
  MaxReads = 3
  Loads <- MCLoads
  Longs = {"80", "8080"}
  Ports = {"port"}
  NWorkers = 2
SPECIFICATION FairSpec
\* process() may have failed, or wait for a worker that was not forked.
CHECK_DEADLOCK FALSE
INVARIANTS
  TypeOK
  ConfFollowsReads
  ModulesAsListed
  StreamsToWorkers
PROPERTIES
  StartEnds
