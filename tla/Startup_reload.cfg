\* A start of two workers and one reload after it.
CONSTANTS
  Keys <- MCKeys
  Values <- MCValues
  Null = Null
  Unreadable = Unreadable
  Names = {"php", "ssl", "log"}
  Dirs = {"dir1", "dir2"}
  Libraries <- MCLibraries
  Defaults <- MCDefaults
  Files <- MCFiles
  MaxReads = 2
  Loads <- MCLoads
  Longs = {"80", "8080"}
  Ports = {"port"}
  NWorkers = 2
SPECIFICATION Spec
\* process() may have failed, or wait for a worker that was not forked.
CHECK_DEADLOCK FALSE
INVARIANTS
  ServerFollowsConf
