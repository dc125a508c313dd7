\* A single server, and a child of it that exits.
CONSTANTS
  p1 = p1
  Procs = {p1}
  Watched = {p1}
  Commands = {"start"}
  NoFile = NoFile
  NoPid = NoPid
  MaxCrashes = 0
  MaxExits = 1
SPECIFICATION Spec
\* The last command may have returned.
CHECK_DEADLOCK FALSE
INVARIANTS
  PidFileNamesServer
