\* Every command, at any moment, a crash and a child that exits, under the
\* processes' fairness.
CONSTANTS
  p1 = p1
  p2 = p2
  p3 = p3
  Procs = {p1,p2,p3}
  Watched = {p1}
  Commands = {"start","stop","quit","restart","reload"}
  NoFile = NoFile
  NoPid = NoPid
  MaxCrashes = 1
  MaxExits = 1
SPECIFICATION FairSpec
\* The last command may have returned.
CHECK_DEADLOCK FALSE
INVARIANTS
  TypeOK
  OrderlyOneServer
  OrderlyPidFile
  ServerOwnsPorts
PROPERTIES
  StopEnds
  QuitEnds
