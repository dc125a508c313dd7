\* A restart of a server whose workers do not connect.
CONSTANTS
  p1 = p1
  p2 = p2
  Procs = {p1,p2}
  Watched = {p1,p2}
  Commands = {"start","restart"}
  NoFile = NoFile
  NoPid = NoPid
  MaxCrashes = 0
  MaxExits = 0
SPECIFICATION FairSpec
\* The last command may have returned.
CHECK_DEADLOCK FALSE
PROPERTIES
  RestartGoesOn
