\* What becomes of the response that the PHP module has set.
CONSTANTS
  MaxModules = 1
  PipeSize = 1
  ReadSize = 2
  MaxOutput = 1
SPECIFICATION ProcSpec
CHECK_DEADLOCK FALSE
INVARIANTS
  ModuleResponseStands
