\* Requests of every kind through lists of up to three modules; bodies and outputs
\* that fit into a pipe and that do not.
CONSTANTS
  MaxModules = 3
  PipeSize = 2
  ReadSize = 2
  MaxOutput = 3
SPECIFICATION ProcSpec
\* One request: interpret returns, or the process ends.
CHECK_DEADLOCK FALSE
INVARIANTS
  TypeOK
  AnswerExplained
  ModulesInOrder
PROPERTIES
  OutputWhole
  InterpretEnds
