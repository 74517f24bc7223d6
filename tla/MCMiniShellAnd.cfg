\* The status of the command before && against the SIGCHLD handler.
CONSTANTS
  Lines <- AndLines
  MaxLines = 1
  MaxProcs = 3
  PipeSize = 1
  FloodSize = 2
SPECIFICATION Spec
INVARIANTS AndSeesFailure
CHECK_DEADLOCK FALSE
