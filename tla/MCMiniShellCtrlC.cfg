\* Ctrl+C while a command that does not end by itself runs.
CONSTANTS
  Lines <- LongLines
  MaxLines = 1
  MaxProcs = 2
  PipeSize = 1
  FloodSize = 2
SPECIFICATION FairSpec
PROPERTIES CtrlCEndsChildren
CHECK_DEADLOCK FALSE
