\* One Ctrl+C is enough.
CONSTANTS
  N = 20
  RestartN = 3
  MaxKills = 2
  QueueSender = {"ex05-1a", "ex05-1b"}
  Room = 2
  MaxLines = 2
  ShmProcess = {p, q, r}
  ShmText = {"hi", "hello"}
  Outside = {"INT", "QUIT", "USR1", "USR2", "TERM"}
  MaxSent = 2
SPECIFICATION ExamplesSpec
PROPERTIES CtrlCEnds
CHECK_DEADLOCK FALSE
