\* Does every connected client get what another one sends?
CONSTANTS
  Client = {a, b}
  MaxFd = 2
  BufIn = 2
  Room = 1
  MaxSends = 1
SPECIFICATION Spec
INVARIANTS ReachesAllClients
CHECK_DEADLOCK FALSE
