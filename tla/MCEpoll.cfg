\* ex05.c: three clients, since with two the server never writes twice to the same
\* target of a batch, and two that send four messages, the second of which finds a full
\* socket.  ex06.c: three bytes, enough for "..." from one client, for a chunk that
\* becomes "..." with what is in the buffer already, and for short writes.
CONSTANTS
  Client = {a, b, c}
  MaxFd = 3
  BufIn = 2
  Room = 1
  MaxSends = 4
  Third = c
  CrowdSends = 2
  EchoClient = {d, e}
  MAX_LINE = 3
  SendBuf = 2
  MaxBytes = 3
SPECIFICATION EpollSpec
INVARIANTS EpollTypeOK BatchStaysReadable InOrderOnce NoLostEdge
PROPERTIES AllServed
\* All clients may close or stay silent; SIGPIPE or a full socket ends a server.
CHECK_DEADLOCK FALSE
