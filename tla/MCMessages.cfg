\* A ring of two slots, so that a burst fills it, wraps it and overflows it.  Chat pairs: two
\* lines on each side; one may be read ahead, and one may be "exit".
CONSTANTS
  Msg = {m1, m2}
  ZeroLength = ZeroLength
  Blank = Blank
  QUEUE_SIZE = 2
  SockBuf = 2
  MaxArrivals = 4
  MaxLines = 2
  Window = 2
SPECIFICATION MessagesSpec
INVARIANTS TypeOK PairTypeOK RingConsistent NoLostWakeup SaidWasTyped CutLosesNothing
PROPERTIES FifoSpec ArrivalsLogged BothLeave
\* The server stops when poll() fails, and idles after the last arrival; both sides of a
\* chat end, or wait for a user who types nothing.
CHECK_DEADLOCK FALSE
