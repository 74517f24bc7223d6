\* N = 20 as in both programs.  Three messages and two kills let either side of the
\* handoff be killed twice, or each once, in any place.  Two ex05-1 senders and a queue of
\* two messages fill it.  Three posix_shm processes: one to create, one to unlink, and
\* one that comes between them; one text, since what is shown is the question of
\* MCExamplesShm.cfg.  Two signals from outside, in any order and at any time,
\* beside those of the timers.
CONSTANTS
  N = 20
  RestartN = 3
  MaxKills = 2
  QueueSender = {"ex05-1a", "ex05-1b"}
  Room = 2
  MaxLines = 2
  ShmProcess = {p, q, r}
  ShmText = {"hi"}
  Outside = {"INT", "QUIT", "USR1", "USR2", "TERM"}
  MaxSent = 2
SPECIFICATION ExamplesSpec
INVARIANTS ExamplesTypeOK OneInside NothingLeftBehind ObjectsRemoved OnlyEndsLose
INVARIANTS NothingLostOrFreedTwice OnlyOpenSignalsKill
PROPERTIES FifoSpec RestartEnds AllEnd NoStepBack FailuresExplained SignalsArrive
\* The programs end; a user may stay silent; a restarted program may wait for ever.
CHECK_DEADLOCK FALSE
