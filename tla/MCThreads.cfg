\* Servers: enough descriptors for two connections, for one only or for half a one, so
\* that dup(), the next accept() or, after a failed pthread_create(), every accept()
\* fails.  Nobody asks for "off", but a client that leaves without a request may cause
\* it.  Two sensor threads, so that tid2 forgets the first; five tokens are enough for
\* two of them and the "OFF" for one, or for a sensor thread and an LED command in either
\* order.
CONSTANTS
  Client = {a, b}
  Programs = {"greeting", "webserver", "webLED", "rpi6"}
  Asked = {"page", "on", "blink", "post"}
  FdLimits = {1, 2, 4}
  MaxCds = 2
  MaxTyped = 5
SPECIFICATION ThreadsSpec
INVARIANTS ThreadsTypeOK OwnSocket OpenExplained LedReason
PROPERTIES AllAnswered CancelEnds
\* Clients and users may stay silent, and processes end.
CHECK_DEADLOCK FALSE
