\* Two clients, one of which sends half a request, leaves in its middle or does not read.
CONSTANTS
  Client = {a, b}
  Programs = {"webserver"}
  Asked = {"page", "on", "blink", "post"}
  FdLimits = {4}
SPECIFICATION FairSpec
PROPERTIES EveryRequestAnswered
CHECK_DEADLOCK FALSE
