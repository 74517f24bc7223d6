\* Two clients that connect one after the other.
CONSTANTS
  Client = {a, b}
  Programs = {"greeting"}
  Asked = {"page", "on", "blink", "post"}
  FdLimits = {4}
SPECIFICATION Spec
INVARIANTS EachThreadItsClient
CHECK_DEADLOCK FALSE
