SPECIFICATION Spec
CONSTANTS
  a = a
  b = b
  NoCmd = NoCmd
  Commands = {a, b}
  Flow <- FireFlows
  MaxRetries = 2
  MaxLosses = 2
  MaxStrays = 1
  Timely = FALSE
INVARIANTS TypeOK SendsBounded LinkInv
PROPERTIES NoResendAfterAck ChannelSpec
\* ClosePort ends the worker.
CHECK_DEADLOCK FALSE
