SPECIFICATION Spec
CONSTANTS
  a = a
  b = b
  NoCmd = NoCmd
  Commands = {a, b}
  Flow <- AnswerFlows
  MaxRetries = 3
  MaxLosses = 0
  MaxStrays = 1
  Timely = TRUE
INVARIANT CompletedByOwnAnswers
\* ClosePort ends the worker.
CHECK_DEADLOCK FALSE
