SPECIFICATION FairSpec
CONSTANTS
  a = a
  b = b
  NoCmd = NoCmd
  Commands = {a, b}
  Flow <- AnswerFlows
  MaxRetries = 2
  MaxLosses = 1
  MaxStrays = 0
  Timely = FALSE
PROPERTIES EveryCommandEnds ChannelFairSpec TimelyAnswersAreOwn
\* ClosePort ends the worker.
CHECK_DEADLOCK FALSE
