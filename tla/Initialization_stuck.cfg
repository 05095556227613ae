SPECIFICATION FairSpec
CONSTANTS
  StepCount = 3
  NodeIds <- ThreeNodes
  MaxJobAttempts = 5
  MaxLosses = 1
  MaxRepeats = 0
  MaxUICalls = 1
PROPERTY InitializationCompletes
\* Nothing is left to do once every job is done.
CHECK_DEADLOCK FALSE
