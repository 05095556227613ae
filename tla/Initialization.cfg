SPECIFICATION FairSpec
CONSTANTS
  StepCount = 4
  NodeIds <- ThreeNodes
  MaxJobAttempts = 5
  MaxLosses = 1
  MaxRepeats = 1
  MaxUICalls = 2
INVARIANTS TypeOK NoStepSkipped AskedOnce JobLooksAfter SequenceInv
PROPERTIES InitializedStays CompletesUnlessLost NodesGetInterviewed
\* Nothing is left to do once every job is done.
CHECK_DEADLOCK FALSE
