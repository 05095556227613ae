SPECIFICATION FairSpec
CONSTANTS
  m = m
  n = n
  NoNode = NoNode
  NodeIds <- TwoNodes
  Listening = {m}
  Supports <- AllPhases
  MnfcVersion <- FirstVersions
  MaxTries = 2
  MaxLostRequests = 1
  MaxLostReports = 1
  MaxNIFs = 0
  MaxStarts = 1
INVARIANTS TypeOK VersionGetsBounded VersionsLearnt
PROPERTIES InterviewCompletes JobsLeaveQueue
\* Nothing is left to do once every node is interviewed.
CHECK_DEADLOCK FALSE
