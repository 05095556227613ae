SPECIFICATION FairSpec
CONSTANTS
  m = m
  n = n
  NoNode = NoNode
  NodeIds <- TwoNodes
  Listening = {m}
  Supports <- FewPhases
  MnfcVersion <- FirstVersions
  MaxTries = 1
  MaxLostRequests = 1
  MaxLostReports = 0
  MaxNIFs = 1
  MaxStarts = 1
INVARIANTS CompletedOncePerNIF ProtocolInfoOfItsNode
PROPERTIES JobsFindTheirClasses InterviewCompletes
\* Nothing is left to do once every node is interviewed.
CHECK_DEADLOCK FALSE
