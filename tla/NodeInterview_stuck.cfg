SPECIFICATION FairSpec
CONSTANTS
  m = m
  n = n
  NoNode = NoNode
  NodeIds <- OneNode
  Listening = {n}
  Supports <- VersionOnly
  MnfcVersion <- LaterVersions
  MaxTries = 2
  MaxLostRequests = 0
  MaxLostReports = 0
  MaxNIFs = 0
  MaxStarts = 1
PROPERTY ManufacturerPhaseEnds
\* Nothing is left to do once every node is interviewed.
CHECK_DEADLOCK FALSE
