SPECIFICATION Spec
CONSTANTS
  None = None
  NodeId = 7
  Classes <- NodeClasses
  ParamBytes <- Parameters
  Forgetful = {0}
  FirstBound <- Bindings
  MaxNodes = 3
  Targets = {3, 4}
  Endpoints = {2}
  UserValues = {200}
  DamagedBytes = {9}
  Masks = {128}
  MaxOps = 3
  MaxFaults = 1
INVARIANTS TypeOK FramesRoundTrip ValuesAsReported ConfiguredIsRead BoundIsRead BasicAnswered
\* The user and the node may stop.
CHECK_DEADLOCK FALSE
