SPECIFICATION Spec
CONSTANTS
  s = s
  t = t
  Listening = TRUE
  Announcements = {"NIF"}
  Classes = {"ASSOCIATION"}
  GroupCount = 1
  Targets = {s, t}
  ParamCount = 1
  UserJobs <- InterviewJobs
  MaxJobs = 2
  MaxParts = 2
  MaxLosses = 0
  MaxLate = 0
INVARIANT RecordedAsReported
\* Nothing is left to do once every job is done.
CHECK_DEADLOCK FALSE
