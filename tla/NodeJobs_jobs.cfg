SPECIFICATION FairSpec
CONSTANTS
  s = s
  t = t
  Listening = FALSE
  Announcements = {"NIF", "WAKE_UP_NOTIFICATION"}
  Classes = {"ASSOCIATION"}
  GroupCount = 2
  Targets = {t}
  ParamCount = 2
  UserJobs <- MixedJobs
  MaxJobs = 3
  MaxParts = 1
  MaxLosses = 1
  MaxLate = 1
INVARIANTS TypeOK JobsDoneInOrder RecordedAsReported
PROPERTIES InterviewComplete JobsGetDone
\* Nothing is left to do once every job is done.
CHECK_DEADLOCK FALSE
