SPECIFICATION FairSpec
CONSTANTS
  s = s
  t = t
  Listening = FALSE
  Announcements = {"WAKE_UP_NOTIFICATION"}
  Classes = {"ASSOCIATION"}
  GroupCount = 2
  Targets = {t}
  ParamCount = 2
  UserJobs <- MixedJobs
  MaxJobs = 1
  MaxParts = 1
  MaxLosses = 0
  MaxLate = 0
PROPERTY JobsGetDone
\* Nothing is left to do once every job is done.
CHECK_DEADLOCK FALSE
