CONSTANTS
  Interval = 2
  Recheck = 1
  Timeout = 1
  Gap = 1
  Linger = 1
  Fresh = 8
  Lookup = 1
  Skew = 1
  Poll = 1
  Window = 12
SPECIFICATION FairSpec
INVARIANTS WaitingIsRecent SuccessIsReal RefusalIsReal
PROPERTIES VerdictGiven
CHECK_DEADLOCK FALSE
