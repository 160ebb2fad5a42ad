SPECIFICATION FairSpec
CONSTANTS
  Requests = {r1, r2}
  Names = {cron}
  Timeouts = {0, 2}
  Polls = 1
  MaxTime = 4
  None = None
INVARIANTS TypeOK MutualExclusion
PROPERTIES NobodyBreaksEarly NoStrayRow ImplementsLease CrashRecovery
CHECK_DEADLOCK FALSE
