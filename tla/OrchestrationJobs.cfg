SPECIFICATION FairSpec
CONSTANTS
  Jobs = {trace1, plan1}
  TraceJobs = {trace1}
  Workers = {w1, w2}
  Syncs = {s1}
  Reliable = {w1}
  NoOwner = NoOwner
  NoJob = NoJob
  MaxAttempts = 2
  LeaseTicks = 2
  BackoffBase = 1
  BackoffCap = 2
  SyncRetry = 1
  Horizon = 1
INVARIANTS OneProcessPerAttempt
PROPERTIES SupersededNeverWrites EveryJobSettles
CHECK_DEADLOCK TRUE
