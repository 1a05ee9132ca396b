SPECIFICATION SessionsSpec
CONSTANTS
  Workers = {w1, w2}
  Scanners = {s1}
  MaxSize = 2
  MaxFiles = 2
  MaxRebuilds = 1
  MaxAborts = 1
  MaxJobs = 1
  MaxCrashes = 1
  BatchEvents = 1
  NoWorker = NoWorker
  NoJob = NoJob
  Unread = Unread
  None = None
  Texts = {a, b}
  Unusable = Unusable
  MaxPending = 2
  MaxAsked = 4
  MaxEvents = 1
  MaxContract = 1
  MaxRevision = 2
  MaxCompactions = 2
  Runs = {1, 2}
  MaxChoice = 3
  MaxPhase = 1
  MaxResults = 2
SYMMETRY Symmetry
INVARIANTS  CompactionKeepsTrack
PROPERTIES RecallFollowsPrompt
CHECK_DEADLOCK FALSE
