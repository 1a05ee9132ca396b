SPECIFICATION GrowingSpec
CONSTANTS
  Workers = {w1}
  Scanners = {s1}
  MaxSize = 2
  MaxFiles = 1
  MaxRebuilds = 1
  MaxAborts = 0
  MaxJobs = 9
  MaxCrashes = 0
  BatchEvents = 1
  NoWorker = NoWorker
  NoJob = NoJob
  Unread = Unread
INVARIANTS LinesCountedOnce
PROPERTIES CatchesUp
