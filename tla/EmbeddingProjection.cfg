CONSTANTS
  Entries = {e1}
  Profiles = {p1}
  Docs = {d1, d2, d3}
  SecretDocs = {d3}
  Runtimes = {r1}
  Setups = {s1}
  Reliable = {r1}
  None = None
  MaxAttempts = 2
  LeaseTicks = 1
  RetryBase = 1
  RetryMax = 1
  LeaseIds = {1, 2, 3, 4, 5}
  MaxRevision = 2
  MaxGeneration = 2
SPECIFICATION FairSpec
INVARIANTS VectorOfItsRevision
PROPERTIES QueueDrains
CHECK_DEADLOCK FALSE
