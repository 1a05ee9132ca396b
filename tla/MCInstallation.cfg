CONSTANTS
  Entries = {e1}
  Profiles = {p1, p2}
  Docs = {d1}
  SecretDocs = {}
  Runtimes = {r1}
  Setups = {s1}
  Reliable = {}
  None = None
  MaxAttempts = 1
  LeaseTicks = 1
  RetryBase = 1
  RetryMax = 1
  LeaseIds = {1, 2, 3, 4, 5}
  MaxRevision = 2
  MaxGeneration = 2
  Foreign = Foreign
  SetupCommands = {a, b}
  Uses = {u}
  Shared = "shared"
  Local = "local"
  MaxEdits = 1
  MaxFaults = 1
  OldBinary = "old"
  NewBinary = "new"
  Newest = 2
  AttemptLimit = 2
  MaxMoves = 1
  Queries = {"q1", "q2"}
  QueryRuntimes = {r1, r2}
  QueryCalls = {c1, c2}
  CacheLimit = 1
  MaxSwitches = 3
SPECIFICATION InstallationSpec
INVARIANTS EmbeddingsAreCurrent SetupIsAllOrNothing UseKeepsOneIdentity DatabaseIsAsTold
PROPERTIES OvertakenNeverWrites
CHECK_DEADLOCK FALSE
