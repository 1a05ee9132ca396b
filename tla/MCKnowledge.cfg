SPECIFICATION KnowledgeSpec
CONSTANTS
  Entries = {e1, e2}
  Requests = {q1, q2}
  Calls = {k1, k2}
  Queries = {a1, a2}
  Keys = {f1}
  Checkpoints = {c1, c2, c3}
  Limit = 1
  Best <- AsMany
  None = None
  MaxChanges = 1
  MaxContexts = 3
  MaxRows = 3
  MaxPerRun = 2
  MinDistance = 2
  MaxLog = 3
  Processes = {p1, p2}
  Texts = {t1, t2}
  MaxProposals = 3
  MaxRevision = 2
  MaxRestarts = 1
  Ids = {i1, i2, i3}
  Clients = {u1, u2}
  Purged = Purged
  ArchiveIds = {i1, i2}
  ArchiveClients = {u1}
  MaxExports = 1
SYMMETRY Symmetry
INVARIANTS DeliveriesAreHonest  AdviceFollowsLedger ReviewKeepsItsWord EntriesCanBeTrusted
PROPERTIES EndedIsFrozen
CHECK_DEADLOCK FALSE
