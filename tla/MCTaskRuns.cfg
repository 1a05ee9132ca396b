SPECIFICATION LedgerSpec
CONSTANTS
  Keys = {k1, k2}
  Hints <- SomeOrAll
  Values = {v1}
  Runs = {r1, r2}
  Procs = {p1}
  Sources = {s1, s2}
  Contents = {c1}
  Outcomes = {"completed"}
  None = None
  MaxEvents = 4
  Calls = {m1, m2}
  Prompts = {t1}
  Operations = {o1, o2}
  MaxRevision = 2
  Importers = {i1, i2}
  MaxHistory = 2
  MaxArchives = 2
  Docs = {"d1", "d2", "d3"}
  MaxGeneration = 7
  MaxShared = 4
  Requests = {"q1", "q2"}
  Workers = {m1, m2}
  MaxQueries = 2
  MaxSkills = 1
  Wanted = 1
  MaxAudits = 1
  Ids = {r1, r2}
  Clients = {u1}
  Purged = Purged
  Proposals = {"e1", "e2"}
  Deliveries = {"d1"}
  TextOf <- OneText
  Written <- TwoTexts
  Snapshots <- TwoSnapshots
  Phases <- TwoPhases
  Found = {"s1"}
INVARIANTS RequestIsOneStory RanOnce LedgerWhole
PROPERTIES CleanupSparesFinished LifecycleKept SkillServesItsSnapshot
SYMMETRY Symmetry
CHECK_DEADLOCK FALSE
