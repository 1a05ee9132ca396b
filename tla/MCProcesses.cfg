SPECIFICATION ProcessesSpec
CONSTANTS
  r1 = r1
  r2 = r2
  w1 = w1
  Requests = {r1, r2}
  WorkerWrites = {w1}
  Closer = Closer
  Ops <- Writes
  Drainers <- OneCloser
  WaitingCapacity = 1
  NoOp = NoOp
  MaxFailures = 2
  p1 = p1
  p2 = p2
  p3 = p3
  d1 = d1
  d2 = d2
  Processes = {p1, p2, p3}
  Databases = {d1, d2}
  DatabaseOf <- LastApart
  NoProcess = NoProcess
  MaxCrashes = 2
  Calls = {c1, c2}
  MaxInitFailures = 2
INVARIANTS SerialOrder ClosesInOrder OneHolder
PROPERTIES ClosesAndAnswers
