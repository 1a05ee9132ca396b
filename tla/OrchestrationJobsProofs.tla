----------------------- MODULE OrchestrationJobsProofs -----------------------
(***************************************************************************)
(* Proofs about the job queue, for every set of jobs and processes, every  *)
(* lease length and every attempt limit.                                   *)
(***************************************************************************)
EXTENDS OrchestrationJobs, TLAPS

\* A process has a job exactly while it works on it or settles it.
Consistent(v) == /\ v.job # NoJob <=> v.phase \in {"working", "failing"}
                 /\ v.heartbeat => v.phase = "working"

\* The attempt a process remembers is one the row has already counted.
AttemptCounted ==
  \A w \in Owners : worker[w].job # NoJob =>
    worker[w].attempt >= 1 /\ worker[w].attempt <= table[worker[w].job].attempts

\* A key that was never enqueued was never claimed.
AbsentIsFresh == \A j \in Jobs : table[j].state = "absent" => table[j].attempts = 0

\* The inductive invariant.
Inv == /\ TypeOK
       /\ \A w \in Owners : Consistent(worker[w])
       /\ AttemptCounted
       /\ AbsentIsFresh
       /\ LeaseNamesLatestClaim
       /\ OneProcessPerAttempt

-----------------------------------------------------------------------------
\* The retry delay written by failOrchestrationJob is a time.
LEMMA RetryDelayType ==
  ASSUME NEW w, NEW a \in Nat \ {0}
  PROVE  retryDelay(w, a) \in Int
<1>1. MinOf(a, 6) \in 1..6
  BY DEF MinOf
<1>2. Doubling[MinOf(a, 6)] \in Nat
  BY <1>1 DEF Doubling
<1>3. BackoffBase * Doubling[MinOf(a, 6)] \in Nat
  BY <1>2, JobsAssumption
<1> QED
  BY <1>3, JobsAssumption DEF retryDelay, MinOf

\* The column updates of the queue's UPDATE statements keep a row well formed.
LEMMA ReleasedType ==
  ASSUME NEW r \in Row, NEW s \in JobStates
  PROVE  /\ released(r, s) \in Row
         /\ released(r, s).state = s
         /\ released(r, s).attempts = r.attempts
<1> SUFFICES ASSUME NEW x, x = [r EXCEPT !.state = s, !.owner = NoOwner, !.expiresAt = 0]
             PROVE  x \in Row /\ x.state = s /\ x.attempts = r.attempts
  BY DEF released
<1>1. /\ x.state = s /\ x.attempts = r.attempts /\ x.availableAt = r.availableAt
      /\ x.owner = NoOwner /\ x.expiresAt = 0
  BY DEF Row
<1>2. /\ x.state \in JobStates /\ x.attempts \in 0..MaxAttempts /\ x.availableAt \in Int
      /\ x.owner \in Owners \cup {NoOwner} /\ x.expiresAt \in Int
  BY <1>1 DEF Row
<1>3. x \in Row
  BY <1>2 DEF Row
<1> QED
  BY <1>1, <1>3

\* A claim takes the lease and counts one attempt more.
LEMMA LeasedType ==
  ASSUME NEW r \in Row, NEW w \in Owners, r.attempts < MaxAttempts
  PROVE  /\ leased(r, w) \in Row
         /\ leased(r, w).state = "leased"
         /\ leased(r, w).owner = w
         /\ leased(r, w).attempts = r.attempts + 1
<1> SUFFICES ASSUME NEW x, x = [r EXCEPT !.state = "leased", !.attempts = r.attempts + 1,
                                         !.owner = w, !.expiresAt = LeaseTicks]
             PROVE  /\ x \in Row /\ x.state = "leased" /\ x.owner = w
                    /\ x.attempts = r.attempts + 1
  BY DEF leased
<1>1. /\ x.state = "leased" /\ x.attempts = r.attempts + 1
      /\ x.availableAt = r.availableAt /\ x.owner = w /\ x.expiresAt = LeaseTicks
  BY DEF Row
<1>2. x.attempts \in 0..MaxAttempts
  BY <1>1, JobsAssumption DEF Row
<1>3. /\ x.state \in JobStates /\ x.attempts \in 0..MaxAttempts /\ x.availableAt \in Int
      /\ x.owner \in Owners \cup {NoOwner} /\ x.expiresAt \in Int
  BY <1>1, <1>2, JobsAssumption DEF Row, JobStates
<1>4. x \in Row
  BY <1>3 DEF Row
<1> QED
  BY <1>1, <1>4

\* The sweep at the head of a claim keeps rows well formed, keeps their
\* attempts and can only turn leased rows into abandoned ones.
LEMMA SweepFacts ==
  ASSUME TypeOK, NEW scope
  PROVE  /\ sweepExpired(scope) \in [Jobs -> Row]
         /\ \A j \in Jobs : /\ sweepExpired(scope)[j].attempts = table[j].attempts
                            /\ sweepExpired(scope)[j] = table[j]
                               \/ sweepExpired(scope)[j].state = "abandoned"
<1> SUFFICES ASSUME NEW j \in Jobs
             PROVE  /\ sweepExpired(scope)[j] \in Row
                    /\ sweepExpired(scope)[j].attempts = table[j].attempts
                    /\ sweepExpired(scope)[j] = table[j]
                       \/ sweepExpired(scope)[j].state = "abandoned"
  BY DEF sweepExpired
<1>1. table[j] \in Row /\ "abandoned" \in JobStates
  BY DEF TypeOK, JobStates
<1>2. sweepExpired(scope)[j] = table[j] \/ sweepExpired(scope)[j] = released(table[j], "abandoned")
  BY DEF sweepExpired
<1> QED
  BY <1>1, <1>2, ReleasedType

\* Initially no job is known and every process is at rest.
LEMMA InitInv == Init => Inv
BY JobsAssumption DEF Init, Inv, TypeOK, Consistent, AttemptCounted, AbsentIsFresh,
   LeaseNamesLatestClaim, OneProcessPerAttempt, NoRow, AtRest, Row, WorkerState,
   JobStates, Phases, Owners

\* A process at rest satisfies everything the invariant asks of it.
LEMMA AtRestType ==
  ASSUME NEW p \in {"idle", "stopped"}
  PROVE  /\ AtRest(p) \in WorkerState
         /\ AtRest(p).job = NoJob
         /\ Consistent(AtRest(p))
BY JobsAssumption DEF AtRest, WorkerState, Phases, Consistent

-----------------------------------------------------------------------------
\* What every step but a successful claim does to a row: no new attempt, no
\* new lease, and no row disappears.
QuietRow(old, new) == /\ new.attempts = old.attempts
                      /\ new.state = "absent" => old.state = "absent"
                      /\ new.state = "leased" => old.state = "leased" /\ new.owner = old.owner

\* Such a step keeps the invariant when each process keeps its job or drops it.
LEMMA QuietStep ==
  ASSUME Inv, TypeOK',
         \A j \in Jobs : QuietRow(table[j], table'[j]),
         \A w \in Owners :
           /\ Consistent(worker'[w])
           /\ \/ worker'[w].job = NoJob
              \/ worker'[w].job = worker[w].job /\ worker'[w].attempt = worker[w].attempt
  PROVE  Inv'
<1> USE DEF Inv, QuietRow
<1>1. AttemptCounted'
  BY DEF AttemptCounted, TypeOK, WorkerState
<1>2. AbsentIsFresh'
  BY DEF AbsentIsFresh
<1>3. LeaseNamesLatestClaim'
  <2> SUFFICES ASSUME NEW j \in Jobs, table'[j].state = "leased"
               PROVE  LET w == table'[j].owner IN
                        /\ w \in Owners
                        /\ \/ worker'[w].job = j /\ worker'[w].attempt = table'[j].attempts
                           \/ worker'[w].job # j
    BY DEF LeaseNamesLatestClaim
  <2>1. table[j].state = "leased" /\ table'[j].owner = table[j].owner
    OBVIOUS
  <2> QED
    BY <2>1, JobsAssumption DEF LeaseNamesLatestClaim
<1>4. OneProcessPerAttempt'
  BY DEF OneProcessPerAttempt
<1> QED
  BY <1>1, <1>2, <1>3, <1>4

\* A job that is enqueued has no owner yet.
LEMMA EnqueueInv ==
  ASSUME Inv, NEW j \in Jobs, enqueueOrchestrationJob(j)
  PROVE  Inv'
<1> USE DEF Inv, enqueueOrchestrationJob
<1>1. [NoRow EXCEPT !.state = "pending"] \in Row
  BY JobsAssumption DEF NoRow, Row, JobStates
<1>2. TypeOK'
  BY <1>1 DEF TypeOK
<1>3. \A k \in Jobs : QuietRow(table[k], table'[k])
  BY DEF TypeOK, NoRow, QuietRow, AbsentIsFresh
<1> QED
  BY <1>2, <1>3, QuietStep

\* Time that passes changes neither owners nor attempts.
LEMMA TickInv ==
  ASSUME Inv, Tick
  PROVE  Inv'
<1> USE DEF Inv
<1>1. ASSUME NEW k \in Jobs
      PROVE  table'[k] \in Row /\ QuietRow(table[k], table'[k])
  <2>1. table[k] \in Row
    BY DEF TypeOK
  <2> DEFINE a == Elapse(table[k].availableAt)
             e == IF table[k].state = "leased" /\ table[k].expiresAt > 0
                  THEN table[k].expiresAt - 1 ELSE table[k].expiresAt
  <2>2. a \in Int /\ e \in Int
    BY <2>1, JobsAssumption DEF Row, Elapse
  <2>3. table'[k] = [table[k] EXCEPT !.availableAt = a, !.expiresAt = e]
    BY DEF Tick
  <2> HIDE DEF a, e
  <2>4. /\ table'[k].state = table[k].state /\ table'[k].attempts = table[k].attempts
        /\ table'[k].owner = table[k].owner
        /\ table'[k].availableAt = a /\ table'[k].expiresAt = e
    BY <2>1, <2>3 DEF Row
  <2>5. /\ table'[k].state \in JobStates /\ table'[k].attempts \in 0..MaxAttempts
        /\ table'[k].owner \in Owners \cup {NoOwner}
        /\ table'[k].availableAt \in Int /\ table'[k].expiresAt \in Int
    BY <2>1, <2>2, <2>4 DEF Row
  <2>6. table'[k] \in Row
    BY <2>1, <2>3, <2>5 DEF Row
  <2> QED
    BY <2>4, <2>6 DEF QuietRow
<1>2. TypeOK'
  BY <1>1 DEF TypeOK, Tick
<1> QED
  BY <1>1, <1>2, QuietStep DEF Tick

\* Rows the settling and renewing statements write.
LEMMA SettledRow ==
  ASSUME TypeOK, NEW j \in Jobs, NEW s \in {"completed", "failed", "abandoned"}, NEW d \in Int
  PROVE  /\ released(table[j], s) \in Row
         /\ QuietRow(table[j], released(table[j], s))
         /\ [released(table[j], s) EXCEPT !.availableAt = d] \in Row
         /\ QuietRow(table[j], [released(table[j], s) EXCEPT !.availableAt = d])
<1> DEFINE r == released(table[j], s)
<1>1. s \in JobStates /\ table[j] \in Row
  BY DEF JobStates, TypeOK
<1>2. r \in Row /\ r.state = s /\ r.attempts = table[j].attempts
  BY <1>1, ReleasedType
<1> HIDE DEF r
<1>3. /\ [r EXCEPT !.availableAt = d] \in Row
      /\ [r EXCEPT !.availableAt = d].state = s
      /\ [r EXCEPT !.availableAt = d].attempts = table[j].attempts
  BY <1>2 DEF Row
<1> QED
  BY <1>2, <1>3 DEF QuietRow, r

\* The process leaves its job: worker' as release leaves it.
LEMMA ReleaseWorker ==
  ASSUME Inv, NEW w \in Owners, NEW failed \in BOOLEAN, release(w, failed)
  PROVE  /\ worker' \in [Owners -> WorkerState]
         /\ \A v \in Owners :
              /\ Consistent(worker'[v])
              /\ \/ worker'[v].job = NoJob
                 \/ worker'[v].job = worker[v].job /\ worker'[v].attempt = worker[v].attempt
<1> DEFINE p == IF worker[w].closing \/ (failed /\ w \in Syncs) THEN "stopped" ELSE "idle"
<1>1. p \in {"idle", "stopped"}
  OBVIOUS
<1>2. worker' = [worker EXCEPT ![w] = AtRest(p)]
  BY DEF release
<1> HIDE DEF p
<1>3. /\ AtRest(p) \in WorkerState /\ AtRest(p).job = NoJob /\ Consistent(AtRest(p))
  BY <1>1, AtRestType
<1> QED
  BY <1>2, <1>3 DEF Inv, TypeOK

\* The process stays with its job, in another phase or between the two
\* statements of a heartbeat.
LEMMA KeepWorker ==
  ASSUME Inv, NEW w \in Owners, NEW x \in WorkerState, Consistent(x),
         x.job = worker[w].job, x.attempt = worker[w].attempt,
         worker' = [worker EXCEPT ![w] = x]
  PROVE  /\ worker' \in [Owners -> WorkerState]
         /\ \A v \in Owners :
              /\ Consistent(worker'[v])
              /\ \/ worker'[v].job = NoJob
                 \/ worker'[v].job = worker[v].job /\ worker'[v].attempt = worker[v].attempt
BY DEF Inv, TypeOK

\* A completion ends the lease of the job.
LEMMA CompleteInv ==
  ASSUME Inv, NEW w \in Owners, completeOrchestrationJob(w)
  PROVE  Inv'
<1> DEFINE j == worker[w].job
<1> USE DEF completeOrchestrationJob
<1>1. TypeOK /\ worker[w] \in WorkerState /\ Consistent(worker[w])
  BY DEF Inv, TypeOK
<1>2. j \in Jobs
  BY <1>1 DEF Consistent, WorkerState
<1>3. CASE leaseHeld(j, w)
  <2>1. /\ released(table[j], "completed") \in Row
        /\ QuietRow(table[j], released(table[j], "completed"))
    <3>1. 0 \in Int
      OBVIOUS
    <3> QED
      BY <1>1, <1>2, <3>1, SettledRow DEF QuietRow
  <2>2. table' = [table EXCEPT ![j] = released(table[j], "completed")] /\ release(w, FALSE)
    BY <1>3
  <2>3. TypeOK' /\ \A k \in Jobs : QuietRow(table[k], table'[k])
    BY <1>1, <1>2, <2>1, <2>2, ReleaseWorker DEF TypeOK, QuietRow
  <2> QED
    BY <2>2, <2>3, ReleaseWorker, QuietStep
<1>4. CASE ~leaseHeld(j, w)
  <2> DEFINE x == [worker[w] EXCEPT !.phase = "failing"]
  <2>1. x \in WorkerState /\ Consistent(x) /\ x.job = worker[w].job /\ x.attempt = worker[w].attempt
    BY <1>1 DEF WorkerState, Phases, Consistent
  <2>2. worker' = [worker EXCEPT ![w] = x] /\ table' = table
    BY <1>4
  <2> HIDE DEF x
  <2>3. TypeOK' /\ \A k \in Jobs : QuietRow(table[k], table'[k])
    BY <1>1, <2>1, <2>2, KeepWorker DEF TypeOK, QuietRow
  <2> QED
    BY <2>1, <2>2, <2>3, KeepWorker, QuietStep
<1> QED
  BY <1>3, <1>4

\* A failure ends the lease: the job waits for its next attempt or has failed.
LEMMA FailInv ==
  ASSUME Inv, NEW w \in Owners, failOrchestrationJob(w)
  PROVE  Inv'
<1> DEFINE j == worker[w].job
           d == retryDelay(w, worker[w].attempt)
<1> USE DEF failOrchestrationJob
<1>1. TypeOK /\ worker[w] \in WorkerState /\ Consistent(worker[w])
  BY DEF Inv, TypeOK
<1>2. j \in Jobs /\ worker[w].attempt \in Nat \ {0}
  BY <1>1, JobsAssumption DEF Consistent, WorkerState, Inv, AttemptCounted
<1>3. d \in Int
  BY <1>2, RetryDelayType
<1>4. release(w, TRUE)
  OBVIOUS
<1>5. \/ table' = [table EXCEPT ![j] = [released(table[j], "failed") EXCEPT !.availableAt = d]]
      \/ table' = table
  OBVIOUS
<1> HIDE DEF d
<1>6. /\ [released(table[j], "failed") EXCEPT !.availableAt = d] \in Row
      /\ QuietRow(table[j], [released(table[j], "failed") EXCEPT !.availableAt = d])
  BY <1>1, <1>2, <1>3, SettledRow
<1>7. TypeOK' /\ \A k \in Jobs : QuietRow(table[k], table'[k])
  BY <1>1, <1>2, <1>4, <1>5, <1>6, ReleaseWorker DEF TypeOK, QuietRow
<1> QED
  BY <1>4, <1>7, ReleaseWorker, QuietStep

\* The handler throws: the process moves on to its catch block.
LEMMA ThrowsInv ==
  ASSUME Inv, NEW w \in Owners, processThrows(w)
  PROVE  Inv'
<1> DEFINE x == [worker[w] EXCEPT !.phase = "failing"]
<1>1. worker[w] \in WorkerState /\ Consistent(worker[w]) /\ TypeOK
  BY DEF Inv, TypeOK
<1>2. x \in WorkerState /\ Consistent(x) /\ x.job = worker[w].job /\ x.attempt = worker[w].attempt
  BY <1>1 DEF WorkerState, Phases, Consistent, processThrows
<1>3. worker' = [worker EXCEPT ![w] = x] /\ table' = table
  BY DEF processThrows
<1> HIDE DEF x
<1>4. TypeOK' /\ \A k \in Jobs : QuietRow(table[k], table'[k])
  BY <1>1, <1>2, <1>3, KeepWorker DEF TypeOK, QuietRow
<1> QED
  BY <1>2, <1>3, <1>4, KeepWorker, QuietStep

\* The failing UPDATE is lost: the row keeps a lease nobody works under.
LEMMA LostInv ==
  ASSUME Inv, NEW w \in Owners, settlementLost(w)
  PROVE  Inv'
<1>1. release(w, TRUE) /\ table' = table
  BY DEF settlementLost
<1>2. TypeOK' /\ \A k \in Jobs : QuietRow(table[k], table'[k])
  BY <1>1, ReleaseWorker DEF Inv, TypeOK, QuietRow
<1> QED
  BY <1>1, <1>2, ReleaseWorker, QuietStep

\* The SELECT of a heartbeat.
LEMMA RenewAssertInv ==
  ASSUME Inv, NEW w \in Owners, renewAssert(w)
  PROVE  Inv'
<1> DEFINE x == [worker[w] EXCEPT !.heartbeat = TRUE]
<1>1. worker[w] \in WorkerState /\ Consistent(worker[w]) /\ TypeOK
  BY DEF Inv, TypeOK
<1>2. x \in WorkerState /\ Consistent(x) /\ x.job = worker[w].job /\ x.attempt = worker[w].attempt
  BY <1>1 DEF WorkerState, Phases, Consistent, renewAssert
<1>3. worker' = [worker EXCEPT ![w] = x] /\ table' = table
  BY DEF renewAssert
<1> HIDE DEF x
<1>4. TypeOK' /\ \A k \in Jobs : QuietRow(table[k], table'[k])
  BY <1>1, <1>2, <1>3, KeepWorker DEF TypeOK, QuietRow
<1> QED
  BY <1>2, <1>3, <1>4, KeepWorker, QuietStep

\* The UPDATE of a heartbeat: at most the expiry of one row moves.
LEMMA RenewUpdateInv ==
  ASSUME Inv, NEW w \in Owners, renewUpdate(w)
  PROVE  Inv'
<1> DEFINE x == [worker[w] EXCEPT !.heartbeat = FALSE]
           j == worker[w].job
           r == [table[j] EXCEPT !.expiresAt = LeaseTicks]
<1>1. worker[w] \in WorkerState /\ Consistent(worker[w]) /\ TypeOK
  BY DEF Inv, TypeOK
<1>2. x \in WorkerState /\ Consistent(x) /\ x.job = worker[w].job /\ x.attempt = worker[w].attempt
  BY <1>1 DEF WorkerState, Consistent
<1>3. j \in Jobs
  BY <1>1 DEF renewUpdate, Consistent, WorkerState
<1>4. r \in Row /\ QuietRow(table[j], r)
  BY <1>1, <1>3, JobsAssumption DEF Row, QuietRow, TypeOK
<1>5. worker' = [worker EXCEPT ![w] = x]
  BY DEF renewUpdate
<1>6. table' = table \/ table' = [table EXCEPT ![j] = r]
  BY DEF renewUpdate
<1> HIDE DEF x, j, r
<1>7. TypeOK' /\ \A k \in Jobs : QuietRow(table[k], table'[k])
  BY <1>1, <1>2, <1>3, <1>4, <1>5, <1>6, KeepWorker DEF TypeOK, QuietRow
<1> QED
  BY <1>2, <1>5, <1>7, KeepWorker, QuietStep

\* A process that leaves its job, or had none, whatever the reason.
LEMMA DropInv ==
  ASSUME Inv, NEW w \in Owners, NEW p \in {"idle", "stopped"},
         worker' = [worker EXCEPT ![w] = AtRest(p)], UNCHANGED table
  PROVE  Inv'
<1>1. AtRest(p) \in WorkerState /\ AtRest(p).job = NoJob /\ Consistent(AtRest(p))
  BY AtRestType
<1>2. TypeOK' /\ \A k \in Jobs : QuietRow(table[k], table'[k])
  BY <1>1 DEF Inv, TypeOK, QuietRow
<1>3. \A v \in Owners : /\ Consistent(worker'[v])
                         /\ \/ worker'[v].job = NoJob
                            \/ worker'[v].job = worker[v].job /\ worker'[v].attempt = worker[v].attempt
  BY <1>1 DEF Inv, TypeOK
<1> QED
  BY <1>2, <1>3, QuietStep

\* A worker that is told to stop is at rest, or finishes its job first.
LEMMA StopInv ==
  ASSUME Inv, NEW w \in Owners, stop(w)
  PROVE  Inv'
<1>1. CASE worker[w].job = NoJob
  BY <1>1, DropInv DEF stop
<1>2. CASE worker[w].job # NoJob
  <2> DEFINE x == [worker[w] EXCEPT !.closing = TRUE]
  <2>1. worker[w] \in WorkerState /\ Consistent(worker[w]) /\ TypeOK
    BY DEF Inv, TypeOK
  <2>2. x \in WorkerState /\ Consistent(x) /\ x.job = worker[w].job /\ x.attempt = worker[w].attempt
    BY <2>1 DEF WorkerState, Consistent
  <2>3. worker' = [worker EXCEPT ![w] = x] /\ table' = table
    BY <1>2 DEF stop
  <2> HIDE DEF x
  <2>4. TypeOK' /\ \A k \in Jobs : QuietRow(table[k], table'[k])
    BY <2>1, <2>2, <2>3, KeepWorker DEF TypeOK, QuietRow
  <2> QED
    BY <2>2, <2>3, <2>4, KeepWorker, QuietStep
<1> QED
  BY <1>1, <1>2

\* A process that dies forgets its claim; the row keeps the lease until it expires.
LEMMA CrashInv ==
  ASSUME Inv, NEW w \in Owners, crash(w)
  PROVE  Inv'
BY DropInv DEF crash

\* A trace sync that claimed nothing looks at the rows and goes on or ends.
LEMMA SyncChecksInv ==
  ASSUME Inv, NEW w \in Owners, syncChecks(w)
  PROVE  Inv'
<1> DEFINE busy == \E j \in TraceJobs : /\ table[j].state \notin {"absent", "completed"}
                                         /\ table[j].attempts < MaxAttempts
           p == IF busy THEN "idle" ELSE "stopped"
<1>1. p \in {"idle", "stopped"}
  OBVIOUS
<1>2. worker' = [worker EXCEPT ![w] = AtRest(p)] /\ UNCHANGED table
  BY DEF syncChecks
<1> HIDE DEF p
<1> QED
  BY <1>1, <1>2, DropInv

\* A claim that finds nothing may still have swept expired leases.
LEMMA ClaimNothingInv ==
  ASSUME Inv, NEW w \in Owners, worker[w].phase = "idle",
         table' = sweepExpired(Scope(w)),
         NEW p \in {"checking", "idle"}, worker' = [worker EXCEPT ![w].phase = p]
  PROVE  Inv'
<1> DEFINE x == [worker[w] EXCEPT !.phase = p]
<1>1. worker[w] \in WorkerState /\ Consistent(worker[w]) /\ TypeOK
  BY DEF Inv, TypeOK
<1>2. x \in WorkerState /\ Consistent(x) /\ x.job = worker[w].job /\ x.attempt = worker[w].attempt
  BY <1>1 DEF WorkerState, Phases, Consistent
<1>3. worker' = [worker EXCEPT ![w] = x]
  OBVIOUS
<1> HIDE DEF x
<1>4. table' \in [Jobs -> Row] /\ \A k \in Jobs : QuietRow(table[k], table'[k])
  BY <1>1, SweepFacts DEF QuietRow
<1>5. TypeOK'
  BY <1>2, <1>3, <1>4, KeepWorker DEF TypeOK
<1> QED
  BY <1>2, <1>3, <1>4, <1>5, KeepWorker, QuietStep

\* A claim that takes a job: its attempt is new, so no process has it yet.
LEMMA ClaimJobInv ==
  ASSUME Inv, NEW w \in Owners, worker[w].phase = "idle",
         NEW t, t = sweepExpired(Scope(w)),
         NEW j \in candidates(t, Scope(w)),
         table' = [t EXCEPT ![j] = leased(t[j], w)],
         worker' = [worker EXCEPT ![w] =
                      [worker[w] EXCEPT !.phase = "working", !.job = j,
                                        !.attempt = t[j].attempts + 1]]
  PROVE  Inv'
<1>1. TypeOK /\ worker[w] \in WorkerState /\ Consistent(worker[w])
  BY DEF Inv, TypeOK
<1>2. /\ t \in [Jobs -> Row]
      /\ \A k \in Jobs : /\ t[k].attempts = table[k].attempts
                         /\ t[k] = table[k] \/ t[k].state = "abandoned"
  BY <1>1, SweepFacts
<1>3. j \in Jobs /\ t[j].attempts < MaxAttempts
  BY JobsAssumption DEF candidates, Scope
<1>4. /\ leased(t[j], w) \in Row /\ leased(t[j], w).state = "leased"
      /\ leased(t[j], w).owner = w /\ leased(t[j], w).attempts = t[j].attempts + 1
  BY <1>2, <1>3, LeasedType
<1>5. t[j].attempts \in 0..MaxAttempts /\ table[j].attempts = t[j].attempts
  BY <1>2, <1>3 DEF Row
<1>6. worker[w].job = NoJob /\ ~worker[w].heartbeat
  BY <1>1 DEF Consistent, WorkerState
<1>7. /\ worker'[w] \in WorkerState /\ Consistent(worker'[w])
      /\ worker'[w].job = j /\ worker'[w].attempt = table[j].attempts + 1
  <2> SUFFICES ASSUME NEW x, x = [worker[w] EXCEPT !.phase = "working", !.job = j,
                                                   !.attempt = t[j].attempts + 1]
               PROVE  /\ x \in WorkerState /\ Consistent(x)
                      /\ x.job = j /\ x.attempt = table[j].attempts + 1
    BY <1>1 DEF TypeOK
  <2>1. /\ x.phase = "working" /\ x.job = j /\ x.attempt = t[j].attempts + 1
        /\ x.heartbeat = worker[w].heartbeat /\ x.closing = worker[w].closing
    BY <1>1 DEF WorkerState
  <2>2. x.attempt \in 0..MaxAttempts
    BY <2>1, <1>3, <1>5, JobsAssumption
  <2>3. /\ x.phase \in Phases /\ x.job \in Jobs \cup {NoJob}
        /\ x.heartbeat \in BOOLEAN /\ x.closing \in BOOLEAN
    BY <2>1, <1>1, <1>3 DEF WorkerState, Phases
  <2>4. x \in WorkerState
    BY <1>1, <2>1, <2>2, <2>3 DEF WorkerState
  <2>5. Consistent(x)
    BY <2>1, <1>3, <1>6, JobsAssumption DEF Consistent
  <2> QED
    BY <2>1, <2>4, <2>5, <1>5
<1>8. \A v \in Owners : v # w => worker'[v] = worker[v]
  BY <1>1 DEF TypeOK
<1>9. /\ table'[j].state = "leased" /\ table'[j].owner = w
      /\ table'[j].attempts = table[j].attempts + 1
      /\ \A k \in Jobs : k # j => table'[k] = t[k]
  BY <1>2, <1>3, <1>4, <1>5
<1>10. TypeOK'
  BY <1>1, <1>2, <1>3, <1>4, <1>7, <1>8 DEF TypeOK
<1>11. \A v \in Owners : Consistent(worker'[v])
  BY <1>7, <1>8 DEF Inv
<1>12. AttemptCounted'
  <2> SUFFICES ASSUME NEW v \in Owners, worker'[v].job # NoJob
               PROVE  /\ worker'[v].attempt >= 1
                      /\ worker'[v].attempt <= table'[worker'[v].job].attempts
    BY DEF AttemptCounted
  <2>1. CASE v = w
    BY <2>1, <1>5, <1>7, <1>9
  <2>2. CASE v # w
    <3>1. worker'[v] = worker[v] /\ worker[v].job \in Jobs /\ worker[v].attempt \in Int
      BY <2>2, <1>1, <1>8 DEF TypeOK, WorkerState
    <3>2. worker[v].attempt >= 1 /\ worker[v].attempt <= table[worker[v].job].attempts
      BY <3>1 DEF Inv, AttemptCounted
    <3>3. CASE worker[v].job = j
      BY <3>1, <3>2, <3>3, <1>5, <1>9
    <3>4. CASE worker[v].job # j
      <4>1. table'[worker[v].job].attempts = table[worker[v].job].attempts
        BY <3>1, <3>4, <1>2, <1>9
      <4> QED
        BY <3>1, <3>2, <4>1
    <3> QED
      BY <3>3, <3>4
  <2> QED
    BY <2>1, <2>2
<1>13. AbsentIsFresh'
  <2> SUFFICES ASSUME NEW k \in Jobs, table'[k].state = "absent"
               PROVE  table'[k].attempts = 0
    BY DEF AbsentIsFresh
  <2>1. k # j /\ table'[k] = t[k]
    BY <1>9
  <2>2. t[k] = table[k]
    BY <2>1, <1>2
  <2> QED
    BY <2>1, <2>2 DEF Inv, AbsentIsFresh
<1>14. LeaseNamesLatestClaim'
  <2> SUFFICES ASSUME NEW k \in Jobs, table'[k].state = "leased"
               PROVE  /\ table'[k].owner \in Owners
                      /\ \/ /\ worker'[table'[k].owner].job = k
                            /\ worker'[table'[k].owner].attempt = table'[k].attempts
                         \/ worker'[table'[k].owner].job # k
    BY DEF LeaseNamesLatestClaim
  <2>1. CASE k = j
    BY <2>1, <1>7, <1>9
  <2>2. CASE k # j
    <3>1. table'[k] = table[k]
      BY <2>2, <1>2, <1>9
    <3>2. CASE table[k].owner = w
      BY <2>2, <3>1, <3>2, <1>7
    <3>3. CASE table[k].owner # w
      BY <3>1, <3>3, <1>8 DEF Inv, LeaseNamesLatestClaim
    <3> QED
      BY <3>2, <3>3
  <2> QED
    BY <2>1, <2>2
<1>15. OneProcessPerAttempt'
  <2>1. ASSUME NEW v \in Owners, v # w, worker'[v].job = worker'[w].job
        PROVE  worker'[v].attempt # worker'[w].attempt
    <3>1. worker[v].job = j /\ j # NoJob /\ worker[v].attempt \in Int /\ worker'[v] = worker[v]
      BY <2>1, <1>1, <1>3, <1>7, <1>8, JobsAssumption DEF TypeOK, WorkerState
    <3>2. worker[v].attempt <= table[j].attempts
      BY <3>1 DEF Inv, AttemptCounted
    <3>3. table[j].attempts \in Int
      BY <1>5, JobsAssumption
    <3>4. worker'[v].attempt = worker[v].attempt /\ worker'[w].attempt = table[j].attempts + 1
      BY <3>1, <1>7
    <3> QED
      BY <3>1, <3>2, <3>3, <3>4
  <2>2. ASSUME NEW u \in Owners, NEW v \in Owners, u # v, u # w, v # w,
               worker'[u].job = worker'[v].job, worker'[u].job # NoJob
        PROVE  worker'[u].attempt # worker'[v].attempt
    BY <2>2, <1>8 DEF Inv, OneProcessPerAttempt
  <2> QED
    BY <2>1, <2>2 DEF OneProcessPerAttempt
<1> QED
  BY <1>10, <1>11, <1>12, <1>13, <1>14, <1>15 DEF Inv

\* The only step that begins an attempt.
LEMMA ClaimInv ==
  ASSUME Inv, NEW w \in Owners, claimOrchestrationJobs(w)
  PROVE  Inv'
<1> DEFINE t == sweepExpired(Scope(w))
           p == IF w \in Syncs THEN "checking" ELSE "idle"
<1>1. worker[w].phase = "idle" /\ p \in {"checking", "idle"}
  BY DEF claimOrchestrationJobs
<1>2. CASE table' = t /\ worker' = [worker EXCEPT ![w].phase = p]
  BY <1>1, <1>2, ClaimNothingInv
<1>3. CASE \E j \in candidates(t, Scope(w)) :
             /\ table' = [t EXCEPT ![j] = leased(t[j], w)]
             /\ worker' = [worker EXCEPT ![w] =
                             [worker[w] EXCEPT !.phase = "working", !.job = j,
                                               !.attempt = t[j].attempts + 1]]
  BY <1>1, <1>3, ClaimJobInv
<1> QED
  BY <1>2, <1>3 DEF claimOrchestrationJobs

-----------------------------------------------------------------------------
\* Every step keeps the invariant.
LEMMA NextInv == Inv /\ [Next]_vars => Inv'
<1> SUFFICES ASSUME Inv, [Next]_vars PROVE Inv'
  OBVIOUS
<1>1. CASE Tick
  BY <1>1, TickInv
<1>2. ASSUME NEW j \in Jobs, enqueueOrchestrationJob(j) PROVE Inv'
  BY <1>2, EnqueueInv
<1>3. ASSUME NEW w \in Owners, claimOrchestrationJobs(w) PROVE Inv'
  BY <1>3, ClaimInv
<1>4. ASSUME NEW w \in Owners, completeOrchestrationJob(w) PROVE Inv'
  BY <1>4, CompleteInv
<1>5. ASSUME NEW w \in Owners, processThrows(w) PROVE Inv'
  BY <1>5, ThrowsInv
<1>6. ASSUME NEW w \in Owners, failOrchestrationJob(w) PROVE Inv'
  BY <1>6, FailInv
<1>7. ASSUME NEW w \in Owners, settlementLost(w) PROVE Inv'
  BY <1>7, LostInv
<1>8. ASSUME NEW w \in Owners, renewAssert(w) PROVE Inv'
  BY <1>8, RenewAssertInv
<1>9. ASSUME NEW w \in Owners, renewUpdate(w) PROVE Inv'
  BY <1>9, RenewUpdateInv
<1>10. ASSUME NEW w \in Owners, stop(w) PROVE Inv'
  BY <1>10, StopInv
<1>11. ASSUME NEW w \in Owners, crash(w) PROVE Inv'
  BY <1>11, CrashInv
<1>12. ASSUME NEW w \in Owners, syncChecks(w) PROVE Inv'
  BY <1>12, SyncChecksInv
<1>13. CASE UNCHANGED vars
  BY <1>13 DEF vars, Inv, TypeOK, AttemptCounted, AbsentIsFresh,
               LeaseNamesLatestClaim, OneProcessPerAttempt
<1> QED
  BY <1>1, <1>2, <1>3, <1>4, <1>5, <1>6, <1>7, <1>8, <1>9, <1>10, <1>11, <1>12, <1>13
     DEF Next

\* Inv holds in every reachable state.
LEMMA Invariance == Spec => []Inv
BY InitInv, NextInv, PTL DEF Spec

\* Rows and processes of the queue keep their types.
THEOREM JobsTypeCorrect == Spec => []TypeOK
<1>1. Inv => TypeOK
  BY DEF Inv
<1> QED
  BY <1>1, Invariance, PTL

\* A live lease names the latest claim of its row: for every number of
\* processes, lease length and attempt limit of jobs.ts.
THEOREM LeaseCorrect == Spec => []LeaseNamesLatestClaim
<1>1. Inv => LeaseNamesLatestClaim
  BY DEF Inv
<1> QED
  BY <1>1, Invariance, PTL

\* No two processes ever work on the same attempt of a job.
THEOREM AttemptsExclusive == Spec => []OneProcessPerAttempt
<1>1. Inv => OneProcessPerAttempt
  BY DEF Inv
<1> QED
  BY <1>1, Invariance, PTL

-----------------------------------------------------------------------------
\* A superseded process no longer owns a lease on the row of its job.
LEMMA SupersededLostLease ==
  ASSUME Inv, NEW w \in Owners, superseded(w)
  PROVE  /\ worker[w].job \in Jobs
         /\ worker[w].phase # "idle"
         /\ ~(table[worker[w].job].state = "leased" /\ table[worker[w].job].owner = w)
<1>1. worker[w].job \in Jobs /\ worker[w].phase # "idle"
  BY DEF Inv, TypeOK, WorkerState, superseded, Consistent
<1> QED
  BY <1>1 DEF Inv, LeaseNamesLatestClaim, superseded

\* The processes other than the one that takes a step are left alone.
LEMMA OthersUntouched ==
  ASSUME Inv, NEW v \in Owners, NEW w \in Owners, worker'[w] # worker[w],
         \/ claimOrchestrationJobs(v) \/ completeOrchestrationJob(v) \/ processThrows(v)
         \/ failOrchestrationJob(v) \/ settlementLost(v) \/ renewAssert(v)
         \/ renewUpdate(v) \/ stop(v) \/ crash(v) \/ syncChecks(v)
  PROVE  v = w
BY DEF Inv, TypeOK, claimOrchestrationJobs, completeOrchestrationJob, processThrows,
   failOrchestrationJob, settlementLost, renewAssert, renewUpdate, stop, crash,
   syncChecks, release

\* A step of a process that was superseded leaves the row of its job alone.
LEMMA SupersededStep ==
  Inv /\ [Next]_vars =>
    \A w \in Owners : (superseded(w) /\ worker'[w] # worker[w])
        => table'[worker[w].job] = table[worker[w].job]
<1> SUFFICES ASSUME Inv, [Next]_vars, NEW w \in Owners, superseded(w), worker'[w] # worker[w]
             PROVE  table'[worker[w].job] = table[worker[w].job]
  OBVIOUS
<1>1. /\ worker[w].job \in Jobs /\ worker[w].phase # "idle"
      /\ ~(table[worker[w].job].state = "leased" /\ table[worker[w].job].owner = w)
  BY SupersededLostLease
<1>2. ~leaseHeld(worker[w].job, w)
  BY <1>1 DEF leaseHeld
<1>3. ~Tick /\ ~(\E j \in Jobs : enqueueOrchestrationJob(j)) /\ ~UNCHANGED vars
  BY DEF Tick, enqueueOrchestrationJob, vars
<1>4. PICK v \in Owners :
         \/ claimOrchestrationJobs(v) \/ completeOrchestrationJob(v) \/ processThrows(v)
         \/ failOrchestrationJob(v) \/ settlementLost(v) \/ renewAssert(v)
         \/ renewUpdate(v) \/ stop(v) \/ crash(v) \/ syncChecks(v)
  BY <1>3 DEF Next
<1>5. v = w
  BY <1>4, OthersUntouched
<1>6. ~claimOrchestrationJobs(w)
  BY <1>1 DEF claimOrchestrationJobs
<1>7. completeOrchestrationJob(w) \/ failOrchestrationJob(w) => table' = table
  BY <1>2 DEF completeOrchestrationJob, failOrchestrationJob
<1>8. renewUpdate(w) => table' = table
  BY <1>1 DEF renewUpdate
<1>9. processThrows(w) \/ settlementLost(w) \/ renewAssert(w) \/ stop(w) \/ crash(w) \/ syncChecks(w)
      => table' = table
  BY DEF processThrows, settlementLost, renewAssert, stop, crash, syncChecks
<1> QED
  BY <1>4, <1>5, <1>6, <1>7, <1>8, <1>9

\* A process whose job was claimed again never writes its row: late
\* completions, failures and heartbeats are all refused by the owner test.
THEOREM SupersededSafe == Spec => SupersededNeverWrites
<1>1. Inv /\ [Next]_vars =>
       [\A w \in Owners : (superseded(w) /\ worker'[w] # worker[w])
            => table'[worker[w].job] = table[worker[w].job]]_vars
  BY SupersededStep
<1> QED
  BY <1>1, Invariance, PTL DEF Spec, SupersededNeverWrites

\* No statement of the queue touches a completed row.
LEMMA CompletedStep ==
  Inv /\ [Next]_vars =>
    \A j \in Jobs : table[j].state = "completed"
        => table'[j].state = "completed" /\ table'[j].attempts = table[j].attempts
<1> SUFFICES ASSUME Inv, [Next]_vars, NEW j \in Jobs, table[j].state = "completed"
             PROVE  table'[j].state = "completed" /\ table'[j].attempts = table[j].attempts
  OBVIOUS
<1>1. TypeOK /\ table[j] \in Row
  BY DEF Inv, TypeOK
<1>2. CASE Tick
  <2> DEFINE a == Elapse(table[j].availableAt)
             e == IF table[j].state = "leased" /\ table[j].expiresAt > 0
                  THEN table[j].expiresAt - 1 ELSE table[j].expiresAt
  <2>1. table'[j] = [table[j] EXCEPT !.availableAt = a, !.expiresAt = e]
    BY <1>2 DEF Tick
  <2> HIDE DEF a, e
  <2> QED
    BY <1>1, <2>1 DEF Row
<1>3. ASSUME NEW k \in Jobs, enqueueOrchestrationJob(k)
      PROVE  table'[j] = table[j]
  BY <1>1, <1>3 DEF enqueueOrchestrationJob, TypeOK
<1>4. ASSUME NEW w \in Owners, claimOrchestrationJobs(w)
      PROVE  table'[j] = table[j]
  <2>1. sweepExpired(Scope(w))[j] = table[j]
    BY DEF sweepExpired
  <2>2. j \notin candidates(sweepExpired(Scope(w)), Scope(w))
    BY <2>1 DEF candidates, Claimable
  <2>3. sweepExpired(Scope(w)) \in [Jobs -> Row]
    BY <1>1, SweepFacts
  <2> QED
    BY <1>4, <2>1, <2>2, <2>3 DEF claimOrchestrationJobs
<1>5. ASSUME NEW w \in Owners,
             completeOrchestrationJob(w) \/ failOrchestrationJob(w) \/ renewUpdate(w)
      PROVE  table'[j] = table[j]
  BY <1>1, <1>5 DEF completeOrchestrationJob, failOrchestrationJob, renewUpdate,
                    leaseHeld, TypeOK
<1>6. ASSUME NEW w \in Owners,
             \/ processThrows(w) \/ settlementLost(w) \/ renewAssert(w)
             \/ stop(w) \/ crash(w) \/ syncChecks(w)
      PROVE  table'[j] = table[j]
  BY <1>6 DEF processThrows, settlementLost, renewAssert, stop, crash, syncChecks
<1>7. CASE UNCHANGED vars
  BY <1>7 DEF vars
<1> QED
  BY <1>2, <1>3, <1>4, <1>5, <1>6, <1>7 DEF Next

\* A completed job is never run, failed or enqueued again.
THEOREM CompletedStays == Spec => CompletedIsFinal
<1>1. Inv /\ [Next]_vars =>
       [\A j \in Jobs : table[j].state = "completed"
            => table'[j].state = "completed" /\ table'[j].attempts = table[j].attempts]_vars
  BY CompletedStep
<1> QED
  BY <1>1, Invariance, PTL DEF Spec, CompletedIsFinal
=============================================================================
