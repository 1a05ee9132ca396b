-------------------------- MODULE OrchestrationJobs --------------------------
(***************************************************************************)
(* The leased job queue of src/orchestration: the orchestration_jobs table *)
(* (jobs.ts), the background worker of every MCP process (worker.ts) and   *)
(* the explicit trace synchroniser that shares the queue (trace/sync.ts).  *)
(*                                                                         *)
(* A job stands for its unique key (kind, input_digest).  A worker stands  *)
(* for its owner token, a fresh UUID per worker instance, so a restarted   *)
(* process is another element of Workers.  Every time column is kept       *)
(* relative to the present: Tick moves the present, 0 is "now", and values *)
(* older than Horizon ticks are not told apart.                            *)
(***************************************************************************)
EXTENDS Integers, FiniteSets

CONSTANTS Jobs,        \* keys (kind, input_digest) of possible jobs
          TraceJobs,   \* the ones of kind trace_ingestion
          Workers,     \* owner tokens of background workers
          Syncs,       \* owner tokens of trace-sync commands
          Reliable,    \* workers that are never stopped and never crash
          NoOwner,     \* SQL NULL in lease_owner
          NoJob,       \* a worker that processes nothing
          MaxAttempts, \* attempts < 20 in the claim query
          LeaseTicks,  \* leaseMs of a claim, and of a renewal
          BackoffBase, \* 1_000 ms of the retry delay
          BackoffCap,  \* its cap of 60_000 ms
          SyncRetry,   \* the fixed retry delay of trace sync
          Horizon      \* how far into the past times are told apart

Owners == Workers \cup Syncs

ASSUME JobsAssumption ==
  /\ TraceJobs \subseteq Jobs
  /\ Workers \cap Syncs = {}
  /\ Reliable \subseteq Workers
  /\ NoOwner \notin Owners
  /\ NoJob \notin Jobs
  /\ MaxAttempts \in Nat \ {0}
  /\ LeaseTicks \in Nat \ {0}
  /\ BackoffBase \in Nat
  /\ BackoffCap \in Nat
  /\ SyncRetry \in Nat
  /\ Horizon \in Nat

VARIABLES
  table,   \* Jobs -> row of orchestration_jobs
  worker   \* Owners -> what the process with that owner token is doing

vars == <<table, worker>>

JobStates == {"absent", "pending", "leased", "completed", "failed", "abandoned"}
Phases == {"idle", "checking", "working", "failing", "stopped"}

Row == [state : JobStates, attempts : 0..MaxAttempts, availableAt : Int,
        owner : Owners \cup {NoOwner}, expiresAt : Int]

WorkerState == [phase : Phases, job : Jobs \cup {NoJob}, attempt : 0..MaxAttempts,
                heartbeat : BOOLEAN, closing : BOOLEAN]

TypeOK == /\ table \in [Jobs -> Row]
          /\ worker \in [Owners -> WorkerState]

NoRow == [state |-> "absent", attempts |-> 0, availableAt |-> 0,
          owner |-> NoOwner, expiresAt |-> 0]

AtRest(phase) == [phase |-> phase, job |-> NoJob, attempt |-> 0,
                  heartbeat |-> FALSE, closing |-> FALSE]

Init == /\ table = [j \in Jobs |-> NoRow]
        /\ worker = [w \in Owners |-> AtRest("idle")]

-----------------------------------------------------------------------------
(***************************************************************************)
(* The statements of jobs.ts, as functions of the table.                   *)
(***************************************************************************)
Claimable == {"pending", "failed", "abandoned"}

\* Slip: a settlement that trusts any live lease, whoever holds it.
leaseHeldByAnyone(j, w) == table[j].state = "leased" /\ table[j].expiresAt > 0

\* assertOrchestrationJobLease, also the WHERE clause of both settlements.
leaseHeld(j, w) == /\ table[j].state = "leased"
                   /\ table[j].owner = w
                   /\ table[j].expiresAt > 0

\* SET state = s, lease_owner = NULL, lease_expires_at = NULL.
released(r, s) == [r EXCEPT !.state = s, !.owner = NoOwner, !.expiresAt = 0]

\* Slip: the claim forgets attempts = attempts + 1.
leasedUncounted(r, w) == [r EXCEPT !.state = "leased", !.owner = w, !.expiresAt = LeaseTicks]

\* SET state = 'leased', attempts = attempts + 1 and a fresh lease of w.
leased(r, w) == [r EXCEPT !.state = "leased", !.attempts = @ + 1,
                          !.owner = w, !.expiresAt = LeaseTicks]

\* The traceScope of trace sync; a background worker claims every kind.
Scope(w) == IF w \in Syncs THEN TraceJobs ELSE Jobs

\* Slip: expired leases are never swept.
sweepNothing(scope) == table

\* The first UPDATE of a claim: expired leases in scope become abandoned.
sweepExpired(scope) ==
  [j \in Jobs |->
     IF j \in scope /\ table[j].state = "leased" /\ table[j].expiresAt <= 0
     THEN released(table[j], "abandoned")
     ELSE table[j]]

\* The rows a claim may take from table t: the earliest available one.  The
\* last sort key is a random UUID, so equal times leave the order open.
candidates(t, scope) ==
  LET open == {j \in scope : /\ t[j].state \in Claimable
                             /\ t[j].attempts < MaxAttempts
                             /\ t[j].availableAt <= 0}
  IN  {j \in open : \A k \in open : t[j].availableAt <= t[k].availableAt}

MinOf(a, b) == IF a <= b THEN a ELSE b

\* Math.min(60_000, 1_000 * 2 ** Math.min(attempts, 6)); attempts >= 1 here.
Doubling == <<2, 4, 8, 16, 32, 64>>
retryDelay(w, attempt) ==
  IF w \in Syncs THEN SyncRetry
  ELSE MinOf(BackoffCap, BackoffBase * Doubling[MinOf(attempt, 6)])

-----------------------------------------------------------------------------
(***************************************************************************)
(* Actions.                                                                *)
(***************************************************************************)
\* INSERT ... ON CONFLICT(kind, input_digest) DO NOTHING.
enqueueOrchestrationJob(j) ==
  /\ table' = IF table[j].state = "absent"
              THEN [table EXCEPT ![j] = [NoRow EXCEPT !.state = "pending"]]
              ELSE table
  /\ UNCHANGED worker

\* One immediate transaction: sweep, choose, lease (limit 1).
claimOrchestrationJobs(w) ==
  LET swept == sweepExpired(Scope(w)) IN
  /\ worker[w].phase = "idle"
  /\ \/ /\ candidates(swept, Scope(w)) = {}
        /\ table' = swept
        /\ worker' = [worker EXCEPT ![w].phase = IF w \in Syncs THEN "checking" ELSE "idle"]
     \/ \E j \in candidates(swept, Scope(w)) :
          /\ table' = [swept EXCEPT ![j] = leased(@, w)]
          /\ worker' = [worker EXCEPT ![w] =
                          [@ EXCEPT !.phase = "working", !.job = j,
                                    !.attempt = swept[j].attempts + 1]]

\* What the process does once its job is settled or given up: the worker
\* goes back to its timer unless it is closing; a sync ends on any error.
release(w, failed) ==
  worker' = [worker EXCEPT ![w] =
               AtRest(IF worker[w].closing \/ (failed /\ w \in Syncs)
                      THEN "stopped" ELSE "idle")]

\* The handler returned; CONFLICT on a stale lease falls into the catch block.
completeOrchestrationJob(w) ==
  LET j == worker[w].job IN
  /\ worker[w].phase = "working"
  /\ ~worker[w].heartbeat
  /\ IF leaseHeld(j, w)
     THEN /\ table' = [table EXCEPT ![j] = released(@, "completed")]
          /\ release(w, FALSE)
     ELSE /\ worker' = [worker EXCEPT ![w].phase = "failing"]
          /\ UNCHANGED table

\* The handler threw, was aborted, or the completing UPDATE met a lock error.
processThrows(w) ==
  /\ worker[w].phase = "working"
  /\ ~worker[w].heartbeat
  /\ worker' = [worker EXCEPT ![w].phase = "failing"]
  /\ UNCHANGED table

\* The catch block; a stale lease only reaches onError.
failOrchestrationJob(w) ==
  LET j == worker[w].job IN
  /\ worker[w].phase = "failing"
  /\ table' = IF leaseHeld(j, w)
              THEN [table EXCEPT ![j] =
                      [released(@, "failed") EXCEPT
                         !.availableAt = retryDelay(w, worker[w].attempt)]]
              ELSE table
  /\ release(w, TRUE)

\* The failing UPDATE itself met a lock error: the row keeps its lease.
settlementLost(w) ==
  /\ worker[w].phase = "failing"
  /\ release(w, TRUE)
  /\ UNCHANGED table

\* renewOrchestrationJobLease is a SELECT and an UPDATE of their own; other
\* processes may run in between, this one may not.  When the SELECT finds the
\* lease stale the handler is aborted, which is processThrows or, if it was
\* past its last check, completeOrchestrationJob.
renewAssert(w) ==
  /\ worker[w].phase = "working"
  /\ worker[w].job \in TraceJobs
  /\ ~worker[w].heartbeat
  /\ leaseHeld(worker[w].job, w)
  /\ worker' = [worker EXCEPT ![w].heartbeat = TRUE]
  /\ UNCHANGED table

\* Slip: the renewal takes the lease back by id alone.
renewById(w) ==
  /\ worker[w].heartbeat
  /\ table' = [table EXCEPT ![worker[w].job] =
                 [@ EXCEPT !.state = "leased", !.owner = w, !.expiresAt = LeaseTicks]]
  /\ worker' = [worker EXCEPT ![w].heartbeat = FALSE]

\* The UPDATE tests state and owner, not the expiry.
renewUpdate(w) ==
  LET j == worker[w].job IN
  /\ worker[w].heartbeat
  /\ table' = IF table[j].state = "leased" /\ table[j].owner = w
              THEN [table EXCEPT ![j].expiresAt = LeaseTicks]
              ELSE table
  /\ worker' = [worker EXCEPT ![w].heartbeat = FALSE]

\* stop() of the worker, or the timeout of a sync: no further claim.  A job
\* in progress is settled first; a trace job is aborted, as above.
stop(w) ==
  /\ w \notin Reliable
  /\ worker[w].phase # "stopped"
  /\ ~worker[w].closing
  /\ ~worker[w].heartbeat
  /\ worker' = [worker EXCEPT ![w] =
                  IF worker[w].job = NoJob THEN AtRest("stopped")
                  ELSE [@ EXCEPT !.closing = TRUE]]
  /\ UNCHANGED table

\* The process dies; what it had committed stays in the table.
crash(w) ==
  /\ w \notin Reliable
  /\ worker[w].phase # "stopped"
  /\ worker' = [worker EXCEPT ![w] = AtRest("stopped")]
  /\ UNCHANGED table

\* A sync that could claim nothing leaves its loop, unless a job of its scope
\* can still run: then it waits and polls again.
syncChecks(w) ==
  LET busy == \E j \in TraceJobs : /\ table[j].state \notin {"absent", "completed"}
                                   /\ table[j].attempts < MaxAttempts
  IN  /\ worker[w].phase = "checking"
      /\ worker' = [worker EXCEPT ![w] = AtRest(IF busy THEN "idle" ELSE "stopped")]
      /\ UNCHANGED table

Elapse(t) == IF t > -Horizon THEN t - 1 ELSE t

\* One tick of wall-clock time, as every timestamp sees it.
Tick == /\ table' = [j \in Jobs |->
                       [table[j] EXCEPT !.availableAt = Elapse(@),
                                        !.expiresAt = IF table[j].state = "leased" /\ @ > 0
                                                      THEN @ - 1 ELSE @]]
        /\ UNCHANGED worker

Settle(w) == completeOrchestrationJob(w) \/ failOrchestrationJob(w)

Next == \/ Tick
        \/ \E j \in Jobs : enqueueOrchestrationJob(j)
        \/ \E w \in Owners :
             \/ claimOrchestrationJobs(w)
             \/ completeOrchestrationJob(w)
             \/ processThrows(w)
             \/ failOrchestrationJob(w)
             \/ settlementLost(w)
             \/ renewAssert(w)
             \/ renewUpdate(w)
             \/ stop(w)
             \/ crash(w)
             \/ syncChecks(w)

Spec == Init /\ [][Next]_vars

(***************************************************************************)
(* The MCP process runs its timer for as long as it lives, wall-clock time *)
(* passes, and a handler that is called returns or throws however often a  *)
(* heartbeat of its own process runs in between.                           *)
(***************************************************************************)
Fairness == /\ WF_vars(Tick)
            /\ \A w \in Owners : /\ SF_vars(Settle(w))
                                 /\ WF_vars(renewUpdate(w))
            /\ \A w \in Reliable : WF_vars(claimOrchestrationJobs(w))

FairSpec == Spec /\ Fairness

-----------------------------------------------------------------------------
(***************************************************************************)
(* Properties.                                                             *)
(***************************************************************************)
\* A worker was superseded when its job was claimed again after its own claim.
superseded(w) == /\ worker[w].job # NoJob
                 /\ worker[w].attempt # table[worker[w].job].attempts

\* A live lease always names the process that made the latest claim of the
\* row, still working on that very attempt, or a process that is gone: the
\* claim, renewal and settlement statements never leave the lease with a
\* process that has lost track of it.
LeaseNamesLatestClaim ==
  \A j \in Jobs : table[j].state = "leased" =>
    LET w == table[j].owner IN
      /\ w \in Owners
      /\ \/ worker[w].job = j /\ worker[w].attempt = table[j].attempts
         \/ worker[w].job # j

\* While a process works on attempt n of a job the row is never back in a
\* state of an earlier attempt, and once the row is leased for attempt n the
\* holder of attempt n is the only process that has it: two processes never
\* work on the same attempt.
OneProcessPerAttempt ==
  \A v, w \in Owners : (v # w /\ worker[v].job = worker[w].job /\ worker[v].job # NoJob)
                        => worker[v].attempt # worker[w].attempt

\* A superseded process never changes the row of its job, whatever order its
\* late completion, failure or heartbeat arrives in (the CONFLICT paths of
\* completeOrchestrationJob and failOrchestrationJob and the owner test of
\* the unguarded renewal UPDATE).
SupersededNeverWrites ==
  [][\A w \in Owners : (superseded(w) /\ worker'[w] # worker[w])
        => table'[worker[w].job] = table[worker[w].job]]_vars

\* A completed job stays completed: re-enqueueing its key, sweeping, late
\* workers and syncs leave the row alone (ON CONFLICT DO NOTHING).
CompletedIsFinal ==
  [][\A j \in Jobs : table[j].state = "completed"
        => table'[j].state = "completed" /\ table'[j].attempts = table[j].attempts]_vars

\* A job that was enqueued is eventually completed or has used up its
\* attempts, as long as one MCP process stays up: no crash, lost settlement
\* or overtaken lease leaves it leased or waiting for ever.
settled(j) == \/ table[j].state = "completed"
              \/ table[j].state \in {"failed", "abandoned"} /\ table[j].attempts = MaxAttempts
EveryJobSettles == \A j \in Jobs : (table[j].state # "absent") ~> settled(j)

=============================================================================
