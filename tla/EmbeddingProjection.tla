------------------------- MODULE EmbeddingProjection -------------------------
(***************************************************************************)
(* The semantic projection of src/embedding: the active profile and its    *)
(* generation, the embedding_jobs queue (jobs.ts), entry_embeddings        *)
(* (store.ts), the drains of MCP processes and of the embeddings command   *)
(* (runtime.ts) and of `setup` (setup-service.ts), against entries that    *)
(* are recorded, edited and purged meanwhile (memory/entries.ts).          *)
(*                                                                         *)
(* A revision's content hash is as unique as its number, so only the       *)
(* number is kept; a document stands for its hash.  A vector stands for    *)
(* the document it was computed from.  Times are relative to the present.  *)
(* A claim takes every claimable row (64 >= the rows).                     *)
(* Lease ids are only compared between a row and the claims on it, so one  *)
(* id per claim stands for its UUIDs, and an id that no row and no process *)
(* remembers may serve again.                                              *)
(***************************************************************************)
EXTENDS Integers, Sequences, FiniteSets

CONSTANTS Entries, Profiles, Docs,
          SecretDocs,    \* documents the secret scan refuses
          Runtimes,      \* processes with an embedding runtime
          Setups,        \* processes running `setup`
          Reliable,      \* runtimes that stay up
          None,          \* no active profile, no document
          MaxAttempts,   \* EMBEDDING_JOB_MAX_ATTEMPTS
          LeaseTicks,    \* EMBEDDING_JOB_LEASE_MS
          RetryBase, RetryMax,
          LeaseIds,      \* lease ids in use at one time
          MaxRevision, MaxGeneration   \* bounds of the instance

Procs == Runtimes \cup Setups

ASSUME EmbeddingAssumption ==
  /\ Runtimes \cap Setups = {} /\ Reliable \subseteq Runtimes
  /\ SecretDocs \subseteq Docs
  /\ None \notin Profiles \cup Docs \cup LeaseIds
  /\ MaxAttempts \in Nat \ {0} /\ LeaseTicks \in Nat \ {0}
  /\ RetryBase \in Nat /\ RetryMax \in Nat
  /\ MaxRevision \in Nat \ {0} /\ MaxGeneration \in Nat \ {0}

VARIABLES
  entry,       \* Entries -> the documents of its revisions, newest last
  purged,      \* entries that were deleted for good
  active,      \* embedding_runtime.active_profile_id
  generation,  \* embedding_runtime.generation
  job,         \* Entries -> Profiles -> row of embedding_jobs
  embedding,   \* Entries -> Profiles -> row of entry_embeddings
  proc         \* Procs -> what the process is doing

vars == <<entry, purged, active, generation, job, embedding, proc>>

Revisions == 0..MaxRevision
Vectors == Docs \cup {None}

JobRow == [state : {"none", "pending", "leased", "failed", "blocked"}, rev : Revisions,
           attempts : 0..MaxAttempts, wait : Nat, lease : LeaseIds \cup {None}, expires : Nat]
EmbeddingRow == [rev : Revisions, doc : Docs \cup {None}, vector : Vectors]
Claim == [entry : Entries, profile : Profiles, generation : 1..MaxGeneration,
          rev : Revisions, attempts : 0..MaxAttempts, lease : LeaseIds,
          stage : {"unread", "queued", "store", "fail"}, doc : Docs \cup {None},
          vector : Vectors, code : {"none", "retry", "permanent", "secret_blocked"}]
Proc == [phase : {"down", "open", "checked", "draining"}, profile : Profiles \cup {None},
         generation : 0..MaxGeneration, todo : SUBSET Claim]

NoJob == [state |-> "none", rev |-> 0, attempts |-> 0, wait |-> 0, lease |-> None, expires |-> 0]
NoEmbedding == [rev |-> 0, doc |-> None, vector |-> None]
Down == [phase |-> "down", profile |-> None, generation |-> 0, todo |-> {}]

TypeOK ==
  /\ entry \in [Entries -> Seq(Docs)] /\ \A e \in Entries : Len(entry[e]) \in Revisions
  /\ purged \subseteq Entries
  /\ active \in Profiles \cup {None} /\ generation \in 1..MaxGeneration
  /\ job \in [Entries -> [Profiles -> JobRow]]
  /\ embedding \in [Entries -> [Profiles -> EmbeddingRow]]
  /\ proc \in [Procs -> Proc]

Init ==
  /\ entry = [e \in Entries |-> <<>>] /\ purged = {}
  /\ active = None /\ generation = 1
  /\ job = [e \in Entries |-> [p \in Profiles |-> NoJob]]
  /\ embedding = [e \in Entries |-> [p \in Profiles |-> NoEmbedding]]
  /\ proc = [r \in Procs |-> Down]

Live(e) == entry[e] # <<>>
revision(e) == Len(entry[e])
document(e) == entry[e][Len(entry[e])]
MinOf(a, b) == IF a <= b THEN a ELSE b

-----------------------------------------------------------------------------
(***************************************************************************)
(* Entries, the active profile and the queue (entries.ts, store.ts).       *)
(***************************************************************************)
\* enqueueForProfile: ON CONFLICT DO UPDATE resets the whole row.
enqueueForProfile(row, rev) == [NoJob EXCEPT !.state = "pending", !.rev = rev]

enqueueCurrentEntry(e, rev) ==
  job' = IF active = None THEN job
         ELSE [job EXCEPT ![e][active] = enqueueForProfile(@, rev)]

enqueueAllCurrentEntries(p) ==
  job' = [e \in Entries |->
            IF Live(e) THEN [job[e] EXCEPT ![p] = enqueueForProfile(@, revision(e))]
            ELSE job[e]]

recordEntry(e, d) ==
  /\ ~Live(e) /\ e \notin purged
  /\ entry' = [entry EXCEPT ![e] = <<d>>]
  /\ enqueueCurrentEntry(e, 1)
  /\ UNCHANGED <<purged, active, generation, embedding, proc>>

\* Slip: an edit that forgets to enqueue its revision.
updateWithoutEnqueue(e, d) ==
  /\ Live(e) /\ revision(e) < MaxRevision
  /\ entry' = [entry EXCEPT ![e] = Append(@, d)]
  /\ UNCHANGED <<purged, active, generation, job, embedding, proc>>

\* updateCandidateEntry: an edit may leave the embedded document as it was.
updateCandidateEntry(e, d) ==
  /\ Live(e) /\ revision(e) < MaxRevision
  /\ entry' = [entry EXCEPT ![e] = Append(@, d)]
  /\ enqueueCurrentEntry(e, revision(e) + 1)
  /\ UNCHANGED <<purged, active, generation, embedding, proc>>

\* DELETE FROM entries cascades to revisions, jobs and vectors.
purgeEntry(e) ==
  /\ Live(e)
  /\ entry' = [entry EXCEPT ![e] = <<>>] /\ purged' = purged \cup {e}
  /\ job' = [job EXCEPT ![e] = [p \in Profiles |-> NoJob]]
  /\ embedding' = [embedding EXCEPT ![e] = [p \in Profiles |-> NoEmbedding]]
  /\ UNCHANGED <<active, generation, proc>>

\* The body of activateLocalEmbeddingProfileInTransaction once it switches;
\* the first activation keeps the generation.
switchProfile(p) ==
  /\ active # p
  /\ generation' = IF active = None THEN generation ELSE generation + 1
  /\ generation' <= MaxGeneration
  /\ active' = p
  /\ enqueueAllCurrentEntries(p)

activateLocalEmbeddingProfile(p) ==
  /\ switchProfile(p)
  /\ UNCHANGED <<entry, purged, embedding, proc>>

\* `embeddings rebuild`.
rebuild ==
  /\ active # None
  /\ enqueueAllCurrentEntries(active)
  /\ UNCHANGED <<entry, purged, active, generation, embedding, proc>>

-----------------------------------------------------------------------------
(***************************************************************************)
(* Processes.                                                              *)
(***************************************************************************)
Quiet == UNCHANGED <<entry, purged, active, generation>>

\* createEnabledRuntime, and the activation transaction of runEmbeddingSetup.
openRuntime(r) ==
  /\ r \in Runtimes /\ proc[r].phase = "down" /\ active # None
  /\ proc' = [proc EXCEPT ![r] = [Down EXCEPT !.phase = "open", !.profile = active,
                                              !.generation = generation]]
  /\ Quiet /\ UNCHANGED <<job, embedding>>

runEmbeddingSetup(s, p) ==
  /\ s \in Setups /\ proc[s].phase = "down"
  /\ \/ switchProfile(p)
     \/ active = p /\ UNCHANGED <<active, generation, job>>
  /\ proc' = [proc EXCEPT ![s] = [Down EXCEPT !.phase = "checked", !.profile = p,
                                              !.generation = generation']]
  /\ UNCHANGED <<entry, purged, embedding>>

\* ensureActive at the head of drain: a transaction of its own, before the
\* claim's.  A runtime of another profile or generation only reports an error.
ensureActive(r) ==
  /\ r \in Runtimes /\ proc[r].phase = "open"
  /\ active = proc[r].profile /\ generation = proc[r].generation
  /\ proc' = [proc EXCEPT ![r].phase = "checked"]
  /\ Quiet /\ UNCHANGED <<job, embedding>>

\* The WHERE clause of the claim.
claimable(row) ==
  \/ row.state = "pending" /\ row.wait = 0
  \/ row.state = "failed" /\ row.attempts < MaxAttempts /\ row.wait = 0
  \/ row.state = "leased" /\ row.attempts < MaxAttempts /\ row.expires = 0

\* Slip: expired leases are claimed whatever their attempts.
reclaimedForever(row, n) ==
  IF claimable(row) \/ (row.state = "leased" /\ row.expires = 0)
  THEN [row EXCEPT !.state = "leased", !.attempts = MinOf(@ + 1, MaxAttempts), !.wait = 0,
                   !.lease = n, !.expires = LeaseTicks]
  ELSE row

\* What claimInTransaction leaves of a row: a fresh lease, or a terminal
\* timeout for an expired lease without attempts left.
claimedRow(row, n) ==
  IF claimable(row)
  THEN [row EXCEPT !.state = "leased", !.attempts = @ + 1, !.wait = 0,
                   !.lease = n, !.expires = LeaseTicks]
  ELSE IF row.state = "leased" /\ row.attempts >= MaxAttempts /\ row.expires = 0
  THEN [row EXCEPT !.state = "failed", !.wait = 0, !.lease = None]
  ELSE row

UsedLeases == UNION {{job[e][p].lease : p \in Profiles} : e \in Entries}
              \cup UNION {{c.lease : c \in proc[r].todo} : r \in Procs}
leaseIdFactory == CHOOSE n \in LeaseIds : n \notin UsedLeases

\* The claim reads the active profile and the generation again.
claimEmbeddingJobs(r) ==
  /\ proc[r].phase = "checked" /\ active # None
  /\ ~(LeaseIds \subseteq UsedLeases)
  /\ job' = [e \in Entries |-> [job[e] EXCEPT ![active] = claimedRow(@, leaseIdFactory)]]
  /\ proc' = [proc EXCEPT ![r] =
       [@ EXCEPT !.phase = "draining",
                 !.todo = {[entry |-> e, profile |-> active, generation |-> generation,
                            rev |-> job[e][active].rev, attempts |-> job'[e][active].attempts,
                            lease |-> leaseIdFactory, stage |-> "unread", doc |-> None,
                            vector |-> None, code |-> "none"] :
                           e \in {f \in Entries : claimable(job[f][active])}}]]
  /\ Quiet /\ UNCHANGED embedding

Settling(r) == {c \in proc[r].todo : c.stage \in {"store", "fail"}}
Unread(r) == {c \in proc[r].todo : c.stage = "unread"}
Queued(r) == {c \in proc[r].todo : c.stage = "queued"}

\* The claim c of process r becomes d, or is done with when d is {}.
becomes(r, c, d) == proc' = [proc EXCEPT ![r].todo = (@ \ {c}) \cup d]

\* Slip: any earlier vector is carried over.
reusableAlways(previous, d) == previous.rev > 0

\* An unchanged document keeps its vector.
reusable(previous, d) == previous.doc = d

\* The first loop of drain, and the read of drainSetupJobs.  Setup neither
\* compares the revision nor reuses a vector, and embeds one job at a time.
readJob(r, c) ==
  /\ c \in Unread(r) /\ Settling(r) = {}
  /\ r \in Setups => Queued(r) = {}
  /\ LET previous == embedding[c.entry][proc[r].profile]
         d == document(c.entry) IN
     IF ~Live(c.entry) \/ (r \in Runtimes /\ revision(c.entry) # c.rev)
     THEN becomes(r, c, {[c EXCEPT !.stage = "fail", !.code = "retry"]})
     ELSE IF d \in SecretDocs
     THEN becomes(r, c, {[c EXCEPT !.stage = "fail", !.code = "secret_blocked"]})
     ELSE IF r \in Runtimes /\ reusable(previous, d)
     THEN becomes(r, c, {[c EXCEPT !.stage = "store", !.doc = d, !.vector = previous.vector]})
     ELSE becomes(r, c, {[c EXCEPT !.stage = "queued", !.doc = d]})
  /\ Quiet /\ UNCHANGED <<job, embedding>>

\* One batch of processPending (16 >= the jobs), or one job of setup: the
\* provider throws for all of them, or answers and single vectors may be bad.
embedBatch(r) ==
  /\ Queued(r) # {} /\ Settling(r) = {}
  /\ r \in Runtimes => Unread(r) = {}
  /\ \/ \E code \in {"retry", "permanent", "secret_blocked"} :
          proc' = [proc EXCEPT ![r].todo = (@ \ Queued(r)) \cup
                     {[c EXCEPT !.stage = "fail", !.code = code] : c \in Queued(r)}]
     \/ \E bad \in SUBSET Queued(r) :
          proc' = [proc EXCEPT ![r].todo = (@ \ Queued(r)) \cup
                     {IF c \in bad THEN [c EXCEPT !.stage = "fail", !.code = "permanent"]
                      ELSE [c EXCEPT !.stage = "store",
                                     !.vector = c.doc]
                        : c \in Queued(r)}]
  /\ Quiet /\ UNCHANGED <<job, embedding>>

\* Setup settles under its own profile and generation, a runtime under those
\* its claim returned.
settleProfile(r, c) == IF r \in Setups THEN proc[r].profile ELSE c.profile
settleGeneration(r, c) == IF r \in Setups THEN proc[r].generation ELSE c.generation

\* Slip: the lease test without the lease id.
leaseUnnamed(r, c) ==
  LET p == settleProfile(r, c) IN
  /\ active = p /\ generation = settleGeneration(r, c)
  /\ job[c.entry][p].state = "leased" /\ job[c.entry][p].expires > 0

leaseOwner(r, c) ==
  LET p == settleProfile(r, c) IN
  /\ active = p /\ generation = settleGeneration(r, c)
  /\ job[c.entry][p].state = "leased" /\ job[c.entry][p].lease = c.lease
  /\ job[c.entry][p].expires > 0

\* The tests of finalizeEmbeddingJobInTransaction, in order.
finalizable(r, c) ==
  /\ leaseOwner(r, c)
  /\ job[c.entry][settleProfile(r, c)].rev = c.rev
  /\ Live(c.entry) /\ revision(c.entry) = c.rev /\ document(c.entry) = c.doc

\* CONFLICT ends the job for a runtime and becomes a failure for setup.
finalizeEmbeddingJob(r, c) ==
  LET p == settleProfile(r, c) IN
  /\ c \in Settling(r) /\ c.stage = "store"
  /\ IF finalizable(r, c)
     THEN /\ embedding' = [embedding EXCEPT ![c.entry][p] =
                             [rev |-> c.rev, doc |-> c.doc, vector |-> c.vector]]
          /\ job' = [job EXCEPT ![c.entry][p] = NoJob]
          /\ becomes(r, c, {})
     ELSE /\ becomes(r, c, IF r \in Setups
                           THEN {[c EXCEPT !.stage = "fail", !.code = "retry"]} ELSE {})
          /\ UNCHANGED <<embedding, job>>
  /\ Quiet

\* RETRY_BASE_MS * 2 ** (attempts - 1), capped; setup retries at once.
Doubling == <<1, 2, 4, 8, 16, 32, 64>>
retryDelay(r, c) ==
  IF r \in Setups \/ c.code # "retry" \/ c.attempts >= MaxAttempts THEN 0
  ELSE MinOf(RetryMax, RetryBase * Doubling[MinOf(c.attempts, 7)])

\* What failEmbeddingJob leaves of the row of a claim.
failedRow(r, c, row) ==
  [row EXCEPT !.state = IF c.code = "secret_blocked" THEN "blocked" ELSE "failed",
              !.attempts = IF c.code = "retry" THEN row.attempts ELSE MaxAttempts,
              !.wait = retryDelay(r, c), !.lease = None, !.expires = 0]

\* A stale lease leaves the row alone.
failEmbeddingJob(r, c) ==
  LET p == settleProfile(r, c) IN
  /\ c \in Settling(r) /\ c.stage = "fail"
  /\ job' = IF leaseOwner(r, c)
            THEN [job EXCEPT ![c.entry][p] = failedRow(r, c, job[c.entry][p])]
            ELSE job
  /\ becomes(r, c, {})
  /\ Quiet /\ UNCHANGED embedding

\* The drain is over: all claims settled.  Setup claims again or is done.
drainEnds(r) ==
  /\ proc[r].phase = "draining" /\ proc[r].todo = {}
  /\ \E next \in IF r \in Setups THEN {Down, [proc[r] EXCEPT !.phase = "checked"]}
                 ELSE {[proc[r] EXCEPT !.phase = "open"]} :
       proc' = [proc EXCEPT ![r] = next]
  /\ Quiet /\ UNCHANGED <<job, embedding>>

\* The deadline passed between two jobs: the rest keeps its leases.
deadlinePasses(r) ==
  /\ proc[r].phase = "draining" /\ Settling(r) = {}
  /\ proc' = [proc EXCEPT ![r] = [@ EXCEPT !.phase = "open", !.todo = {}]]
  /\ Quiet /\ UNCHANGED <<job, embedding>>

\* close() or a crash; a later openRuntime is the restarted process.
goesDown(r) ==
  /\ r \notin Reliable /\ proc[r].phase # "down"
  /\ proc' = [proc EXCEPT ![r] = Down]
  /\ Quiet /\ UNCHANGED <<job, embedding>>

Elapse(t) == IF t > 0 THEN t - 1 ELSE 0

Tick ==
  /\ job' = [e \in Entries |-> [p \in Profiles |->
               [job[e][p] EXCEPT !.wait = Elapse(@), !.expires = Elapse(@)]]]
  /\ Quiet /\ UNCHANGED <<embedding, proc>>

Next ==
  \/ \E e \in Entries, d \in Docs : recordEntry(e, d) \/ updateCandidateEntry(e, d)
  \/ \E e \in Entries : purgeEntry(e)
  \/ \E p \in Profiles : activateLocalEmbeddingProfile(p)
  \/ rebuild
  \/ Tick
  \/ \E s \in Setups, p \in Profiles : runEmbeddingSetup(s, p)
  \/ \E r \in Procs :
       \/ openRuntime(r) \/ ensureActive(r) \/ claimEmbeddingJobs(r)
       \/ embedBatch(r) \/ drainEnds(r) \/ goesDown(r)
       \/ \E c \in proc[r].todo :
            readJob(r, c) \/ finalizeEmbeddingJob(r, c) \/ failEmbeddingJob(r, c)
  \/ \E r \in Runtimes \ Reliable : deadlinePasses(r)

Spec == Init /\ [][Next]_vars

(***************************************************************************)
(* The worker of a live MCP process drains on a timer, the provider call   *)
(* ends by its timeout at the latest, time passes, and nobody asks for a   *)
(* rebuild for ever.                                                       *)
(***************************************************************************)
drainStep(r) ==
  \/ openRuntime(r) \/ ensureActive(r) \/ claimEmbeddingJobs(r) \/ embedBatch(r) \/ drainEnds(r)
  \/ \E c \in proc[r].todo :
       readJob(r, c) \/ finalizeEmbeddingJob(r, c) \/ failEmbeddingJob(r, c)

FairSpec == /\ Spec
            /\ WF_vars(Tick)
            /\ \A r \in Reliable : WF_vars(drainStep(r))
            /\ <>[][~rebuild]_vars

-----------------------------------------------------------------------------
(***************************************************************************)
(* Properties.                                                             *)
(***************************************************************************)
current(e, p) == embedding[e][p].rev = revision(e)

\* The projection never forgets an entry: each live entry has a vector of its
\* current revision under the active profile, or a queue row for exactly that
\* revision, whatever edits, purges, switches, rebuilds and late drains did.
ProjectionCovered ==
  active # None => \A e \in Entries : Live(e) =>
    \/ current(e, active)
    \/ job[e][active].state # "none" /\ job[e][active].rev = revision(e)

\* A stored vector was computed from the document of the revision it is
\* labelled with, also when it was carried over from an earlier revision.
VectorOfItsRevision ==
  \A e \in Entries, p \in Profiles : embedding[e][p].rev > 0 =>
    /\ embedding[e][p].rev <= revision(e)
    /\ embedding[e][p].doc = entry[e][embedding[e][p].rev]
    /\ embedding[e][p].vector = embedding[e][p].doc
    /\ embedding[e][p].doc \notin SecretDocs

\* A claim that was overtaken (its row re-enqueued, claimed again or gone, or
\* the profile switched) changes neither queue nor vectors when it settles.
overtaken(r, c) ==
  \/ active # settleProfile(r, c) \/ generation # settleGeneration(r, c)
  \/ job[c.entry][settleProfile(r, c)].lease # c.lease
OvertakenNeverWrites ==
  [][\A r \in Procs : \A c \in proc[r].todo :
       (c.stage \in {"store", "fail"} /\ c \notin proc'[r].todo /\ overtaken(r, c))
         => UNCHANGED <<job, embedding>>]_vars

\* The row of a live entry is eventually worked off: its vector is stored,
\* or it is blocked, or it failed for good after its last attempt.
workedOff(e, p) == \/ job[e][p].state \in {"none", "blocked"}
                   \/ job[e][p].state = "failed" /\ job[e][p].attempts = MaxAttempts
QueueDrains == \A e \in Entries, p \in Profiles : (job[e][p].state # "none") ~> workedOff(e, p)
=============================================================================
