---------------------- MODULE EmbeddingProjectionProofs ----------------------
(***************************************************************************)
(* Proofs about EmbeddingProjection, for any number of entries, profiles,  *)
(* runtimes, setups, revisions and generations: a stored vector belongs to *)
(* the document of the revision it is labelled with, and a claim that was  *)
(* overtaken writes nothing when it settles.                               *)
(*                                                                         *)
(* ProjectionInv is inductive: a row of the queue that is pending has an   *)
(* attempt left; a process that is not draining holds no claims, and one   *)
(* that is up has a profile; a claim has used an attempt, is to embed only *)
(* what is no secret and to store only the vector of its document; and an  *)
(* embedding with a document has the vector and the revision of it.        *)
(***************************************************************************)
EXTENDS MCInstallation, SequenceTheorems, TLAPS

\* A row of the queue, a claim and a process as they really occur.
QueueRow == {row \in JobRow : row.state = "pending" => row.attempts < MaxAttempts}
HeldClaim == {c \in Claim :
  /\ c.attempts > 0
  /\ c.stage \in {"queued", "store"} => c.doc \in Docs \ SecretDocs
  /\ c.stage = "store" => c.vector = c.doc}
Process == {q \in Proc :
  /\ q.phase # "draining" => q.todo = {}
  /\ q.phase # "down" => q.profile \in Profiles
  /\ q.todo \subseteq HeldClaim}

EntriesInv ==
  /\ entry \in [Entries -> Seq(Docs)] /\ \A e \in Entries : Len(entry[e]) \in Revisions
  /\ purged \subseteq Entries
ActiveInv == active \in Profiles \cup {None} /\ generation \in 1..MaxGeneration
JobsInv == job \in [Entries -> [Profiles -> QueueRow]]
DrainInv == proc \in [Procs -> Process]
VectorInv ==
  /\ embedding \in [Entries -> [Profiles -> EmbeddingRow]]
  /\ \A e \in Entries, p \in Profiles : embedding[e][p].rev = 0 => embedding[e][p].doc = None
  /\ VectorOfItsRevision

ProjectionInv == EntriesInv /\ ActiveInv /\ JobsInv /\ DrainInv /\ VectorInv
-----------------------------------------------------------------------------
(* Rows of the queue                                                       *)

\* The row of a job that was never enqueued.
LEMMA NoJobRow == NoJob \in QueueRow
BY EmbeddingAssumption DEF EmbeddingAssumption, NoJob, QueueRow, JobRow, Revisions

\* What an edit or an activation leaves in the queue: pending, with all attempts ahead.
LEMMA EnqueuedRow ==
  ASSUME NEW row, NEW rev \in Revisions
  PROVE  enqueueForProfile(row, rev) \in QueueRow
<1>1. NoJob \in JobRow /\ NoJob.attempts = 0 /\ MaxAttempts \in Nat \ {0}
  BY NoJobRow, EmbeddingAssumption DEF EmbeddingAssumption, NoJob, QueueRow
<1> DEFINE new == [NoJob EXCEPT !.state = "pending", !.rev = rev]
<1>2. new \in JobRow /\ new.attempts = 0
  BY <1>1 DEF JobRow
<1>3. enqueueForProfile(row, rev) = new
  BY DEF enqueueForProfile
<1> HIDE DEF new
<1> QED
  BY <1>1, <1>2, <1>3 DEF QueueRow

\* A claim uses an attempt, and there was one left.
LEMMA ClaimedRow ==
  ASSUME NEW row \in QueueRow, NEW n \in LeaseIds
  PROVE  /\ claimedRow(row, n) \in QueueRow
         /\ claimable(row) => claimedRow(row, n).attempts \in 1..MaxAttempts
<1>1. /\ row \in JobRow /\ row.attempts \in 0..MaxAttempts
      /\ row.state = "pending" => row.attempts < MaxAttempts
      /\ MaxAttempts \in Nat /\ LeaseTicks \in Nat
  BY EmbeddingAssumption DEF EmbeddingAssumption, QueueRow, JobRow
<1>2. CASE claimable(row)
  <2> DEFINE new == [row EXCEPT !.state = "leased", !.attempts = @ + 1, !.wait = 0,
                                !.lease = n, !.expires = LeaseTicks]
  <2>1. claimedRow(row, n) = new
    BY <1>2 DEF claimedRow
  <2>2. row.attempts < MaxAttempts
    BY <1>1, <1>2 DEF claimable
  <2> DEFINE a == row.attempts + 1
  <2>3. a \in 1..MaxAttempts /\ a \in 0..MaxAttempts
    BY <1>1, <2>2
  <2> HIDE DEF a
  <2>4. new = [row EXCEPT !.state = "leased", !.attempts = a, !.wait = 0,
                          !.lease = n, !.expires = LeaseTicks]
    BY DEF a
  <2>5. new \in JobRow /\ new.state = "leased" /\ new.attempts = a
    BY <1>1, <2>3, <2>4 DEF JobRow
  <2> QED
    BY <2>1, <2>3, <2>5 DEF QueueRow
<1>3. CASE ~claimable(row) /\ row.state = "leased" /\ row.attempts >= MaxAttempts /\ row.expires = 0
  <2> DEFINE new == [row EXCEPT !.state = "failed", !.wait = 0, !.lease = None]
  <2>1. claimedRow(row, n) = new
    BY <1>3 DEF claimedRow
  <2>2. new \in JobRow /\ new.state = "failed"
    BY <1>1 DEF JobRow
  <2> QED
    BY <1>3, <2>1, <2>2 DEF QueueRow
<1>4. CASE ~claimable(row) /\ ~(row.state = "leased" /\ row.attempts >= MaxAttempts /\ row.expires = 0)
  BY <1>4 DEF claimedRow
<1> QED
  BY <1>2, <1>3, <1>4

\* The delay before the next attempt is a time.
LEMMA DelayIsNatural ==
  ASSUME NEW r, NEW c \in HeldClaim
  PROVE  retryDelay(r, c) \in Nat
<1>1. c.attempts \in 1..MaxAttempts /\ MaxAttempts \in Nat /\ RetryBase \in Nat /\ RetryMax \in Nat
  BY EmbeddingAssumption DEF EmbeddingAssumption, HeldClaim, Claim
<1>2. MinOf(c.attempts, 7) \in 1..7
  BY <1>1 DEF MinOf
<1>3. \A k \in 1..7 : Doubling[k] \in Nat
  BY DEF Doubling
<1>4. RetryBase * Doubling[MinOf(c.attempts, 7)] \in Nat
  BY <1>1, <1>2, <1>3
<1> QED
  BY <1>1, <1>4 DEF retryDelay, MinOf

\* What a failed attempt leaves of a leased row.
LEMMA FailedRow ==
  ASSUME NEW row \in QueueRow, NEW state \in {"blocked", "failed"}, NEW attempts \in {row.attempts, MaxAttempts},
         NEW wait \in Nat
  PROVE  [row EXCEPT !.state = state, !.attempts = attempts, !.wait = wait, !.lease = None, !.expires = 0]
           \in QueueRow
<1>1. row \in JobRow /\ row.attempts \in 0..MaxAttempts /\ MaxAttempts \in Nat
  BY EmbeddingAssumption DEF EmbeddingAssumption, QueueRow, JobRow
<1>2. attempts \in 0..MaxAttempts
  BY <1>1
<1> QED
  BY <1>1, <1>2 DEF QueueRow, JobRow

\* Time that passes changes only how long a row still waits or is leased.
LEMMA TickedRow ==
  ASSUME NEW row \in QueueRow
  PROVE  [row EXCEPT !.wait = Elapse(@), !.expires = Elapse(@)] \in QueueRow
<1>1. Elapse(row.wait) \in Nat /\ Elapse(row.expires) \in Nat
  BY DEF QueueRow, JobRow, Elapse
<1> QED
  BY <1>1 DEF QueueRow, JobRow

\* Writing one row of the queue.
LEMMA RowWritten ==
  ASSUME JobsInv, NEW e \in Entries, NEW p \in Profiles, NEW row \in QueueRow
  PROVE  [job EXCEPT ![e][p] = row] \in [Entries -> [Profiles -> QueueRow]]
BY DEF JobsInv
-----------------------------------------------------------------------------
(* Claims                                                                  *)

\* Writing what a draining process still holds.
LEMMA TodoWritten ==
  ASSUME DrainInv, NEW r \in Procs, proc[r].phase = "draining", NEW todo \in SUBSET HeldClaim
  PROVE  [proc EXCEPT ![r].todo = todo] \in [Procs -> Process]
<1> DEFINE new == [proc[r] EXCEPT !.todo = todo]
<1>1. proc[r] \in Process
  BY DEF DrainInv
<1>2. new \in Process
  BY <1>1 DEF Process, Proc, HeldClaim
<1>3. [proc EXCEPT ![r].todo = todo] = [proc EXCEPT ![r] = new]
  OBVIOUS
<1> HIDE DEF new
<1> QED
  BY <1>2, <1>3 DEF DrainInv

\* Whoever holds claims is draining, under a profile.
LEMMA Holder ==
  ASSUME DrainInv, NEW r \in Procs, NEW c \in proc[r].todo
  PROVE  /\ proc[r].phase = "draining" /\ proc[r].profile \in Profiles
         /\ proc[r].todo \subseteq HeldClaim /\ c \in HeldClaim /\ c \in Claim
         /\ settleProfile(r, c) \in Profiles
<1>1. proc[r] \in Process
  BY DEF DrainInv
<1>2. proc[r].phase = "draining" /\ proc[r].profile \in Profiles /\ proc[r].todo \subseteq HeldClaim
  BY <1>1 DEF Process
<1>3. c \in Claim
  BY <1>2 DEF HeldClaim
<1> QED
  BY <1>2, <1>3 DEF settleProfile, Claim

\* A claim that fails, and one that is to be stored.
LEMMA ClaimFails ==
  ASSUME NEW c \in HeldClaim, NEW code \in {"retry", "permanent", "secret_blocked"}
  PROVE  [c EXCEPT !.stage = "fail", !.code = code] \in HeldClaim
BY DEF HeldClaim, Claim
-----------------------------------------------------------------------------
(* The steps                                                               *)

\* Before the first entry there is nothing to be wrong about.
LEMMA ProjectionInit ==
  ASSUME Init
  PROVE  ProjectionInv
<1>1. EntriesInv
  BY EmbeddingAssumption DEF EmbeddingAssumption, Init, EntriesInv, Revisions
<1>2. ActiveInv
  BY EmbeddingAssumption DEF EmbeddingAssumption, Init, ActiveInv
<1>3. JobsInv
  BY NoJobRow DEF Init, JobsInv
<1>4. DrainInv
  <2>1. Down \in Process
    BY EmbeddingAssumption DEF EmbeddingAssumption, Down, Process, Proc
  <2> QED
    BY <2>1 DEF Init, DrainInv
<1>5. VectorInv
  <2>1. NoEmbedding \in EmbeddingRow /\ NoEmbedding.rev = 0 /\ NoEmbedding.doc = None
    BY EmbeddingAssumption DEF EmbeddingAssumption, NoEmbedding, EmbeddingRow, Revisions, Vectors
  <2> QED
    BY <2>1 DEF Init, VectorInv, VectorOfItsRevision
<1> QED
  BY <1>1, <1>2, <1>3, <1>4, <1>5 DEF ProjectionInv

\* Entries change by recording, editing and purging only, ...
LEMMA EntriesChange ==
  ASSUME [Next]_vars
  PROVE  \/ \E e \in Entries, d \in Docs : recordEntry(e, d) \/ updateCandidateEntry(e, d)
         \/ \E e \in Entries : purgeEntry(e)
         \/ UNCHANGED <<entry, purged>>
<1> USE DEF Quiet
<1>1. ASSUME NEW r \in Procs, NEW c \in proc[r].todo,
             readJob(r, c) \/ finalizeEmbeddingJob(r, c) \/ failEmbeddingJob(r, c)
      PROVE  UNCHANGED <<entry, purged>>
  BY <1>1 DEF readJob, finalizeEmbeddingJob, failEmbeddingJob
<1>2. ASSUME NEW r \in Procs, openRuntime(r) \/ ensureActive(r) \/ claimEmbeddingJobs(r)
                              \/ embedBatch(r) \/ drainEnds(r) \/ goesDown(r) \/ deadlinePasses(r)
      PROVE  UNCHANGED <<entry, purged>>
  BY <1>2 DEF openRuntime, ensureActive, claimEmbeddingJobs, embedBatch, drainEnds, goesDown, deadlinePasses
<1>3. ASSUME NEW r, NEW p, activateLocalEmbeddingProfile(p) \/ rebuild \/ Tick \/ runEmbeddingSetup(r, p)
      PROVE  UNCHANGED <<entry, purged>>
  BY <1>3 DEF activateLocalEmbeddingProfile, rebuild, Tick, runEmbeddingSetup
<1> QED
  BY <1>1, <1>2, <1>3 DEF Next, vars, Procs

\* ... the profile by activating one and by setup, and claims by their
\* process.
LEMMA ProfileChange ==
  ASSUME [Next]_vars
  PROVE  (\E p \in Profiles : switchProfile(p)) \/ UNCHANGED <<active, generation>>
<1> USE DEF Quiet
<1>1. ASSUME NEW r \in Procs, NEW c \in proc[r].todo,
             readJob(r, c) \/ finalizeEmbeddingJob(r, c) \/ failEmbeddingJob(r, c)
      PROVE  UNCHANGED <<active, generation>>
  BY <1>1 DEF readJob, finalizeEmbeddingJob, failEmbeddingJob
<1>2. ASSUME NEW r \in Procs, openRuntime(r) \/ ensureActive(r) \/ claimEmbeddingJobs(r)
                              \/ embedBatch(r) \/ drainEnds(r) \/ goesDown(r) \/ deadlinePasses(r)
      PROVE  UNCHANGED <<active, generation>>
  BY <1>2 DEF openRuntime, ensureActive, claimEmbeddingJobs, embedBatch, drainEnds, goesDown, deadlinePasses
<1>3. ASSUME NEW r, NEW p, activateLocalEmbeddingProfile(p) \/ runEmbeddingSetup(r, p)
      PROVE  switchProfile(p) \/ UNCHANGED <<active, generation>>
  BY <1>3 DEF activateLocalEmbeddingProfile, runEmbeddingSetup
<1>4. ASSUME NEW e, NEW d, recordEntry(e, d) \/ updateCandidateEntry(e, d) \/ purgeEntry(e) \/ rebuild \/ Tick
      PROVE  UNCHANGED <<active, generation>>
  BY <1>4 DEF recordEntry, updateCandidateEntry, purgeEntry, rebuild, Tick
<1> QED
  BY <1>1, <1>2, <1>3, <1>4 DEF Next, vars, Procs

\* An edit appends a revision, a new entry has its first, a purge has none.
LEMMA EntriesStep ==
  ASSUME ProjectionInv, [Next]_vars
  PROVE  EntriesInv'
<1>0. EntriesInv /\ MaxRevision \in Nat \ {0}
  BY EmbeddingAssumption DEF EmbeddingAssumption, ProjectionInv
<1>1. ASSUME NEW e \in Entries, NEW d \in Docs, recordEntry(e, d)
      PROVE  EntriesInv'
  <2>1. <<d>> \in Seq(Docs) /\ Len(<<d>>) = 1 /\ 1 \in Revisions
    BY <1>0 DEF Revisions
  <2>2. entry' = [entry EXCEPT ![e] = <<d>>] /\ purged' = purged
    BY <1>1 DEF recordEntry
  <2> QED
    BY <1>0, <2>1, <2>2 DEF EntriesInv
<1>2. ASSUME NEW e \in Entries, NEW d \in Docs, updateCandidateEntry(e, d)
      PROVE  EntriesInv'
  <2> DEFINE new == Append(entry[e], d)
  <2>1. new \in Seq(Docs) /\ Len(new) = Len(entry[e]) + 1
    BY <1>0, AppendProperties DEF EntriesInv
  <2>2. Len(new) \in Revisions
    BY <1>0, <1>2, <2>1 DEF EntriesInv, updateCandidateEntry, Revisions, revision
  <2>3. entry' = [entry EXCEPT ![e] = new] /\ purged' = purged
    BY <1>2 DEF updateCandidateEntry
  <2> HIDE DEF new
  <2> QED
    BY <1>0, <2>1, <2>2, <2>3 DEF EntriesInv
<1>3. ASSUME NEW e \in Entries, purgeEntry(e)
      PROVE  EntriesInv'
  BY <1>0, <1>3 DEF EntriesInv, purgeEntry, Revisions
<1>4. CASE UNCHANGED <<entry, purged>>
  BY <1>0, <1>4 DEF EntriesInv
<1> QED
  BY <1>1, <1>2, <1>3, <1>4, EntriesChange

\* Profile and generation stay in their ranges.
LEMMA ActiveStep ==
  ASSUME ProjectionInv, [Next]_vars
  PROVE  ActiveInv'
<1>0. ActiveInv
  BY DEF ProjectionInv
<1>1. ASSUME NEW p \in Profiles, switchProfile(p)
      PROVE  ActiveInv'
  BY <1>0, <1>1, EmbeddingAssumption DEF EmbeddingAssumption, ActiveInv, switchProfile
<1>2. CASE UNCHANGED <<active, generation>>
  BY <1>0, <1>2 DEF ActiveInv
<1> QED
  BY <1>1, <1>2, ProfileChange

\* Every operation on the queue leaves rows that a pending attempt can still use.
LEMMA JobsStep ==
  ASSUME ProjectionInv, [Next]_vars
  PROVE  JobsInv'
<1>0. EntriesInv /\ ActiveInv /\ JobsInv /\ DrainInv /\ job \in [Entries -> [Profiles -> QueueRow]]
  BY DEF ProjectionInv, JobsInv
<1>1. ASSUME NEW e \in Entries, NEW rev \in Revisions, enqueueCurrentEntry(e, rev)
      PROVE  JobsInv'
  <2>1. CASE active = None
    BY <1>0, <1>1, <2>1 DEF enqueueCurrentEntry, JobsInv
  <2>2. CASE active # None
    <3> DEFINE row == enqueueForProfile(job[e][active], rev)
    <3>1. active \in Profiles /\ row \in QueueRow
      BY <1>0, <2>2, EnqueuedRow DEF ActiveInv
    <3>2. job' = [job EXCEPT ![e][active] = row]
      BY <1>1, <2>2 DEF enqueueCurrentEntry
    <3> HIDE DEF row
    <3> QED
      BY <1>0, <3>1, <3>2, RowWritten DEF JobsInv
  <2> QED
    BY <2>1, <2>2
<1>2. ASSUME NEW p \in Profiles, enqueueAllCurrentEntries(p)
      PROVE  JobsInv'
  <2>1. ASSUME NEW e \in Entries
        PROVE  job'[e] \in [Profiles -> QueueRow]
    <3> DEFINE row == enqueueForProfile(job[e][p], revision(e))
    <3>1. row \in QueueRow
      BY <1>0, EnqueuedRow DEF EntriesInv, revision
    <3>2. job'[e] = IF Live(e) THEN [job[e] EXCEPT ![p] = row] ELSE job[e]
      BY <1>2 DEF enqueueAllCurrentEntries
    <3> HIDE DEF row
    <3> QED
      BY <1>0, <3>1, <3>2
  <2>2. job' = [e \in Entries |-> job'[e]]
    BY <1>2 DEF enqueueAllCurrentEntries
  <2> QED
    BY <2>1, <2>2 DEF JobsInv
<1>3. ASSUME NEW e \in Entries, NEW d \in Docs, recordEntry(e, d) \/ updateCandidateEntry(e, d)
      PROVE  JobsInv'
  <2>1. \E rev \in Revisions : enqueueCurrentEntry(e, rev)
    <3>1. CASE recordEntry(e, d)
      BY <3>1, EmbeddingAssumption DEF EmbeddingAssumption, recordEntry, Revisions
    <3>2. CASE updateCandidateEntry(e, d)
      <4>1. revision(e) + 1 \in Revisions
        BY <1>0, <3>2, EmbeddingAssumption
        DEF EmbeddingAssumption, EntriesInv, updateCandidateEntry, Revisions, revision
      <4> QED
        BY <3>2, <4>1 DEF updateCandidateEntry
    <3> QED
      BY <1>3, <3>1, <3>2
  <2> QED
    BY <1>1, <2>1
<1>4. ASSUME NEW e \in Entries, purgeEntry(e)
      PROVE  JobsInv'
  BY <1>0, <1>4, NoJobRow DEF purgeEntry, JobsInv
<1>5. CASE rebuild
  BY <1>0, <1>2, <1>5 DEF rebuild, ActiveInv
<1>6. CASE Tick
  <2>1. \A e \in Entries, p \in Profiles : [job[e][p] EXCEPT !.wait = Elapse(@), !.expires = Elapse(@)] \in QueueRow
    BY <1>0, TickedRow
  <2> QED
    BY <1>6, <2>1 DEF Tick, JobsInv
<1>7. ASSUME NEW r \in Procs, claimEmbeddingJobs(r)
      PROVE  JobsInv'
  <2>1. active \in Profiles /\ leaseIdFactory \in LeaseIds
    BY <1>0, <1>7 DEF ActiveInv, claimEmbeddingJobs, leaseIdFactory
  <2>2. ASSUME NEW e \in Entries
        PROVE  [job[e] EXCEPT ![active] = claimedRow(@, leaseIdFactory)] \in [Profiles -> QueueRow]
    <3> DEFINE row == claimedRow(job[e][active], leaseIdFactory)
    <3>1. row \in QueueRow
      BY <1>0, <2>1, ClaimedRow
    <3> HIDE DEF row
    <3>2. [job[e] EXCEPT ![active] = row] \in [Profiles -> QueueRow]
      BY <1>0, <2>1, <3>1
    <3> QED
      BY <3>2 DEF row
  <2> QED
    BY <1>7, <2>2 DEF claimEmbeddingJobs, JobsInv
<1>8. ASSUME NEW r \in Procs, NEW c \in proc[r].todo, finalizeEmbeddingJob(r, c)
      PROVE  JobsInv'
  <2> DEFINE e == c.entry
             p == settleProfile(r, c)
  <2>1. e \in Entries /\ p \in Profiles
    BY <1>0, Holder DEF Claim
  <2>2. job' = [job EXCEPT ![e][p] = NoJob] \/ job' = job
    BY <1>8 DEF finalizeEmbeddingJob
  <2> HIDE DEF e, p
  <2>3. [job EXCEPT ![e][p] = NoJob] \in [Entries -> [Profiles -> QueueRow]]
    BY <1>0, <2>1, NoJobRow, RowWritten
  <2> QED
    BY <1>0, <2>2, <2>3 DEF JobsInv
<1>9. ASSUME NEW r \in Procs, NEW c \in proc[r].todo, failEmbeddingJob(r, c)
      PROVE  JobsInv'
  <2> DEFINE e == c.entry
             p == settleProfile(r, c)
             row == job[e][p]
             new == failedRow(r, c, row)
  <2>1. e \in Entries /\ p \in Profiles /\ c \in HeldClaim
    BY <1>0, Holder DEF Claim
  <2>2. row \in QueueRow /\ retryDelay(r, c) \in Nat
    BY <1>0, <2>1, DelayIsNatural
  <2>3. new \in QueueRow
    BY <2>2, FailedRow DEF failedRow
  <2>4. CASE leaseOwner(r, c)
    <3>1. job' = [job EXCEPT ![e][p] = new]
      BY <1>9, <2>4 DEF failEmbeddingJob
    <3> HIDE DEF new, e, p
    <3> QED
      BY <1>0, <2>1, <2>3, <3>1, RowWritten DEF JobsInv
  <2>5. CASE ~leaseOwner(r, c)
    BY <1>0, <1>9, <2>5 DEF failEmbeddingJob, JobsInv
  <2> QED
    BY <2>4, <2>5
<1>10. CASE UNCHANGED job
  BY <1>0, <1>10 DEF JobsInv
<1> QED
  BY <1>2, <1>3, <1>4, <1>5, <1>6, <1>7, <1>8, <1>9, <1>10
  DEF Next, activateLocalEmbeddingProfile, switchProfile, runEmbeddingSetup, openRuntime, ensureActive,
      embedBatch, drainEnds, goesDown, readJob, deadlinePasses, vars

\* Whoever is not draining has nothing to settle.
LEMMA NoTodo ==
  ASSUME DrainInv, NEW r \in Procs, proc[r].phase # "draining"
  PROVE  proc[r].todo = {}
BY DEF DrainInv, Process

\* What a draining process holds is what it claimed, embedded or is to store.
LEMMA DrainStep ==
  ASSUME ProjectionInv, [Next]_vars
  PROVE  DrainInv'
<1>0. /\ EntriesInv /\ ActiveInv /\ JobsInv /\ DrainInv /\ VectorInv
      /\ ActiveInv'
      /\ proc \in [Procs -> Process] /\ MaxGeneration \in Nat \ {0} /\ Procs = Runtimes \cup Setups
      /\ None \notin Profiles \cup Docs \cup LeaseIds
  BY ActiveStep, EmbeddingAssumption DEF EmbeddingAssumption, ProjectionInv, DrainInv, Procs
\* A process that holds no claims.
<1>1. ASSUME NEW r \in Procs, NEW q \in Proc, q.todo = {}, q.phase # "down" => q.profile \in Profiles,
             proc' = [proc EXCEPT ![r] = q]
      PROVE  DrainInv'
  <2>1. q \in Process
    BY <1>1 DEF Process
  <2> QED
    BY <1>0, <1>1, <2>1 DEF DrainInv
<1>2. Down \in Proc /\ Down.todo = {} /\ Down.phase = "down"
  BY <1>0 DEF Down, Proc
<1>3. ASSUME NEW phase \in {"open", "checked"}, NEW p \in Profiles, NEW g \in 1..MaxGeneration
      PROVE  LET q == [Down EXCEPT !.phase = phase, !.profile = p, !.generation = g]
             IN  q \in Proc /\ q.todo = {} /\ q.profile \in Profiles
  <2> DEFINE q == [Down EXCEPT !.phase = phase, !.profile = p, !.generation = g]
  <2>1. g \in 0..MaxGeneration
    BY <1>0
  <2>2. q \in Proc
    BY <1>2, <2>1 DEF Proc
  <2>3. q.todo = {}
    BY <1>2 DEF Proc
  <2>4. q.profile = p
    BY <1>2 DEF Proc
  <2> HIDE DEF q
  <2>5. q \in Proc /\ q.todo = {} /\ q.profile \in Profiles
    BY <2>2, <2>3, <2>4
  <2> QED
    BY <2>5 DEF q
<1>4. ASSUME NEW r \in Procs, NEW phase \in {"open", "checked"}, proc[r].phase # "down"
      PROVE  LET q == [proc[r] EXCEPT !.phase = phase]
             IN  /\ q \in Proc /\ q.todo = proc[r].todo /\ q.profile \in Profiles
                 /\ [q EXCEPT !.todo = {}] \in Proc
  BY <1>0, <1>4 DEF Process, Proc
\* What becomes of the claims of a draining process.
<1>5. ASSUME NEW r \in Procs, NEW c \in proc[r].todo, NEW d \in SUBSET HeldClaim, becomes(r, c, d)
      PROVE  DrainInv'
  <2> DEFINE todo == (proc[r].todo \ {c}) \cup d
  <2>1. proc[r].phase = "draining" /\ todo \in SUBSET HeldClaim
    BY <1>0, Holder
  <2>2. proc' = [proc EXCEPT ![r].todo = todo]
    BY <1>5 DEF becomes
  <2> HIDE DEF todo
  <2> QED
    BY <1>0, <2>1, <2>2, TodoWritten DEF DrainInv
<1>6. ASSUME NEW s \in Setups, NEW p \in Profiles, runEmbeddingSetup(s, p)
      PROVE  DrainInv'
  BY <1>0, <1>1, <1>3, <1>6 DEF runEmbeddingSetup, ActiveInv
<1>7. ASSUME NEW r \in Procs, openRuntime(r)
      PROVE  DrainInv'
  <2>1. active \in Profiles /\ generation \in 1..MaxGeneration
        /\ proc' = [proc EXCEPT ![r] = [Down EXCEPT !.phase = "open", !.profile = active, !.generation = generation]]
    BY <1>0, <1>7 DEF openRuntime, ActiveInv
  <2> QED
    BY <1>1, <1>3, <2>1
<1>8. ASSUME NEW r \in Procs, ensureActive(r)
      PROVE  DrainInv'
  <2> DEFINE q == [proc[r] EXCEPT !.phase = "checked"]
  <2>1. proc[r].phase = "open" /\ proc' = [proc EXCEPT ![r] = q]
    BY <1>8 DEF ensureActive
  <2>2. q \in Proc /\ q.todo = {} /\ q.profile \in Profiles
    BY <1>0, <1>4, <2>1, NoTodo
  <2> HIDE DEF q
  <2> QED
    BY <1>1, <2>1, <2>2
<1>9. ASSUME NEW r \in Procs, claimEmbeddingJobs(r)
      PROVE  DrainInv'
  <2> DEFINE claim(e) == [entry |-> e, profile |-> active, generation |-> generation,
                          rev |-> job[e][active].rev, attempts |-> job'[e][active].attempts,
                          lease |-> leaseIdFactory, stage |-> "unread", doc |-> None,
                          vector |-> None, code |-> "none"]
             todo == {claim(e) : e \in {f \in Entries : claimable(job[f][active])}}
             q == [proc[r] EXCEPT !.phase = "draining", !.todo = todo]
  <2>1. /\ active \in Profiles /\ leaseIdFactory \in LeaseIds /\ proc[r].phase = "checked"
        /\ job' = [e \in Entries |-> [job[e] EXCEPT ![active] = claimedRow(@, leaseIdFactory)]]
    BY <1>0, <1>9 DEF ActiveInv, claimEmbeddingJobs, leaseIdFactory
  <2>2. ASSUME NEW e \in Entries, claimable(job[e][active])
        PROVE  claim(e) \in HeldClaim
    <3>1. job[e][active] \in QueueRow /\ job'[e][active] = claimedRow(job[e][active], leaseIdFactory)
      BY <1>0, <2>1 DEF JobsInv
    <3>2. job'[e][active].attempts \in 1..MaxAttempts
      BY <2>1, <2>2, <3>1, ClaimedRow
    <3>3. job'[e][active].attempts \in 0..MaxAttempts /\ job'[e][active].attempts > 0
      BY <3>2, EmbeddingAssumption DEF EmbeddingAssumption
    <3>4. job[e][active].rev \in Revisions /\ generation \in 1..MaxGeneration
      BY <1>0, <3>1 DEF QueueRow, JobRow, ActiveInv
    <3> QED
      BY <2>1, <3>3, <3>4 DEF HeldClaim, Claim, Vectors
  <2>3. todo \subseteq HeldClaim
    BY <2>2
  <2>4. proc' = [proc EXCEPT ![r] = q]
    BY <1>9 DEF claimEmbeddingJobs
  <2> HIDE DEF todo, claim
  <2>5. q \in Process
    <3>1. proc[r] \in Process /\ todo \subseteq Claim
      BY <1>0, <2>3 DEF HeldClaim
    <3> QED
      BY <2>1, <2>3, <3>1 DEF Process, Proc
  <2> HIDE DEF q
  <2> QED
    BY <1>0, <2>4, <2>5 DEF DrainInv
<1>10. ASSUME NEW r \in Procs, NEW c \in proc[r].todo, readJob(r, c)
       PROVE  DrainInv'
  <2> DEFINE p == proc[r].profile
             previous == embedding[c.entry][p]
             d == document(c.entry)
  <2>1. /\ c \in HeldClaim /\ c \in Claim /\ c.entry \in Entries /\ p \in Profiles
    BY <1>0, Holder DEF Claim
  <2>2. CASE ~Live(c.entry) \/ (r \in Runtimes /\ revision(c.entry) # c.rev)
    BY <1>5, <1>10, <2>1, <2>2, ClaimFails DEF readJob
  <2>3. CASE ~(~Live(c.entry) \/ (r \in Runtimes /\ revision(c.entry) # c.rev))
    <3>1. d \in Docs
      <4>1. entry[c.entry] \in Seq(Docs) /\ entry[c.entry] # <<>>
        BY <1>0, <2>1, <2>3 DEF EntriesInv, Live
      <4>2. Len(entry[c.entry]) \in 1..Len(entry[c.entry])
        BY <4>1
      <4> QED
        BY <4>1, <4>2, ElementOfSeq DEF document
    <3>2. CASE d \in SecretDocs
      BY <1>5, <1>10, <2>1, <2>3, <3>2, ClaimFails DEF readJob
    <3>3. CASE d \notin SecretDocs /\ r \in Runtimes /\ reusable(previous, d)
      <4> DEFINE new == [c EXCEPT !.stage = "store", !.doc = d, !.vector = previous.vector]
      <4>1. becomes(r, c, {new})
        BY <1>10, <2>3, <3>3 DEF readJob
      <4>2. previous.vector = d
        <5>1. previous \in EmbeddingRow /\ previous.doc = d /\ d # None
          BY <1>0, <2>1, <3>1, <3>3 DEF VectorInv, reusable
        <5>2. previous.rev # 0 /\ previous.rev \in Nat
          BY <1>0, <2>1, <5>1 DEF VectorInv, EmbeddingRow, Revisions
        <5>3. previous.rev > 0
          BY <5>2
        <5> QED
          BY <1>0, <2>1, <5>1, <5>3 DEF VectorInv, VectorOfItsRevision
      <4> HIDE DEF previous, d
      <4>3. new \in HeldClaim
        BY <2>1, <3>1, <3>3, <4>2 DEF HeldClaim, Claim, Vectors
      <4> HIDE DEF new
      <4> QED
        BY <1>5, <4>1, <4>3
    <3>4. CASE d \notin SecretDocs /\ ~(r \in Runtimes /\ reusable(previous, d))
      <4> DEFINE new == [c EXCEPT !.stage = "queued", !.doc = d]
      <4>1. becomes(r, c, {new})
        BY <1>10, <2>3, <3>4 DEF readJob
      <4> HIDE DEF d
      <4>2. new \in HeldClaim
        BY <2>1, <3>1, <3>4 DEF HeldClaim, Claim, Vectors
      <4> HIDE DEF new
      <4> QED
        BY <1>5, <4>1, <4>2
    <3> QED
      BY <3>2, <3>3, <3>4
  <2> QED
    BY <2>2, <2>3
<1>11. ASSUME NEW r \in Procs, embedBatch(r)
       PROVE  DrainInv'
  <2>1. PICK todo : /\ proc' = [proc EXCEPT ![r].todo = todo]
                    /\ \A x \in todo :
                         \/ x \in proc[r].todo
                         \/ \E c \in Queued(r), code \in {"retry", "permanent", "secret_blocked"} :
                              x = [c EXCEPT !.stage = "fail", !.code = code]
                         \/ \E c \in Queued(r) : x = [c EXCEPT !.stage = "store", !.vector = c.doc]
    <3>1. CASE \E code \in {"retry", "permanent", "secret_blocked"} :
                 proc' = [proc EXCEPT ![r].todo = (@ \ Queued(r)) \cup
                            {[c EXCEPT !.stage = "fail", !.code = code] : c \in Queued(r)}]
      <4>1. PICK code \in {"retry", "permanent", "secret_blocked"} :
                 proc' = [proc EXCEPT ![r].todo = (@ \ Queued(r)) \cup
                            {[c EXCEPT !.stage = "fail", !.code = code] : c \in Queued(r)}]
        BY <3>1
      <4> WITNESS (proc[r].todo \ Queued(r)) \cup
                    {[c EXCEPT !.stage = "fail", !.code = code] : c \in Queued(r)}
      <4> QED
        BY <4>1
    <3>2. CASE \E bad \in SUBSET Queued(r) :
                 proc' = [proc EXCEPT ![r].todo = (@ \ Queued(r)) \cup
                            {IF c \in bad THEN [c EXCEPT !.stage = "fail", !.code = "permanent"]
                             ELSE [c EXCEPT !.stage = "store", !.vector = c.doc] : c \in Queued(r)}]
      <4>1. PICK bad \in SUBSET Queued(r) :
                 proc' = [proc EXCEPT ![r].todo = (@ \ Queued(r)) \cup
                            {IF c \in bad THEN [c EXCEPT !.stage = "fail", !.code = "permanent"]
                             ELSE [c EXCEPT !.stage = "store", !.vector = c.doc] : c \in Queued(r)}]
        BY <3>2
      <4> WITNESS (proc[r].todo \ Queued(r)) \cup
                    {IF c \in bad THEN [c EXCEPT !.stage = "fail", !.code = "permanent"]
                     ELSE [c EXCEPT !.stage = "store", !.vector = c.doc] : c \in Queued(r)}
      <4> QED
        BY <4>1
    <3> QED
      BY <1>11, <3>1, <3>2 DEF embedBatch
  <2>2. /\ proc[r].phase = "draining" /\ proc[r].todo \subseteq HeldClaim
        /\ Queued(r) \subseteq HeldClaim /\ \A c \in Queued(r) : c.stage = "queued"
    <3>1. PICK c \in proc[r].todo : TRUE
      BY <1>11 DEF embedBatch, Queued
    <3> QED
      BY <1>0, <3>1, Holder DEF Queued
  <2>3. ASSUME NEW c \in HeldClaim, c.stage = "queued"
        PROVE  [c EXCEPT !.stage = "store", !.vector = c.doc] \in HeldClaim
    BY <2>3 DEF HeldClaim, Claim, Vectors
  <2>4. todo \subseteq HeldClaim
    BY <2>1, <2>2, <2>3, ClaimFails
  <2> QED
    BY <1>0, <2>1, <2>2, <2>4, TodoWritten DEF DrainInv
<1>12. ASSUME NEW r \in Procs, NEW c \in proc[r].todo, finalizeEmbeddingJob(r, c) \/ failEmbeddingJob(r, c)
       PROVE  DrainInv'
  <2>1. c \in HeldClaim
    BY <1>0, Holder
  <2>2. becomes(r, c, {}) \/ becomes(r, c, {[c EXCEPT !.stage = "fail", !.code = "retry"]})
    BY <1>12 DEF finalizeEmbeddingJob, failEmbeddingJob
  <2> QED
    BY <1>5, <2>1, <2>2, ClaimFails
<1>13. ASSUME NEW r \in Procs, drainEnds(r)
       PROVE  DrainInv'
  <2>1. /\ proc[r].phase = "draining" /\ proc[r].todo = {}
        /\ \E q \in {Down, [proc[r] EXCEPT !.phase = "checked"], [proc[r] EXCEPT !.phase = "open"]} :
             proc' = [proc EXCEPT ![r] = q]
    BY <1>13 DEF drainEnds
  <2> QED
    BY <1>1, <1>2, <1>4, <2>1
<1>14. ASSUME NEW r \in Procs, deadlinePasses(r)
       PROVE  DrainInv'
  <2> DEFINE q == [proc[r] EXCEPT !.phase = "open", !.todo = {}]
  <2>1. proc[r].phase = "draining" /\ proc' = [proc EXCEPT ![r] = q]
    BY <1>14 DEF deadlinePasses
  <2>2. q \in Proc /\ q.todo = {} /\ q.profile \in Profiles
    BY <1>0, <2>1 DEF Process, Proc
  <2> HIDE DEF q
  <2> QED
    BY <1>1, <2>1, <2>2
<1>15. ASSUME NEW r \in Procs, goesDown(r)
       PROVE  DrainInv'
  BY <1>1, <1>2, <1>15 DEF goesDown
<1>16. CASE UNCHANGED proc
  BY <1>0, <1>16 DEF DrainInv
<1>17. ASSUME NEW e, NEW d, NEW p, recordEntry(e, d) \/ updateCandidateEntry(e, d) \/ purgeEntry(e)
                                   \/ activateLocalEmbeddingProfile(p) \/ rebuild \/ Tick \/ UNCHANGED vars
       PROVE  UNCHANGED proc
  BY <1>17 DEF recordEntry, updateCandidateEntry, purgeEntry, activateLocalEmbeddingProfile, rebuild, Tick, vars
<1> QED
  BY <1>0, <1>6, <1>7, <1>8, <1>9, <1>10, <1>11, <1>12, <1>13, <1>14, <1>15, <1>16, <1>17 DEF Next
\* Vectors change by a purge and by a drain that finalizes its claim.
LEMMA EmbeddingChange ==
  ASSUME [Next]_vars
  PROVE  \/ \E e \in Entries : purgeEntry(e)
         \/ \E r \in Procs : \E c \in proc[r].todo : finalizeEmbeddingJob(r, c) /\ finalizable(r, c)
         \/ UNCHANGED embedding
<1>1. ASSUME NEW r \in Procs, NEW c \in proc[r].todo,
             readJob(r, c) \/ (finalizeEmbeddingJob(r, c) /\ ~finalizable(r, c)) \/ failEmbeddingJob(r, c)
      PROVE  UNCHANGED embedding
  BY <1>1 DEF readJob, finalizeEmbeddingJob, failEmbeddingJob
<1>2. ASSUME NEW r \in Procs, openRuntime(r) \/ ensureActive(r) \/ claimEmbeddingJobs(r)
                              \/ embedBatch(r) \/ drainEnds(r) \/ goesDown(r) \/ deadlinePasses(r)
      PROVE  UNCHANGED embedding
  BY <1>2 DEF openRuntime, ensureActive, claimEmbeddingJobs, embedBatch, drainEnds, goesDown, deadlinePasses
<1>3. ASSUME NEW r, NEW p, activateLocalEmbeddingProfile(p) \/ rebuild \/ Tick \/ runEmbeddingSetup(r, p)
      PROVE  UNCHANGED embedding
  BY <1>3 DEF activateLocalEmbeddingProfile, rebuild, Tick, runEmbeddingSetup
<1>4. ASSUME NEW e, NEW d, recordEntry(e, d) \/ updateCandidateEntry(e, d)
      PROVE  UNCHANGED embedding
  BY <1>4 DEF recordEntry, updateCandidateEntry
<1> QED
  BY <1>1, <1>2, <1>3, <1>4 DEF Next, vars, Procs

\* An edit leaves the earlier revisions as they were, and a drain finalizes
\* only what the entry still says.
LEMMA VectorStep ==
  ASSUME ProjectionInv, [Next]_vars
  PROVE  VectorInv'
<1>0. /\ EntriesInv /\ DrainInv /\ VectorInv
      /\ entry \in [Entries -> Seq(Docs)] /\ embedding \in [Entries -> [Profiles -> EmbeddingRow]]
      /\ None \notin Docs
  BY EmbeddingAssumption DEF EmbeddingAssumption, ProjectionInv, EntriesInv, VectorInv
<1>1. ASSUME NEW e \in Entries, NEW p \in Profiles
      PROVE  embedding[e][p].rev \in Nat /\ (embedding[e][p].rev > 0 => embedding[e][p].rev \in 1..Len(entry[e]))
  <2>1. embedding[e][p].rev \in Nat /\ Len(entry[e]) \in Nat
    BY <1>0 DEF EmbeddingRow, Revisions
  <2>2. embedding[e][p].rev > 0 => embedding[e][p].rev <= Len(entry[e])
    BY <1>0 DEF VectorInv, VectorOfItsRevision, revision
  <2> QED
    BY <2>1, <2>2
\* The vectors stay, and so do the revisions they are labelled with.
<1>2. ASSUME UNCHANGED embedding,
             \A e \in Entries : \A k \in 1..Len(entry[e]) : k <= Len(entry'[e]) /\ entry'[e][k] = entry[e][k]
      PROVE  VectorInv'
  <2>1. VectorOfItsRevision'
    <3> SUFFICES ASSUME NEW e \in Entries, NEW p \in Profiles, embedding[e][p].rev > 0
                 PROVE  /\ embedding[e][p].rev <= Len(entry'[e])
                        /\ embedding[e][p].doc = entry'[e][embedding[e][p].rev]
                        /\ embedding[e][p].vector = embedding[e][p].doc
                        /\ embedding[e][p].doc \notin SecretDocs
      BY <1>2 DEF VectorOfItsRevision, revision
    <3>1. embedding[e][p].rev \in 1..Len(entry[e])
      BY <1>1
    <3> QED
      BY <1>0, <1>2, <3>1 DEF VectorInv, VectorOfItsRevision
  <2> QED
    BY <1>0, <1>2, <2>1 DEF VectorInv
<1>3. ASSUME NEW e \in Entries, NEW d \in Docs, recordEntry(e, d)
      PROVE  VectorInv'
  <2>1. entry[e] = <<>> /\ entry' = [entry EXCEPT ![e] = <<d>>] /\ UNCHANGED embedding
    BY <1>3 DEF recordEntry, Live
  <2>2. ASSUME NEW f \in Entries, NEW k \in 1..Len(entry[f])
        PROVE  k <= Len(entry'[f]) /\ entry'[f][k] = entry[f][k]
    <3>1. f # e
      BY <2>1
    <3> QED
      BY <1>0, <2>1, <3>1
  <2> QED
    BY <1>2, <2>1, <2>2
<1>4. ASSUME NEW e \in Entries, NEW d \in Docs, updateCandidateEntry(e, d)
      PROVE  VectorInv'
  <2> DEFINE new == Append(entry[e], d)
  <2>1. /\ Len(new) = Len(entry[e]) + 1 /\ \A k \in 1..Len(entry[e]) : new[k] = entry[e][k]
        /\ Len(entry[e]) \in Nat
    BY <1>0, AppendProperties
  <2>2. entry' = [entry EXCEPT ![e] = new] /\ UNCHANGED embedding
    BY <1>4 DEF updateCandidateEntry
  <2> HIDE DEF new
  <2>3. ASSUME NEW f \in Entries, NEW k \in 1..Len(entry[f])
        PROVE  k <= Len(entry'[f]) /\ entry'[f][k] = entry[f][k]
    <3>1. CASE f = e
      BY <1>0, <2>1, <2>2, <3>1
    <3>2. CASE f # e
      BY <1>0, <2>2, <3>2
    <3> QED
      BY <3>1, <3>2
  <2> QED
    BY <1>2, <2>2, <2>3
<1>5. ASSUME NEW e \in Entries, purgeEntry(e)
      PROVE  VectorInv'
  <2>1. /\ entry' = [entry EXCEPT ![e] = <<>>]
        /\ embedding' = [embedding EXCEPT ![e] = [p \in Profiles |-> NoEmbedding]]
    BY <1>5 DEF purgeEntry
  <2>2. NoEmbedding \in EmbeddingRow /\ NoEmbedding.rev = 0 /\ NoEmbedding.doc = None
    BY EmbeddingAssumption DEF EmbeddingAssumption, NoEmbedding, EmbeddingRow, Revisions, Vectors
  <2>3. \A f \in Entries, p \in Profiles :
          IF f = e THEN embedding'[f][p] = NoEmbedding
          ELSE embedding'[f][p] = embedding[f][p] /\ entry'[f] = entry[f]
    BY <1>0, <2>1
  <2>4. embedding' \in [Entries -> [Profiles -> EmbeddingRow]]
    BY <1>0, <2>1, <2>2
  <2>5. VectorOfItsRevision'
    BY <1>0, <2>2, <2>3 DEF VectorInv, VectorOfItsRevision, revision
  <2>6. \A f \in Entries, p \in Profiles :
          embedding'[f][p] = NoEmbedding \/ embedding'[f][p] = embedding[f][p]
    BY <2>3
  <2>7. \A f \in Entries, p \in Profiles : embedding'[f][p].rev = 0 => embedding'[f][p].doc = None
    BY <1>0, <2>2, <2>6 DEF VectorInv
  <2> QED
    BY <2>4, <2>5, <2>7 DEF VectorInv
<1>6. ASSUME NEW r \in Procs, NEW c \in proc[r].todo, finalizeEmbeddingJob(r, c), finalizable(r, c)
      PROVE  VectorInv'
  <2> DEFINE e == c.entry
             p == settleProfile(r, c)
             row == [rev |-> c.rev, doc |-> c.doc, vector |-> c.vector]
  <2>1. e \in Entries /\ p \in Profiles /\ c \in HeldClaim /\ c.rev \in Revisions
    BY <1>0, Holder DEF Claim
  <2>2. embedding' = [embedding EXCEPT ![e][p] = row] /\ UNCHANGED entry /\ c.stage = "store"
    BY <1>6 DEF finalizeEmbeddingJob, Quiet
  <2>3. c.doc \in Docs \ SecretDocs /\ c.vector = c.doc
    BY <2>1, <2>2 DEF HeldClaim
  <2>4. entry[e] # <<>> /\ Len(entry[e]) = c.rev /\ entry[e][c.rev] = c.doc /\ c.rev > 0
    <3>1. entry[e] # <<>> /\ Len(entry[e]) = c.rev /\ entry[e][c.rev] = c.doc
      BY <1>6 DEF finalizable, Live, revision, document
    <3> QED
      BY <1>0, <2>1, <3>1
  <2>5. row \in EmbeddingRow /\ row.rev = c.rev /\ row.doc = c.doc /\ row.vector = c.doc /\ row.rev # 0
    BY <2>1, <2>3, <2>4 DEF EmbeddingRow, Vectors
  <2> HIDE DEF e, p, row
  <2>6. embedding' \in [Entries -> [Profiles -> EmbeddingRow]]
    BY <1>0, <2>1, <2>2, <2>5
  <2>7. \A f \in Entries, q \in Profiles :
          embedding'[f][q] = IF f = e /\ q = p THEN row ELSE embedding[f][q]
    BY <1>0, <2>1, <2>2
  <2>8. c.rev <= Len(entry[e])
    BY <2>1, <2>4 DEF Revisions
  <2>9. VectorOfItsRevision'
    BY <1>0, <2>2, <2>3, <2>4, <2>5, <2>7, <2>8 DEF VectorInv, VectorOfItsRevision, revision
  <2> QED
    BY <1>0, <2>5, <2>6, <2>7, <2>9 DEF VectorInv
<1>7. CASE UNCHANGED <<entry, embedding>>
  <2>1. \A e \in Entries : Len(entry[e]) \in Nat
    BY <1>0
  <2> QED
    BY <1>2, <1>7, <2>1
<1> QED
  BY <1>3, <1>4, <1>5, <1>6, <1>7, EntriesChange, EmbeddingChange DEF finalizeEmbeddingJob, Quiet

\* ProjectionInv is inductive.
LEMMA ProjectionStep ==
  ASSUME ProjectionInv, [Next]_vars
  PROVE  ProjectionInv'
BY EntriesStep, ActiveStep, JobsStep, DrainStep, VectorStep DEF ProjectionInv

\* ProjectionInv holds in every reachable state.
LEMMA ProjectionCorrect == Spec => []ProjectionInv
BY ProjectionInit, ProjectionStep, PTL DEF Spec

\* The projection keeps its types: no job uses more than
\* EMBEDDING_JOB_MAX_ATTEMPTS attempts, and no retry has a negative delay.
THEOREM EmbeddingTypeCorrect == Spec => []TypeOK
<1>1. ASSUME ProjectionInv
      PROVE  TypeOK
  <2>1. EntriesInv /\ ActiveInv /\ JobsInv /\ DrainInv /\ VectorInv
    BY <1>1 DEF ProjectionInv
  <2>2. job \in [Entries -> [Profiles -> JobRow]]
    BY <2>1 DEF JobsInv, QueueRow
  <2>3. proc \in [Procs -> Proc]
    BY <2>1 DEF DrainInv, Process
  <2> QED
    BY <2>1, <2>2, <2>3 DEF TypeOK, EntriesInv, ActiveInv, VectorInv
<1> QED
  BY <1>1, ProjectionCorrect, PTL

\* Every vector search reads was computed from the document of the revision
\* it is stored under, and from no secret, however edits, switches, purges
\* and late drains of several processes interleave.
THEOREM VectorsTrue == Spec => []VectorOfItsRevision
<1>1. ProjectionInv => VectorOfItsRevision
  BY DEF ProjectionInv, VectorInv
<1> QED
  BY <1>1, ProjectionCorrect, PTL
-----------------------------------------------------------------------------
(* Overtaken claims                                                        *)
\* An overtaken claim does not hold its lease any more.
LEMMA Overtaken ==
  ASSUME ProjectionInv, Next, NEW r \in Procs, NEW c \in proc[r].todo,
         c \notin proc'[r].todo, overtaken(r, c)
  PROVE  UNCHANGED <<job, embedding>>
<1>0. DrainInv /\ proc \in [Procs -> Process] /\ proc[r].phase = "draining"
  BY Holder DEF ProjectionInv, DrainInv
<1>1. ~leaseOwner(r, c) /\ ~finalizable(r, c)
  BY DEF overtaken, leaseOwner, finalizable
<1>2. proc'[r] # proc[r]
  OBVIOUS
\* Other claims, and the claims of other processes, are left alone.
<1>3. ASSUME NEW s \in Procs, NEW d \in proc[s].todo, NEW x, becomes(s, d, x)
      PROVE  s = r /\ d = c
  <2>1. s = r
    BY <1>0, <1>2, <1>3 DEF becomes
  <2> DEFINE todo == (proc[r].todo \ {d}) \cup x
  <2>2. proc' = [proc EXCEPT ![r].todo = todo]
    BY <1>3, <2>1 DEF becomes
  <2>3. proc[r] \in Proc
    BY <1>0 DEF Process
  <2> HIDE DEF todo
  <2>4. proc'[r].todo = todo
    BY <1>0, <2>2, <2>3 DEF Proc
  <2>5. d = c
    BY <2>4 DEF todo
  <2> QED
    BY <2>1, <2>5
<1>4. ASSUME NEW s \in Procs, NEW d \in proc[s].todo, finalizeEmbeddingJob(s, d)
      PROVE  UNCHANGED <<job, embedding>>
  <2>1. \E x : becomes(s, d, x)
    BY <1>4 DEF finalizeEmbeddingJob
  <2>2. s = r /\ d = c
    BY <1>3, <2>1
  <2> QED
    BY <1>1, <1>4, <2>2 DEF finalizeEmbeddingJob
<1>5. ASSUME NEW s \in Procs, NEW d \in proc[s].todo, failEmbeddingJob(s, d)
      PROVE  UNCHANGED <<job, embedding>>
  <2>1. s = r /\ d = c
    BY <1>3, <1>5 DEF failEmbeddingJob
  <2> QED
    BY <1>1, <1>5, <2>1 DEF failEmbeddingJob
<1>6. ASSUME NEW s \in Procs, NEW d \in proc[s].todo, readJob(s, d)
      PROVE  UNCHANGED <<job, embedding>>
  BY <1>6 DEF readJob
\* Claiming and setting up begin in processes that hold no claims.
<1>7. ASSUME NEW s \in Procs, NEW p \in Profiles, runEmbeddingSetup(s, p)
      PROVE  FALSE
  <2>1. proc[s].phase # "draining" /\ \E q : proc' = [proc EXCEPT ![s] = q]
    BY <1>7 DEF runEmbeddingSetup
  <2> QED
    BY <1>0, <1>2, <2>1
<1>8. ASSUME NEW s \in Procs, openRuntime(s) \/ ensureActive(s) \/ embedBatch(s) \/ drainEnds(s)
                              \/ goesDown(s) \/ deadlinePasses(s)
      PROVE  UNCHANGED <<job, embedding>>
  BY <1>8 DEF openRuntime, ensureActive, embedBatch, drainEnds, goesDown, deadlinePasses
<1>9. ASSUME NEW e, NEW d, NEW p, recordEntry(e, d) \/ updateCandidateEntry(e, d) \/ purgeEntry(e)
                                  \/ activateLocalEmbeddingProfile(p) \/ rebuild \/ Tick
      PROVE  FALSE
  BY <1>2, <1>9 DEF recordEntry, updateCandidateEntry, purgeEntry, activateLocalEmbeddingProfile, rebuild, Tick
<1>10. ASSUME NEW s \in Procs, claimEmbeddingJobs(s)
       PROVE  FALSE
  <2>1. proc[s].phase # "draining" /\ \E q : proc' = [proc EXCEPT ![s] = q]
    BY <1>10 DEF claimEmbeddingJobs
  <2> QED
    BY <1>0, <1>2, <2>1
<1> QED
  BY <1>4, <1>5, <1>6, <1>7, <1>8, <1>9, <1>10 DEF Next, Procs

\* A drain whose row was enqueued again, claimed by another drain, or
\* overtaken by a switch of the profile leaves queue and vectors alone when
\* it settles that claim (finalizeEmbeddingJobInTransaction and
\* failEmbeddingJobInTransaction test the lease first).
THEOREM OvertakenSafe == Spec => OvertakenNeverWrites
<1> DEFINE Step == \A r \in Procs : \A c \in proc[r].todo :
                     (c.stage \in {"store", "fail"} /\ c \notin proc'[r].todo /\ overtaken(r, c))
                       => UNCHANGED <<job, embedding>>
<1>1. ASSUME ProjectionInv, [Next]_vars
      PROVE  [Step]_vars
  BY <1>1, Overtaken DEF vars
<1>2. Spec => [][Step]_vars
  BY <1>1, ProjectionCorrect, PTL DEF Spec
<1> QED
  BY <1>2 DEF OvertakenNeverWrites
-----------------------------------------------------------------------------
(* Nothing drops out of the projection                                     *)

\* What claims, failures and time leave of a row is of the same revision.
LEMMA RowKeepsItsRevision ==
  ASSUME NEW row \in QueueRow, NEW n \in LeaseIds, NEW r, NEW c,
         NEW new \in {claimedRow(row, n), failedRow(r, c, row),
                      [row EXCEPT !.wait = Elapse(@), !.expires = Elapse(@)]}
  PROVE  new.rev = row.rev /\ (row.state # "none" => new.state # "none")
<1>1. row \in JobRow
  BY DEF QueueRow
<1>2. CASE new = claimedRow(row, n)
  BY <1>1, <1>2 DEF claimedRow, JobRow
<1>3. CASE new = failedRow(r, c, row)
  BY <1>1, <1>3 DEF failedRow, JobRow
<1>4. CASE new = [row EXCEPT !.wait = Elapse(@), !.expires = Elapse(@)]
  BY <1>1, <1>4 DEF JobRow
<1> QED
  BY <1>2, <1>3, <1>4

\* No step drops an entry: what it takes from the queue becomes a vector or a refusal.
LEMMA CoverStep ==
  ASSUME ProjectionInv, ProjectionCovered, [Next]_vars
  PROVE  ProjectionCovered'
<1>0. /\ EntriesInv /\ ActiveInv /\ JobsInv /\ DrainInv /\ VectorInv
      /\ job \in [Entries -> [Profiles -> QueueRow]]
      /\ entry \in [Entries -> Seq(Docs)] /\ embedding \in [Entries -> [Profiles -> EmbeddingRow]]
      /\ None \notin Profiles
  BY EmbeddingAssumption DEF EmbeddingAssumption, ProjectionInv, EntriesInv, VectorInv, JobsInv
\* A new revision is enqueued ...
<1>1. ASSUME NEW e \in Entries, NEW d, NEW new, Len(new) \in Nat, enqueueCurrentEntry(e, Len(new)),
             entry' = [entry EXCEPT ![e] = new], UNCHANGED <<active, embedding>>
      PROVE  ProjectionCovered'
  <2> SUFFICES ASSUME active # None, NEW f \in Entries, entry'[f] # <<>>
               PROVE  \/ embedding[f][active].rev = Len(entry'[f])
                      \/ job'[f][active].state # "none" /\ job'[f][active].rev = Len(entry'[f])
    BY <1>1 DEF ProjectionCovered, Live, current, revision
  <2> DEFINE row == enqueueForProfile(job[e][active], Len(new))
  <2>1. active \in Profiles /\ job' = [job EXCEPT ![e][active] = row]
    BY <1>0, <1>1 DEF ActiveInv, enqueueCurrentEntry
  <2>2. row.state = "pending" /\ row.rev = Len(new)
    BY DEF enqueueForProfile, NoJob
  <2> HIDE DEF row
  <2>3. CASE f = e
    BY <1>0, <1>1, <2>1, <2>2, <2>3
  <2>4. CASE f # e
    <3>1. job'[f] = job[f] /\ entry'[f] = entry[f]
      BY <1>0, <1>1, <2>1, <2>4
    <3>2. current(f, active) \/ (job[f][active].state # "none" /\ job[f][active].rev = revision(f))
      BY <3>1 DEF ProjectionCovered, Live
    <3> QED
      BY <3>1, <3>2 DEF current, revision
  <2> QED
    BY <2>3, <2>4
<1>2. ASSUME NEW e \in Entries, NEW d \in Docs, recordEntry(e, d)
      PROVE  ProjectionCovered'
  <2>1. Len(<<d>>) = 1
    OBVIOUS
  <2> QED
    BY <1>1, <1>2, <2>1 DEF recordEntry
<1>3. ASSUME NEW e \in Entries, NEW d \in Docs, updateCandidateEntry(e, d)
      PROVE  ProjectionCovered'
  <2> DEFINE new == Append(entry[e], d)
  <2>1. Len(new) = revision(e) + 1 /\ Len(new) \in Nat
    BY <1>0, AppendProperties DEF revision
  <2>2. entry' = [entry EXCEPT ![e] = new] /\ UNCHANGED <<active, embedding>>
        /\ enqueueCurrentEntry(e, revision(e) + 1)
    BY <1>3 DEF updateCandidateEntry
  <2> HIDE DEF new
  <2> QED
    BY <1>1, <2>1, <2>2
\* ... and so are all entries under a profile that becomes active.
<1>4. ASSUME NEW p \in Profiles, enqueueAllCurrentEntries(p), active' = p, UNCHANGED entry
      PROVE  ProjectionCovered'
  <2> SUFFICES ASSUME NEW f \in Entries, entry[f] # <<>>
               PROVE  job'[f][p].state # "none" /\ job'[f][p].rev = Len(entry[f])
    BY <1>4 DEF ProjectionCovered, Live, current, revision
  <2> DEFINE row == enqueueForProfile(job[f][p], Len(entry[f]))
  <2>1. job'[f] = [job[f] EXCEPT ![p] = row]
    BY <1>4 DEF enqueueAllCurrentEntries, Live, revision
  <2>2. row.state = "pending" /\ row.rev = Len(entry[f])
    BY DEF enqueueForProfile, NoJob
  <2> HIDE DEF row
  <2> QED
    BY <1>0, <2>1, <2>2
<1>5. ASSUME NEW e \in Entries, purgeEntry(e)
      PROVE  ProjectionCovered'
  <2>1. /\ entry' = [entry EXCEPT ![e] = <<>>] /\ UNCHANGED active
        /\ job' = [job EXCEPT ![e] = [p \in Profiles |-> NoJob]]
        /\ embedding' = [embedding EXCEPT ![e] = [p \in Profiles |-> NoEmbedding]]
    BY <1>5 DEF purgeEntry
  <2> QED
    BY <1>0, <2>1 DEF ProjectionCovered, Live, current, revision
\* A row keeps its revision until its vector is stored.
<1>6. ASSUME UNCHANGED <<entry, active>>,
             active # None => \A e \in Entries :
               \/ /\ embedding'[e][active].rev = embedding[e][active].rev
                  /\ job'[e][active].rev = job[e][active].rev
                  /\ job[e][active].state # "none" => job'[e][active].state # "none"
               \/ embedding'[e][active].rev = revision(e)
      PROVE  ProjectionCovered'
  BY <1>6 DEF ProjectionCovered, Live, current, revision
<1>7. ASSUME NEW r \in Procs, NEW c \in proc[r].todo, finalizeEmbeddingJob(r, c)
      PROVE  ProjectionCovered'
  <2> DEFINE e == c.entry
             p == settleProfile(r, c)
             row == [rev |-> c.rev, doc |-> c.doc, vector |-> c.vector]
  <2>0. UNCHANGED <<entry, active>>
    BY <1>7 DEF finalizeEmbeddingJob, Quiet
  <2>1. CASE finalizable(r, c)
    <3>1. e \in Entries /\ p \in Profiles /\ active = p /\ c.rev = revision(e)
      BY <1>0, <2>1, Holder DEF Claim, finalizable, leaseOwner
    <3>2. embedding' = [embedding EXCEPT ![e][p] = row] /\ job' = [job EXCEPT ![e][p] = NoJob]
      BY <1>7, <2>1 DEF finalizeEmbeddingJob
    <3>3. row.rev = c.rev
      OBVIOUS
    <3> HIDE DEF e, p, row
    <3> QED
      BY <1>0, <1>6, <2>0, <3>1, <3>2, <3>3
  <2>2. CASE ~finalizable(r, c)
    BY <1>6, <1>7, <2>0, <2>2 DEF finalizeEmbeddingJob
  <2> QED
    BY <2>1, <2>2
<1>8. ASSUME NEW r \in Procs, NEW c \in proc[r].todo, failEmbeddingJob(r, c)
      PROVE  ProjectionCovered'
  <2> DEFINE e == c.entry
             p == settleProfile(r, c)
             row == failedRow(r, c, job[e][p])
  <2>0. UNCHANGED <<entry, active, embedding>>
    BY <1>8 DEF failEmbeddingJob, Quiet
  <2>1. CASE leaseOwner(r, c)
    <3>1. e \in Entries /\ p \in Profiles /\ c.lease \in LeaseIds
      BY <1>0, Holder DEF Claim
    <3>2. job' = [job EXCEPT ![e][p] = row]
      BY <1>8, <2>1 DEF failEmbeddingJob
    <3>3. row.rev = job[e][p].rev /\ (job[e][p].state # "none" => row.state # "none")
      BY <1>0, <3>1, RowKeepsItsRevision
    <3> HIDE DEF e, p, row
    <3> QED
      BY <1>0, <1>6, <2>0, <3>1, <3>2, <3>3
  <2>2. CASE ~leaseOwner(r, c)
    BY <1>6, <1>8, <2>0, <2>2 DEF failEmbeddingJob
  <2> QED
    BY <2>1, <2>2
<1>9. ASSUME NEW r \in Procs, claimEmbeddingJobs(r)
      PROVE  ProjectionCovered'
  <2>1. /\ UNCHANGED <<entry, active, embedding>> /\ active \in Profiles /\ leaseIdFactory \in LeaseIds
        /\ job' = [e \in Entries |-> [job[e] EXCEPT ![active] = claimedRow(@, leaseIdFactory)]]
    BY <1>0, <1>9 DEF ActiveInv, claimEmbeddingJobs, leaseIdFactory, Quiet
  <2>2. ASSUME NEW e \in Entries
        PROVE  /\ job'[e][active].rev = job[e][active].rev
               /\ job[e][active].state # "none" => job'[e][active].state # "none"
    <3>1. job'[e][active] = claimedRow(job[e][active], leaseIdFactory) /\ job[e][active] \in QueueRow
      BY <1>0, <2>1
    <3> QED
      BY <2>1, <3>1, RowKeepsItsRevision
  <2> QED
    BY <1>6, <2>1, <2>2
<1>10. CASE Tick
  <2>1. UNCHANGED <<entry, active, embedding>>
    BY <1>10 DEF Tick, Quiet
  <2>2. ASSUME NEW e \in Entries, NEW p \in Profiles
        PROVE  job'[e][p].rev = job[e][p].rev /\ job'[e][p].state = job[e][p].state
    <3>1. job[e][p] \in JobRow
      BY <1>0 DEF QueueRow
    <3>2. job'[e][p] = [job[e][p] EXCEPT !.wait = Elapse(job[e][p].wait), !.expires = Elapse(job[e][p].expires)]
      BY <1>10 DEF Tick
    <3> QED
      BY <3>1, <3>2 DEF JobRow
  <2> QED
    BY <1>0, <1>6, <2>1, <2>2 DEF ActiveInv
<1>11. CASE rebuild
  BY <1>0, <1>4, <1>11 DEF rebuild, ActiveInv
<1>12. ASSUME NEW p \in Profiles, switchProfile(p), UNCHANGED entry
       PROVE  ProjectionCovered'
  BY <1>4, <1>12 DEF switchProfile
<1>13. ASSUME NEW s, NEW p \in Profiles, runEmbeddingSetup(s, p) \/ activateLocalEmbeddingProfile(p)
       PROVE  ProjectionCovered'
  BY <1>6, <1>12, <1>13 DEF runEmbeddingSetup, activateLocalEmbeddingProfile
<1>14. CASE UNCHANGED <<entry, active, job, embedding>>
  BY <1>6, <1>14
<1>15. ASSUME NEW r \in Procs, NEW c \in proc[r].todo, readJob(r, c)
       PROVE  UNCHANGED <<entry, active, job, embedding>>
  BY <1>15 DEF readJob, Quiet
<1>16. ASSUME NEW r \in Procs, openRuntime(r) \/ ensureActive(r) \/ embedBatch(r) \/ drainEnds(r)
                               \/ goesDown(r) \/ deadlinePasses(r)
       PROVE  UNCHANGED <<entry, active, job, embedding>>
  BY <1>16 DEF openRuntime, ensureActive, embedBatch, drainEnds, goesDown, deadlinePasses, Quiet
<1> QED
  BY <1>2, <1>3, <1>5, <1>7, <1>8, <1>9, <1>10, <1>11, <1>13, <1>14, <1>15, <1>16 DEF Next, vars, Procs

\* Whatever is recorded, edited and purged while profiles are switched and
\* late drains settle, each live entry has a vector of its present revision
\* under the active profile or a row of the queue for exactly that revision
\* (the enqueues in recordEntryInTransaction, the edits of entries.ts and
\* activateLocalEmbeddingProfileInTransaction, against finalizeEmbeddingJob).
THEOREM NothingForgotten == Spec => []ProjectionCovered
<1>1. Init => ProjectionCovered
  BY DEF Init, ProjectionCovered
<1>2. ProjectionInv /\ ProjectionCovered /\ [Next]_vars => ProjectionCovered'
  BY CoverStep
<1> QED
  BY <1>1, <1>2, ProjectionCorrect, PTL DEF Spec
-----------------------------------------------------------------------------
(* The cache of query vectors, while profiles are switched (QueryCache)    *)

\* A row of the cache, a runtime, a flight and a call as they really occur.
CachedRow(p) == {[query |-> q, vector |-> <<p, q>>] : q \in Queries}
Answer == {None} \cup [vector : {None} \cup Profiles \X Queries]
QueryRuntime == [profile : Profiles, generation : Nat, state : {"open", "closing", "closed"}]
QueryFlight == [query : Queries, state : {"embedding", "queued", "settled"}, result : Answer]
QueryCall == [runtime : QueryRuntimes, query : Queries, key : Queries, owner : BOOLEAN, result : Answer]

OneRowPerQuery(rows) == \A i, j \in DOMAIN rows : rows[i].query = rows[j].query => i = j
\* What a flight of p for q leaves is the vector of q, or none.
Answers(result, p, q) == result # None => result.vector \in {None, <<p, q>>}

CacheTypes ==
  /\ profile \in Profiles /\ era \in Nat
  /\ cache \in [Profiles -> Seq([query : Queries, vector : Profiles \X Queries])]
  /\ runtime \in [QueryRuntimes -> QueryRuntime \cup {None}]
  /\ flights \in [QueryRuntimes -> [Queries -> QueryFlight \cup {None}]]
  /\ query \in [QueryCalls -> QueryCall \cup {None}]

RowsOfProfile(rows, p) == rows \in Seq(CachedRow(p)) /\ Len(rows) <= CacheLimit /\ OneRowPerQuery(rows)
RowsInv == \A p \in Profiles : RowsOfProfile(cache[p], p)

\* A flight is one of a runtime that exists, and somebody owns it.
Owner(made, r, k) == made # None /\ made.runtime = r /\ made.key = k /\ made.owner
FlightFits(flight, of, k) == of # None /\ flight.query = k /\ Answers(flight.result, of.profile, k)
FlightsInv ==
  \A r \in QueryRuntimes, k \in Queries : flights[r][k] # None =>
    FlightFits(flights[r][k], runtime[r], k) /\ \E c \in QueryCalls : Owner(query[c], r, k)
CallsInv ==
  \A c \in QueryCalls : query[c] # None =>
    /\ runtime[query[c].runtime] # None /\ query[c].key = query[c].query
    /\ Answers(query[c].result, runtime[query[c].runtime].profile, query[c].query)
ClosedInv ==
  \A r \in QueryRuntimes : runtime[r] # None /\ runtime[r].state = "closed" => \A k \in Queries : flights[r][k] = None

CacheInv == CacheTypes /\ RowsInv /\ FlightsInv /\ CallsInv /\ ClosedInv /\ faults = {}

\* No query is embedded before the first one.
LEMMA CacheInit == Cached!Init => CacheInv
BY InstallationAssumption DEF InstallationAssumption, Cached!Init, CacheInv, CacheTypes, RowsInv, RowsOfProfile,
   OneRowPerQuery, FlightsInv, CallsInv, ClosedInv

\* Without one of its rows a cache is shorter, of the same rows, each query still once.
LEMMA WithoutRow ==
  ASSUME NEW S, NEW rows \in Seq(S), NEW i \in DOMAIN rows, OneRowPerQuery(rows)
  PROVE  /\ Cached!without(rows, i) \in Seq(S)
         /\ Len(Cached!without(rows, i)) = Len(rows) - 1
         /\ OneRowPerQuery(Cached!without(rows, i))
         /\ \A j \in DOMAIN Cached!without(rows, i) : Cached!without(rows, i)[j].query # rows[i].query
<1> DEFINE at(j) == IF j < i THEN j ELSE j + 1
           rest == [j \in 1..(Len(rows) - 1) |-> rows[at(j)]]
<1>1. i \in 1..Len(rows) /\ Len(rows) \in Nat /\ Len(rows) - 1 \in Nat
  OBVIOUS
<1>2. \A j \in 1..(Len(rows) - 1) : at(j) \in 1..Len(rows) /\ at(j) # i
  BY <1>1
<1>3. rest \in Seq(S) /\ Len(rest) = Len(rows) - 1 /\ DOMAIN rest = 1..(Len(rows) - 1)
  BY <1>1, <1>2
<1>4. \A j \in DOMAIN rest : rest[j] = rows[at(j)]
  BY <1>3
<1>5. Cached!without(rows, i) = rest
  BY DEF Cached!without
<1>6. \A j, k \in DOMAIN rest : at(j) = at(k) => j = k
  BY <1>1, <1>3
<1> HIDE DEF rest, at
<1>7. OneRowPerQuery(rest)
  BY <1>2, <1>3, <1>4, <1>6 DEF OneRowPerQuery
<1>8. \A j \in DOMAIN rest : rest[j].query # rows[i].query
  BY <1>1, <1>2, <1>3, <1>4 DEF OneRowPerQuery
<1> QED
  BY <1>3, <1>5, <1>7, <1>8

\* A row of another query may stand before the others.
LEMMA RowBefore ==
  ASSUME NEW S, NEW row \in S, NEW rest \in Seq(S), OneRowPerQuery(rest),
         \A j \in DOMAIN rest : rest[j].query # row.query
  PROVE  <<row>> \o rest \in Seq(S) /\ Len(<<row>> \o rest) = Len(rest) + 1 /\ OneRowPerQuery(<<row>> \o rest)
<1> DEFINE both == <<row>> \o rest
<1>1. both \in Seq(S) /\ Len(both) = Len(rest) + 1 /\ DOMAIN both = 1..(Len(rest) + 1)
  OBVIOUS
<1>2. both[1] = row /\ \A j \in DOMAIN both : j # 1 => j - 1 \in DOMAIN rest /\ both[j] = rest[j - 1]
  OBVIOUS
<1> HIDE DEF both
<1>3. OneRowPerQuery(both)
  <2> SUFFICES ASSUME NEW i \in DOMAIN both, NEW j \in DOMAIN both, both[i].query = both[j].query
               PROVE  i = j
    BY DEF OneRowPerQuery
  <2>1. CASE i = 1 \/ j = 1
    BY <1>2, <2>1
  <2>2. CASE i # 1 /\ j # 1
    BY <1>1, <1>2, <2>2 DEF OneRowPerQuery
  <2> QED
    BY <2>1, <2>2
<1> QED
  BY <1>1, <1>3 DEF both

\* Pruning keeps a beginning of the rows, no longer than the limit.
LEMMA PrunedRows ==
  ASSUME NEW S, NEW rows \in Seq(S), OneRowPerQuery(rows)
  PROVE  /\ Cached!pruneProfileCache(rows) \in Seq(S) /\ OneRowPerQuery(Cached!pruneProfileCache(rows))
         /\ Len(Cached!pruneProfileCache(rows)) <= CacheLimit
<1> DEFINE n == IF Len(rows) < CacheLimit THEN Len(rows) ELSE CacheLimit
           kept == SubSeq(rows, 1, n)
<1>1. n \in 0..Len(rows) /\ n <= CacheLimit
  BY InstallationAssumption DEF InstallationAssumption
<1> HIDE DEF n
<1>2. kept \in Seq(S) /\ Len(kept) = n /\ DOMAIN kept = 1..n /\ \A j \in 1..n : kept[j] = rows[j]
  BY <1>1
<1>3. OneRowPerQuery(kept)
  BY <1>1, <1>2 DEF OneRowPerQuery
<1>4. Cached!pruneProfileCache(rows) = kept
  BY DEF Cached!pruneProfileCache, n
<1> QED
  BY <1>1, <1>2, <1>3, <1>4

\* No record is None.
LEMMA NotNone == \A made \in QueryCall : made # None
BY InstallationAssumption DEF InstallationAssumption, QueryCall, Answer

\* A profile whose rows are written keeps the types and the rows of the others.
LEMMA CacheWritten ==
  ASSUME CacheTypes, RowsInv, NEW p \in Profiles, NEW rows, RowsOfProfile(rows, p), cache' = [cache EXCEPT ![p] = rows]
  PROVE  /\ cache' \in [Profiles -> Seq([query : Queries, vector : Profiles \X Queries])] /\ RowsInv'
         /\ UNCHANGED <<profile, era, runtime, flights, query>> => CacheTypes'
<1>1. cache \in [Profiles -> Seq([query : Queries, vector : Profiles \X Queries])]
  BY DEF CacheTypes
<1>2. CachedRow(p) \subseteq [query : Queries, vector : Profiles \X Queries]
  BY DEF CachedRow
<1>3. rows \in Seq([query : Queries, vector : Profiles \X Queries])
  <2>1. rows \in Seq(CachedRow(p))
    BY DEF RowsOfProfile
  <2> QED
    BY <1>2, <2>1, SeqMonotonic
<1>4. cache' \in [Profiles -> Seq([query : Queries, vector : Profiles \X Queries])]
  BY <1>1, <1>3
<1>5. RowsInv'
  BY <1>1 DEF RowsInv
<1> QED
  BY <1>4, <1>5 DEF CacheTypes

\* A hit moves its row to the front, and its vector is that of the query.
LEMMA AnsweredFromCache ==
  ASSUME CacheInv, NEW c \in QueryCalls, NEW r \in QueryRuntimes, NEW q \in Queries, Cached!answerCached(c, r, q)
  PROVE  CacheInv'
<1> DEFINE p == runtime[r].profile
<1>1. CacheTypes /\ RowsInv /\ FlightsInv /\ CallsInv /\ ClosedInv /\ faults = {}
  BY DEF CacheInv
<1>2. runtime[r] # None /\ p = profile /\ p \in Profiles /\ runtime[r] \in QueryRuntime
  BY <1>1 DEF CacheTypes, Cached!answerCached, Cached!assertExpectedGeneration, Cached!ensureActive
<1>3. UNCHANGED <<profile, era, runtime, flights, query>>
  BY DEF Cached!answerCached
<1>4. PICK i \in Cached!rowsFor(p, q) :
        /\ cache' = [cache EXCEPT ![p] = <<cache[p][i]>> \o Cached!without(cache[p], i)]
        /\ Cached!answers(q, cache[p][i].vector)
  BY DEF Cached!answerCached
<1>5. i \in DOMAIN cache[p] /\ cache[p][i].query = q /\ RowsOfProfile(cache[p], p)
  BY <1>1, <1>2, <1>4 DEF Cached!rowsFor, RowsInv
<1>6. cache[p][i] \in CachedRow(p) /\ cache[p] \in Seq(CachedRow(p)) /\ OneRowPerQuery(cache[p])
  BY <1>5 DEF RowsOfProfile
<1>7. cache[p][i].vector = <<p, q>>
  BY <1>5, <1>6 DEF CachedRow
<1>8. faults' = {}
  BY <1>1, <1>2, <1>4, <1>7 DEF Cached!answers
<1> DEFINE rest == Cached!without(cache[p], i)
           rows == <<cache[p][i]>> \o rest
<1>9. /\ rest \in Seq(CachedRow(p)) /\ Len(rest) = Len(cache[p]) - 1 /\ OneRowPerQuery(rest)
      /\ \A j \in DOMAIN rest : rest[j].query # cache[p][i].query
  BY <1>5, <1>6, WithoutRow
<1> HIDE DEF rest
<1>10. rows \in Seq(CachedRow(p)) /\ Len(rows) = Len(rest) + 1 /\ OneRowPerQuery(rows)
  BY <1>6, <1>9, RowBefore
<1>11. cache' = [cache EXCEPT ![p] = rows]
  BY <1>4 DEF rest
<1> HIDE DEF rows
<1>12. RowsOfProfile(rows, p)
  BY <1>5, <1>6, <1>9, <1>10 DEF RowsOfProfile
<1>13. CacheTypes' /\ RowsInv'
  BY <1>1, <1>2, <1>3, <1>11, <1>12, CacheWritten
<1> QED
  BY <1>1, <1>3, <1>8, <1>13 DEF CacheInv, FlightsInv, FlightFits, Owner, CallsInv, ClosedInv

\* A miss joins the flight of its query or starts one that it owns.
LEMMA MissedInCache ==
  ASSUME CacheInv, NEW c \in QueryCalls, NEW r \in QueryRuntimes, NEW q \in Queries, Cached!prepareQuery(c, r, q)
  PROVE  CacheInv'
<1>1. CacheTypes /\ RowsInv /\ FlightsInv /\ CallsInv /\ ClosedInv /\ faults = {}
  BY DEF CacheInv
<1> DEFINE f == flights[r][q]
           made == [runtime |-> r, query |-> q, key |-> q, owner |-> f = None,
                    result |-> IF f = None THEN None ELSE f.result]
           flight == [query |-> q, state |-> "embedding", result |-> None]
<1>2. /\ query[c] = None /\ runtime[r] # None /\ runtime[r].state = "open"
      /\ query' = [query EXCEPT ![c] = made]
      /\ flights' = IF f # None THEN flights ELSE [flights EXCEPT ![r][q] = flight]
      /\ UNCHANGED <<profile, era, cache, runtime, faults>>
  BY DEF Cached!prepareQuery, Cached!queryEmbeddingCacheKey
<1>3. f \in QueryFlight \cup {None} /\ (f # None => f.result \in Answer)
  BY <1>1 DEF CacheTypes, QueryFlight
<1>4. made \in QueryCall /\ flight \in QueryFlight
  <2> DEFINE result == IF f = None THEN None ELSE f.result
             first == f = None
  <2>1. result \in Answer /\ None \in Answer /\ first \in BOOLEAN
    BY <1>3 DEF Answer
  <2>2. made = [runtime |-> r, query |-> q, key |-> q, owner |-> first, result |-> result]
    OBVIOUS
  <2> HIDE DEF result, first, made, f
  <2> QED
    BY <2>1, <2>2 DEF QueryCall, QueryFlight
<1>5. Answers(made.result, runtime[r].profile, q)
  BY <1>1 DEF FlightsInv, FlightFits, Answers
<1>6. made.runtime = r /\ made.key = q /\ made.query = q /\ (f = None => made.owner)
  OBVIOUS
<1>7. flight.query = q /\ flight.result = None
  OBVIOUS
<1>8. f = flights[r][q]
  OBVIOUS
<1> HIDE DEF made, flight, f
<1>9. CacheTypes'
  BY <1>1, <1>2, <1>4 DEF CacheTypes
<1>10. RowsInv' /\ faults' = {}
  BY <1>1, <1>2 DEF RowsInv
<1>11. /\ query'[c] = made /\ \A d \in QueryCalls : d # c => query'[d] = query[d]
       /\ \A s \in QueryRuntimes, k \in Queries :
            flights'[s][k] = IF s = r /\ k = q /\ f = None THEN flight ELSE flights[s][k]
  BY <1>1, <1>2 DEF CacheTypes
<1>12. CallsInv'
  BY <1>1, <1>2, <1>5, <1>6, <1>11 DEF CallsInv
<1>13. FlightsInv'
  <2> SUFFICES ASSUME NEW s \in QueryRuntimes, NEW k \in Queries, flights'[s][k] # None
               PROVE  FlightFits(flights'[s][k], runtime'[s], k) /\ \E d \in QueryCalls : Owner(query'[d], s, k)
    BY DEF FlightsInv
  <2>1. CASE s = r /\ k = q /\ f = None
    <3>1. flights'[s][k] = flight /\ made # None
      BY <1>4, <1>11, <2>1, NotNone
    <3> QED
      BY <1>2, <1>6, <1>7, <1>11, <2>1, <3>1 DEF Answers, FlightFits, Owner
  <2>2. CASE ~(s = r /\ k = q /\ f = None)
    <3>1. flights'[s][k] = flights[s][k]
      BY <1>11, <2>2
    <3>2. PICK d \in QueryCalls : Owner(query[d], s, k)
      <4>1. flights[s][k] # None
        BY <3>1
      <4> QED
        BY <1>1, <4>1 DEF FlightsInv, FlightFits, Owner
    <3>3. query'[d] = query[d]
      BY <1>2, <1>11, <3>2 DEF Owner
    <3> QED
      BY <1>1, <1>2, <3>1, <3>2, <3>3 DEF FlightsInv, FlightFits, Owner
  <2> QED
    BY <2>1, <2>2
<1>14. ClosedInv'
  BY <1>1, <1>2, <1>11 DEF ClosedInv
<1> QED
  BY <1>9, <1>10, <1>12, <1>13, <1>14 DEF CacheInv

\* Who holds a flight when it settles gets the vector of that flight's query, or none.
LEMMA FlightSettles ==
  ASSUME CacheInv, NEW r \in QueryRuntimes, NEW k \in Queries, flights[r][k] # None,
         NEW vector \in {None, <<runtime[r].profile, k>>}, Cached!settled(r, k, vector),
         UNCHANGED <<profile, runtime>>
  PROVE  /\ flights' \in [QueryRuntimes -> [Queries -> QueryFlight \cup {None}]]
         /\ query' \in [QueryCalls -> QueryCall \cup {None}]
         /\ FlightsInv' /\ CallsInv' /\ ClosedInv'
<1>1. CacheTypes /\ RowsInv /\ FlightsInv /\ CallsInv /\ ClosedInv
  BY DEF CacheInv
<1> DEFINE result == [vector |-> vector]
           landed == [flights[r][k] EXCEPT !.state = "settled", !.result = result]
           told(c) == c \in Cached!callersOf(r, k) /\ query[c].result = None
           after(c) == IF told(c) THEN [query[c] EXCEPT !.result = result] ELSE query[c]
<1>2. /\ flights' = [flights EXCEPT ![r][k] = landed]
      /\ query' = [c \in QueryCalls |-> after(c)]
  BY DEF Cached!settled
<1>3. runtime[r] # None /\ runtime[r].profile \in Profiles /\ flights[r][k].query = k
  BY <1>1 DEF FlightsInv, FlightFits, Owner, CacheTypes, QueryRuntime
<1>4. result \in Answer /\ Answers(result, runtime[r].profile, k)
  BY <1>3 DEF Answer, Answers
<1>5. flights[r][k] \in QueryFlight
  BY <1>1 DEF CacheTypes
<1>6. landed \in QueryFlight /\ landed.query = k /\ landed.result = result
  BY <1>3, <1>4, <1>5 DEF QueryFlight
<1>7. ASSUME NEW c \in QueryCalls
      PROVE  /\ query'[c] \in QueryCall \cup {None} /\ (query'[c] # None <=> query[c] # None)
             /\ query[c] # None => /\ query'[c].runtime = query[c].runtime /\ query'[c].key = query[c].key
                                   /\ query'[c].query = query[c].query /\ query'[c].owner = query[c].owner
                                   /\ Answers(query'[c].result, runtime[query[c].runtime].profile, query[c].query)
  <2>1. query'[c] = after(c) /\ query[c] \in QueryCall \cup {None}
    BY <1>1, <1>2 DEF CacheTypes
  <2>2. CASE told(c)
    <3>1. query[c] # None /\ query[c].runtime = r /\ query[c].key = k /\ query[c] \in QueryCall
      BY <2>1, <2>2 DEF Cached!callersOf
    <3>2. query[c].query = k
      BY <1>1, <3>1 DEF CallsInv
    <3> DEFINE new == [query[c] EXCEPT !.result = result]
    <3>3. /\ new \in QueryCall /\ new.runtime = query[c].runtime /\ new.key = query[c].key
          /\ new.query = query[c].query /\ new.owner = query[c].owner /\ new.result = result
      BY <1>4, <3>1 DEF QueryCall
    <3>4. query'[c] = new
      BY <2>1, <2>2
    <3> HIDE DEF new, result
    <3>5. new # None
      BY <3>3, NotNone
    <3> QED
      BY <1>4, <3>1, <3>2, <3>3, <3>4, <3>5
  <2>3. CASE ~told(c)
    BY <1>1, <2>1, <2>3 DEF CallsInv
  <2> QED
    BY <2>2, <2>3
<1>8. \A s \in QueryRuntimes, q \in Queries : flights'[s][q] = IF s = r /\ q = k THEN landed ELSE flights[s][q]
  BY <1>1, <1>2 DEF CacheTypes
<1>9. UNCHANGED runtime
  OBVIOUS
<1>10. query' \in [QueryCalls -> QueryCall \cup {None}]
  BY <1>2, <1>7
<1>11. flights' \in [QueryRuntimes -> [Queries -> QueryFlight \cup {None}]]
  BY <1>1, <1>2, <1>6 DEF CacheTypes
<1> HIDE DEF landed, result, after, told
<1>12. CallsInv'
  BY <1>1, <1>7, <1>9 DEF CallsInv
<1>13. FlightsInv'
  <2> SUFFICES ASSUME NEW s \in QueryRuntimes, NEW q \in Queries, flights'[s][q] # None
               PROVE  FlightFits(flights'[s][q], runtime[s], q) /\ \E d \in QueryCalls : Owner(query'[d], s, q)
    BY <1>9 DEF FlightsInv
  <2>1. flights[s][q] # None
    BY <1>8
  <2>2. PICK d \in QueryCalls : Owner(query[d], s, q)
    BY <1>1, <2>1 DEF FlightsInv, FlightFits, Owner
  <2>3. Owner(query'[d], s, q)
    BY <1>7, <2>2 DEF Owner
  <2>4. FlightFits(flights'[s][q], runtime[s], q)
    BY <1>1, <1>4, <1>6, <1>8, <2>1 DEF FlightsInv, FlightFits, Owner
  <2> QED
    BY <1>1, <2>1, <2>3, <2>4 DEF FlightsInv, FlightFits, Owner
<1>14. ClosedInv'
  BY <1>1, <1>8, <1>9 DEF ClosedInv
<1> QED
  BY <1>10, <1>11, <1>12, <1>13, <1>14

\* The provider answers; what it failed to give, or gave too late, is no vector.
LEMMA ProviderAnswered ==
  ASSUME CacheInv, NEW r \in QueryRuntimes, NEW k \in Queries, NEW ok, Cached!providerAnswers(r, k, ok)
  PROVE  CacheInv'
<1>1. CacheTypes /\ RowsInv /\ FlightsInv /\ CallsInv /\ ClosedInv /\ faults = {}
  BY DEF CacheInv
<1>2. flights[r][k] # None /\ UNCHANGED <<profile, era, cache, runtime, faults>>
  BY DEF Cached!providerAnswers
<1>3. CASE Cached!settled(r, k, None)
  <2>1. /\ flights' \in [QueryRuntimes -> [Queries -> QueryFlight \cup {None}]]
        /\ query' \in [QueryCalls -> QueryCall \cup {None}] /\ FlightsInv' /\ CallsInv' /\ ClosedInv'
    BY <1>2, <1>3, FlightSettles
  <2> QED
    BY <1>1, <1>2, <2>1 DEF CacheInv, CacheTypes, RowsInv
<1>4. CASE flights' = [flights EXCEPT ![r][k].state = "queued"] /\ UNCHANGED query
  <2> DEFINE sent == [flights[r][k] EXCEPT !.state = "queued"]
  <2>1. flights[r][k] \in QueryFlight
    BY <1>1, <1>2 DEF CacheTypes
  <2>2. sent \in QueryFlight /\ sent.query = flights[r][k].query /\ sent.result = flights[r][k].result
    BY <2>1 DEF QueryFlight
  <2>3. flights' = [flights EXCEPT ![r][k] = sent] /\ UNCHANGED query
    BY <1>4
  <2> HIDE DEF sent
  <2>4. CacheTypes'
    <3>1. flights \in [QueryRuntimes -> [Queries -> QueryFlight \cup {None}]]
      BY <1>1 DEF CacheTypes
    <3>2. flights' \in [QueryRuntimes -> [Queries -> QueryFlight \cup {None}]]
      BY <2>2, <2>3, <3>1
    <3> QED
      BY <1>1, <1>2, <2>3, <3>2 DEF CacheTypes
  <2>5. \A s \in QueryRuntimes, q \in Queries : flights'[s][q] = IF s = r /\ q = k THEN sent ELSE flights[s][q]
    BY <1>1, <2>3 DEF CacheTypes
  <2>6. FlightsInv'
    <3>1. \A s \in QueryRuntimes, q \in Queries : flights'[s][q] # None =>
            /\ flights[s][q] # None
            /\ flights'[s][q].query = flights[s][q].query /\ flights'[s][q].result = flights[s][q].result
      BY <1>2, <2>2, <2>5
    <3> QED
      BY <1>1, <1>2, <1>4, <3>1 DEF FlightsInv, FlightFits, Owner
  <2>7. CallsInv' /\ ClosedInv'
    BY <1>1, <1>2, <1>4, <2>5 DEF CallsInv, ClosedInv
  <2> QED
    BY <1>1, <1>2, <2>4, <2>6, <2>7 DEF CacheInv, RowsInv
<1> QED
  BY <1>3, <1>4 DEF Cached!providerAnswers

\* The write puts its row before the others of the profile, if the runtime was not overtaken.
LEMMA VectorWritten ==
  ASSUME CacheInv, NEW r \in QueryRuntimes, NEW k \in Queries, Cached!writeQueryEmbedding(r, k)
  PROVE  CacheInv'
<1> DEFINE p == runtime[r].profile
           row == [query |-> k, vector |-> <<p, k>>]
<1>1. CacheTypes /\ RowsInv /\ FlightsInv /\ CallsInv /\ ClosedInv /\ faults = {}
  BY DEF CacheInv
<1>2. flights[r][k] # None /\ flights[r][k].query = k /\ runtime[r] # None /\ p \in Profiles
  BY <1>1 DEF Cached!writeQueryEmbedding, FlightsInv, FlightFits, Owner, CacheTypes, QueryRuntime
<1>3. UNCHANGED <<profile, era, runtime>>
  BY DEF Cached!writeQueryEmbedding
<1>4. \/ Cached!settled(r, k, None) /\ UNCHANGED <<cache, faults>>
      \/ /\ Cached!assertExpectedGeneration(r) /\ Cached!settled(r, k, <<p, k>>) /\ Cached!writes(r)
         /\ cache' = [cache EXCEPT ![p] = Cached!pruneProfileCache(<<row>> \o Cached!others(p, k))]
  BY <1>2 DEF Cached!writeQueryEmbedding
<1>5. CASE Cached!settled(r, k, None) /\ UNCHANGED <<cache, faults>>
  <2>1. /\ flights' \in [QueryRuntimes -> [Queries -> QueryFlight \cup {None}]]
        /\ query' \in [QueryCalls -> QueryCall \cup {None}] /\ FlightsInv' /\ CallsInv' /\ ClosedInv'
    BY <1>2, <1>3, <1>5, FlightSettles
  <2> QED
    BY <1>1, <1>3, <1>5, <2>1 DEF CacheInv, CacheTypes, RowsInv
<1>6. CASE /\ Cached!assertExpectedGeneration(r) /\ Cached!settled(r, k, <<p, k>>) /\ Cached!writes(r)
           /\ cache' = [cache EXCEPT ![p] = Cached!pruneProfileCache(<<row>> \o Cached!others(p, k))]
  <2>1. /\ flights' \in [QueryRuntimes -> [Queries -> QueryFlight \cup {None}]]
        /\ query' \in [QueryCalls -> QueryCall \cup {None}] /\ FlightsInv' /\ CallsInv' /\ ClosedInv'
    BY <1>2, <1>3, <1>6, FlightSettles
  <2>2. faults' = {}
    BY <1>1, <1>6 DEF Cached!writes, Cached!assertExpectedGeneration, Cached!ensureActive
  <2> DEFINE rest == Cached!others(p, k)
             rows == Cached!pruneProfileCache(<<row>> \o rest)
  <2>3. cache[p] \in Seq(CachedRow(p)) /\ OneRowPerQuery(cache[p])
    BY <1>1, <1>2 DEF RowsInv, RowsOfProfile
  <2>4. /\ rest \in Seq(CachedRow(p)) /\ OneRowPerQuery(rest)
        /\ \A j \in DOMAIN rest : rest[j].query # k
    <3>1. CASE Cached!rowsFor(p, k) = {}
      BY <2>3, <3>1 DEF Cached!others, Cached!rowsFor
    <3>2. CASE Cached!rowsFor(p, k) # {}
      <4> DEFINE i == CHOOSE j \in Cached!rowsFor(p, k) : TRUE
      <4>1. i \in DOMAIN cache[p] /\ cache[p][i].query = k
        BY <3>2 DEF Cached!rowsFor
      <4>2. rest = Cached!without(cache[p], i)
        BY <3>2 DEF Cached!others
      <4> HIDE DEF i, rest
      <4> QED
        BY <2>3, <4>1, <4>2, WithoutRow
    <3> QED
      BY <3>1, <3>2
  <2>5. row \in CachedRow(p) /\ row.query = k
    BY DEF CachedRow
  <2> HIDE DEF rest, row, p
  <2>6. <<row>> \o rest \in Seq(CachedRow(p)) /\ OneRowPerQuery(<<row>> \o rest)
    BY <2>4, <2>5, RowBefore
  <2>7. RowsOfProfile(rows, p)
    BY <2>6, PrunedRows DEF RowsOfProfile
  <2>8. cache' = [cache EXCEPT ![p] = rows]
    BY <1>6 DEF rest
  <2> HIDE DEF rows
  <2>9. RowsInv' /\ cache' \in [Profiles -> Seq([query : Queries, vector : Profiles \X Queries])]
    BY <1>1, <1>2, <2>7, <2>8, CacheWritten
  <2> QED
    BY <1>1, <1>3, <2>1, <2>2, <2>9 DEF CacheInv, CacheTypes
<1> QED
  BY <1>4, <1>5, <1>6

\* A call that goes on after its flight answers with the vector of its query.
LEMMA CallGoesOn ==
  ASSUME CacheInv, NEW c \in QueryCalls, Cached!afterFlight(c)
  PROVE  CacheInv'
<1>1. CacheTypes /\ RowsInv /\ FlightsInv /\ CallsInv /\ ClosedInv /\ faults = {}
  BY DEF CacheInv
<1> DEFINE r == query[c].runtime
           k == query[c].key
<1>2. /\ query[c] # None /\ query[c].result # None /\ query' = [query EXCEPT ![c] = None]
      /\ flights' = IF query[c].owner THEN [flights EXCEPT ![r][k] = None] ELSE flights
      /\ UNCHANGED <<profile, era, cache, runtime>>
  BY DEF Cached!afterFlight, Cached!ended
<1>3. query[c] \in QueryCall /\ r \in QueryRuntimes /\ k \in Queries /\ query[c].query \in Queries
  BY <1>1, <1>2 DEF CacheTypes, QueryCall
<1>4. faults' = {}
  <2>1. Answers(query[c].result, runtime[r].profile, query[c].query)
    BY <1>1, <1>2 DEF CallsInv
  <2>2. CASE query[c].result.vector # None /\ Cached!ensureActive(r)
    <3>1. query[c].result.vector = <<profile, query[c].query>>
      BY <1>2, <2>1, <2>2 DEF Answers, Cached!ensureActive
    <3> QED
      BY <1>1, <2>2, <3>1 DEF Cached!afterFlight, Cached!answers
  <2>3. CASE ~(query[c].result.vector # None /\ Cached!ensureActive(r))
    BY <1>1, <2>3 DEF Cached!afterFlight
  <2> QED
    BY <2>2, <2>3
<1>5. CacheTypes'
  BY <1>1, <1>2, <1>3 DEF CacheTypes
<1>6. /\ \A d \in QueryCalls : query'[d] = IF d = c THEN None ELSE query[d]
      /\ \A s \in QueryRuntimes, q \in Queries : flights'[s][q] # None => flights'[s][q] = flights[s][q]
      /\ query[c].owner => flights'[r][k] = None
  BY <1>1, <1>2, <1>3 DEF CacheTypes
<1>7. FlightsInv'
  <2> SUFFICES ASSUME NEW s \in QueryRuntimes, NEW q \in Queries, flights'[s][q] # None
               PROVE  FlightFits(flights'[s][q], runtime'[s], q) /\ \E d \in QueryCalls : Owner(query'[d], s, q)
    BY DEF FlightsInv
  <2>1. flights'[s][q] = flights[s][q]
    BY <1>6
  <2>2. PICK d \in QueryCalls : Owner(query[d], s, q)
    BY <1>1, <2>1 DEF FlightsInv, FlightFits, Owner
  <2>3. d # c
    BY <1>6, <2>2 DEF Owner
  <2> QED
    BY <1>1, <1>2, <1>6, <2>1, <2>2, <2>3 DEF FlightsInv, FlightFits, Owner
<1>8. CallsInv'
  BY <1>1, <1>2, <1>6 DEF CallsInv
<1>9. ClosedInv' /\ RowsInv'
  BY <1>1, <1>2, <1>6 DEF ClosedInv, RowsInv
<1> QED
  BY <1>4, <1>5, <1>7, <1>8, <1>9 DEF CacheInv

\* Flights and calls do not depend on the profile that is active.
LEMMA FlightsKept ==
  ASSUME FlightsInv, CallsInv, UNCHANGED <<runtime, flights, query>>
  PROVE  FlightsInv' /\ CallsInv'
<1>1. FlightsInv'
  BY DEF FlightsInv, FlightFits, Owner
<1>2. CallsInv'
  BY DEF CallsInv
<1> QED
  BY <1>1, <1>2

\* Switches, new runtimes and their closing; one that is closed has nothing under way.
LEMMA RuntimesStep ==
  ASSUME CacheInv,
         \/ \E p \in Profiles : Cached!activate(p)
         \/ \E r \in QueryRuntimes : Cached!createEnabledRuntime(r) \/ Cached!close(r) \/ Cached!closeProvider(r)
  PROVE  CacheInv'
<1>1. CacheTypes /\ RowsInv /\ FlightsInv /\ CallsInv /\ ClosedInv /\ faults = {}
  BY DEF CacheInv
<1>2. ASSUME NEW p \in Profiles, Cached!activate(p)
      PROVE  CacheInv'
  <2>1. profile' \in Profiles /\ era' \in Nat /\ UNCHANGED <<cache, runtime, flights, query, faults>>
    BY <1>1, <1>2 DEF Cached!activate, CacheTypes
  <2>2. CacheTypes' /\ RowsInv' /\ ClosedInv' /\ faults' = {}
    BY <1>1, <2>1 DEF CacheTypes, RowsInv, ClosedInv
  <2>3. FlightsInv' /\ CallsInv'
    BY <1>1, <2>1, FlightsKept
  <2> QED
    BY <2>2, <2>3 DEF CacheInv
<1>3. ASSUME NEW r \in QueryRuntimes, NEW new \in QueryRuntime, runtime' = [runtime EXCEPT ![r] = new],
             runtime[r] # None => new.profile = runtime[r].profile,
             new.state = "closed" => \A k \in Queries : flights[r][k] = None,
             UNCHANGED <<profile, era, cache, flights, query, faults>>
      PROVE  CacheInv'
  <2>1. new # None
    BY InstallationAssumption DEF InstallationAssumption, QueryRuntime
  <2>2. \A s \in QueryRuntimes : runtime'[s] = IF s = r THEN new ELSE runtime[s]
    BY <1>1, <1>3 DEF CacheTypes
  <2>3. CacheTypes'
    BY <1>1, <1>3 DEF CacheTypes
  <2>4. RowsInv' /\ faults' = {}
    BY <1>1, <1>3 DEF RowsInv
  <2>5. \A s \in QueryRuntimes : runtime[s] # None => runtime'[s] # None /\ runtime'[s].profile = runtime[s].profile
    BY <1>3, <2>1, <2>2
  <2>6. FlightsInv'
    BY <1>1, <1>3, <2>5 DEF FlightsInv, FlightFits, Owner
  <2>7. \A c \in QueryCalls : query[c] # None => query[c].runtime \in QueryRuntimes
    BY <1>1 DEF CacheTypes, QueryCall
  <2>8. CallsInv'
    BY <1>1, <1>3, <2>5, <2>7 DEF CallsInv
  <2>9. ClosedInv'
    BY <1>1, <1>3, <2>2 DEF ClosedInv
  <2> QED
    BY <2>3, <2>4, <2>6, <2>8, <2>9 DEF CacheInv
<1>4. ASSUME NEW r \in QueryRuntimes, Cached!createEnabledRuntime(r)
      PROVE  CacheInv'
  <2> DEFINE new == [profile |-> profile, generation |-> era, state |-> "open"]
  <2>1. new \in QueryRuntime /\ new.state # "closed"
    BY <1>1 DEF CacheTypes, QueryRuntime
  <2>2. /\ runtime[r] = None /\ runtime' = [runtime EXCEPT ![r] = new]
        /\ UNCHANGED <<profile, era, cache, flights, query, faults>>
    BY <1>4 DEF Cached!createEnabledRuntime
  <2> HIDE DEF new
  <2> QED
    BY <1>3, <2>1, <2>2
<1>5. ASSUME NEW r \in QueryRuntimes, NEW how \in {"closing", "closed"}, runtime[r] # None,
             runtime' = [runtime EXCEPT ![r].state = how],
             how = "closed" => \A k \in Queries : flights[r][k] = None,
             UNCHANGED <<profile, era, cache, flights, query, faults>>
      PROVE  CacheInv'
  <2> DEFINE new == [runtime[r] EXCEPT !.state = how]
  <2>1. runtime[r] \in QueryRuntime
    BY <1>1, <1>5 DEF CacheTypes
  <2>2. new \in QueryRuntime /\ new.profile = runtime[r].profile /\ new.state = how
    BY <1>5, <2>1 DEF QueryRuntime
  <2>3. runtime' = [runtime EXCEPT ![r] = new]
    BY <1>5
  <2> HIDE DEF new
  <2>4. new.state = "closed" => \A k \in Queries : flights[r][k] = None
    BY <1>5, <2>2
  <2>5. UNCHANGED <<profile, era, cache, flights, query, faults>>
    BY <1>5
  <2> QED
    BY <1>3, <2>2, <2>3, <2>4, <2>5
<1>6. ASSUME NEW r \in QueryRuntimes, Cached!close(r)
      PROVE  CacheInv'
  BY <1>5, <1>6 DEF Cached!close
<1>7. ASSUME NEW r \in QueryRuntimes, Cached!closeProvider(r)
      PROVE  CacheInv'
  <2>1. \A k \in Queries : flights[r][k] = None
    BY <1>1, <1>7 DEF Cached!closeProvider, Cached!activeOperations, FlightsInv, FlightFits, Owner
  <2> QED
    BY <1>5, <1>7, <2>1 DEF Cached!closeProvider
<1> QED
  BY <1>2, <1>4, <1>6, <1>7

\* CacheInv is inductive.
LEMMA CacheStep == CacheInv /\ [Cached!Next]_queryVars => CacheInv'
<1> SUFFICES ASSUME CacheInv, [Cached!Next]_queryVars PROVE CacheInv'
  OBVIOUS
<1>1. CASE UNCHANGED queryVars
  <2>1. CacheTypes' /\ RowsInv' /\ ClosedInv' /\ faults' = {}
    BY <1>1 DEF queryVars, CacheInv, CacheTypes, RowsInv, ClosedInv
  <2>2. FlightsInv' /\ CallsInv'
    BY <1>1, FlightsKept DEF queryVars, CacheInv
  <2> QED
    BY <2>1, <2>2 DEF CacheInv
<1>2. CASE Cached!Next
  BY <1>2, RuntimesStep, AnsweredFromCache, MissedInCache, ProviderAnswered, VectorWritten, CallGoesOn DEF Cached!Next
<1> QED
  BY <1>1, <1>2

\* The steps of the projection and of the cache are steps of theirs alone.
LEMMA OnlyEmbeddingSteps ==
  [AllNext]_all => /\ [Next]_vars
                   /\ InQueries' => InQueries /\ [Cached!Next]_queryVars
<1>1. [AllNext]_all => [Next]_vars
  BY DEF AllNext, all, OnlySetup, OnlyUse, OnlyData, OnlyQueries, Next
<1>2. [AllNext]_all => (InQueries' => InQueries /\ [Cached!Next]_queryVars)
  BY DEF AllNext, all, InProjection, InSetup, InUse, InData, InQueries,
         OnlyProjection, OnlySetup, OnlyUse, OnlyData, OnlyQueries, Cached!Next
<1> QED
  BY <1>1, <1>2

\* Every live entry stays in the projection, and what a search gets is the
\* vector of its query under the active profile, from a flight it shares or a
\* cache that overtaken runtimes do not fill (createQueryEmbeddingRuntime,
\* QueryEmbeddingSingleFlight), in every behaviour of an installation.
THEOREM EmbeddingsStayCurrent == InstallationSpec => []EmbeddingsAreCurrent
<1> DEFINE Inv == ProjectionInv /\ ProjectionCovered /\ (InQueries => CacheInv)
<1>1. AllInit => Inv
  <2>1. Init => ProjectionInv /\ ProjectionCovered
    BY ProjectionInit DEF Init, ProjectionCovered
  <2>2. AllInit => Init /\ (InQueries => CacheInv)
    BY CacheInit DEF AllInit, InQueries
  <2> QED
    BY <2>1, <2>2
<1>2. Inv /\ [AllNext]_all => Inv'
  BY ProjectionStep, CoverStep, CacheStep, OnlyEmbeddingSteps
<1>3. Inv => EmbeddingsAreCurrent
  <2>1. CacheInv => Cached!QueriesFollowProfile
    BY DEF CacheInv, RowsInv, RowsOfProfile, OneRowPerQuery, ClosedInv, Cached!QueriesFollowProfile
  <2> QED
    BY <2>1 DEF EmbeddingsAreCurrent, InQueries
<1> QED
  BY <1>1, <1>2, <1>3, PTL DEF InstallationSpec
-----------------------------------------------------------------------------
(* The database: its states, its calls and its backup                      *)

Openers == {OldBinary, NewBinary}

\* A state of the database: every migration ran at most once, and none without the one before it.
DatabaseState == [ran : [1..Newest -> {0, 1}], writes : SUBSET Openers]
InOrder(state) == \A v \in 1..Newest : v > 1 /\ state.ran[v] = 1 => state.ran[v - 1] = 1

Failures == {"failed", "backpressure", "newer", "crashed"}
DatabaseCall == [job : {"migration", "write"}, pc : {"inspect", "begin", "run", "commit", "verify", "ended"},
                 attempt : Nat, told : {None, "ok", "uncertain"} \cup Failures]
BackupCall == [pc : {"idle", "serialize", "bind", "write", "fill", "verify", "ended"},
               image : {None} \cup DatabaseState, folder : Nat,
               told : {None, "ok", "exists", "integrity", "conflict", "writer"}]

DataTypes ==
  /\ committed \in DatabaseState /\ InOrder(committed)
  /\ call \in [Openers -> DatabaseCall]
  /\ backup \in BackupCall /\ folder \in Nat

\* What a call has been told, and what its transaction would commit.
CallTold(p) ==
  /\ call[p].pc # "ended" => p \notin committed.writes
  /\ call[p].pc = "ended" /\ call[p].told = "ok" => p \in committed.writes
  /\ call[p].pc = "ended" /\ call[p].told \in Failures => p \notin committed.writes
CallDrafts(p) ==
  /\ call[p].pc \in {"run", "commit"} <=> writer = p
  /\ call[p].pc = "run" => draft = committed
  /\ call[p].pc = "commit" =>
        /\ draft \in DatabaseState /\ InOrder(draft)
        /\ draft.writes = IF call[p].job = "write" THEN committed.writes \cup {p} ELSE committed.writes
CallsTold == \A p \in Openers : CallTold(p) /\ CallDrafts(p)

\* The states a backup may hold are the committed ones since it began.
BackupTold ==
  /\ backup.pc # "idle" => committed \in seen
  /\ backup.pc \in {"bind", "write", "fill", "verify"} \/ backup.told = "ok" => backup.image \in seen
  /\ backup.pc # "ended" => backup.told = None
UsersFile == mine \in BOOLEAN /\ (mine => output = Data!UserFile)

DataInv == DataTypes /\ CallsTold /\ BackupTold /\ UsersFile

\* DataInv holds at the start: any version of the database, and nothing under way.
LEMMA DataInit == Data!Init => DataInv
<1> SUFFICES ASSUME Data!Init PROVE DataInv
  OBVIOUS
<1>1. Newest \in Nat /\ None \notin {OldBinary, NewBinary, "ok"}
  BY InstallationAssumption DEF InstallationAssumption
<1>2. committed \in DatabaseState /\ InOrder(committed) /\ committed.writes = {}
  <2>1. PICK version \in 0..Newest : committed = [ran |-> [v \in 1..Newest |-> IF v <= version THEN 1 ELSE 0], writes |-> {}]
    BY DEF Data!Init, Data!Versions
  <2> DEFINE first == [v \in 1..Newest |-> IF v <= version THEN 1 ELSE 0]
  <2>2. first \in [1..Newest -> {0, 1}]
    OBVIOUS
  <2>3. \A v \in 1..Newest : v > 1 /\ first[v] = 1 => first[v - 1] = 1
    BY <1>1
  <2>4. committed = [ran |-> first, writes |-> {}]
    BY <2>1
  <2> HIDE DEF first
  <2> QED
    BY <2>2, <2>3, <2>4 DEF DatabaseState, InOrder
<1>3. call = [p \in Openers |-> [job |-> "migration", pc |-> "inspect", attempt |-> 1, told |-> None]]
  BY DEF Data!Init, Data!Call, Openers
<1>4. backup = [pc |-> "idle", image |-> None, folder |-> 0, told |-> None] /\ folder = 1 /\ writer = None
  BY DEF Data!Init, Data!NoBackup
<1>5. DataTypes
  BY <1>2, <1>3, <1>4 DEF DataTypes, DatabaseCall, BackupCall
<1>6. CallsTold
  BY <1>1, <1>2, <1>3, <1>4 DEF CallsTold, CallTold, CallDrafts, Openers
<1>7. BackupTold
  BY <1>1, <1>4 DEF BackupTold
<1>8. UsersFile
  BY DEF Data!Init, UsersFile
<1> QED
  BY <1>5, <1>6, <1>7, <1>8 DEF DataInv

\* The calls after one of them has moved on.
LEMMA CallWritten ==
  ASSUME DataInv, NEW p \in Openers, NEW next \in DatabaseCall, Data!to(p, next)
  PROVE  /\ call' \in [Openers -> DatabaseCall]
         /\ \A q \in Openers : call'[q] = IF q = p THEN next ELSE call[q]
BY DEF DataInv, DataTypes, Data!to

\* A call that ends, or is tried again after it was rolled back.
LEMMA CallEnds ==
  ASSUME DataInv, NEW p \in Openers
  PROVE  /\ \A told \in {"ok", "uncertain"} \cup Failures :
              /\ Data!ended(p, told) \in DatabaseCall
              /\ Data!ended(p, told).pc = "ended" /\ Data!ended(p, told).told = told
         /\ Data!retried(p) \in DatabaseCall
         /\ Data!retried(p).pc = "begin" \/ (Data!retried(p).pc = "ended" /\ Data!retried(p).told = "backpressure")
<1>1. call[p] \in DatabaseCall
  BY DEF DataInv, DataTypes
<1>2. ASSUME NEW told \in {"ok", "uncertain"} \cup Failures
      PROVE  /\ Data!ended(p, told) \in DatabaseCall
             /\ Data!ended(p, told).pc = "ended" /\ Data!ended(p, told).told = told
  <2> DEFINE next == [call[p] EXCEPT !.pc = "ended", !.told = told]
  <2>1. next \in DatabaseCall
    BY <1>1 DEF DatabaseCall
  <2>2. next.pc = "ended" /\ next.told = told
    BY <1>1 DEF DatabaseCall
  <2>3. Data!ended(p, told) = next
    BY DEF Data!ended
  <2> HIDE DEF next
  <2> QED
    BY <2>1, <2>2, <2>3
<1> DEFINE attempt == call[p].attempt + 1
<1>3. attempt \in Nat
  BY <1>1 DEF DatabaseCall
<1>4. /\ [call[p] EXCEPT !.attempt = attempt, !.pc = "begin"] \in DatabaseCall
      /\ [call[p] EXCEPT !.attempt = attempt, !.pc = "begin"].pc = "begin"
  <2> HIDE DEF attempt
  <2>1. [call[p] EXCEPT !.attempt = attempt, !.pc = "begin"] \in DatabaseCall
    BY <1>1, <1>3 DEF DatabaseCall
  <2>2. [call[p] EXCEPT !.attempt = attempt, !.pc = "begin"].pc = "begin"
    BY <1>1 DEF DatabaseCall
  <2> QED
    BY <2>1, <2>2
<1>5. "backpressure" \in Failures
  BY DEF Failures
<1> QED
  BY <1>2, <1>4, <1>5 DEF Data!retried

\* A call moves on and nothing of the database changes, but for who writes and what.
LEMMA CallMoves ==
  ASSUME DataInv, NEW p \in Openers, NEW next \in DatabaseCall, Data!to(p, next), next.told # "ok" \/ next.pc # "ended",
         call[p].pc # "ended", UNCHANGED committed,
         \/ writer = p
         \/ writer = None
         \/ writer' = writer /\ draft' = draft,
         writer' \in {None, p} \/ UNCHANGED writer,
         next.pc \in {"run", "commit"} <=> writer' = p,
         next.pc = "run" => draft' = committed,
         next.pc = "commit" =>
            /\ draft' \in DatabaseState /\ InOrder(draft')
            /\ draft'.writes = IF next.job = "write" THEN committed.writes \cup {p} ELSE committed.writes
  PROVE  CallsTold'
<1>1. \A q \in Openers : call'[q] = IF q = p THEN next ELSE call[q]
  BY CallWritten
<1>2. None \notin Openers
  BY InstallationAssumption DEF InstallationAssumption, Openers
<1>3. CallTold(p)' /\ CallDrafts(p)'
  BY <1>1 DEF DataInv, CallsTold, CallTold, CallDrafts, Failures, InOrder
<1>4. ASSUME NEW q \in Openers, q # p PROVE CallTold(q)' /\ CallDrafts(q)'
  <2>1. CallTold(q) /\ CallDrafts(q) /\ call'[q] = call[q]
    BY <1>1, <1>4 DEF DataInv, CallsTold
  <2>2. CallTold(q)'
    BY <2>1 DEF CallTold
  <2>3. (writer = q <=> writer' = q) /\ (writer = q => draft' = draft)
    BY <1>2, <1>4
  <2> QED
    BY <2>1, <2>2, <2>3 DEF CallDrafts, InOrder
<1> QED
  BY <1>3, <1>4 DEF CallsTold

\* A call is ended or tried again, and whatever it had begun is rolled back.
LEMMA CallFails ==
  ASSUME DataInv, NEW p \in Openers, NEW next \in DatabaseCall, Data!to(p, next),
         next.pc = "begin" \/ (next.pc = "ended" /\ next.told # "ok"),
         call[p].pc # "ended", UNCHANGED committed,
         IF writer = p THEN Data!rollback ELSE UNCHANGED <<writer, draft>>
  PROVE  CallsTold'
<1>1. None # p
  BY InstallationAssumption DEF InstallationAssumption, Openers
<1>2. writer' # p
  BY <1>1 DEF Data!rollback
<1>3. next.pc \notin {"run", "commit"}
  OBVIOUS
<1>4. next.told # "ok" \/ next.pc # "ended"
  OBVIOUS
<1>5. \/ writer = p
      \/ writer = None
      \/ writer' = writer /\ draft' = draft
  OBVIOUS
<1>6. writer' \in {None, p} \/ UNCHANGED writer
  BY DEF Data!rollback
<1> QED
  BY <1>2, <1>3, <1>4, <1>5, <1>6, CallMoves

\* What was backed up stays what was committed when the committed state or the backup does not change.
LEMMA BackupKept ==
  ASSUME DataInv, UNCHANGED <<committed, seen, backup, output, mine>>
  PROVE  BackupTold' /\ UsersFile'
BY DEF DataInv, BackupTold, UsersFile

\* A step of a call that commits nothing.
LEMMA CallStep ==
  ASSUME DataInv, CallsTold', UNCHANGED <<committed, seen>>, UNCHANGED Data!backupVars,
         call' \in [Openers -> DatabaseCall]
  PROVE  DataInv'
<1>1. UNCHANGED <<committed, seen, backup, output, mine, folder>>
  BY DEF Data!backupVars
<1>2. DataTypes'
  BY <1>1 DEF DataInv, DataTypes, InOrder
<1> QED
  BY <1>1, <1>2, BackupKept DEF DataInv

\* A migration that runs adds what is missing, each once and in order.
LEMMA MigrationRuns ==
  ASSUME DataInv, NEW p \in Openers, draft = committed
  PROVE  LET next == Data!migrateDatabaseSnapshotInTransaction(p) IN
         next \in DatabaseState /\ InOrder(next) /\ next.writes = committed.writes
<1>1. committed \in DatabaseState /\ InOrder(committed)
  BY DEF DataInv, DataTypes
<1>2. Newest \in Nat /\ Binaries[p] \in Int
  BY InstallationAssumption DEF InstallationAssumption, Binaries, Openers
<1> DEFINE ran == committed.ran
           limit == Binaries[p]
           after == [v \in 1..Newest |-> IF v <= limit /\ ran[v] = 0 THEN ran[v] + 1 ELSE ran[v]]
<1>3. ran \in [1..Newest -> {0, 1}]
  BY <1>1 DEF DatabaseState
<1>4. \A v \in 1..Newest : v > 1 /\ ran[v] = 1 => ran[v - 1] = 1
  BY <1>1 DEF InOrder
<1>5. Data!migrateDatabaseSnapshotInTransaction(p) = [committed EXCEPT !.ran = after]
  BY DEF Data!migrateDatabaseSnapshotInTransaction, Data!due, Data!Versions
<1> HIDE DEF ran, limit
<1>6. after \in [1..Newest -> {0, 1}]
  BY <1>3
<1>7. \A v \in 1..Newest : v > 1 /\ after[v] = 1 => after[v - 1] = 1
  <2> SUFFICES ASSUME NEW v \in 1..Newest, v > 1, after[v] = 1 PROVE after[v - 1] = 1
    OBVIOUS
  <2>1. v - 1 \in 1..Newest
    BY <1>2
  <2>2. ran[v] \in {0, 1} /\ ran[v - 1] \in {0, 1}
    BY <1>3, <2>1
  <2>3. v <= limit => v - 1 <= limit
    BY <1>2 DEF limit
  <2> QED
    BY <1>4, <2>1, <2>2, <2>3
<1> HIDE DEF after
<1> QED
  BY <1>1, <1>5, <1>6, <1>7 DEF DatabaseState, InOrder

\* Before the lock: the plan, and what follows from it.
LEMMA PlanStep ==
  ASSUME DataInv, NEW p \in Openers, Data!inspectMigrationSnapshot(p) \/ Data!inspectFinalPlan(p)
  PROVE  DataInv'
<1> DEFINE fresh(kind) == [job |-> kind, pc |-> "begin", attempt |-> 1, told |-> None]
<1>1. PICK next : /\ Data!to(p, next)
                  /\ next \in {Data!ended(p, "newer"), fresh("write"), fresh("migration")}
  BY DEF Data!inspectMigrationSnapshot, Data!inspectFinalPlan, Data!Call
<1>2. "newer" \in Failures
  BY DEF Failures
<1>3. next \in DatabaseCall /\ (next.pc = "begin" \/ (next.pc = "ended" /\ next.told # "ok"))
  BY <1>1, <1>2, CallEnds DEF DatabaseCall
<1>4. call[p].pc \in {"inspect", "verify"} /\ UNCHANGED <<committed, writer, draft, seen>> /\ UNCHANGED Data!backupVars
  BY DEF Data!inspectMigrationSnapshot, Data!inspectFinalPlan
<1>5. writer # p
  BY <1>4 DEF DataInv, CallsTold, CallDrafts
<1>6. CallsTold'
  BY <1>1, <1>3, <1>4, <1>5, CallFails
<1>7. call' \in [Openers -> DatabaseCall]
  BY <1>1, <1>3, CallWritten
<1> QED
  BY <1>4, <1>6, <1>7, CallStep

\* BEGIN: the writer, or a database that is busy.
LEMMA BeginStep ==
  ASSUME DataInv, NEW p \in Openers, Data!begin(p)
  PROVE  DataInv'
<1>1. call[p] \in DatabaseCall /\ call[p].pc = "begin"
  BY DEF DataInv, DataTypes, Data!begin
<1>2. writer # p /\ None # p
  BY <1>1, InstallationAssumption DEF DataInv, CallsTold, CallDrafts, InstallationAssumption, Openers
<1>3. UNCHANGED <<committed, seen>> /\ UNCHANGED Data!backupVars
  BY DEF Data!begin
<1>4. ASSUME writer = None, writer' = p, draft' = committed, Data!to(p, [call[p] EXCEPT !.pc = "run"])
      PROVE  DataInv'
  <2> DEFINE next == [call[p] EXCEPT !.pc = "run"]
  <2>1. next \in DatabaseCall /\ next.pc = "run"
    BY <1>1 DEF DatabaseCall
  <2>2. Data!to(p, next)
    BY <1>4
  <2> HIDE DEF next
  <2>3. CallsTold'
    BY <1>1, <1>2, <1>3, <1>4, <2>1, <2>2, CallMoves
  <2>4. call' \in [Openers -> DatabaseCall]
    BY <2>1, <2>2, CallWritten
  <2> QED
    BY <1>3, <2>3, <2>4, CallStep
<1>5. ASSUME Data!to(p, Data!retried(p)), UNCHANGED <<writer, draft>>
      PROVE  DataInv'
  <2>1. /\ Data!retried(p) \in DatabaseCall
        /\ Data!retried(p).pc = "begin" \/ (Data!retried(p).pc = "ended" /\ Data!retried(p).told # "ok")
    BY CallEnds
  <2>2. CallsTold'
    BY <1>1, <1>2, <1>3, <1>5, <2>1, CallFails
  <2>3. call' \in [Openers -> DatabaseCall]
    BY <1>5, <2>1, CallWritten
  <2> QED
    BY <1>3, <2>2, <2>3, CallStep
<1> QED
  BY <1>4, <1>5 DEF Data!begin

\* A call that fails and is rolled back.
LEMMA RollbackStep ==
  ASSUME DataInv, NEW p \in Openers, call[p].pc # "ended", NEW next,
         next \in {Data!retried(p)} \cup {Data!ended(p, told) : told \in Failures}, Data!to(p, next),
         IF writer = p THEN Data!rollback ELSE UNCHANGED <<writer, draft>>,
         UNCHANGED <<committed, seen>>, UNCHANGED Data!backupVars
  PROVE  DataInv'
<1>1. next \in DatabaseCall /\ (next.pc = "begin" \/ (next.pc = "ended" /\ next.told # "ok"))
  BY CallEnds DEF Failures
<1>2. CallsTold'
  BY <1>1, CallFails
<1>3. call' \in [Openers -> DatabaseCall]
  BY <1>1, CallWritten
<1> QED
  BY <1>2, <1>3, CallStep

\* The operation of a transaction.
LEMMA OperationStep ==
  ASSUME DataInv, NEW p \in Openers, Data!operation(p)
  PROVE  DataInv'
<1>1. call[p] \in DatabaseCall /\ call[p].pc = "run"
  BY DEF DataInv, DataTypes, Data!operation
<1>2. writer = p /\ draft = committed /\ committed \in DatabaseState /\ InOrder(committed)
  BY <1>1 DEF DataInv, DataTypes, CallsTold, CallDrafts
<1>3. UNCHANGED <<committed, seen>> /\ UNCHANGED Data!backupVars
  BY DEF Data!operation
<1>4. ASSUME NEW next \in {Data!retried(p)} \cup {Data!ended(p, told) : told \in Failures},
             Data!rollback, Data!to(p, next)
      PROVE  DataInv'
  BY <1>1, <1>2, <1>3, <1>4, RollbackStep
<1>5. ASSUME draft' = IF call[p].job = "migration" THEN Data!migrateDatabaseSnapshotInTransaction(p)
                      ELSE [draft EXCEPT !.writes = @ \cup {p}],
             Data!to(p, [call[p] EXCEPT !.pc = "commit"]), UNCHANGED writer
      PROVE  DataInv'
  <2> DEFINE next == [call[p] EXCEPT !.pc = "commit"]
  <2>1. next \in DatabaseCall /\ next.pc = "commit" /\ next.job = call[p].job /\ next.job \in {"migration", "write"}
    BY <1>1 DEF DatabaseCall
  <2>2. Data!to(p, next)
    BY <1>5
  <2> HIDE DEF next
  <2>3. ASSUME next.job = "write"
        PROVE  draft' \in DatabaseState /\ InOrder(draft') /\ draft'.writes = committed.writes \cup {p}
    <3>1. draft' = [committed EXCEPT !.writes = committed.writes \cup {p}]
      BY <1>2, <1>5, <2>1, <2>3
    <3>2. draft' = [ran |-> committed.ran, writes |-> committed.writes \cup {p}]
      BY <1>2, <3>1 DEF DatabaseState
    <3> QED
      BY <1>2, <3>2 DEF DatabaseState, InOrder
  <2>4. ASSUME next.job = "migration"
        PROVE  draft' \in DatabaseState /\ InOrder(draft') /\ draft'.writes = committed.writes
    BY <1>2, <1>5, <2>1, <2>4, MigrationRuns
  <2>5. /\ draft' \in DatabaseState /\ InOrder(draft')
        /\ draft'.writes = IF next.job = "write" THEN committed.writes \cup {p} ELSE committed.writes
    BY <2>1, <2>3, <2>4
  <2>6. CallsTold'
    BY <1>1, <1>2, <1>3, <1>5, <2>1, <2>2, <2>5, CallMoves
  <2>7. call' \in [Openers -> DatabaseCall]
    BY <2>1, <2>2, CallWritten
  <2> QED
    BY <1>3, <2>6, <2>7, CallStep
<1>6. {"newer", "failed"} \subseteq Failures
  BY DEF Failures
<1> QED
  BY <1>4, <1>5, <1>6 DEF Data!operation

\* What a commit makes of the calls, when nobody else writes.
LEMMA Committed ==
  ASSUME DataInv, NEW p \in Openers, call[p].pc = "commit", NEW next \in DatabaseCall, Data!to(p, next),
         NEW state \in {committed, draft}, Data!commits(state), writer' = None, UNCHANGED Data!backupVars,
         next.pc \notin {"run", "commit"},
         next.pc # "ended" \/ next.told \in Failures => p \notin state.writes,
         next.pc = "ended" /\ next.told = "ok" => p \in state.writes
  PROVE  DataInv'
<1>1. None \notin Openers /\ writer = p
  BY InstallationAssumption DEF InstallationAssumption, Openers, DataInv, CallsTold, CallDrafts
<1>2. state \in DatabaseState /\ InOrder(state) /\ (\A q \in Openers : q # p => (q \in state.writes <=> q \in committed.writes))
  BY DEF DataInv, DataTypes, CallsTold, CallDrafts
<1>3. committed' = state /\ seen' = IF backup.pc = "idle" THEN seen ELSE seen \cup {state}
  BY DEF Data!commits
<1>4. UNCHANGED <<backup, output, mine, folder>>
  BY DEF Data!backupVars
<1>5. call' \in [Openers -> DatabaseCall] /\ \A q \in Openers : call'[q] = IF q = p THEN next ELSE call[q]
  BY CallWritten
<1>6. DataTypes'
  BY <1>2, <1>3, <1>4, <1>5 DEF DataInv, DataTypes, InOrder
<1>7. CallTold(p)' /\ CallDrafts(p)'
  BY <1>1, <1>3, <1>5 DEF CallTold, CallDrafts
<1>8. ASSUME NEW q \in Openers, q # p PROVE CallTold(q)' /\ CallDrafts(q)'
  BY <1>1, <1>2, <1>3, <1>5, <1>8 DEF DataInv, CallsTold, CallTold, CallDrafts
<1>9. BackupTold'
  BY <1>3, <1>4 DEF DataInv, BackupTold
<1>10. UsersFile'
  BY <1>4 DEF DataInv, UsersFile
<1> QED
  BY <1>6, <1>7, <1>8, <1>9, <1>10 DEF DataInv, CallsTold

\* COMMIT, and COMMIT that fails.
LEMMA CommitStep ==
  ASSUME DataInv, NEW p \in Openers, Data!commit(p) \/ Data!commitFails(p)
  PROVE  DataInv'
<1>1. call[p] \in DatabaseCall /\ call[p].pc = "commit" /\ UNCHANGED Data!backupVars
  BY DEF DataInv, DataTypes, Data!commit, Data!commitFails
<1>2. writer = p /\ p \notin committed.writes /\ (call[p].job = "migration" => p \notin draft.writes)
      /\ (call[p].job = "write" => p \in draft.writes)
  BY <1>1 DEF DataInv, CallsTold, CallTold, CallDrafts
<1>3. CASE Data!commit(p)
  <2> DEFINE next == IF call[p].job = "migration" THEN [job |-> "migration", pc |-> "verify", attempt |-> 1, told |-> None]
                     ELSE Data!ended(p, "ok")
  <2>1. Data!to(p, next) /\ Data!commits(draft) /\ writer' = None
    BY <1>3 DEF Data!commit, Data!Call
  <2>2. call[p].job \in {"migration", "write"}
    BY <1>1 DEF DatabaseCall
  <2>3. /\ next \in DatabaseCall
        /\ call[p].job = "migration" => next.pc = "verify" /\ next.told = None
        /\ call[p].job = "write" => next.pc = "ended" /\ next.told = "ok"
    BY <2>2, CallEnds DEF DatabaseCall
  <2> HIDE DEF next
  <2>4. "ok" \notin Failures
    BY DEF Failures
  <2>5. /\ next.pc \notin {"run", "commit"}
        /\ next.pc # "ended" \/ next.told \in Failures => p \notin draft.writes
        /\ next.pc = "ended" /\ next.told = "ok" => p \in draft.writes
    BY <1>2, <2>2, <2>3, <2>4
  <2> QED
    BY <1>1, <2>1, <2>3, <2>5, Committed
<1>4. CASE Data!commitFails(p)
  <2>1. {"failed"} \subseteq Failures /\ "uncertain" \notin Failures
    BY DEF Failures
  <2>2. ASSUME Data!rollback, UNCHANGED <<committed, seen>>, NEW next \in {Data!ended(p, "failed"), Data!retried(p)}, Data!to(p, next)
        PROVE  DataInv'
    BY <1>1, <1>2, <2>1, <2>2, RollbackStep
  <2>3. ASSUME NEW state \in {committed, draft}, Data!commits(state), writer' = None, Data!to(p, Data!uncertain(p))
        PROVE  DataInv'
    <3>1. Data!uncertain(p) \in DatabaseCall /\ Data!uncertain(p).pc = "ended" /\ Data!uncertain(p).told = "uncertain"
      BY CallEnds DEF Data!uncertain
    <3> QED
      BY <1>1, <2>1, <2>3, <3>1, Committed
  <2> QED
    BY <1>4, <2>2, <2>3 DEF Data!commitFails
<1> QED
  BY <1>3, <1>4

\* A crash, of the writer or of another.
LEMMA CrashStep ==
  ASSUME DataInv, NEW p \in Openers, Data!crash(p)
  PROVE  DataInv'
<1>1. Data!ended(p, "crashed") \in {Data!ended(p, told) : told \in Failures}
  BY DEF Failures
<1> QED
  BY <1>1, RollbackStep DEF Data!crash

\* A step of the backup leaves the database alone.
LEMMA BackupStep ==
  ASSUME DataInv, UNCHANGED Data!database, NEW next \in BackupCall, backup' = next, folder' = folder,
         next.pc # "idle" => committed \in seen',
         next.pc \in {"bind", "write", "fill", "verify"} \/ next.told = "ok" => next.image \in seen',
         next.pc # "ended" => next.told = None,
         mine => output' = output
  PROVE  DataInv'
<1>1. UNCHANGED <<committed, writer, draft, call, mine>>
  BY DEF Data!database
<1>2. DataTypes' /\ CallsTold'
  BY <1>1 DEF DataInv, DataTypes, InOrder, CallsTold, CallTold, CallDrafts
<1>3. BackupTold'
  BY <1>1 DEF BackupTold
<1>4. UsersFile'
  BY <1>1 DEF DataInv, UsersFile
<1> QED
  BY <1>2, <1>3, <1>4 DEF DataInv

\* A backup that stops without having been verified.
LEMMA BackupStops ==
  ASSUME DataInv, UNCHANGED Data!database, NEW told \in {"exists", "integrity", "conflict", "writer"}, Data!stops(told),
         UNCHANGED <<output, folder>>, (seen' = seen /\ backup.pc # "idle") \/ seen' = {committed}
  PROVE  DataInv'
<1>1. backup \in BackupCall
  BY DEF DataInv, DataTypes
<1> DEFINE next == [backup EXCEPT !.pc = "ended", !.told = told]
<1>2. next \in BackupCall /\ next.pc = "ended" /\ next.told = told
  BY <1>1 DEF BackupCall
<1>3. backup' = next
  BY DEF Data!stops, Data!step
<1> HIDE DEF next
<1>4. committed \in seen'
  BY DEF DataInv, BackupTold
<1> QED
  BY <1>2, <1>3, <1>4, BackupStep

\* The steps of the backup up to the file.
LEMMA BackupBegins ==
  ASSUME DataInv,
         Data!requireAbsentDestination \/ Data!normalizedSerializedSnapshot \/ Data!bindExistingOutputDirectory
  PROVE  DataInv'
<1>1. backup \in BackupCall /\ committed \in DatabaseState /\ folder \in Nat /\ UNCHANGED <<output, folder>> /\ UNCHANGED Data!database
  BY DEF DataInv, DataTypes, Data!requireAbsentDestination, Data!normalizedSerializedSnapshot, Data!bindExistingOutputDirectory
<1>2. None # "ok" /\ (backup.pc # "ended" => backup.told = None)
  BY InstallationAssumption DEF InstallationAssumption, DataInv, BackupTold
<1>3. CASE Data!requireAbsentDestination
  <2> DEFINE next == [backup EXCEPT !.pc = "serialize"]
  <2>1. backup.pc = "idle" /\ seen' = {committed}
    BY <1>3 DEF Data!requireAbsentDestination
  <2>2. next \in BackupCall /\ next.pc = "serialize" /\ next.told = backup.told
    BY <1>1 DEF BackupCall
  <2>3. Data!stops("exists") \/ backup' = next
    BY <1>3 DEF Data!requireAbsentDestination, Data!step
  <2> HIDE DEF next
  <2>4. CASE Data!stops("exists")
    BY <1>1, <2>1, <2>4, BackupStops
  <2>5. CASE backup' = next
    BY <1>1, <1>2, <2>1, <2>2, <2>5, BackupStep
  <2> QED
    BY <2>3, <2>4, <2>5
<1>4. CASE Data!normalizedSerializedSnapshot
  <2> DEFINE next == [backup EXCEPT !.pc = "bind", !.image = committed]
  <2>1. backup.pc = "serialize" /\ seen' = seen /\ committed \in seen
    BY <1>4 DEF Data!normalizedSerializedSnapshot, DataInv, BackupTold
  <2>2. next = [backup EXCEPT !.pc = "bind", !.image = committed] /\ committed \in {None} \cup DatabaseState
    BY <1>1
  <2>3. next \in BackupCall /\ next.pc = "bind" /\ next.told = backup.told /\ next.image = committed
    BY <1>1 DEF BackupCall
  <2>4. Data!stops("integrity") \/ backup' = next
    BY <1>4 DEF Data!normalizedSerializedSnapshot, Data!step
  <2> HIDE DEF next
  <2>5. CASE Data!stops("integrity")
    BY <1>1, <2>1, <2>5, BackupStops
  <2>6. CASE backup' = next
    BY <1>1, <1>2, <2>1, <2>3, <2>6, BackupStep
  <2> QED
    BY <2>4, <2>5, <2>6
<1>5. CASE Data!bindExistingOutputDirectory
  <2> DEFINE next == [backup EXCEPT !.pc = "write", !.folder = folder]
  <2>1. backup.pc = "bind" /\ seen' = seen /\ committed \in seen /\ backup.image \in seen
    BY <1>5 DEF Data!bindExistingOutputDirectory, DataInv, BackupTold
  <2>2. next \in BackupCall /\ next.pc = "write" /\ next.told = backup.told /\ next.image = backup.image
    BY <1>1 DEF BackupCall
  <2>3. backup' = next
    BY <1>5 DEF Data!bindExistingOutputDirectory, Data!step
  <2> HIDE DEF next
  <2> QED
    BY <1>1, <1>2, <2>1, <2>2, <2>3, BackupStep
<1> QED
  BY <1>3, <1>4, <1>5

\* The steps of the backup on the file: it is created when it is absent and
\* filled when it is its own.
LEMMA BackupWrites ==
  ASSUME DataInv, Data!openArtifact \/ Data!fillArtifact \/ Data!writerFails \/ Data!requireBoundArtifact
  PROVE  DataInv'
<1>1. /\ backup \in BackupCall /\ backup.pc \in {"write", "fill", "verify"} /\ seen' = seen /\ folder' = folder
      /\ UNCHANGED Data!database
  BY DEF DataInv, DataTypes, Data!openArtifact, Data!fillArtifact, Data!writerFails, Data!requireBoundArtifact
<1>2. None # "ok" /\ backup.told = None /\ committed \in seen /\ backup.image \in seen
  BY <1>1, InstallationAssumption DEF InstallationAssumption, DataInv, BackupTold
<1>3. mine => output = Data!UserFile
  BY DEF DataInv, UsersFile
<1>4. Data!UserFile # None /\ Data!UserFile.of = "user"
  BY InstallationAssumption DEF InstallationAssumption, Data!UserFile
<1>5. ASSUME NEW pc \in {"fill", "verify"}, backup' = [backup EXCEPT !.pc = pc], mine => output' = output
      PROVE  DataInv'
  <2> DEFINE next == [backup EXCEPT !.pc = pc]
  <2>1. next \in BackupCall /\ next.pc = pc /\ next.told = backup.told /\ next.image = backup.image
    BY <1>1 DEF BackupCall
  <2>2. backup' = next
    BY <1>5
  <2> HIDE DEF next
  <2> QED
    BY <1>1, <1>2, <1>5, <2>1, <2>2, BackupStep
<1>6. ASSUME NEW told \in {"ok", "exists", "conflict", "writer"}, Data!stops(told), mine => output' = output
      PROVE  DataInv'
  <2> DEFINE next == [backup EXCEPT !.pc = "ended", !.told = told]
  <2>1. next \in BackupCall /\ next.pc = "ended" /\ next.told = told /\ next.image = backup.image
    BY <1>1 DEF BackupCall
  <2>2. backup' = next
    BY <1>6 DEF Data!stops, Data!step
  <2> HIDE DEF next
  <2> QED
    BY <1>1, <1>2, <1>6, <2>1, <2>2, BackupStep
<1>7. CASE Data!openArtifact
  <2>1. CASE output' = output
    BY <1>6, <1>5, <1>7, <2>1 DEF Data!openArtifact, Data!step
  <2>2. CASE output = None
    <3>1. ~mine
      BY <1>3, <1>4, <2>2
    <3> QED
      BY <1>6, <1>5, <1>7, <3>1 DEF Data!openArtifact, Data!step
  <2> QED
    BY <1>7, <2>1, <2>2 DEF Data!openArtifact, Data!creatable
<1>8. CASE Data!fillArtifact
  <2>1. mine => ~Data!own
    BY <1>3, <1>4 DEF Data!own
  <2>2. mine => output' = output
    BY <1>8, <2>1 DEF Data!fillArtifact
  <2> QED
    BY <1>5, <1>6, <1>8, <2>2 DEF Data!fillArtifact, Data!step
<1>9. CASE Data!writerFails
  BY <1>6, <1>9 DEF Data!writerFails
<1>10. CASE Data!requireBoundArtifact
  BY <1>6, <1>10 DEF Data!requireBoundArtifact
<1> QED
  BY <1>7, <1>8, <1>9, <1>10

\* The user moves files about.
LEMMA UserStep ==
  ASSUME DataInv, Data!userMoves
  PROVE  DataInv'
<1>1. UNCHANGED <<committed, writer, draft, call, backup, seen>> /\ folder' \in Nat /\ mine' = (output' = Data!UserFile)
  BY DEF Data!userMoves, DataInv, DataTypes
<1>2. DataTypes' /\ CallsTold' /\ BackupTold'
  BY <1>1 DEF DataInv, DataTypes, InOrder, CallsTold, CallTold, CallDrafts, BackupTold
<1>3. UsersFile'
  BY <1>1 DEF UsersFile
<1> QED
  BY <1>2, <1>3 DEF DataInv

\* DataInv is inductive.
LEMMA DataStep == DataInv /\ [Data!Next]_dataVars => DataInv'
<1> SUFFICES ASSUME DataInv, [Data!Next]_dataVars PROVE DataInv'
  OBVIOUS
<1>1. CASE UNCHANGED dataVars
  BY <1>1 DEF dataVars, DataInv, DataTypes, InOrder, CallsTold, CallTold, CallDrafts, BackupTold, UsersFile
<1>2. CASE Data!Next
  BY <1>2, PlanStep, BeginStep, OperationStep, CommitStep, CrashStep, BackupBegins, BackupWrites, UserStep DEF Data!Next, Openers
<1> QED
  BY <1>1, <1>2

\* The steps of the database are steps of its alone.
LEMMA OnlyDataSteps == [AllNext]_all => (InData' => InData /\ [Data!Next]_dataVars)
BY DEF AllNext, all, InProjection, InSetup, InUse, InData, InQueries,
       OnlyProjection, OnlySetup, OnlyUse, OnlyData, OnlyQueries, Data!Next

\* Whoever is told that a write ended well has it in the database, whoever is
\* told that it failed has not, every migration ran at most once and in order
\* whoever raced for it, and a backup that was reported is a state that was
\* committed while it was made (initializeDatabase, commitOrRollback,
\* createSerializedBackupArtifact).
THEOREM DatabaseTold == InstallationSpec => []DatabaseIsAsTold
<1> DEFINE Inv == InData => DataInv
<1>1. AllInit => Inv
  BY DataInit DEF AllInit, InData
<1>2. Inv /\ [AllNext]_all => Inv'
  BY DataStep, OnlyDataSteps
<1>3. Inv => DatabaseIsAsTold
  <2> SUFFICES ASSUME DataInv PROVE Data!DatabaseIsAsTold
    BY DEF DatabaseIsAsTold, InData
  <2>1. \A p \in Openers : call[p].pc = "ended" =>
          /\ call[p].told = "ok" => p \in committed.writes
          /\ call[p].told \in {"failed", "backpressure", "newer", "crashed"} => p \notin committed.writes
    <3>1. \A p \in Openers : CallTold(p)
      BY DEF DataInv, CallsTold
    <3> QED
      BY <3>1 DEF CallTold, Failures
  <2>2. \A v \in 1..Newest : committed.ran[v] <= 1 /\ (v > 1 /\ committed.ran[v] = 1 => committed.ran[v - 1] = 1)
    <3>1. committed \in DatabaseState /\ InOrder(committed)
      BY DEF DataInv, DataTypes
    <3>2. committed.ran \in [1..Newest -> {0, 1}]
      BY <3>1 DEF DatabaseState
    <3>3. ASSUME NEW v \in 1..Newest PROVE committed.ran[v] <= 1
      <4> DEFINE times == committed.ran[v]
      <4>1. times \in {0, 1}
        BY <3>2
      <4> HIDE DEF times
      <4>2. times <= 1
        BY <4>1
      <4> QED
        BY <4>2 DEF times
    <3> QED
      BY <3>1, <3>3 DEF InOrder
  <2>3. (backup.told = "ok" => backup.image \in seen) /\ (mine => output = Data!UserFile)
    BY DEF DataInv, BackupTold, UsersFile
  <2> QED
    BY <2>1, <2>2, <2>3 DEF Data!DatabaseIsAsTold, Data!Versions, Openers
<1> QED
  BY <1>1, <1>2, <1>3, PTL DEF InstallationSpec

-----------------------------------------------------------------------------
(* The files of setup                                                      *)

FileContent == [Files!Files -> {None} \cup SetupFile]
SetupErrors == {None, "busy", "identity", "conflict", "database", "ask", "io"}
SetupAway == {"idle", "done", "failed", "crashed"}
SetupSteps == {"plan", "database", "prepare", "assert", "write", "replace", "check", "restore", "release"}
Mutation == [file : Files!Files, previous : {None} \cup SetupFile, installed : SetupFile, owned : BOOLEAN]
SetupTask == [pc : SetupAway \cup SetupSteps, i : 1..3, replace : BOOLEAN, plan : FileContent, planDir : Nat,
              made : BOOLEAN, latest : {None} \cup SetupFile, applied : Seq(Mutation), failures : BOOLEAN,
              error : SetupErrors]

SetupTypes ==
  /\ disk \in FileContent /\ dir \in [id : Nat, kept : BOOLEAN] /\ stamps \in Nat
  /\ lock \in {None} \cup SetupCommands /\ task \in [SetupCommands -> SetupTask]
  /\ text \in [Files!Files -> Nat] /\ before \in FileContent /\ edited \subseteq Files!Files

\* A file is not refused, and a command has something of its own for it.
Renders(replace, f, now) == IF f = "config" THEN now # None /\ now.managed = Foreign => replace
                            ELSE now = None \/ now.managed # None
HasFile(applied, f) == \E k \in DOMAIN applied : applied[k].file = f
Installs(d, p, f) == HasFile(d.applied, f) \/ (d.plan[f] # None /\ d.plan[f].managed = p)

\* A mutation puts the region of the command beside the text that was there.
Beside(m, p) == /\ m.installed.managed = p
                /\ m.file = "config" => m.installed.human = IF m.previous = None THEN 0 ELSE m.previous.human

\* What a command that has the lock has planned and done.
TaskFits(d, p) ==
  /\ d.pc \in SetupSteps
  /\ d.pc \in {"plan", "database", "prepare", "assert"} => d.applied = <<>>
  /\ d.pc \in {"plan", "database"} => ~d.made
  /\ d.pc \in {"plan", "database", "prepare", "assert", "write", "replace", "check"} => d.error = None
  /\ d.pc = "restore" => d.error # None
  /\ d.pc \in {"plan", "write", "replace"} => d.i \in {1, 2}
  /\ d.pc \in {"write", "replace"} /\ d.i = 1 => d.applied = <<>>
  /\ d.pc \in {"write", "replace"} /\ d.i = 2 =>
       Installs(d, p, "config") /\ \A k \in DOMAIN d.applied : d.applied[k].file = "config"
  /\ d.pc = "check" => \A f \in Files!Files : Installs(d, p, f)
  /\ d.pc = "replace" => Renders(d.replace, Files!Order[d.i], d.latest)
  /\ d.pc = "release" /\ d.error # None => d.applied = <<>> /\ (d.failures \/ ~d.made)
  /\ \A k \in DOMAIN d.applied : Beside(d.applied[k], p)
  /\ \A k, n \in DOMAIN d.applied : d.applied[k].file = d.applied[n].file => k = n

\* To undo what was applied brings back what was there.
Undoes(applied, f, now, then) ==
  /\ ~HasFile(applied, f) => Files!sameContent(now, then)
  /\ \A k \in DOMAIN applied :
       applied[k].file = f => /\ now = applied[k].installed /\ Files!sameContent(applied[k].previous, then)
                              /\ ~applied[k].owned => applied[k].previous = applied[k].installed

\* The files are those of the command, or can be brought back.
FilesFit(d, p, files, then, others) ==
  /\ d.pc = "release" /\ d.error = None => \A f \in Files!Files \ others : files[f] # None /\ files[f].managed = p
  /\ (d.pc # "release" \/ d.error # None) /\ ~d.failures =>
       \A f \in Files!Files \ others : Undoes(d.applied, f, files[f], then[f])

TextFits(file, t) == IF file = None THEN t = 0 ELSE file.human = t

SetupInv ==
  /\ SetupTypes /\ TextFits(disk["config"], text["config"])
  /\ \A p \in SetupCommands :
       IF lock = p THEN TaskFits(task[p], p) /\ FilesFit(task[p], p, disk, before, edited) ELSE task[p].pc \in SetupAway

\* Two files, in this order.
LEMMA TwoFiles ==
  /\ Files!Files = {"config", "skill"}
  /\ Files!Order[1] = "config" /\ Files!Order[2] = "skill" /\ Len(Files!Order) = 2
<1>1. Files!Order[1] = "config" /\ Files!Order[2] = "skill" /\ Len(Files!Order) = 2 /\ DOMAIN Files!Order = {1, 2}
  BY DEF Files!Order
<1> QED
  BY <1>1 DEF Files!Files, Files!Range

\* None is no file, no command and no error.
LEMMA SetupConstants ==
  /\ \A file \in SetupFile : file # None
  /\ \A p \in SetupCommands : p # None
  /\ \A human \in Nat, p \in SetupCommands : [human |-> human, managed |-> p] # None
  /\ None \notin {"busy", "identity", "conflict", "database", "ask", "io"}
<1>1. \A human \in Nat, p \in SetupCommands : [human |-> human, managed |-> p] \in SetupRegion
  BY DEF SetupRegion
<1>2. \A region \in SetupRegion : region # None
  BY InstallationAssumption DEF InstallationAssumption
<1> QED
  BY <1>1, <1>2, InstallationAssumption DEF InstallationAssumption

\* A command that begins.
LEMMA IdleTask ==
  /\ Files!Idle \in SetupTask
  /\ Files!Idle.pc = "idle" /\ Files!Idle.i = 1 /\ Files!Idle.applied = <<>> /\ Files!Idle.made = FALSE
  /\ Files!Idle.failures = FALSE /\ Files!Idle.error = None
<1>1. [f \in Files!Files |-> None] \in FileContent
  BY DEF FileContent
<1>2. <<>> \in Seq(Mutation)
  OBVIOUS
<1> QED
  BY <1>1, <1>2 DEF Files!Idle, SetupTask, SetupAway, SetupErrors

\* The same content is the same, and a stamp does not count.
LEMMA ContentSame ==
  /\ \A a : Files!sameContent(a, a)
  /\ \A a, b, c : Files!sameContent(a, b) /\ Files!sameContent(b, c) => Files!sameContent(a, c)
BY DEF Files!sameContent

\* What a command makes of a file.
LEMMA RenderFits ==
  ASSUME NEW p \in SetupCommands, NEW f \in Files!Files, NEW now \in {None} \cup SetupFile, task[p].replace \in BOOLEAN
  PROVE  /\ Files!render(p, f, now) # None <=> Renders(task[p].replace, f, now)
         /\ Files!render(p, f, now) # None =>
              /\ Files!stamped(Files!render(p, f, now)).managed = p
              /\ Files!stamped(Files!render(p, f, now)).human \in Nat
              /\ f = "config" => Files!stamped(Files!render(p, f, now)).human = IF now = None THEN 0 ELSE now.human
         /\ Files!unchanged(p, f, now) => now # None /\ now.managed = p
<1>1. f \in {"config", "skill"} /\ (now # None => now \in SetupFile)
  BY TwoFiles
<1>2. now # None => now.human \in Nat
  BY <1>1 DEF SetupFile
<1>3. \A human \in Nat : [human |-> human, managed |-> p] # None
  BY SetupConstants
<1> DEFINE made == Files!render(p, f, now)
<1>4. /\ made = None \/ (\E human \in Nat : made = [human |-> human, managed |-> p])
      /\ made # None <=> Renders(task[p].replace, f, now)
      /\ f = "config" /\ made # None => made = [human |-> IF now = None THEN 0 ELSE now.human, managed |-> p]
  BY <1>1, <1>2, <1>3 DEF Files!render, Files!renderOpenCodeConfig, Files!renderStandardSkillFile, Renders
<1> HIDE DEF made
<1>5. made # None => made.managed = p /\ made.human \in Nat
  BY <1>4
<1>6. Files!stamped(made).managed = made.managed /\ Files!stamped(made).human = made.human
  BY DEF Files!stamped
<1>7. Files!unchanged(p, f, now) => now # None /\ made = [human |-> now.human, managed |-> now.managed]
  BY DEF Files!unchanged, made
<1>8. Files!unchanged(p, f, now) => now # None /\ now.managed = p
  <2> SUFFICES ASSUME Files!unchanged(p, f, now) PROVE now # None /\ now.managed = p
    OBVIOUS
  <2>1. made = [human |-> now.human, managed |-> now.managed] /\ now # None
    BY <1>7
  <2>2. now \in SetupFile
    BY <1>1, <2>1
  <2>3. [human |-> now.human, managed |-> now.managed] \in SetupRegion
    BY <2>2 DEF SetupFile, SetupRegion
  <2>4. made # None
    BY <2>1, <2>3, InstallationAssumption DEF InstallationAssumption
  <2>5. made.managed = now.managed
    BY <2>1
  <2> QED
    BY <1>5, <2>1, <2>4, <2>5
<1>9. f = "config" /\ made # None => Files!stamped(made).human = IF now = None THEN 0 ELSE now.human
  BY <1>4, <1>6
<1> QED
  BY <1>4, <1>5, <1>6, <1>8, <1>9 DEF made
\* Setup begins with a configuration of the user, and no command.
LEMMA SetupStarts == Files!Init => SetupInv
<1> SUFFICES ASSUME Files!Init PROVE SetupInv
  OBVIOUS
<1>1. PICK managed \in {None, Foreign, "earlier"} :
        disk = [f \in Files!Files |-> IF f = "config" THEN [human |-> 1, managed |-> managed, stamp |-> 1] ELSE None]
  BY DEF Files!Init
<1>2. [human |-> 1, managed |-> managed, stamp |-> 1] \in SetupFile
  BY DEF SetupFile
<1>3. disk \in FileContent
  BY <1>1, <1>2 DEF FileContent
<1>4. /\ dir = [id |-> 0, kept |-> FALSE] /\ stamps = 1 /\ lock = None /\ task = [p \in SetupCommands |-> Files!Idle]
      /\ text = [f \in Files!Files |-> IF f = "config" THEN 1 ELSE 0] /\ before = disk /\ edited = {}
  BY DEF Files!Init
<1>5. SetupTypes
  BY <1>3, <1>4, IdleTask DEF SetupTypes
<1>6. disk["config"].human = 1 /\ disk["config"] # None /\ text["config"] = 1
  BY <1>1, <1>2, <1>4, TwoFiles, SetupConstants
<1> QED
  BY <1>4, <1>5, <1>6, IdleTask, SetupConstants DEF SetupInv, TextFits, SetupAway

\* The command that has the lock moves on.
LEMMA HolderMoves ==
  ASSUME SetupInv, NEW p \in SetupCommands, lock = p, lock' = p, NEW new \in SetupTask, task' = [task EXCEPT ![p] = new],
         disk' \in FileContent, dir' \in [id : Nat, kept : BOOLEAN], stamps' \in Nat, UNCHANGED <<text, before>>,
         edited' \subseteq Files!Files, TaskFits(new, p), FilesFit(new, p, disk', before, edited'),
         TextFits(disk'["config"], text["config"])
  PROVE  SetupInv'
<1>1. task' \in [SetupCommands -> SetupTask] /\ task'[p] = new /\ \A q \in SetupCommands : q # p => task'[q] = task[q]
  BY DEF SetupInv, SetupTypes
<1>2. SetupTypes'
  BY <1>1 DEF SetupInv, SetupTypes
<1>3. \A q \in SetupCommands : q # p => task[q].pc \in SetupAway
  BY DEF SetupInv
<1> QED
  BY <1>1, <1>2, <1>3 DEF SetupInv

\* The command that has the lock moves on without a change of a file.
LEMMA HolderThinks ==
  ASSUME SetupInv, NEW p \in SetupCommands, lock = p, lock' = p, NEW new \in SetupTask, task' = [task EXCEPT ![p] = new],
         dir' \in [id : Nat, kept : BOOLEAN], stamps' \in Nat, UNCHANGED <<disk, text, before, edited>>,
         TaskFits(new, p), FilesFit(new, p, disk, before, edited)
  PROVE  SetupInv'
<1>1. disk' \in FileContent /\ edited' \subseteq Files!Files /\ TextFits(disk'["config"], text["config"])
  BY DEF SetupInv, SetupTypes
<1>2. FilesFit(new, p, disk', before, edited')
  BY ONLY FilesFit(new, p, disk, before, edited), UNCHANGED <<disk, text, before, edited>>
<1> QED
  BY <1>1, <1>2, HolderMoves

\* A command that has no lock any more, or never got it.
LEMMA LockLeft ==
  ASSUME SetupInv, NEW p \in SetupCommands, NEW new \in SetupTask, new.pc \in SetupAway, task' = [task EXCEPT ![p] = new],
         \/ lock = p /\ lock' = None
         \/ lock # p /\ lock' = lock,
         UNCHANGED <<disk, dir, stamps, text, before, edited>>
  PROVE  SetupInv'
<1>1. task' \in [SetupCommands -> SetupTask] /\ task'[p] = new /\ \A q \in SetupCommands : q # p => task'[q] = task[q]
  BY DEF SetupInv, SetupTypes
<1>2. SetupTypes'
  BY <1>1 DEF SetupInv, SetupTypes
<1>3. \A q \in SetupCommands : q # p =>
        IF lock' = q THEN TaskFits(task'[q], q) /\ FilesFit(task'[q], q, disk', before', edited') ELSE task'[q].pc \in SetupAway
  <2> SUFFICES ASSUME NEW q \in SetupCommands, q # p
               PROVE  IF lock' = q THEN TaskFits(task'[q], q) /\ FilesFit(task'[q], q, disk', before', edited')
                      ELSE task'[q].pc \in SetupAway
    OBVIOUS
  <2>1. task'[q] = task[q] /\ disk' = disk /\ before' = before /\ edited' = edited
    BY <1>1
  <2>2. lock' = q <=> lock = q
    BY SetupConstants
  <2> QED
    BY <2>1, <2>2 DEF SetupInv
<1>4. lock' # p
  BY SetupConstants
<1> QED
  BY <1>1, <1>2, <1>3, <1>4 DEF SetupInv

\* What the user does to a file is his text, and that file is no more looked after.
LEMMA UserChanges ==
  ASSUME SetupInv, NEW f \in Files!Files, NEW now \in {None} \cup SetupFile, NEW d \in [id : Nat, kept : BOOLEAN],
         Files!userChanges(f, now, d)
  PROVE  SetupInv'
<1>1. /\ disk' = [disk EXCEPT ![f] = now] /\ dir' = d /\ stamps' = stamps + 1 /\ edited' = edited \cup {f}
      /\ text' = [text EXCEPT ![f] = IF now = None THEN 0 ELSE now.human] /\ UNCHANGED <<lock, task, before>>
  BY DEF Files!userChanges
<1>2. disk' \in FileContent /\ \A g \in Files!Files : disk'[g] = IF g = f THEN now ELSE disk[g]
  BY <1>1 DEF SetupInv, SetupTypes, FileContent
<1> DEFINE t == IF now = None THEN 0 ELSE now.human
<1>3. t \in Nat
  BY DEF SetupFile
<1>4. text' = [text EXCEPT ![f] = t]
  BY <1>1
<1>5. TextFits(now, t)
  BY DEF TextFits
<1> HIDE DEF t
<1>6. text' \in [Files!Files -> Nat] /\ \A g \in Files!Files : text'[g] = IF g = f THEN t ELSE text[g]
  BY <1>3, <1>4 DEF SetupInv, SetupTypes
<1>7. SetupTypes'
  BY <1>1, <1>2, <1>6 DEF SetupInv, SetupTypes
<1>8. TextFits(disk["config"], text["config"])'
  <2>1. "config" \in Files!Files
    BY TwoFiles
  <2>2. CASE f = "config"
    BY <1>2, <1>5, <1>6, <2>1, <2>2
  <2>3. CASE f # "config"
    <3>1. disk'["config"] = disk["config"] /\ text'["config"] = text["config"]
      BY <1>2, <1>6, <2>1, <2>3
    <3> QED
      BY <3>1 DEF SetupInv
  <2> QED
    BY <2>2, <2>3
<1>9. ASSUME NEW p \in SetupCommands, lock = p
      PROVE  FilesFit(task[p], p, disk', before, edited')
  <2>1. FilesFit(task[p], p, disk, before, edited)
    BY <1>9 DEF SetupInv
  <2>2. \A g \in Files!Files \ edited' : g \in Files!Files \ edited /\ disk'[g] = disk[g]
    BY <1>1, <1>2
  <2> QED
    BY <2>1, <2>2 DEF FilesFit
<1> QED
  BY <1>1, <1>7, <1>8, <1>9 DEF SetupInv

\* The steps of the user.
LEMMA UserSteps ==
  ASSUME SetupInv,
         Files!changeDirectory \/ (\E f \in Files!Files : Files!edit(f) \/ Files!create(f) \/ Files!delete(f))
  PROVE  SetupInv'
<1>1. disk \in FileContent /\ stamps \in Nat /\ dir \in [id : Nat, kept : BOOLEAN]
  BY DEF SetupInv, SetupTypes
<1>2. ASSUME NEW f \in Files!Files PROVE disk[f] \in {None} \cup SetupFile
  BY <1>1 DEF FileContent
<1>3. ASSUME NEW f \in Files!Files, Files!edit(f) PROVE SetupInv'
  <2>1. disk[f] \in SetupFile
    BY <1>2, <1>3 DEF Files!edit
  <2>2. PICK managed \in {disk[f].managed, IF f = "config" THEN Foreign ELSE None} :
          Files!userChanges(f, [human |-> disk[f].human + 1, managed |-> managed, stamp |-> stamps + 1], dir)
    BY <1>3 DEF Files!edit
  <2>3. managed \in {None, Foreign, "earlier"} \cup SetupCommands
    BY <2>1 DEF SetupFile
  <2>4. [human |-> disk[f].human + 1, managed |-> managed, stamp |-> stamps + 1] \in SetupFile
    BY <1>1, <2>1, <2>3 DEF SetupFile
  <2> QED
    BY <1>1, <2>2, <2>4, UserChanges
<1>4. ASSUME NEW f \in Files!Files, Files!create(f) PROVE SetupInv'
  <2>1. [human |-> 1, managed |-> None, stamp |-> stamps + 1] \in SetupFile
    BY <1>1 DEF SetupFile
  <2> QED
    BY <1>1, <1>4, <2>1, UserChanges DEF Files!create
<1>5. ASSUME NEW f \in Files!Files, Files!delete(f) PROVE SetupInv'
  BY <1>1, <1>5, UserChanges DEF Files!delete
<1>6. ASSUME Files!changeDirectory PROVE SetupInv'
  <2>1. "skill" \in Files!Files
    BY TwoFiles
  <2>2. [id |-> stamps + 1, kept |-> FALSE] \in [id : Nat, kept : BOOLEAN]
    BY <1>1
  <2>3. [dir EXCEPT !.kept = TRUE] \in [id : Nat, kept : BOOLEAN]
    BY <1>1
  <2> QED
    BY <1>2, <1>6, <2>1, <2>2, <2>3, UserChanges DEF Files!changeDirectory
<1> QED
  BY <1>3, <1>4, <1>5, <1>6

\* The lock is taken, or not.
LEMMA LockSteps ==
  ASSUME SetupInv, NEW p \in SetupCommands,
         Files!acquire(p) \/ Files!lockTimesOut(p) \/ Files!release(p) \/ Files!crash(p)
  PROVE  SetupInv'
<1>1. task[p] \in SetupTask /\ p # None /\ disk \in FileContent
  BY SetupConstants DEF SetupInv, SetupTypes
<1>2. CASE Files!acquire(p)
  <2> DEFINE new == [Files!Idle EXCEPT !.pc = "plan", !.replace = task[p].replace]
  <2>1. new \in SetupTask
    BY <1>1, IdleTask DEF SetupTask, SetupSteps
  <2>2. /\ new.pc = "plan" /\ new.i = 1 /\ new.applied = <<>> /\ new.made = FALSE /\ new.failures = FALSE /\ new.error = None
    BY <1>1, IdleTask DEF SetupTask
  <2> HIDE DEF new
  <2>3. /\ task' = [task EXCEPT ![p] = new] /\ lock = None /\ lock' = p /\ before' = disk /\ edited' = {}
        /\ UNCHANGED <<disk, dir, stamps, text>>
    BY <1>2 DEF Files!acquire, Files!to, new
  <2>4. task' \in [SetupCommands -> SetupTask] /\ task'[p] = new /\ \A q \in SetupCommands : q # p => task'[q] = task[q]
    BY <2>1, <2>3 DEF SetupInv, SetupTypes
  <2>5. SetupTypes'
    BY <1>1, <2>3, <2>4 DEF SetupInv, SetupTypes
  <2>6. TaskFits(new, p)
    BY <2>2 DEF TaskFits, SetupSteps
  <2>7. FilesFit(new, p, disk', before', edited')
    <3>1. \A f : Undoes(<<>>, f, disk[f], disk[f])
      BY ContentSame DEF Undoes, HasFile
    <3> QED
      BY <2>2, <2>3, <3>1 DEF FilesFit
  <2>8. \A q \in SetupCommands : q # p => task'[q].pc \in SetupAway
    BY <1>1, <2>3, <2>4, SetupConstants DEF SetupInv
  <2>9. TextFits(disk["config"], text["config"])'
    BY <2>3 DEF SetupInv
  <2> QED
    BY <2>3, <2>4, <2>5, <2>6, <2>7, <2>8, <2>9 DEF SetupInv
<1>3. CASE Files!lockTimesOut(p)
  <2> DEFINE new == [Files!Idle EXCEPT !.pc = "failed", !.error = "busy"]
  <2>1. new \in SetupTask
    BY IdleTask DEF SetupTask, SetupAway, SetupErrors
  <2>2. new.pc = "failed"
    BY IdleTask DEF SetupTask
  <2> HIDE DEF new
  <2>3. task' = [task EXCEPT ![p] = new] /\ lock # p /\ lock' = lock /\ UNCHANGED <<disk, dir, stamps, text, before, edited>>
    BY <1>3 DEF Files!lockTimesOut, Files!to, new
  <2> QED
    BY <2>1, <2>2, <2>3, LockLeft DEF SetupAway
<1>4. CASE Files!release(p)
  <2>1. lock = p
    BY <1>4 DEF Files!release, SetupInv, SetupAway
  <2>2. lock' = None /\ UNCHANGED <<disk, dir, stamps, text, before, edited>>
    BY <1>4 DEF Files!release
  <2>3. task[p].error \in SetupErrors /\ task[p].failures \in BOOLEAN /\ task[p].replace \in BOOLEAN
    BY <1>1 DEF SetupTask
  <2>4. CASE Files!to(p, [Files!Idle EXCEPT !.pc = IF task[p].error = None THEN "done" ELSE "failed",
                                            !.error = task[p].error, !.failures = task[p].failures])
    <3> DEFINE new == [Files!Idle EXCEPT !.pc = IF task[p].error = None THEN "done" ELSE "failed",
                                         !.error = task[p].error, !.failures = task[p].failures]
    <3>1. new \in SetupTask
      BY <2>3, IdleTask DEF SetupTask, SetupAway
    <3>2. new.pc \in SetupAway
      BY IdleTask DEF SetupTask, SetupAway
    <3>3. task' = [task EXCEPT ![p] = new]
      BY <2>4 DEF Files!to
    <3> HIDE DEF new
    <3> QED
      BY <2>1, <2>2, <3>1, <3>2, <3>3, LockLeft
  <2>5. ASSUME NEW again \in BOOLEAN, Files!to(p, [Files!Idle EXCEPT !.replace = again]) PROVE SetupInv'
    <3> DEFINE new == [Files!Idle EXCEPT !.replace = again]
    <3>1. new \in SetupTask
      BY IdleTask DEF SetupTask
    <3>2. new.pc \in SetupAway
      BY IdleTask DEF SetupTask, SetupAway
    <3>3. task' = [task EXCEPT ![p] = new]
      BY <2>5 DEF Files!to
    <3> HIDE DEF new
    <3> QED
      BY <2>1, <2>2, <3>1, <3>2, <3>3, LockLeft
  <2> QED
    BY <1>4, <2>3, <2>4, <2>5 DEF Files!release
<1>5. CASE Files!crash(p)
  <2> DEFINE new == [Files!Idle EXCEPT !.pc = "crashed"]
  <2>1. new \in SetupTask
    BY IdleTask DEF SetupTask, SetupAway
  <2>2. new.pc = "crashed"
    BY IdleTask DEF SetupTask
  <2> HIDE DEF new
  <2>3. task' = [task EXCEPT ![p] = new] /\ lock = p /\ lock' = None /\ UNCHANGED <<disk, dir, stamps, text, before, edited>>
    BY <1>5 DEF Files!crash, Files!to, new
  <2> QED
    BY <2>1, <2>2, <2>3, LockLeft DEF SetupAway
<1> QED
  BY <1>2, <1>3, <1>4, <1>5
\* A command that is at work has the lock.
LEMMA LockHolder ==
  ASSUME SetupInv, NEW p \in SetupCommands, task[p].pc \notin SetupAway
  PROVE  /\ lock = p /\ task[p] \in SetupTask /\ TaskFits(task[p], p)
         /\ FilesFit(task[p], p, disk, before, edited)
BY DEF SetupInv, SetupTypes

\* What holds of the files does not depend on what is planned.
LEMMA FilesKept ==
  ASSUME NEW p, NEW d, NEW new, NEW files, NEW then, NEW others, FilesFit(d, p, files, then, others),
         d.pc # "release" \/ d.error # None, new.pc # "release" \/ new.error # None,
         new.applied = d.applied, new.failures = d.failures
  PROVE  FilesFit(new, p, files, then, others)
BY DEF FilesFit, Undoes, HasFile

\* Planning, and the database.
LEMMA PlanSteps ==
  ASSUME SetupInv, NEW p \in SetupCommands, Files!planFile(p) \/ Files!initializeDatabase(p)
  PROVE  SetupInv'
<1>1. /\ task[p].pc \in {"plan", "database"} /\ UNCHANGED <<disk, dir, stamps, lock, text, before, edited>>
  BY DEF Files!planFile, Files!initializeDatabase
<1>2. /\ lock = p /\ task[p] \in SetupTask /\ TaskFits(task[p], p) /\ FilesFit(task[p], p, disk, before, edited)
  BY <1>1, LockHolder DEF SetupAway
<1>3. /\ task[p].applied = <<>> /\ ~task[p].made /\ task[p].error = None /\ (task[p].pc = "plan" => task[p].i \in {1, 2})
      /\ task[p].plan \in FileContent /\ task[p].planDir \in Nat /\ task[p].i \in 1..3
  BY <1>1, <1>2 DEF TaskFits, SetupTask
<1>4. dir' \in [id : Nat, kept : BOOLEAN] /\ stamps' \in Nat /\ lock' = p /\ UNCHANGED <<disk, text, before, edited>>
      /\ dir.id \in Nat /\ disk \in FileContent
  BY <1>1, <1>2 DEF SetupInv, SetupTypes
<1>5. ASSUME NEW error \in SetupErrors \ {None}, Files!to(p, [task[p] EXCEPT !.pc = "release", !.error = error])
      PROVE  SetupInv'
  <2> DEFINE new == [task[p] EXCEPT !.pc = "release", !.error = error]
  <2>1. new \in SetupTask
    BY <1>2 DEF SetupTask, SetupSteps
  <2>2. /\ new.pc = "release" /\ new.error = error /\ new.applied = task[p].applied
        /\ new.failures = task[p].failures /\ new.made = task[p].made
    BY <1>2 DEF SetupTask
  <2>3. task' = [task EXCEPT ![p] = new]
    BY <1>5 DEF Files!to
  <2> HIDE DEF new
  <2>4. TaskFits(new, p)
    BY <1>3, <2>2 DEF TaskFits, SetupSteps
  <2>5. FilesFit(new, p, disk, before, edited)
    BY <1>1, <1>2, <2>2, FilesKept
  <2> QED
    BY <1>2, <1>4, <2>1, <2>3, <2>4, <2>5, HolderThinks
<1>6. CASE Files!planFile(p)
  <2>1. task[p].pc = "plan" /\ task[p].i \in {1, 2} /\ Files!Order[task[p].i] \in Files!Files
    BY <1>3, <1>6, TwoFiles DEF Files!planFile
  <2> PICK f \in Files!Files : f = Files!Order[task[p].i]
    BY <2>1
  <2>2. CASE Files!to(p, [task[p] EXCEPT !.pc = "release", !.error = Files!refusal(f)])
    <3>1. Files!refusal(f) \in SetupErrors \ {None}
      BY SetupConstants DEF Files!refusal, SetupErrors
    <3> QED
      BY <1>5, <2>2, <3>1
  <2>3. CASE Files!to(p, [task[p] EXCEPT !.plan[f] = disk[f], !.planDir = IF f = "skill" THEN dir.id ELSE @,
                          !.i = @ + 1, !.pc = IF task[p].i = Len(Files!Order) THEN "database" ELSE @])
    <3> DEFINE plan == [task[p].plan EXCEPT ![f] = disk[f]]
               planDir == IF f = "skill" THEN dir.id ELSE task[p].planDir
               pc == IF task[p].i = Len(Files!Order) THEN "database" ELSE task[p].pc
               new == [task[p] EXCEPT !.plan = plan, !.planDir = planDir, !.i = task[p].i + 1, !.pc = pc]
    <3>1. plan \in FileContent
      BY <1>3, <1>4, <2>1 DEF FileContent
    <3>2. planDir \in Nat
      BY <1>3, <1>4
    <3>3. pc \in {"plan", "database"} /\ (pc = "plan" => task[p].i = 1) /\ task[p].i + 1 \in {2, 3}
      BY <2>1, TwoFiles
    <3>4. task' = [task EXCEPT ![p] = new]
      <4>1. [task[p] EXCEPT !.plan[f] = disk[f], !.planDir = IF f = "skill" THEN dir.id ELSE @,
                            !.i = @ + 1, !.pc = IF task[p].i = Len(Files!Order) THEN "database" ELSE @] = new
        BY <1>2 DEF SetupTask
      <4> QED
        BY <2>3, <4>1 DEF Files!to
    <3> HIDE DEF plan, planDir, pc
    <3>5. new \in SetupTask
      <4>1. pc \in SetupAway \cup SetupSteps /\ task[p].i + 1 \in 1..3
        BY <3>3 DEF SetupSteps
      <4> HIDE DEF pc, plan, planDir
      <4> QED
        BY <1>2, <3>1, <3>2, <4>1 DEF SetupTask
    <3>6. /\ new.pc = pc /\ new.i = task[p].i + 1 /\ new.error = task[p].error /\ new.applied = task[p].applied
          /\ new.failures = task[p].failures /\ new.made = task[p].made
      BY <1>2 DEF SetupTask
    <3> HIDE DEF new
    <3>7. TaskFits(new, p)
      BY <1>3, <3>3, <3>6 DEF TaskFits, SetupSteps
    <3>8. FilesFit(new, p, disk, before, edited)
      BY <1>1, <1>2, <3>3, <3>6, FilesKept
    <3> QED
      BY <1>2, <1>4, <3>4, <3>5, <3>7, <3>8, HolderThinks
  <2> QED
    BY <1>6, <2>2, <2>3 DEF Files!planFile
<1>7. CASE Files!initializeDatabase(p)
  <2>1. CASE Files!to(p, [task[p] EXCEPT !.pc = "prepare"])
    <3> DEFINE new == [task[p] EXCEPT !.pc = "prepare"]
    <3>1. new \in SetupTask
      BY <1>2 DEF SetupTask, SetupSteps
    <3>2. /\ new.pc = "prepare" /\ new.error = task[p].error /\ new.applied = task[p].applied
          /\ new.failures = task[p].failures /\ new.made = task[p].made
      BY <1>2 DEF SetupTask
    <3>3. task' = [task EXCEPT ![p] = new]
      BY <2>1 DEF Files!to
    <3> HIDE DEF new
    <3>4. TaskFits(new, p)
      BY <1>3, <3>2 DEF TaskFits, SetupSteps
    <3>5. FilesFit(new, p, disk, before, edited)
      BY <1>1, <1>2, <3>2, FilesKept
    <3> QED
      BY <1>2, <1>4, <3>1, <3>3, <3>4, <3>5, HolderThinks
  <2>2. ASSUME NEW error \in {"database", "ask"}, Files!to(p, [task[p] EXCEPT !.pc = "release", !.error = error])
        PROVE  SetupInv'
    <3>1. error \in SetupErrors \ {None}
      BY SetupConstants DEF SetupErrors
    <3> QED
      BY <1>5, <2>2, <3>1
  <2> QED
    BY <1>7, <2>1, <2>2 DEF Files!initializeDatabase
<1> QED
  BY <1>6, <1>7

\* A command that has to give up what it has not yet checked.
LEMMA Fails ==
  ASSUME SetupInv, NEW p \in SetupCommands, task[p].pc \in {"prepare", "assert", "write", "replace", "check"},
         NEW error \in SetupErrors \ {None}, Files!fails(p, error),
         UNCHANGED <<disk, dir, stamps, lock, text, before, edited>>
  PROVE  SetupInv'
<1>1. /\ lock = p /\ task[p] \in SetupTask /\ TaskFits(task[p], p) /\ FilesFit(task[p], p, disk, before, edited)
  BY LockHolder DEF SetupAway
<1> DEFINE new == [task[p] EXCEPT !.pc = "restore", !.error = error]
<1>2. new \in SetupTask
  BY <1>1 DEF SetupTask, SetupSteps
<1>3. new.pc = "restore" /\ new.error = error /\ new.applied = task[p].applied /\ new.failures = task[p].failures
  BY <1>1 DEF SetupTask
<1>4. task' = [task EXCEPT ![p] = new]
  BY DEF Files!fails, Files!to
<1> HIDE DEF new
<1>5. TaskFits(new, p)
  BY <1>1, <1>3 DEF TaskFits, SetupSteps
<1>6. FilesFit(new, p, disk, before, edited)
  BY <1>1, <1>3, FilesKept
<1>7. dir' \in [id : Nat, kept : BOOLEAN] /\ stamps' \in Nat
  BY DEF SetupInv, SetupTypes
<1> QED
  BY <1>1, <1>2, <1>4, <1>5, <1>6, <1>7, HolderThinks

\* The directory of the skill is made, and the files are looked at once more.
LEMMA PrepareSteps ==
  ASSUME SetupInv, NEW p \in SetupCommands, Files!preparePlannedDirectories(p) \/ Files!assertPlannedFiles(p)
  PROVE  SetupInv'
<1>1. task[p].pc \in {"prepare", "assert"} /\ UNCHANGED <<disk, lock, text, before, edited>>
  BY DEF Files!preparePlannedDirectories, Files!assertPlannedFiles
<1>2. /\ lock = p /\ task[p] \in SetupTask /\ TaskFits(task[p], p) /\ FilesFit(task[p], p, disk, before, edited)
  BY <1>1, LockHolder DEF SetupAway
<1>3. task[p].applied = <<>> /\ task[p].error = None
  BY <1>1, <1>2 DEF TaskFits
<1>4. stamps \in Nat /\ dir \in [id : Nat, kept : BOOLEAN] /\ "conflict" \in SetupErrors \ {None}
  BY SetupConstants DEF SetupInv, SetupTypes, SetupErrors
<1>5. ASSUME NEW new \in SetupTask, new.pc \in {"assert", "write"}, new.i = 1 \/ new.pc = "assert", new.error = None,
             new.applied = <<>>, new.failures = task[p].failures, Files!to(p, new), dir' \in [id : Nat, kept : BOOLEAN], stamps' \in Nat
      PROVE  SetupInv'
  <2>1. TaskFits(new, p)
    BY <1>5 DEF TaskFits, SetupSteps
  <2>2. FilesFit(new, p, disk, before, edited)
    BY <1>1, <1>2, <1>3, <1>5, FilesKept
  <2>3. task' = [task EXCEPT ![p] = new]
    BY <1>5 DEF Files!to
  <2> QED
    BY <1>1, <1>2, <1>5, <2>1, <2>2, <2>3, HolderThinks
<1>6. ASSUME Files!fails(p, "conflict"), UNCHANGED <<dir, stamps>> PROVE SetupInv'
  BY <1>1, <1>4, <1>6, Fails
<1>7. CASE Files!preparePlannedDirectories(p)
  <2>1. CASE Files!to(p, [task[p] EXCEPT !.pc = "assert"]) /\ UNCHANGED <<dir, stamps>>
    <3> DEFINE new == [task[p] EXCEPT !.pc = "assert"]
    <3>1. new \in SetupTask
      BY <1>2 DEF SetupTask, SetupSteps
    <3>2. new.pc = "assert" /\ new.error = task[p].error /\ new.applied = task[p].applied /\ new.failures = task[p].failures
      BY <1>2 DEF SetupTask
    <3>3. Files!to(p, new)
      BY <2>1
    <3> HIDE DEF new
    <3> QED
      BY <1>3, <1>4, <1>5, <2>1, <3>1, <3>2, <3>3
  <2>2. CASE /\ dir' = [id |-> stamps + 1, kept |-> FALSE] /\ stamps' = stamps + 1
             /\ Files!to(p, [task[p] EXCEPT !.pc = "assert", !.planDir = stamps + 1, !.made = TRUE])
    <3> DEFINE new == [task[p] EXCEPT !.pc = "assert", !.planDir = stamps + 1, !.made = TRUE]
    <3>1. new \in SetupTask
      <4>1. "assert" \in SetupAway \cup SetupSteps /\ stamps + 1 \in Nat
        BY <1>4 DEF SetupSteps
      <4> QED
        BY <1>2, <4>1 DEF SetupTask
    <3>2. new.pc = "assert" /\ new.error = task[p].error /\ new.applied = task[p].applied /\ new.failures = task[p].failures
      BY <1>2 DEF SetupTask
    <3>3. Files!to(p, new)
      BY <2>2
    <3> HIDE DEF new
    <3>4. stamps' \in Nat
      BY <1>4, <2>2
    <3>5. dir' \in [id : Nat, kept : BOOLEAN]
      BY <1>4, <2>2
    <3> QED
      BY <1>3, <1>5, <3>1, <3>2, <3>3, <3>4, <3>5
  <2> QED
    BY <1>6, <1>7, <2>1, <2>2 DEF Files!preparePlannedDirectories
<1>8. CASE Files!assertPlannedFiles(p)
  <2>1. UNCHANGED <<dir, stamps>>
    BY <1>8 DEF Files!assertPlannedFiles
  <2>2. CASE Files!to(p, [task[p] EXCEPT !.pc = "write", !.i = 1])
    <3> DEFINE new == [task[p] EXCEPT !.pc = "write", !.i = 1]
    <3>1. new \in SetupTask
      <4>1. "write" \in SetupAway \cup SetupSteps /\ 1 \in 1..3
        BY DEF SetupSteps
      <4> QED
        BY <1>2, <4>1 DEF SetupTask
    <3>2. new.pc = "write" /\ new.i = 1 /\ new.error = task[p].error /\ new.applied = task[p].applied
          /\ new.failures = task[p].failures
      BY <1>2 DEF SetupTask
    <3>3. Files!to(p, new)
      BY <2>2
    <3> HIDE DEF new
    <3> QED
      BY <1>3, <1>4, <1>5, <2>1, <3>1, <3>2, <3>3
  <2> QED
    BY <1>6, <1>8, <2>1, <2>2 DEF Files!assertPlannedFiles
<1> QED
  BY <1>7, <1>8

\* One mutation more.
LEMMA Appended ==
  ASSUME NEW s \in Seq(Mutation), NEW m \in Mutation
  PROVE  /\ Append(s, m) \in Seq(Mutation)
         /\ \A f : HasFile(Append(s, m), f) <=> HasFile(s, f) \/ f = m.file
         /\ \A k \in DOMAIN Append(s, m) : (k \in DOMAIN s /\ Append(s, m)[k] = s[k]) \/ (k = Len(s) + 1 /\ Append(s, m)[k] = m)
<1> DEFINE t == Append(s, m)
<1>1. /\ t \in Seq(Mutation) /\ DOMAIN t = 1..(Len(s) + 1) /\ t[Len(s) + 1] = m
      /\ \A k \in 1..Len(s) : t[k] = s[k]
  BY AppendProperties
<1> HIDE DEF t
<1>2. DOMAIN s = 1..Len(s) /\ Len(s) \in Nat
  OBVIOUS
<1>3. ASSUME NEW k \in DOMAIN t PROVE (k \in DOMAIN s /\ t[k] = s[k]) \/ (k = Len(s) + 1 /\ t[k] = m)
  <2>1. k \in 1..Len(s) \/ k = Len(s) + 1
    BY <1>1, <1>2
  <2>2. CASE k = Len(s) + 1
    <3>1. t[Len(s) + 1] = m
      BY <1>1
    <3> QED
      BY <2>2, <3>1, Zenon
  <2>3. CASE k \in 1..Len(s)
    BY <1>1, <1>2, <2>3
  <2> QED
    BY <2>1, <2>2, <2>3
<1>4. \A k \in DOMAIN s : k \in DOMAIN t /\ t[k] = s[k]
  BY <1>1, <1>2
<1>5. Len(s) + 1 \in DOMAIN t /\ t[Len(s) + 1] = m
  BY <1>1, <1>2
<1>6. \A f : HasFile(t, f) <=> HasFile(s, f) \/ f = m.file
  BY <1>3, <1>4, <1>5 DEF HasFile
<1> QED
  BY <1>1, <1>3, <1>6 DEF t

\* A mutation is recorded that says what happened to its file.
LEMMA Records ==
  ASSUME NEW p, NEW d \in SetupTask, NEW new, NEW m \in Mutation, NEW files, NEW now, NEW then, NEW others,
         FilesFit(d, p, files, then, others), d.pc # "release", new.pc # "release", new.failures = d.failures,
         new.applied = Append(d.applied, m), ~HasFile(d.applied, m.file), m.previous = files[m.file], m.installed = now[m.file],
         ~m.owned => m.previous = m.installed, \A g \in Files!Files : g # m.file => now[g] = files[g]
  PROVE  FilesFit(new, p, now, then, others)
<1>1. d.applied \in Seq(Mutation)
  BY DEF SetupTask
<1> DEFINE t == Append(d.applied, m)
<1>2. /\ \A f : HasFile(t, f) <=> HasFile(d.applied, f) \/ f = m.file
      /\ \A k \in DOMAIN t : (k \in DOMAIN d.applied /\ t[k] = d.applied[k]) \/ t[k] = m
  BY <1>1, Appended
<1> HIDE DEF t
<1>3. ASSUME NEW f \in Files!Files, Undoes(d.applied, f, files[f], then[f]) PROVE Undoes(t, f, now[f], then[f])
  <2>1. CASE f # m.file
    BY <1>2, <1>3, <2>1 DEF Undoes
  <2>2. CASE f = m.file
    <3>1. Files!sameContent(m.previous, then[f])
      BY <1>3, <2>2 DEF Undoes
    <3>2. \A k \in DOMAIN t : t[k].file = f => t[k] = m
      BY <1>2, <2>2 DEF HasFile
    <3>3. HasFile(t, f)
      BY <1>2, <2>2
    <3> QED
      BY <2>2, <3>1, <3>2, <3>3 DEF Undoes
  <2> QED
    BY <2>1, <2>2
<1> QED
  BY <1>3 DEF FilesFit, t

\* A file has not been looked after before its turn.
LEMMA NotYet ==
  ASSUME NEW p \in SetupCommands, NEW d \in SetupTask, TaskFits(d, p), d.pc \in {"write", "replace"}
  PROVE  d.i \in {1, 2} /\ Files!Order[d.i] \in Files!Files /\ ~HasFile(d.applied, Files!Order[d.i]) /\ d.error = None
<1>1. d.i \in {1, 2} /\ d.error = None
  BY DEF TaskFits
<1>2. CASE d.i = 1
  <2>1. d.applied = <<>>
    BY <1>2 DEF TaskFits
  <2> QED
    BY <1>1, <1>2, <2>1, TwoFiles DEF HasFile
<1>3. CASE d.i = 2
  <2>1. \A k \in DOMAIN d.applied : d.applied[k].file = "config"
    BY <1>3 DEF TaskFits
  <2> QED
    BY <1>1, <1>3, <2>1, TwoFiles DEF HasFile
<1> QED
  BY <1>1, <1>2, <1>3

\* What is applied stays in order when one mutation of another file is added.
LEMMA AppliedFits ==
  ASSUME NEW p \in SetupCommands, NEW d \in SetupTask, TaskFits(d, p), NEW m \in Mutation, Beside(m, p), ~HasFile(d.applied, m.file),
         NEW t, t = Append(d.applied, m)
  PROVE  /\ \A k \in DOMAIN t : Beside(t[k], p)
         /\ \A k, n \in DOMAIN t : t[k].file = t[n].file => k = n
<1>1. d.applied \in Seq(Mutation)
  BY DEF SetupTask
<1>2. \A k \in DOMAIN t : (k \in DOMAIN d.applied /\ t[k] = d.applied[k]) \/ (k = Len(d.applied) + 1 /\ t[k] = m)
  BY <1>1, Appended
<1>3. /\ \A k \in DOMAIN d.applied : Beside(d.applied[k], p)
      /\ \A k, n \in DOMAIN d.applied : d.applied[k].file = d.applied[n].file => k = n
  BY DEF TaskFits
<1>4. \A k \in DOMAIN d.applied : d.applied[k].file # m.file
  BY DEF HasFile
<1>5. \A k \in DOMAIN t : Beside(t[k], p)
  BY <1>2, <1>3
<1>6. ASSUME NEW k \in DOMAIN t, NEW n \in DOMAIN t, t[k].file = t[n].file PROVE k = n
  <2>1. CASE k \in DOMAIN d.applied /\ t[k] = d.applied[k] /\ n \in DOMAIN d.applied /\ t[n] = d.applied[n]
    BY <1>3, <1>6, <2>1
  <2>2. CASE k \in DOMAIN d.applied /\ t[k] = d.applied[k] /\ t[n] = m
    BY <1>4, <1>6, <2>2
  <2>3. CASE t[k] = m /\ n \in DOMAIN d.applied /\ t[n] = d.applied[n]
    BY <1>4, <1>6, <2>3
  <2>4. CASE k = Len(d.applied) + 1 /\ n = Len(d.applied) + 1
    BY <2>4
  <2> QED
    BY <1>2, <2>1, <2>2, <2>3, <2>4
<1> QED
  BY <1>5, <1>6

\* The next file, or the last look.
LEMMA Advanced ==
  ASSUME NEW p \in SetupCommands, NEW d \in SetupTask, TaskFits(d, p), d.pc \in {"write", "replace"}, NEW new \in SetupTask,
         new.pc = IF d.i = Len(Files!Order) THEN "check" ELSE "write", new.i = d.i + 1, new.error = d.error, new.plan = d.plan,
         \/ new.applied = d.applied /\ d.plan[Files!Order[d.i]] # None /\ d.plan[Files!Order[d.i]].managed = p
         \/ \E m \in Mutation : m.file = Files!Order[d.i] /\ Beside(m, p) /\ new.applied = Append(d.applied, m)
  PROVE  TaskFits(new, p) /\ new.pc \in {"write", "check"} /\ new.error = None
<1>1. d.i \in {1, 2} /\ ~HasFile(d.applied, Files!Order[d.i]) /\ d.error = None /\ d.applied \in Seq(Mutation)
  BY NotYet DEF SetupTask
<1>2. /\ \A k \in DOMAIN new.applied : Beside(new.applied[k], p)
      /\ \A k, n \in DOMAIN new.applied : new.applied[k].file = new.applied[n].file => k = n
      /\ \A f : HasFile(d.applied, f) => HasFile(new.applied, f)
      /\ \A f : HasFile(new.applied, f) => HasFile(d.applied, f) \/ f = Files!Order[d.i]
      /\ Installs(new, p, Files!Order[d.i])
  <2>1. CASE new.applied = d.applied /\ d.plan[Files!Order[d.i]] # None /\ d.plan[Files!Order[d.i]].managed = p
    <3>1. /\ \A k \in DOMAIN d.applied : Beside(d.applied[k], p)
          /\ \A k, n \in DOMAIN d.applied : d.applied[k].file = d.applied[n].file => k = n
      BY DEF TaskFits
    <3>2. Installs(new, p, Files!Order[d.i])
      BY <2>1 DEF Installs
    <3> QED
      BY <2>1, <3>1, <3>2
  <2>2. CASE \E m \in Mutation : m.file = Files!Order[d.i] /\ Beside(m, p) /\ new.applied = Append(d.applied, m)
    <3>1. PICK m \in Mutation : m.file = Files!Order[d.i] /\ Beside(m, p) /\ new.applied = Append(d.applied, m)
      BY <2>2
    <3>2. \A f : HasFile(new.applied, f) <=> HasFile(d.applied, f) \/ f = m.file
      BY <1>1, <3>1, Appended
    <3>3. /\ \A k \in DOMAIN new.applied : Beside(new.applied[k], p)
          /\ \A k, n \in DOMAIN new.applied : new.applied[k].file = new.applied[n].file => k = n
      BY <1>1, <3>1, AppliedFits
    <3>4. Installs(new, p, Files!Order[d.i])
      BY <3>1, <3>2 DEF Installs
    <3> QED
      BY <3>1, <3>2, <3>3, <3>4
  <2> QED
    BY <2>1, <2>2
<1>3. \A f : HasFile(new.applied, f) => HasFile(d.applied, f) \/ f = Files!Order[d.i]
  BY <1>2
<1>4. \A f : Installs(d, p, f) => Installs(new, p, f)
  BY <1>2 DEF Installs
<1>5. Installs(new, p, Files!Order[d.i])
  BY <1>2
<1>6. CASE d.i = 1
  <2>1. new.pc = "write" /\ new.i = 2 /\ Installs(new, p, "config")
    BY <1>5, <1>6, TwoFiles
  <2>2. d.applied = <<>>
    BY <1>6 DEF TaskFits
  <2>3. \A f : ~HasFile(d.applied, f)
    BY <2>2 DEF HasFile
  <2>4. \A k \in DOMAIN new.applied : HasFile(new.applied, new.applied[k].file)
    BY DEF HasFile
  <2>5. \A k \in DOMAIN new.applied : new.applied[k].file = "config"
    BY <1>3, <1>6, <2>3, <2>4, TwoFiles
  <2> QED
    BY <1>1, <1>2, <2>1, <2>5 DEF TaskFits, SetupSteps
<1>7. CASE d.i = 2
  <2>1. new.pc = "check" /\ Installs(new, p, "skill")
    BY <1>5, <1>7, TwoFiles
  <2>2. Installs(d, p, "config")
    BY <1>7 DEF TaskFits
  <2>3. \A f \in Files!Files : Installs(new, p, f)
    BY <1>4, <2>1, <2>2, TwoFiles
  <2> QED
    BY <1>1, <1>2, <2>1, <2>3 DEF TaskFits, SetupSteps
<1> QED
  BY <1>1, <1>6, <1>7

\* A file is rendered once more.
LEMMA ReadSteps ==
  ASSUME SetupInv, NEW p \in SetupCommands, Files!readLatest(p)
  PROVE  SetupInv'
<1>1. task[p].pc = "write" /\ UNCHANGED <<disk, dir, stamps, lock, text, before, edited>>
  BY DEF Files!readLatest
<1>2. /\ lock = p /\ task[p] \in SetupTask /\ TaskFits(task[p], p) /\ FilesFit(task[p], p, disk, before, edited)
  BY <1>1, LockHolder DEF SetupAway
<1> PICK f \in Files!Files : f = Files!Order[task[p].i]
  BY <1>1, <1>2, NotYet
<1>3. /\ task[p].i \in {1, 2} /\ ~HasFile(task[p].applied, f) /\ task[p].error = None /\ task[p].replace \in BOOLEAN
      /\ task[p].applied \in Seq(Mutation) /\ disk[f] \in {None} \cup SetupFile
      /\ task[p].plan[f] \in {None} \cup SetupFile /\ task[p].i + 1 \in 1..3
  <2>1. task[p].plan \in FileContent /\ disk \in FileContent
    BY <1>2 DEF SetupTask, SetupInv, SetupTypes
  <2>2. task[p].i \in {1, 2} /\ ~HasFile(task[p].applied, f) /\ task[p].error = None
    BY <1>1, <1>2, NotYet
  <2> QED
    BY <1>2, <2>1, <2>2 DEF SetupTask, FileContent
<1>4. dir' \in [id : Nat, kept : BOOLEAN] /\ stamps' \in Nat /\ lock' = p /\ UNCHANGED <<disk, text, before, edited>>
  BY <1>1, <1>2 DEF SetupInv, SetupTypes
<1>5. {"check", "write", "replace"} \subseteq SetupAway \cup SetupSteps /\ {"conflict", "identity"} \subseteq SetupErrors \ {None}
  BY SetupConstants DEF SetupSteps, SetupErrors
<1>6. CASE Files!fails(p, "conflict") \/ Files!fails(p, Files!refusal(f))
  <2>1. Files!refusal(f) \in {"conflict", "identity"}
    BY DEF Files!refusal
  <2> QED
    BY <1>1, <1>5, <1>6, <2>1, Fails
<1>7. CASE ~Files!planned(p, f) /\ Files!to(p, Files!advance(p))
  <2> DEFINE new == Files!advance(p)
  <2>1. new \in SetupTask
    BY <1>2, <1>3, <1>5 DEF Files!advance, SetupTask
  <2>2. /\ new.pc = IF task[p].i = Len(Files!Order) THEN "check" ELSE "write"
        /\ new.i = task[p].i + 1 /\ new.error = task[p].error /\ new.plan = task[p].plan
        /\ new.applied = task[p].applied /\ new.failures = task[p].failures
    BY <1>2 DEF Files!advance, SetupTask
  <2>3. task' = [task EXCEPT ![p] = new]
    BY <1>7 DEF Files!to
  <2> HIDE DEF new
  <2>4. Files!unchanged(p, f, task[p].plan[f])
    BY <1>7 DEF Files!planned
  <2>5. task[p].plan[f] # None /\ task[p].plan[f].managed = p
    BY <1>3, <2>4, RenderFits
  <2>6. TaskFits(new, p) /\ new.pc \in {"write", "check"} /\ new.error = None
    BY <1>1, <1>2, <2>1, <2>2, <2>5, Advanced
  <2>7. FilesFit(new, p, disk, before, edited)
    BY <1>1, <1>2, <2>2, <2>6, FilesKept
  <2> QED
    BY <1>2, <1>4, <2>1, <2>3, <2>6, <2>7, HolderThinks
<1>8. CASE /\ Files!unchanged(p, f, disk[f])
           /\ Files!to(p, [Files!advance(p) EXCEPT !.applied = Append(@, [file |-> f, previous |-> disk[f], installed |-> disk[f], owned |-> FALSE])])
  <2> DEFINE m == [file |-> f, previous |-> disk[f], installed |-> disk[f], owned |-> FALSE]
             new == [Files!advance(p) EXCEPT !.applied = Append(task[p].applied, m)]
  <2>1. disk[f] # None /\ disk[f].managed = p
    BY <1>3, <1>8, RenderFits
  <2>2. m \in Mutation /\ m.file = f /\ m.previous = disk[f] /\ m.installed = disk[f] /\ ~m.owned
    BY <1>3, <2>1 DEF Mutation
  <2>3. Beside(m, p)
    BY <2>1, <2>2 DEF Beside
  <2>4. Append(task[p].applied, m) \in Seq(Mutation)
    BY <1>3, <2>2, Appended
  <2>5. task' = [task EXCEPT ![p] = new]
    <3>1. Files!advance(p).applied = task[p].applied
      BY <1>2 DEF Files!advance, SetupTask
    <3> QED
      BY <1>8, <3>1 DEF Files!to
  <2> HIDE DEF m
  <2>6. new \in SetupTask
    BY <1>2, <1>3, <1>5, <2>4 DEF Files!advance, SetupTask
  <2>7. /\ new.pc = IF task[p].i = Len(Files!Order) THEN "check" ELSE "write"
        /\ new.i = task[p].i + 1 /\ new.error = task[p].error /\ new.plan = task[p].plan
        /\ new.applied = Append(task[p].applied, m) /\ new.failures = task[p].failures
    BY <1>2 DEF Files!advance, SetupTask
  <2> HIDE DEF new
  <2>8. TaskFits(new, p) /\ new.pc \in {"write", "check"} /\ new.error = None
    BY <1>1, <1>2, <2>2, <2>3, <2>6, <2>7, Advanced
  <2>9. FilesFit(new, p, disk, before, edited)
    BY <1>1, <1>2, <1>3, <2>2, <2>7, <2>8, Records
  <2> QED
    BY <1>2, <1>4, <2>5, <2>6, <2>8, <2>9, HolderThinks
<1>9. CASE /\ Files!render(p, f, disk[f]) # None
           /\ Files!to(p, [task[p] EXCEPT !.pc = "replace", !.latest = disk[f]])
  <2> DEFINE new == [task[p] EXCEPT !.pc = "replace", !.latest = disk[f]]
  <2>1. new \in SetupTask
    BY <1>2, <1>3, <1>5 DEF SetupTask
  <2>2. /\ new.pc = "replace" /\ new.latest = disk[f] /\ new.i = task[p].i /\ new.error = task[p].error /\ new.plan = task[p].plan
        /\ new.applied = task[p].applied /\ new.failures = task[p].failures /\ new.replace = task[p].replace
    BY <1>2 DEF SetupTask
  <2>3. task' = [task EXCEPT ![p] = new]
    BY <1>9 DEF Files!to
  <2> HIDE DEF new
  <2>4. Renders(new.replace, Files!Order[new.i], new.latest)
    BY <1>3, <1>9, <2>2, RenderFits
  <2>5. TaskFits(new, p)
    BY <1>1, <1>2, <1>3, <2>2, <2>4 DEF TaskFits, Installs, SetupSteps
  <2>6. FilesFit(new, p, disk, before, edited)
    BY <1>1, <1>2, <2>2, FilesKept
  <2> QED
    BY <1>2, <1>4, <2>1, <2>3, <2>5, <2>6, HolderThinks
<1> QED
  BY <1>6, <1>7, <1>8, <1>9 DEF Files!readLatest

\* A file is replaced, or it is not and what was done is taken back.
LEMMA ReplaceSteps ==
  ASSUME SetupInv, NEW p \in SetupCommands, Files!replaceFile(p)
  PROVE  SetupInv'
<1>1. task[p].pc = "replace" /\ UNCHANGED <<dir, lock, text, before, edited>>
  BY DEF Files!replaceFile
<1>2. /\ lock = p /\ task[p] \in SetupTask /\ TaskFits(task[p], p) /\ FilesFit(task[p], p, disk, before, edited)
  BY <1>1, LockHolder DEF SetupAway
<1> PICK f \in Files!Files : f = Files!Order[task[p].i]
  BY <1>1, <1>2, NotYet
<1> DEFINE content == Files!stamped(Files!render(p, f, task[p].latest))
           m == [file |-> f, previous |-> task[p].latest, installed |-> content, owned |-> TRUE]
           applied == Append(task[p].applied, m)
           now == [disk EXCEPT ![f] = content]
<1>3. /\ task[p].i \in {1, 2} /\ ~HasFile(task[p].applied, f) /\ task[p].error = None /\ task[p].replace \in BOOLEAN
      /\ task[p].applied \in Seq(Mutation) /\ task[p].latest \in {None} \cup SetupFile /\ task[p].i + 1 \in 1..3
  <2>1. task[p].i \in {1, 2} /\ ~HasFile(task[p].applied, f) /\ task[p].error = None
    BY <1>1, <1>2, NotYet
  <2> QED
    BY <1>2, <2>1 DEF SetupTask
<1>4. disk \in FileContent /\ dir' \in [id : Nat, kept : BOOLEAN] /\ lock' = p /\ UNCHANGED <<text, before, edited>>
      /\ edited' \subseteq Files!Files /\ stamps \in Nat
  BY <1>1, <1>2 DEF SetupInv, SetupTypes
<1>5. {"check", "write", "restore"} \subseteq SetupAway \cup SetupSteps /\ {"conflict", "io"} \subseteq SetupErrors \ {None}
  BY SetupConstants DEF SetupSteps, SetupErrors
<1>6. /\ content.managed = p /\ content \in SetupFile
      /\ f = "config" => content.human = IF task[p].latest = None THEN 0 ELSE task[p].latest.human
  <2>1. Renders(task[p].replace, f, task[p].latest)
    BY <1>1, <1>2 DEF TaskFits
  <2>2. /\ content.managed = p /\ content.human \in Nat
        /\ f = "config" => content.human = IF task[p].latest = None THEN 0 ELSE task[p].latest.human
    BY <1>3, <2>1, RenderFits
  <2>3. content = [human |-> content.human, managed |-> content.managed, stamp |-> stamps + 1]
    BY DEF Files!stamped
  <2> HIDE DEF content
  <2>4. stamps + 1 \in Nat /\ content.managed \in {None, Foreign, "earlier"} \cup SetupCommands
    BY <1>4, <2>2
  <2> QED
    BY <2>2, <2>3, <2>4 DEF SetupFile
<1>7. CASE (Files!fails(p, "conflict") \/ Files!fails(p, "io")) /\ UNCHANGED <<disk, stamps>>
  BY <1>1, <1>5, <1>7, Fails
<1>8. CASE /\ disk[f] = task[p].latest /\ disk' = now /\ stamps' = stamps + 1
           /\ \/ Files!to(p, [Files!advance(p) EXCEPT !.applied = applied])
              \/ Files!to(p, [task[p] EXCEPT !.pc = "restore", !.error = "io", !.applied = applied])
  <2> HIDE DEF content
  <2>1. m \in Mutation /\ m.file = f /\ m.previous = disk[f] /\ m.installed = content /\ m.owned
    BY <1>3, <1>6, <1>8 DEF Mutation
  <2>2. Beside(m, p)
    BY <1>3, <1>6, <1>8, <2>1 DEF Beside
  <2> HIDE DEF m
  <2>3. now \in FileContent /\ now[f] = content /\ \A g \in Files!Files : g # f => now[g] = disk[g]
    BY <1>4, <1>6 DEF FileContent
  <2>4. disk' \in FileContent /\ stamps' \in Nat
    BY <1>4, <1>8, <2>3
  <2>5. TextFits(disk'["config"], text["config"])
    <3>1. TextFits(disk["config"], text["config"]) /\ "config" \in Files!Files
      BY TwoFiles DEF SetupInv
    <3>2. CASE f = "config"
      <4>1. content # None /\ content.human = IF disk[f] = None THEN 0 ELSE disk[f].human
        BY <1>6, <1>8, <3>2, SetupConstants
      <4> QED
        BY <1>8, <2>3, <3>1, <3>2, <4>1 DEF TextFits
    <3>3. CASE f # "config"
      BY <1>8, <2>3, <3>1, <3>3
    <3> QED
      BY <3>2, <3>3
  <2>6. applied \in Seq(Mutation)
    BY <1>3, <2>1, Appended
  <2>7. ASSUME NEW new \in SetupTask, TaskFits(new, p), Files!to(p, new), new.pc # "release", new.applied = applied,
               new.failures = task[p].failures
        PROVE  SetupInv'
    <3>1. FilesFit(new, p, now, before, edited)
      <4>1. /\ m.installed = now[m.file] /\ m.previous = disk[m.file] /\ ~HasFile(task[p].applied, m.file)
            /\ \A g \in Files!Files : g # m.file => now[g] = disk[g]
        BY <1>3, <2>1, <2>3
      <4>2. new.applied = Append(task[p].applied, m)
        BY <2>7
      <4>3. task[p].pc # "release" /\ new.pc # "release" /\ new.failures = task[p].failures
        BY <1>1, <2>7
      <4>4. m \in Mutation /\ (~m.owned => m.previous = m.installed)
        BY <2>1
      <4>5. task[p] \in SetupTask /\ FilesFit(task[p], p, disk, before, edited)
        BY <1>2
      <4> HIDE DEF now, applied
      <4> QED
        BY ONLY <4>1, <4>2, <4>3, <4>4, <4>5, Records
    <3>2. FilesFit(new, p, disk', before, edited')
      BY <1>4, <1>8, <3>1
    <3>3. task' = [task EXCEPT ![p] = new]
      BY <2>7 DEF Files!to
    <3> HIDE DEF now, applied
    <3> QED
      BY <1>2, <1>4, <2>4, <2>5, <2>7, <3>2, <3>3, HolderMoves
  <2>8. CASE Files!to(p, [Files!advance(p) EXCEPT !.applied = applied])
    <3> DEFINE new == [Files!advance(p) EXCEPT !.applied = applied]
    <3>1. new \in SetupTask
      BY <1>2, <1>3, <1>5, <2>6 DEF Files!advance, SetupTask
    <3>2. /\ new.pc = IF task[p].i = Len(Files!Order) THEN "check" ELSE "write"
          /\ new.i = task[p].i + 1 /\ new.error = task[p].error /\ new.plan = task[p].plan
          /\ new.applied = Append(task[p].applied, m) /\ new.failures = task[p].failures
      BY <1>2 DEF Files!advance, SetupTask
    <3>3. Files!to(p, new)
      BY <2>8
    <3> HIDE DEF new
    <3>4. TaskFits(new, p) /\ new.pc \in {"write", "check"} /\ new.error = None
      BY <1>1, <1>2, <2>1, <2>2, <3>1, <3>2, Advanced
    <3> QED
      BY <2>7, <3>1, <3>2, <3>3, <3>4
  <2>9. CASE Files!to(p, [task[p] EXCEPT !.pc = "restore", !.error = "io", !.applied = applied])
    <3> DEFINE new == [task[p] EXCEPT !.pc = "restore", !.error = "io", !.applied = applied]
    <3>1. new \in SetupTask
      BY <1>2, <1>5, <2>6 DEF SetupTask
    <3>2. new.pc = "restore" /\ new.error = "io" /\ new.applied = applied /\ new.failures = task[p].failures
      BY <1>2 DEF SetupTask
    <3>3. Files!to(p, new)
      BY <2>9
    <3> HIDE DEF new
    <3>4. /\ \A k \in DOMAIN applied : Beside(applied[k], p)
          /\ \A k, n \in DOMAIN applied : applied[k].file = applied[n].file => k = n
      <4>1. applied = Append(task[p].applied, m) /\ ~HasFile(task[p].applied, m.file)
        BY <1>3, <2>1
      <4> HIDE DEF applied
      <4> QED
        BY <1>2, <2>1, <2>2, <4>1, AppliedFits
    <3>5. TaskFits(new, p)
      BY <1>5, <3>2, <3>4 DEF TaskFits, SetupSteps
    <3> QED
      BY <2>7, <3>1, <3>2, <3>3, <3>5
  <2> QED
    BY <1>8, <2>8, <2>9
<1> QED
  BY <1>7, <1>8 DEF Files!replaceFile, Files!recorded

\* The last look, after which the files are those of the command.
LEMMA CheckSteps ==
  ASSUME SetupInv, NEW p \in SetupCommands, Files!checkInstalled(p)
  PROVE  SetupInv'
<1>1. task[p].pc = "check" /\ UNCHANGED <<disk, dir, stamps, lock, text, before>>
  BY DEF Files!checkInstalled
<1>2. /\ lock = p /\ task[p] \in SetupTask /\ TaskFits(task[p], p)
  BY <1>1, LockHolder DEF SetupAway
<1>3. "conflict" \in SetupErrors \ {None}
  BY SetupConstants DEF SetupErrors
<1>4. CASE Files!fails(p, "conflict") /\ UNCHANGED edited
  BY <1>1, <1>3, <1>4, Fails
<1>5. CASE Files!asPlanned(p) /\ Files!to(p, [task[p] EXCEPT !.pc = "release"]) /\ edited' = {}
  <2> DEFINE new == [task[p] EXCEPT !.pc = "release"]
  <2>1. new \in SetupTask
    BY <1>2 DEF SetupTask, SetupSteps
  <2>2. new.pc = "release" /\ new.error = task[p].error /\ new.applied = task[p].applied
    BY <1>2 DEF SetupTask
  <2>3. task' = [task EXCEPT ![p] = new]
    BY <1>5 DEF Files!to
  <2> HIDE DEF new
  <2>4. TaskFits(new, p) /\ new.error = None
    BY <1>1, <1>2, <2>2 DEF TaskFits, SetupSteps
  <2>5. ASSUME NEW f \in Files!Files PROVE disk[f] # None /\ disk[f].managed = p
    <3>1. disk[f] = Files!installedOf(p, f) /\ Installs(task[p], p, f)
      BY <1>1, <1>2, <1>5 DEF Files!asPlanned, TaskFits
    <3> DEFINE written == {m \in Files!Range(task[p].applied) : m.file = f}
    <3>2. CASE written = {}
      <4>1. ~HasFile(task[p].applied, f)
        BY <3>2 DEF HasFile, Files!Range
      <4>2. disk[f] = task[p].plan[f]
        BY <3>1, <3>2 DEF Files!installedOf
      <4> QED
        BY <3>1, <4>1, <4>2 DEF Installs
    <3>3. CASE written # {}
      <4>1. PICK m \in written : m = CHOOSE one \in written : TRUE
        BY <3>3
      <4>2. disk[f] = m.installed
        BY <3>1, <3>3, <4>1 DEF Files!installedOf
      <4>3. PICK k \in DOMAIN task[p].applied : m = task[p].applied[k]
        BY <4>1 DEF Files!Range
      <4>4. m \in Mutation /\ Beside(m, p)
        BY <1>2, <4>3 DEF TaskFits, SetupTask
      <4> QED
        BY <4>2, <4>4, SetupConstants DEF Beside, Mutation
    <3> QED
      BY <3>2, <3>3
  <2>6. FilesFit(new, p, disk, before, {})
    BY <2>2, <2>4, <2>5 DEF FilesFit
  <2>7. FilesFit(new, p, disk', before, edited')
    BY <1>1, <1>5, <2>6
  <2>8. /\ disk' \in FileContent /\ dir' \in [id : Nat, kept : BOOLEAN] /\ stamps' \in Nat /\ lock' = p
        /\ edited' \subseteq Files!Files /\ TextFits(disk'["config"], text["config"]) /\ UNCHANGED <<text, before>>
    BY <1>1, <1>2, <1>5 DEF SetupInv, SetupTypes
  <2> QED
    BY <1>2, <2>1, <2>3, <2>4, <2>7, <2>8, HolderMoves
<1> QED
  BY <1>4, <1>5 DEF Files!checkInstalled

\* The newest mutation, and those before it.
LEMMA Shortened ==
  ASSUME NEW s \in Seq(Mutation), s # <<>>
  PROVE  /\ Files!Last(s) \in Mutation /\ Len(s) \in DOMAIN s /\ s[Len(s)] = Files!Last(s)
         /\ Files!Front(s) \in Seq(Mutation)
         /\ \A k \in DOMAIN Files!Front(s) : k \in DOMAIN s /\ k # Len(s) /\ Files!Front(s)[k] = s[k]
         /\ \A k \in DOMAIN s : k = Len(s) \/ (k \in DOMAIN Files!Front(s) /\ Files!Front(s)[k] = s[k])
<1> DEFINE n == Len(s)
           rest == SubSeq(s, 1, n - 1)
<1>1. n \in Nat /\ n # 0 /\ DOMAIN s = 1..n /\ \A k \in 1..n : s[k] \in Mutation
  BY EmptySeq, ElementOfSeq
<1> HIDE DEF n
<1>2. /\ rest \in Seq(Mutation) /\ Len(rest) = n - 1 /\ \A k \in 1..(n - 1) : rest[k] = s[k]
  <2>1. \A k \in 1..(n - 1) : s[k] \in Mutation
    BY <1>1
  <2>2. /\ rest \in Seq(Mutation) /\ Len(rest) = IF 1 <= n - 1 THEN n - 1 - 1 + 1 ELSE 0
        /\ \A k \in 1..(n - 1 - 1 + 1) : rest[k] = s[1 + k - 1]
    BY <1>1, <2>1, SubSeqProperties
  <2> HIDE DEF rest
  <2>3. \A k \in 1..(n - 1) : rest[k] = s[k]
    <3> SUFFICES ASSUME NEW k \in 1..(n - 1) PROVE rest[k] = s[k]
      OBVIOUS
    <3>1. k \in 1..(n - 1 - 1 + 1) /\ 1 + k - 1 = k
      BY <1>1
    <3>2. rest[k] = s[1 + k - 1]
      BY <2>2, <3>1
    <3> QED
      BY <3>1, <3>2
  <2> QED
    BY <1>1, <2>2, <2>3
<1> HIDE DEF rest
<1>3. DOMAIN rest = 1..(n - 1)
  BY <1>2
<1>4. Files!Last(s) = s[n] /\ Files!Front(s) = rest
  BY DEF Files!Last, Files!Front, n, rest
<1>5. \A k \in DOMAIN rest : k \in DOMAIN s /\ k # n /\ rest[k] = s[k]
  BY <1>1, <1>2, <1>3
<1>6. \A k \in DOMAIN s : k = n \/ (k \in DOMAIN rest /\ rest[k] = s[k])
  BY <1>1, <1>2, <1>3
<1>7. n \in DOMAIN s /\ s[n] \in Mutation
  BY <1>1
<1> QED
  BY <1>2, <1>4, <1>5, <1>6, <1>7 DEF n

\* The newest mutation is taken back, or it could not be.
LEMMA RestoreSteps ==
  ASSUME SetupInv, NEW p \in SetupCommands, Files!restoreFile(p)
  PROVE  SetupInv'
<1>1. task[p].pc = "restore" /\ task[p].applied # <<>> /\ UNCHANGED <<dir, lock, text, before, edited>>
  BY DEF Files!restoreFile
<1>2. /\ lock = p /\ task[p] \in SetupTask /\ TaskFits(task[p], p) /\ FilesFit(task[p], p, disk, before, edited)
  BY <1>1, LockHolder DEF SetupAway
<1>3. disk \in FileContent /\ dir' \in [id : Nat, kept : BOOLEAN] /\ lock' = p /\ UNCHANGED <<text, before, edited>>
      /\ edited' \subseteq Files!Files /\ stamps \in Nat /\ TextFits(disk["config"], text["config"]) /\ "config" \in Files!Files
  BY <1>1, <1>2, TwoFiles DEF SetupInv, SetupTypes
<1> DEFINE s == task[p].applied
           m == Files!Last(s)
           rest == Files!Front(s)
<1>4. s \in Seq(Mutation) /\ s # <<>>
  BY <1>1, <1>2 DEF SetupTask
<1>5. /\ m \in Mutation /\ Len(s) \in DOMAIN s /\ s[Len(s)] = m /\ rest \in Seq(Mutation)
      /\ \A k \in DOMAIN rest : k \in DOMAIN s /\ k # Len(s) /\ rest[k] = s[k]
      /\ \A k \in DOMAIN s : k = Len(s) \/ (k \in DOMAIN rest /\ rest[k] = s[k])
  BY <1>4, Shortened
<1>6. /\ \A k \in DOMAIN s : Beside(s[k], p)
      /\ \A k, n \in DOMAIN s : s[k].file = s[n].file => k = n
      /\ task[p].error # None
  BY <1>1, <1>2 DEF TaskFits
<1> HIDE DEF m, rest
<1>7. /\ \A k \in DOMAIN rest : Beside(rest[k], p)
      /\ \A k, n \in DOMAIN rest : rest[k].file = rest[n].file => k = n
      /\ ~HasFile(rest, m.file) /\ HasFile(s, m.file) /\ Beside(m, p)
      /\ \A f : f # m.file => (HasFile(rest, f) <=> HasFile(s, f))
  <2>1. /\ \A k \in DOMAIN rest : Beside(rest[k], p)
        /\ \A k, n \in DOMAIN rest : rest[k].file = rest[n].file => k = n
    BY <1>5, <1>6
  <2>2. ~HasFile(rest, m.file) /\ HasFile(s, m.file) /\ Beside(m, p)
    BY <1>5, <1>6 DEF HasFile
  <2>3. \A f : f # m.file => (HasFile(rest, f) <=> HasFile(s, f))
    BY <1>5 DEF HasFile
  <2> QED
    BY <2>1, <2>2, <2>3
\* What is left of the mutations undoes what is left to undo.
<1>8. ASSUME NEW now, NEW f \in Files!Files, NEW then, Undoes(s, f, disk[f], then), f # m.file => now = disk[f],
             f = m.file => Files!sameContent(now, m.previous) \/ (~m.owned /\ now = disk[f])
      PROVE  Undoes(rest, f, now, then)
  <2>1. CASE f # m.file
    BY <1>5, <1>7, <1>8, <2>1 DEF Undoes
  <2>2. CASE f = m.file
    <3>1. /\ disk[f] = m.installed /\ Files!sameContent(m.previous, then)
          /\ ~m.owned => m.previous = m.installed
      BY <1>5, <1>8, <2>2 DEF Undoes
    <3>2. Files!sameContent(now, then)
      BY <1>8, <2>2, <3>1, ContentSame
    <3>3. \A k \in DOMAIN rest : rest[k].file # f
      BY <1>7, <2>2 DEF HasFile
    <3> QED
      BY <3>2, <3>3 DEF Undoes
  <2> QED
    BY <2>1, <2>2
<1>9. ASSUME NEW now \in FileContent, disk' = now, stamps' \in Nat, TextFits(now["config"], text["config"]),
             NEW failures \in BOOLEAN, Files!to(p, [task[p] EXCEPT !.applied = rest, !.failures = failures]),
             ~failures => ~task[p].failures,
             ~failures => \A f \in Files!Files : /\ f # m.file => now[f] = disk[f]
                                                 /\ f = m.file => Files!sameContent(now[f], m.previous) \/ (~m.owned /\ now[f] = disk[f])
      PROVE  SetupInv'
  <2> DEFINE new == [task[p] EXCEPT !.applied = rest, !.failures = failures]
  <2>1. new \in SetupTask
    BY <1>2, <1>5 DEF SetupTask
  <2>2. new.pc = "restore" /\ new.error = task[p].error /\ new.applied = rest /\ new.failures = failures
    BY <1>1, <1>2 DEF SetupTask
  <2>3. task' = [task EXCEPT ![p] = new]
    BY <1>9 DEF Files!to
  <2> HIDE DEF new
  <2>4. TaskFits(new, p)
    BY <1>6, <1>7, <2>2 DEF TaskFits, SetupSteps
  <2>5. FilesFit(new, p, disk', before, edited')
    <3> SUFFICES ASSUME ~failures, NEW f \in Files!Files \ edited PROVE Undoes(rest, f, now[f], before[f])
      BY <1>3, <1>9, <2>2 DEF FilesFit
    <3>1. Undoes(s, f, disk[f], before[f])
      BY <1>1, <1>2, <1>9 DEF FilesFit
    <3> QED
      BY <1>8, <1>9, <3>1
  <2>6. disk' \in FileContent /\ TextFits(disk'["config"], text["config"])
    BY <1>9
  <2> QED
    BY <1>2, <1>3, <1>9, <2>1, <2>3, <2>4, <2>5, <2>6, HolderMoves
<1>10. task[p].failures \in BOOLEAN /\ m.file \in Files!Files /\ m.previous \in {None} \cup SetupFile
  BY <1>2, <1>5 DEF SetupTask, Mutation
<1>11. CASE ~m.owned /\ Files!to(p, [task[p] EXCEPT !.applied = rest]) /\ UNCHANGED <<disk, stamps>>
  <2>1. [task[p] EXCEPT !.applied = rest] = [task[p] EXCEPT !.applied = rest, !.failures = task[p].failures]
    BY <1>2 DEF SetupTask
  <2> QED
    BY <1>3, <1>9, <1>10, <1>11, <2>1
<1>12. CASE Files!to(p, [task[p] EXCEPT !.applied = rest, !.failures = TRUE]) /\ UNCHANGED <<disk, stamps>>
  BY <1>3, <1>9, <1>12
<1>13. CASE /\ disk[m.file] = m.installed
            /\ disk' = [disk EXCEPT ![m.file] = IF m.previous = None THEN None ELSE [m.previous EXCEPT !.stamp = stamps + 1]]
            /\ stamps' = stamps + 1 /\ Files!to(p, [task[p] EXCEPT !.applied = rest])
  <2> DEFINE back == IF m.previous = None THEN None ELSE [m.previous EXCEPT !.stamp = stamps + 1]
             now == [disk EXCEPT ![m.file] = back]
  <2>1. /\ back \in {None} \cup SetupFile /\ Files!sameContent(back, m.previous)
        /\ back = None <=> m.previous = None
        /\ m.previous # None => back.human = m.previous.human
    <3>1. CASE m.previous = None
      BY <3>1 DEF Files!sameContent
    <3>2. CASE m.previous # None
      <4>1. m.previous \in SetupFile /\ stamps + 1 \in Nat
        BY <1>3, <1>10, <3>2
      <4> DEFINE file == [m.previous EXCEPT !.stamp = stamps + 1]
      <4>2. file \in SetupFile
        BY <4>1 DEF SetupFile
      <4>3. file.human = m.previous.human /\ file.managed = m.previous.managed
        BY <4>1 DEF SetupFile
      <4>4. back = file
        BY <3>2
      <4> HIDE DEF file, back
      <4> QED
        BY <3>2, <4>2, <4>3, <4>4, SetupConstants DEF Files!sameContent
    <3> QED
      BY <3>1, <3>2
  <2> HIDE DEF back
  <2>2. now \in FileContent /\ now[m.file] = back /\ \A g \in Files!Files : g # m.file => now[g] = disk[g]
    BY <1>3, <1>10, <2>1 DEF FileContent
  <2>3. TextFits(now["config"], text["config"])
    <3>1. CASE m.file = "config"
      <4>1. disk["config"] = m.installed /\ m.installed # None /\ m.installed.human = IF m.previous = None THEN 0 ELSE m.previous.human
        BY <1>5, <1>7, <1>13, <3>1, SetupConstants DEF Beside, Mutation
      <4> QED
        BY <1>3, <2>1, <2>2, <3>1, <4>1 DEF TextFits
    <3>2. CASE m.file # "config"
      BY <1>3, <2>2, <3>2
    <3> QED
      BY <3>1, <3>2
  <2>4. disk' = now /\ stamps' \in Nat
    BY <1>3, <1>13 DEF back
  <2>5. Files!to(p, [task[p] EXCEPT !.applied = rest, !.failures = task[p].failures])
    <3>1. [task[p] EXCEPT !.applied = rest] = [task[p] EXCEPT !.applied = rest, !.failures = task[p].failures]
      BY <1>2 DEF SetupTask
    <3> QED
      BY <1>13, <3>1
  <2> HIDE DEF now
  <2> QED
    BY <1>9, <1>10, <2>1, <2>2, <2>3, <2>4, <2>5
<1> QED
  BY <1>11, <1>12, <1>13 DEF Files!restoreFile, m, rest

\* The directory of the skill is taken away again, or it is left.
LEMMA DirectorySteps ==
  ASSUME SetupInv, NEW p \in SetupCommands, Files!removeCreatedDirectories(p)
  PROVE  SetupInv'
<1>1. task[p].pc = "restore" /\ task[p].applied = <<>> /\ UNCHANGED <<disk, stamps, lock, text, before, edited>>
  BY DEF Files!removeCreatedDirectories
<1>2. /\ lock = p /\ task[p] \in SetupTask /\ TaskFits(task[p], p) /\ FilesFit(task[p], p, disk, before, edited)
      /\ task[p].error # None
  BY <1>1, LockHolder DEF SetupAway, TaskFits
<1>3. "release" \in SetupAway \cup SetupSteps
  BY DEF SetupSteps
<1>4. ASSUME NEW new \in SetupTask, Files!to(p, new), new.pc = "release", new.error = task[p].error, new.applied = task[p].applied,
             new.failures = task[p].failures \/ new.failures, new.failures \/ ~new.made, dir' \in [id : Nat, kept : BOOLEAN]
      PROVE  SetupInv'
  <2>1. TaskFits(new, p)
    BY <1>1, <1>2, <1>4 DEF TaskFits, SetupSteps
  <2>2. FilesFit(new, p, disk, before, edited)
    BY <1>1, <1>2, <1>4 DEF FilesFit
  <2>3. stamps' \in Nat /\ lock' = p /\ UNCHANGED <<disk, text, before, edited>>
    BY <1>1, <1>2 DEF SetupInv, SetupTypes
  <2>4. task' = [task EXCEPT ![p] = new]
    BY <1>4 DEF Files!to
  <2> QED
    BY <1>2, <1>4, <2>1, <2>2, <2>3, <2>4, HolderThinks
<1>5. dir \in [id : Nat, kept : BOOLEAN] /\ [id |-> 0, kept |-> FALSE] \in [id : Nat, kept : BOOLEAN]
  BY DEF SetupInv, SetupTypes
<1>6. CASE ~task[p].made /\ Files!to(p, [task[p] EXCEPT !.pc = "release"]) /\ UNCHANGED dir
  <2> DEFINE new == [task[p] EXCEPT !.pc = "release"]
  <2>1. new \in SetupTask
    BY <1>2, <1>3 DEF SetupTask
  <2>2. new.pc = "release" /\ new.error = task[p].error /\ new.applied = task[p].applied
        /\ new.failures = task[p].failures /\ new.made = task[p].made
    BY <1>2 DEF SetupTask
  <2>3. Files!to(p, new)
    BY <1>6
  <2> HIDE DEF new
  <2> QED
    BY <1>4, <1>5, <1>6, <2>1, <2>2, <2>3
<1>7. CASE dir' = [id |-> 0, kept |-> FALSE] /\ Files!to(p, [task[p] EXCEPT !.pc = "release", !.made = FALSE])
  <2> DEFINE new == [task[p] EXCEPT !.pc = "release", !.made = FALSE]
  <2>1. new \in SetupTask
    BY <1>2, <1>3 DEF SetupTask
  <2>2. new.pc = "release" /\ new.error = task[p].error /\ new.applied = task[p].applied
        /\ new.failures = task[p].failures /\ new.made = FALSE
    BY <1>2 DEF SetupTask
  <2>3. Files!to(p, new)
    BY <1>7
  <2> HIDE DEF new
  <2> QED
    BY <1>4, <1>5, <1>7, <2>1, <2>2, <2>3
<1>8. CASE Files!to(p, [task[p] EXCEPT !.pc = "release", !.failures = TRUE]) /\ UNCHANGED dir
  <2> DEFINE new == [task[p] EXCEPT !.pc = "release", !.failures = TRUE]
  <2>1. new \in SetupTask
    BY <1>2, <1>3 DEF SetupTask
  <2>2. new.pc = "release" /\ new.error = task[p].error /\ new.applied = task[p].applied /\ new.failures = TRUE
    BY <1>2 DEF SetupTask
  <2>3. Files!to(p, new)
    BY <1>8
  <2> HIDE DEF new
  <2> QED
    BY <1>4, <1>5, <1>8, <2>1, <2>2, <2>3
<1> QED
  BY <1>6, <1>7, <1>8 DEF Files!removeCreatedDirectories

\* A step of setup keeps the invariant.
LEMMA SetupStep == SetupInv /\ [Files!Next]_<<disk, dir, stamps, lock, task, bounds, text, before, edited>> => SetupInv'
<1> SUFFICES ASSUME SetupInv, [Files!Next]_<<disk, dir, stamps, lock, task, bounds, text, before, edited>> PROVE SetupInv'
  OBVIOUS
<1>1. CASE Files!Next
  BY <1>1, UserSteps, LockSteps, PlanSteps, PrepareSteps, ReadSteps, ReplaceSteps, CheckSteps, RestoreSteps, DirectorySteps DEF Files!Next
<1>2. CASE UNCHANGED <<disk, dir, stamps, lock, task, bounds, text, before, edited>>
  BY <1>2 DEF SetupInv, SetupTypes
<1> QED
  BY <1>1, <1>2

\* Setup is all or nothing.
LEMMA SetupHolds == SetupInv => Files!SetupIsAllOrNothing
<1> SUFFICES ASSUME SetupInv PROVE Files!SetupIsAllOrNothing
  OBVIOUS
<1>1. ASSUME NEW p \in SetupCommands, task[p].pc = "release"
      PROVE  /\ task[p].error = None => \A f \in Files!Files \ edited : disk[f] # None /\ disk[f].managed = p
             /\ task[p].error # None /\ ~task[p].failures =>
                  (\A f \in Files!Files \ edited : Files!sameContent(disk[f], before[f])) /\ ~task[p].made
  <2>1. TaskFits(task[p], p) /\ FilesFit(task[p], p, disk, before, edited)
    BY <1>1, LockHolder DEF SetupAway
  <2>2. task[p].error # None => task[p].applied = <<>> /\ (task[p].failures \/ ~task[p].made)
    BY <1>1, <2>1 DEF TaskFits
  <2>3. \A f : task[p].error # None => ~HasFile(task[p].applied, f)
    BY <2>2 DEF HasFile
  <2> QED
    BY <1>1, <2>1, <2>2, <2>3 DEF FilesFit, Undoes
<1>2. TextFits(disk["config"], text["config"])
  BY DEF SetupInv
<1> QED
  BY <1>1, <1>2 DEF Files!SetupIsAllOrNothing, TextFits

setupVars == <<disk, dir, stamps, lock, task, bounds, text, before, edited>>

\* The steps of setup are steps of its alone.
LEMMA OnlySetupSteps == [AllNext]_all => (InSetup' => InSetup /\ [Files!Next]_setupVars)
BY DEF AllNext, all, setupVars, fileVars, InProjection, InSetup, InUse, InData, InQueries,
       OnlyProjection, OnlySetup, OnlyUse, OnlyData, OnlyQueries, Files!Next

\* When setup ends well every file is its own unless the user changed it after
\* the last look, when it ends with an error and without a failed restoration
\* the files and the directory are as they were, and the text of the user is
\* in the configuration throughout, whoever fails, dies or edits in between
\* (setupOpenCodeUnlocked, restoreFiles, withManagedFileLock).
THEOREM SetupWholeOrUndone == InstallationSpec => []SetupIsAllOrNothing
<1> DEFINE Inv == InSetup => SetupInv
<1>1. AllInit => Inv
  BY SetupStarts DEF AllInit, InSetup
<1>2. Inv /\ [AllNext]_all => Inv'
  BY SetupStep, OnlySetupSteps DEF setupVars
<1>3. Inv => SetupIsAllOrNothing
  BY SetupHolds DEF SetupIsAllOrNothing, InSetup
<1> QED
  BY <1>1, <1>2, <1>3, PTL DEF InstallationSpec

=============================================================================
