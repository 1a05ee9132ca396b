--------------------------- MODULE TraceIngestion ---------------------------
(***************************************************************************)
(* The AgenticReplay trace pipeline for one recorded run: the recorder     *)
(* appends to events.jsonl and seals manifest.json (external), scans       *)
(* notice changes and enqueue trace_ingestion jobs                         *)
(* (src/src/trace/scan.ts), workers read a batch outside any transaction   *)
(* and publish progress, aggregate and context under one compare-and-swap  *)
(* (src/src/trace/ingest.ts), and `trace sync --rebuild` resets the        *)
(* progress of the run at any time (src/src/trace/sync.ts).                *)
(* Lines are numbered from 1 in each file; a file is identified by its     *)
(* inode, so a rewritten file is another file.                             *)
(***************************************************************************)
EXTENDS Naturals, Sequences, FiniteSets

CONSTANTS
  Workers,     \* executors of trace_ingestion jobs: workers and syncs
  Scanners,    \* background discovery and sync each scan the store
  MaxSize,     \* bound: lines a file may come to have
  MaxFiles,    \* bound: files the recorder may put in place
  MaxRebuilds, \* bound: uses of trace sync --rebuild
  MaxAborts,   \* bound: deadlines and shutdowns that hit a final verification
  MaxCrashes,  \* bound: executors that lose their lease half way
  MaxJobs,     \* bound: jobs after which no scan starts
  BatchEvents, \* TRACE_LIMITS.batchEvents
  NoWorker, NoJob, Unread

ASSUME TraceAssumption == MaxFiles \in Nat \ {0} /\ MaxSize \in Nat /\ BatchEvents \in Nat \ {0}

VARIABLES
  source,  \* the files on disk
  cursor,  \* the agenticreplay_trace_cursors row
  context, \* the agenticreplay_trace_context row
  jobs,    \* trace_ingestion rows of orchestration_jobs
  promoted,\* memory_promotion jobs enqueued, with what they were built from
  exec,    \* exec[w]: the execution of one job
  scan,    \* scan[s]: one scan of the run
  used     \* uses of the bounded actions

vars == <<source, cursor, context, jobs, promoted, exec, scan, used>>
----------------------------------------------------------------------------
\* What the recorder leaves on disk.  ended: the run.end event is the last
\* line; sealed: the inode whose bytes the manifest's hash covers, or 0.
manifestOf(src) == [ended |-> src.ended /\ src.sealed # 0, sealed |-> src.sealed]
identityOf(src) == [ino |-> src.ino, size |-> src.size]
NoIdentity == [ino |-> 0, size |-> 0]

\* fingerprint = hash of the manifest bytes and the identity of the events file
fingerprintOf(src) == <<manifestOf(src), identityOf(src)>>

\* A line as the aggregate counts it: which file, which line, run.end or not.
linesOf(src, from, to) ==
  [k \in 1..(to - from) |->
     [ino |-> src.ino, line |-> from + k, end |-> src.ended /\ from + k = src.size]]
runEnded(agg) == \E k \in DOMAIN agg : agg[k].end

FreshRow == [gen |-> 1, rev |-> 0, offset |-> 0, identity |-> NoIdentity,
             manifest |-> Unread, agg |-> <<>>, finalization |-> "recording",
             fingerprint |-> Unread]

Idle == [pc |-> "idle", job |-> NoJob, prev |-> FreshRow, manifest |-> Unread,
         replaced |-> FALSE, batch |-> NoIdentity, agg |-> <<>>, offset |-> 0,
         finalization |-> "recording", more |-> FALSE]
AtRest == [pc |-> "rest", row |-> FreshRow, fingerprint |-> Unread]

Init ==
  /\ source = [ino |-> 1, size |-> 0, ended |-> FALSE, sealed |-> 0, present |-> TRUE]
  /\ cursor = FreshRow
  /\ context = [gen |-> 0, agg |-> <<>>, finalization |-> "none"]
  /\ jobs = {}
  /\ promoted = {}
  /\ exec = [w \in Workers |-> Idle]
  /\ scan = [s \in Scanners |-> AtRest]
  /\ used = [rebuilds |-> 0, aborts |-> 0, crashes |-> 0]

----------------------------------------------------------------------------
(* The recorder and the user (external): appends lines, ends the run,      *)
(* seals the manifest, puts another file in place of the first, or removes *)
(* the run.                                                                *)
record ==
  /\ source.present
  /\ \/ /\ ~source.ended /\ source.size < MaxSize
        /\ \E end \in BOOLEAN : source' = [source EXCEPT !.size = @ + 1, !.ended = end]
     \/ /\ source.ended /\ source.sealed = 0
        /\ source' = [source EXCEPT !.sealed = source.ino]
     \/ /\ source.ino < MaxFiles
        /\ \E n \in 0..MaxSize, end \in BOOLEAN :
             /\ end => n > 0
             /\ source' = [source EXCEPT !.ino = @ + 1, !.size = n, !.ended = end]
     \/ /\ MaxFiles > 1
        /\ source' = [source EXCEPT !.present = FALSE]
  /\ UNCHANGED <<cursor, context, jobs, promoted, exec, scan, used>>

----------------------------------------------------------------------------
jobKeys == {j.payload : j \in jobs}

(* enqueueOrchestrationJob: the digest of the payload is the key, and a    *)
(* key that exists in any state is left alone.                             *)
enqueue(payload) ==
  jobs' = IF payload \in jobKeys THEN jobs
          ELSE jobs \cup {[payload |-> payload, state |-> "pending", owner |-> NoWorker]}

setJob(j, state, owner) ==
  jobs' = (jobs \ {j}) \cup {[payload |-> j.payload, state |-> state, owner |-> owner]}

(* scanAgenticReplayTraceStore reads the rows of the store, ...            *)
scanRow(s) ==
  /\ scan[s].pc = "rest"
  /\ Cardinality(jobs) < MaxJobs
  /\ scan' = [scan EXCEPT ![s] = [pc |-> "stat", row |-> cursor, fingerprint |-> Unread]]
  /\ UNCHANGED <<source, cursor, context, jobs, promoted, exec, used>>

\* ... reads manifest and identity of the run's files, stops at a missing
\* source and at a fingerprint that it has seen, ...
scanFiles(s) ==
  /\ scan[s].pc = "stat"
  /\ \/ /\ ~source.present
        /\ cursor' = [cursor EXCEPT !.finalization = "source_missing"]
        /\ scan' = [scan EXCEPT ![s] = AtRest]
     \/ /\ source.present
        /\ scan' = [scan EXCEPT ![s] =
             IF scan[s].row.fingerprint = fingerprintOf(source) THEN AtRest
             ELSE [@ EXCEPT !.pc = "enqueue", !.fingerprint = fingerprintOf(source)]]
        /\ UNCHANGED cursor
  /\ UNCHANGED <<source, context, jobs, promoted, exec, used>>

\* Slip: the scan remembers the fingerprint before a job carries it.
scanForgetsJob(s) ==
  /\ scan[s].pc = "enqueue"
  /\ cursor' = [cursor EXCEPT !.fingerprint = scan[s].fingerprint]
  /\ scan' = [scan EXCEPT ![s] = AtRest]
  /\ UNCHANGED <<source, context, jobs, promoted, exec, used>>

(* ... and, after one more await, enqueues a job for the progress it read  *)
(* and stores the fingerprint in the row, without looking at it again.     *)
scanEnqueue(s) ==
  /\ scan[s].pc = "enqueue"
  /\ LET row == scan[s].row IN
       enqueue([gen |-> row.gen, rev |-> row.rev, offset |-> row.offset,
                fingerprint |-> scan[s].fingerprint])
  /\ cursor' = [cursor EXCEPT !.fingerprint = scan[s].fingerprint]
  /\ scan' = [scan EXCEPT ![s] = AtRest]
  /\ UNCHANGED <<source, context, promoted, exec, used>>

\* syncTraceStore with rebuild: one transaction, a new generation.
rebuild ==
  /\ used.rebuilds < MaxRebuilds
  /\ used' = [used EXCEPT !.rebuilds = @ + 1]
  /\ cursor' = [FreshRow EXCEPT !.gen = cursor.gen + 1, !.rev = cursor.rev + 1]
  /\ UNCHANGED <<source, context, jobs, promoted, exec, scan>>

----------------------------------------------------------------------------
(* claimOrchestrationJobs and the synchronous start of the execution.      *)
(* OrchestrationJobs models leases in detail; here a job is leased to one  *)
(* owner, and a lost lease may go to another executor while the first      *)
(* still runs.  processTraceIngestion drops a job of another generation,   *)
(* otherwise ingestTraceRun reads the row its compare-and-swap will expect.*)
claim(w) ==
  /\ exec[w].pc = "idle"
  /\ \E j \in jobs :
       /\ \/ j.state = "pending" /\ UNCHANGED used
          \/ /\ j.state = "leased" /\ used.crashes < MaxCrashes
             /\ used' = [used EXCEPT !.crashes = @ + 1]
       /\ IF j.payload.gen # cursor.gen
          THEN setJob(j, "completed", NoWorker) /\ UNCHANGED exec
          ELSE /\ setJob(j, "leased", w)
               /\ exec' = [exec EXCEPT ![w] =
                    [Idle EXCEPT !.pc = "manifest", !.job = j.payload,
                                  !.prev = [cursor EXCEPT !.fingerprint = Unread]]]
  /\ UNCHANGED <<source, cursor, context, promoted, scan>>

leased(w) == [payload |-> exec[w].job, state |-> "leased", owner |-> w] \in jobs
own(w) == [payload |-> exec[w].job, state |-> "leased", owner |-> w]

\* completeOrchestrationJob or failOrchestrationJob: without the lease a
\* CONFLICT, and the row keeps what its owner makes of it.
settleJob(w, state) ==
  IF leased(w) THEN setJob(own(w), state, NoWorker) ELSE UNCHANGED jobs

ends(w, state) ==
  /\ settleJob(w, state)
  /\ exec' = [exec EXCEPT ![w] = Idle]

\* cas: nothing has been published since the row was read.
casHolds(w) == cursor.rev = exec[w].prev.rev /\ cursor.gen = exec[w].prev.gen

\* readAgenticReplayTraceManifest; a missing manifest ends the job unless
\* lease or progress has changed.
readManifest(w) ==
  /\ exec[w].pc = "manifest"
  /\ IF source.present
     THEN /\ exec' = [exec EXCEPT ![w].pc = "identity", ![w].manifest = manifestOf(source)]
          /\ UNCHANGED jobs
     ELSE ends(w, IF casHolds(w) THEN "completed" ELSE "pending")
  /\ UNCHANGED <<source, cursor, context, promoted, scan, used>>

\* A file that is gone by the time it is read: ENOENT fails the job.
readFails(w) ==
  /\ exec[w].pc \in {"identity", "batch", "verify"}
  /\ ~source.present
  /\ ends(w, "pending")
  /\ UNCHANGED <<source, cursor, context, promoted, scan, used>>

isReplaced(prev, src) ==
  prev.identity # NoIdentity /\ (prev.identity.ino # src.ino \/ src.size < prev.identity.size)

alreadyIngested(e, src) ==
  /\ ~isReplaced(e.prev, src)
  /\ e.prev.identity = identityOf(src)
  /\ e.prev.offset = src.size
  /\ e.prev.manifest = e.manifest
  /\ e.prev.finalization \notin {"ended_unverified", "ended_pending_manifest"}

\* lstat of the events file: replaced files start over, a run that is where
\* it should be ends the job.
readIdentity(w) ==
  /\ exec[w].pc = "identity"
  /\ source.present
  /\ IF alreadyIngested(exec[w], source)
     THEN ends(w, "completed")
     ELSE LET replaced == isReplaced(exec[w].prev, source) IN
          /\ exec' = [exec EXCEPT
               ![w].pc = "batch", ![w].replaced = replaced,
               ![w].agg = IF replaced THEN <<>> ELSE exec[w].prev.agg,
               ![w].offset = IF replaced THEN 0 ELSE exec[w].prev.offset]
          /\ UNCHANGED jobs
  /\ UNCHANGED <<source, cursor, context, promoted, scan, used>>

(* readTraceBatch and applyTraceEvents: up to BatchEvents lines from the   *)
(* saved offset of the file that is there now.  A file that changes while  *)
(* it is read fails the job, which is as good as reading it later; an      *)
(* offset past its end is a permanent input error, which blocks the run.   *)
batchEnd(w) == IF exec[w].offset + BatchEvents < source.size
               THEN exec[w].offset + BatchEvents ELSE source.size

readBatch(w) ==
  /\ exec[w].pc = "batch"
  /\ source.present
  /\ exec[w].offset <= source.size
  /\ LET agg == exec[w].agg \o linesOf(source, exec[w].offset, batchEnd(w))
         more == batchEnd(w) < source.size
         final == ~more /\ (runEnded(agg) \/ exec[w].manifest.ended)
                        /\ exec[w].manifest.sealed # 0 IN
       exec' = [exec EXCEPT
         ![w].pc = IF final THEN "verify" ELSE "commit",
         ![w].batch = identityOf(source), ![w].agg = agg, ![w].offset = batchEnd(w),
         ![w].more = more,
         ![w].finalization = IF runEnded(agg) THEN "ended_pending_manifest" ELSE "recording"]
  /\ UNCHANGED <<source, cursor, context, jobs, promoted, scan, used>>

outOfBounds(w) ==
  /\ exec[w].pc = "batch"
  /\ source.present
  /\ exec[w].offset > source.size
  /\ cursor' = IF leased(w) THEN [cursor EXCEPT !.finalization = "blocked"] ELSE cursor
  /\ ends(w, "completed")
  /\ UNCHANGED <<source, context, promoted, scan, used>>

\* Slip: the provisional aggregate is published without the re-read.
verifyByHash(w) ==
  /\ exec[w].pc = "verify"
  /\ exec' = [exec EXCEPT ![w].pc = "commit", ![w].finalization = "finalized"]
  /\ UNCHANGED <<source, cursor, context, jobs, promoted, scan, used>>

\* Slip: the second reading is added to the first.
verifyAppends(w) ==
  /\ exec[w].pc = "verify"
  /\ source.present
  /\ exec[w].batch = identityOf(source) /\ exec[w].manifest = manifestOf(source)
  /\ exec' = [exec EXCEPT
       ![w].pc = "commit", ![w].agg = @ \o linesOf(source, 0, source.size),
       ![w].finalization = IF source.sealed = source.ino THEN "finalized" ELSE "blocked"]
  /\ UNCHANGED <<source, cursor, context, jobs, promoted, scan, used>>

(* Final verification: the whole file is read again, hashed and compared   *)
(* with the manifest; a file or manifest that changed fails the job, which *)
(* is retried.                                                             *)
verify(w) ==
  /\ exec[w].pc = "verify"
  /\ source.present
  /\ exec[w].batch = identityOf(source) /\ exec[w].manifest = manifestOf(source)
  /\ exec' = [exec EXCEPT
       ![w].pc = "commit", ![w].agg = linesOf(source, 0, source.size),
       ![w].offset = source.size,
       ![w].finalization = IF source.sealed = source.ino THEN "finalized" ELSE "blocked"]
  /\ UNCHANGED <<source, cursor, context, jobs, promoted, scan, used>>

verifyFails(w) ==
  /\ exec[w].pc = "verify"
  /\ source.present
  /\ exec[w].batch # identityOf(source) \/ exec[w].manifest # manifestOf(source)
  /\ ends(w, "pending")
  /\ UNCHANGED <<source, cursor, context, promoted, scan, used>>

\* The deadline or the shutdown hits the verification: what was read before
\* it is published as ended_unverified.
interruptVerify(w) ==
  /\ exec[w].pc = "verify"
  /\ used.aborts < MaxAborts
  /\ used' = [used EXCEPT !.aborts = @ + 1]
  /\ exec' = [exec EXCEPT ![w].pc = "commit", ![w].finalization = "ended_unverified"]
  /\ UNCHANGED <<source, cursor, context, jobs, promoted, scan>>

----------------------------------------------------------------------------

newGen(w) == IF exec[w].replaced THEN cursor.gen + 1 ELSE cursor.gen

\* Slip: only the progress row is written in the transaction.
publishCursorOnly(w) ==
  /\ cursor' = [cursor EXCEPT !.gen = newGen(w), !.rev = @ + 1, !.offset = exec[w].offset,
                  !.identity = exec[w].batch, !.manifest = exec[w].manifest,
                  !.agg = exec[w].agg, !.finalization = exec[w].finalization]
  /\ UNCHANGED context

(* The transaction of ingestTraceRun: lease, compare-and-swap, progress,   *)
(* context, promotion of a verified whole run, and the successor job when  *)
(* there is more to read.                                                  *)
publish(w) ==
  /\ cursor' = [cursor EXCEPT !.gen = newGen(w), !.rev = @ + 1, !.offset = exec[w].offset,
                  !.identity = exec[w].batch, !.manifest = exec[w].manifest,
                  !.agg = exec[w].agg, !.finalization = exec[w].finalization]
  /\ context' = [gen |-> newGen(w), agg |-> exec[w].agg, finalization |-> exec[w].finalization]

successor(w) == [gen |-> newGen(w), rev |-> exec[w].prev.rev + 1, offset |-> exec[w].offset,
                 fingerprint |-> <<exec[w].manifest, NoIdentity>>]

\* The successor is enqueued in the transaction; the job is completed in one
\* of its own, so an executor may be gone before that.
commit(w) ==
  /\ exec[w].pc = "commit"
  /\ leased(w) /\ casHolds(w)
  /\ publish(w)
  /\ IF exec[w].more THEN enqueue(successor(w)) ELSE UNCHANGED jobs
  /\ promoted' = IF exec[w].finalization = "finalized" /\ runEnded(exec[w].agg)
                 THEN promoted \cup {[gen |-> newGen(w), agg |-> exec[w].agg]} ELSE promoted
  /\ exec' = [exec EXCEPT ![w] = [Idle EXCEPT !.pc = "done", !.job = exec[w].job]]
  /\ UNCHANGED <<source, scan, used>>

\* CONFLICT: the job fails and is retried from the row as it is then.
commitConflicts(w) ==
  /\ exec[w].pc = "commit"
  /\ ~leased(w) \/ ~casHolds(w)
  /\ ends(w, "pending")
  /\ UNCHANGED <<source, cursor, context, promoted, scan, used>>

complete(w) ==
  /\ exec[w].pc = "done"
  /\ ends(w, "completed")
  /\ UNCHANGED <<source, cursor, context, promoted, scan, used>>

advances(w) ==
  \/ claim(w) \/ readManifest(w) \/ readIdentity(w) \/ readBatch(w) \/ verify(w)
  \/ commit(w) \/ commitConflicts(w) \/ complete(w)

execute(w) == advances(w) \/ readFails(w) \/ outOfBounds(w) \/ verifyFails(w)

discover(s) == scanRow(s) \/ scanFiles(s) \/ scanEnqueue(s)

Next ==
  \/ record \/ rebuild
  \/ \E s \in Scanners : discover(s)
  \/ \E w \in Workers : execute(w) \/ interruptVerify(w)

\* Discovery is a timer that fires for ever, and every process runs its
\* worker; nobody has to record, to rebuild or to interrupt.
Spec == Init /\ [][Next]_vars
        /\ \A s \in Scanners : WF_vars(discover(s))
        /\ \A w \in Workers : WF_vars(execute(w))

\* One file that only grows (MaxFiles = 1): no reading finds it gone or
\* changed, and nothing interrupts a verification (MaxAborts = 0).
GrowingNext ==
  \/ record \/ rebuild
  \/ \E s \in Scanners : discover(s)
  \/ \E w \in Workers : advances(w)

GrowingSpec == Init /\ [][GrowingNext]_vars
               /\ \A s \in Scanners : WF_vars(discover(s))
               /\ \A w \in Workers : WF_vars(execute(w))

----------------------------------------------------------------------------

wholeFile(agg) == \E i \in 1..MaxFiles :
  \A k \in DOMAIN agg : agg[k].ino = i /\ agg[k].line = k

(* A run that is delivered as finalized, and everything that was promoted  *)
(* to memory from it, counts every line of one file exactly once and in    *)
(* order up to its run.end, however batches, retries, lost leases,         *)
(* rewrites and rebuilds interleaved.                                      *)
FinalizedIsWhole ==
  /\ context.finalization = "finalized" => wholeFile(context.agg) /\ runEnded(context.agg)
  /\ \A p \in promoted : wholeFile(p.agg) /\ runEnded(p.agg)

(* Progress and published context move together: once a generation has     *)
(* made progress, the delivered context is the one of that generation and  *)
(* says what the row's aggregate says.                                     *)
ContextFollowsProgress ==
  cursor.identity # NoIdentity => context.gen = cursor.gen /\ context.agg = cursor.agg

(* What is finalized or promoted is one whole file, and context and        *)
(* progress move together.                                                 *)
PublishedIsWhole == FinalizedIsWhole /\ ContextFollowsProgress

(* Until a file is rewritten no line is counted twice or skipped in any    *)
(* published state, not only in the final one.                             *)
LinesCountedOnce ==
  source.ino = 1 => cursor.agg = linesOf([source EXCEPT !.ended = runEnded(cursor.agg)], 0, cursor.offset)

caughtUp == cursor.offset = source.size /\ cursor.identity = identityOf(source)

(* The pipeline catches up with a recorder that has stopped: all lines end *)
(* up in the aggregate.  After a rebuild they need not: a scan that had    *)
(* read the row before it enqueues a job of the old generation and stores  *)
(* its fingerprint in the new row, and later scans skip the run.           *)
CatchesUp ==
  <>[](\/ caughtUp \/ used.rebuilds > 0
       \/ cursor.finalization \in {"blocked", "source_missing"})

=============================================================================
