------------------------------ MODULE TaskRuns ------------------------------
(***************************************************************************)
(* Task runs: the intake of src/task-run and src/akinator, the ledger rows *)
(* and events of src/ledger, the receipts that make its requests           *)
(* repeatable, the projection of profiles, and the purges and the cleanup  *)
(* of ledger/maintenance.ts, against several processes that prepare,       *)
(* answer, append, abort and crash.                                        *)
(*                                                                         *)
(* One workspace of a registered repository.  A profile is the set of its  *)
(* known required fields; an answer is a member of Values.  A receipt key  *)
(* stands for the hash of a request id.  Run ids are never used twice, so  *)
(* a tombstone names the run it stands for.                                *)
(***************************************************************************)
EXTENDS Integers, Sequences, FiniteSets

CONSTANTS Keys,       \* request ids of task_prepare
          Hints,      \* the profile hints a request may carry
          Values,     \* answers
          Runs,       \* run ids
          Procs,      \* processes that prepare and answer tasks
          Sources,    \* identities of events from outside
          Contents,   \* what such an event says
          Outcomes,   \* how others end a run
          None,
          MaxEvents   \* bound of the instance: events of a run

Fields == <<"taskType", "target", "expected">>
Field == {"taskType", "target", "expected"}
Terminal == {"completed", "failed", "cancelled", "interrupted"}

ASSUME TaskRunsAssumption ==
  /\ Hints \subseteq SUBSET Field /\ Outcomes \subseteq Terminal
  /\ None \notin Runs \cup Values \cup Sources \cup Keys
  /\ MaxEvents \in Nat

VARIABLES
  run,        \* Runs -> row of ledger_runs with its session and intake link
  log,        \* Runs -> rows of ledger_events by sequence
  receipts,   \* rows of task_request_receipts
  tombstones, \* run ids of ledger_purge_audit
  document,   \* Runs -> profile projected for the run, or None
  plan,       \* the cleanup plan shown to the user of `setup`, or None
  proc,       \* Procs -> the run the process is finishing its answer for
  madeFor     \* history: Runs -> key of the request that created the run

vars == <<run, log, receipts, tombstones, document, plan, proc, madeFor>>

Row == [status : {"none", "active"} \cup Terminal, hinted : SUBSET Field,
        answer : [Field -> Values \cup {None}], adopted : Runs \cup {None},
        session : {"active", "ready"}, finalized : BOOLEAN]
NoRow == [status |-> "none", hinted |-> {}, answer |-> [f \in Field |-> None],
          adopted |-> None, session |-> "active", finalized |-> FALSE]
Event == [type : {"intake.started", "intake.answered", "intake.ready", "run.started", "step"},
          source : Sources \cup {None}, content : Contents \cup {None}]
Receipt == [scope : {"create"}, key : Keys, request : Hints, run : Runs \cup {None}]
           \cup [scope : {"answer"}, key : Runs \X Field \X Values, request : {{}},
                 run : Runs \cup {None}]

TypeOK ==
  /\ run \in [Runs -> Row]
  /\ log \in [Runs -> Seq(Event)]
  /\ receipts \subseteq Receipt
  /\ tombstones \subseteq Runs
  /\ document \in [Runs -> (SUBSET Field) \cup {None}]
  /\ proc \in [Procs -> Runs \cup {None}]
  /\ madeFor \in [Runs -> Keys \cup {None}]

Init ==
  /\ run = [r \in Runs |-> NoRow] /\ log = [r \in Runs |-> <<>>]
  /\ receipts = {} /\ tombstones = {}
  /\ document = [r \in Runs |-> None] /\ plan = None
  /\ proc = [p \in Procs |-> None] /\ madeFor = [r \in Runs |-> None]

exists(r) == run[r].status # "none"
unused(r) == ~exists(r) /\ r \notin tombstones

-----------------------------------------------------------------------------
(***************************************************************************)
(* The questions of the intake (akinator/domain.ts).                       *)
(***************************************************************************)
answeredFields(row) == {f \in Field : row.answer[f] # None}
profile(row) == row.hinted \cup answeredFields(row)
                \cup IF row.adopted = None THEN {} ELSE {"target"}
missingFields(known) == Field \ known

\* The first missing field in the order of the policy.
nextQuestion(known) ==
  Fields[CHOOSE i \in 1..3 : Fields[i] \in missingFields(known)
                             /\ \A j \in 1..(i - 1) : Fields[j] \notin missingFields(known)]

\* Three questions suffice, so the intake is never exhausted.
evaluateProfile(known) == IF missingFields(known) = {} THEN "ready" ELSE "active"

\* The row after a change of the profile: the session is evaluated again, and
\* the link of a session that became ready is finalized.
evaluated(row) ==
  LET status == evaluateProfile(profile(row))
  IN [row EXCEPT !.session = status, !.finalized = status = "ready"]
startAkinator(h, q) == evaluated([NoRow EXCEPT !.status = "active", !.hinted = h, !.adopted = q])
applyAnswer(row, f, v) == evaluated([row EXCEPT !.answer[f] = v])

\* What projectProfileInTransaction writes for a run.
projectProfile(row) == IF row.finalized THEN profile(row) ELSE None

\* Slip: the run need not have completed.
adoptableUnfinished(q) == document[q] # None /\ "target" \in run[q].hinted \cup answeredFields(run[q])

\* A run whose target another may adopt (memory-probe.ts, resolveProfileTarget):
\* it completed, and a client or a user stated the target.
adoptable(q) == /\ document[q] # None /\ run[q].status = "completed"
                /\ "target" \in run[q].hinted \cup answeredFields(run[q])

\* The runs a new task may take its target from.  Which of them the search
\* finds, and whether the target exists in the repository, is open.
probeProfileMemory(h) ==
  {None} \cup IF "target" \in h THEN {} ELSE {q \in Runs : adoptable(q)}

-----------------------------------------------------------------------------
(***************************************************************************)
(* The ledger (ledger/store.ts).                                           *)
(***************************************************************************)
lifecycleEvent(type) == [type |-> type, source |-> None, content |-> None]

\* The rows of a run that a batch names.
existingRows(r, batch) ==
  {i \in 1..Len(log[r]) : \E j \in 1..Len(batch) :
     batch[j].source # None /\ log[r][i].source = batch[j].source}

\* Slip: the identities of the events are not looked up.
appendWithoutIdentities(r, batch) ==
  log' = IF run[r].status = "active" THEN [log EXCEPT ![r] = @ \o batch] ELSE log

\* appendPreparedBatchInTransaction.  A batch that names an event of the log
\* is acknowledged when all of it is there and refused otherwise; neither
\* changes the log.  A terminal run accepts nothing new.
appendPreparedBatch(r, batch) ==
  log' = IF existingRows(r, batch) = {} /\ run[r].status \notin Terminal
         THEN [log EXCEPT ![r] = @ \o batch] ELSE log

\* Slip: the last outcome wins.
overwrittenStatus(row, status) == [row EXCEPT !.status = status]

\* What updateRunStatusInTransaction leaves of a row: a terminal run keeps
\* its status, whoever asks.
updatedStatus(row, status) ==
  IF row.status \in Terminal THEN row ELSE [row EXCEPT !.status = status]

-----------------------------------------------------------------------------
(***************************************************************************)
(* Preparing and answering (task-run/service.ts, akinator/service.ts,      *)
(* akinator/opencode-task.ts).  Refused requests change nothing.           *)
(***************************************************************************)
stored(scope, key) == {x \in receipts : x.scope = scope /\ x.key = key}
receipt(scope, key, request, r) ==
  [scope |-> scope, key |-> key, request |-> request, run |-> r]

readyEvents(row) == IF row.finalized THEN <<lifecycleEvent("intake.ready")>> ELSE <<>>

\* The one transaction of createRun for a request without a receipt: run,
\* session, link, events, profile document and status, then the receipt.
createRun(p, k, h, r, q) ==
  /\ proc[p] = None /\ stored("create", k) = {} /\ unused(r)
  /\ q \in probeProfileMemory(h)
  /\ LET row == startAkinator(h, q) IN
     /\ run' = [run EXCEPT ![r] = row]
     /\ log' = [log EXCEPT ![r] = <<lifecycleEvent("intake.started")>> \o readyEvents(row)
                                  \o <<lifecycleEvent("run.started")>>]
     /\ document' = [document EXCEPT ![r] = projectProfile(row)]
  /\ receipts' = receipts \cup {receipt("create", k, h, r)}
  /\ proc' = [proc EXCEPT ![p] = r] /\ madeFor' = [madeFor EXCEPT ![r] = k]
  /\ UNCHANGED <<tombstones, plan>>

\* A request that has its receipt goes on with the run it was answered with,
\* unless the run was purged or has ended meanwhile (authoritativeTaskRun).
replayCreate(p, k, h) ==
  /\ proc[p] = None
  /\ \E x \in stored("create", k) :
       /\ x.request = h /\ x.run # None /\ run[x.run].status = "active"
       /\ proc' = [proc EXCEPT ![p] = x.run]
  /\ UNCHANGED <<run, log, receipts, tombstones, document, plan, madeFor>>

\* Slip: the question is not compared with the one that is open.
acceptsAny(r, f) == run[r].session = "active" /\ run[r].status = "active"

\* answerAkinatorInTransaction and the checks around it: the session waits
\* for this very field, and the run is active.
acceptsAnswer(r, f) ==
  /\ run[r].session = "active" /\ f = nextQuestion(profile(run[r]))
  /\ run[r].status = "active"

\* answerIntake, in one transaction.  An answer the session already holds is
\* repeated without effect but for its receipt, on an ended run too.
answerIntake(p, r, f, v) ==
  /\ proc[p] = None /\ exists(r) /\ stored("answer", <<r, f, v>>) = {}
  /\ \/ /\ run[r].answer[f] = v
        /\ UNCHANGED <<run, log, document>>
     \/ /\ run[r].answer[f] = None /\ acceptsAnswer(r, f)
        /\ LET row == applyAnswer(run[r], f, v) IN
           /\ run' = [run EXCEPT ![r] = row]
           /\ appendPreparedBatch(r, <<lifecycleEvent("intake.answered")>> \o readyEvents(row))
           /\ document' = [document EXCEPT ![r] = projectProfile(row)]
  /\ receipts' = receipts \cup {receipt("answer", <<r, f, v>>, {}, r)}
  /\ proc' = [proc EXCEPT ![p] = r]
  /\ UNCHANGED <<tombstones, plan, madeFor>>

replayAnswer(p, r, f, v) ==
  /\ proc[p] = None /\ exists(r)
  /\ \E x \in stored("answer", <<r, f, v>>) : x.run # None
  /\ proc' = [proc EXCEPT ![p] = r]
  /\ UNCHANGED <<run, log, receipts, tombstones, document, plan, madeFor>>

\* finalizeOpenCodeTask returned or threw, or the process died.
finishes(p) ==
  /\ proc[p] # None /\ proc' = [proc EXCEPT ![p] = None]
  /\ UNCHANGED <<run, log, receipts, tombstones, document, plan, madeFor>>

\* The request was aborted while it was finalized: its run fails, unless it
\* has ended or is gone.
failOpenCodeTaskRunAfterAbort(p) ==
  /\ proc[p] # None
  /\ run' = IF exists(proc[p])
            THEN [run EXCEPT ![proc[p]] = updatedStatus(@, "failed")] ELSE run
  /\ proc' = [proc EXCEPT ![p] = None]
  /\ UNCHANGED <<log, receipts, tombstones, document, plan, madeFor>>

-----------------------------------------------------------------------------
(***************************************************************************)
(* Others that write to a run: checkpoints, Enno-Oduno and cancellation    *)
(* append events and end it.                                               *)
(***************************************************************************)
appendBatch(r, batch) ==
  /\ exists(r) /\ Len(log[r]) + Len(batch) <= MaxEvents
  /\ appendPreparedBatch(r, batch)
  /\ UNCHANGED <<run, receipts, tombstones, document, plan, proc, madeFor>>

updateRunStatus(r, status) ==
  /\ exists(r)
  /\ run' = [run EXCEPT ![r] = updatedStatus(@, status)]
  /\ UNCHANGED <<log, receipts, tombstones, document, plan, proc, madeFor>>

-----------------------------------------------------------------------------
(***************************************************************************)
(* Purging (ledger/maintenance.ts, commands/setup.ts).                     *)
(***************************************************************************)
\* Slip: the receipts of a purged run go with it.
receiptsForgotten(S) == {x \in receipts : x.run \notin S}

\* A receipt outlives its run without its answer.
scrubbedReceipts(S) ==
  {x \in receipts : x.run \notin S} \cup {[x EXCEPT !.run = None] : x \in {y \in receipts : y.run \in S}}

\* executePurge of the runs S: tombstones, receipts, the run with all that
\* hangs on it, its session and its answers.
executePurge(S) ==
  /\ run' = [r \in Runs |-> IF r \in S THEN NoRow ELSE run[r]]
  /\ log' = [r \in Runs |-> IF r \in S THEN <<>> ELSE log[r]]
  /\ document' = [r \in Runs |-> IF r \in S THEN None ELSE document[r]]
  /\ receipts' = scrubbedReceipts(S)
  /\ tombstones' = tombstones \cup S

purgeLedgerTarget(r) ==
  /\ exists(r) /\ executePurge({r})
  /\ UNCHANGED <<plan, proc, madeFor>>

\* The runs whose intake was never finished, and everything the digest covers.
candidates == {r \in Runs : run[r].status = "active" /\ run[r].session = "active"
                            /\ ~run[r].finalized}
runGraphSnapshot(r) == [row |-> run[r], log |-> log[r],
                        receipts |-> {x \in receipts : x.run = r}]
currentPlan == [r \in candidates |-> runGraphSnapshot(r)]

\* setup shows the plan and asks; or the user declines.
planUnfinishedLedgerRunCleanup ==
  /\ plan = None /\ candidates # {} /\ plan' = currentPlan
  /\ UNCHANGED <<run, log, receipts, tombstones, document, proc, madeFor>>

declineCleanup ==
  /\ plan # None /\ plan' = None
  /\ UNCHANGED <<run, log, receipts, tombstones, document, proc, madeFor>>

\* Slip: the confirmed runs are deleted without looking at them again.
digestIgnored(planned) == TRUE

digestMatches(planned) == planned = currentPlan

\* The confirmed cleanup: the plan of the transaction has to be the plan the
\* user saw, or setup shows the new one.
purgeUnfinishedLedgerRuns ==
  /\ plan # None
  /\ IF digestMatches(plan)
     THEN executePurge(DOMAIN plan) /\ plan' = None
     ELSE /\ plan' = IF candidates = {} THEN None ELSE currentPlan
          /\ UNCHANGED <<run, log, receipts, tombstones, document>>
  /\ UNCHANGED <<proc, madeFor>>

-----------------------------------------------------------------------------
step(s, c) == [type |-> "step", source |-> s, content |-> c]
Steps == {step(s, c) : s \in Sources, c \in Contents}
Batches == {<<e>> : e \in Steps}
           \cup {b \in Steps \X Steps : b[1].source # b[2].source}

Next ==
  \/ \E p \in Procs, k \in Keys, h \in Hints :
       \/ \E r \in Runs, q \in Runs \cup {None} : createRun(p, k, h, r, q)
       \/ replayCreate(p, k, h)
  \/ \E p \in Procs, r \in Runs, f \in Field, v \in Values :
       answerIntake(p, r, f, v) \/ replayAnswer(p, r, f, v)
  \/ \E p \in Procs : finishes(p) \/ failOpenCodeTaskRunAfterAbort(p)
  \/ \E r \in Runs, b \in Batches : appendBatch(r, b)
  \/ \E r \in Runs, s \in Outcomes : updateRunStatus(r, s)
  \/ \E r \in Runs : purgeLedgerTarget(r)
  \/ planUnfinishedLedgerRunCleanup \/ declineCleanup \/ purgeUnfinishedLedgerRuns

Spec == Init /\ [][Next]_vars

-----------------------------------------------------------------------------
(***************************************************************************)
(* Properties.                                                             *)
(***************************************************************************)
\* A request id makes at most one run, for ever: not when it is retried by
\* another process, and not after its run was purged.
OneRunPerRequest ==
  \A q, r \in Runs : madeFor[q] # None /\ madeFor[q] = madeFor[r] => q = r

\* An event from outside is in the log of a run at most once, however often
\* and in whatever batches it is sent.
EventsOnce == \A r \in Runs : \A i, j \in 1..Len(log[r]) :
  i # j /\ log[r][i].source # None => log[r][i].source # log[r][j].source

\* The session, the intake link, the profile document and the log of a run
\* tell the same story about its intake.
countOf(r, type) == Cardinality({i \in 1..Len(log[r]) : log[r][i].type = type})
IntakeConsistent == \A r \in Runs : exists(r) =>
  /\ run[r].finalized <=> missingFields(profile(run[r])) = {}
  /\ run[r].session = "ready" <=> run[r].finalized
  /\ document[r] # None => document[r] = profile(run[r])
  /\ countOf(r, "intake.ready") = (IF run[r].finalized THEN 1 ELSE 0)
  /\ countOf(r, "intake.answered") = Cardinality(answeredFields(run[r]))
  /\ answeredFields(run[r]) \cap run[r].hinted = {}

\* A target taken from memory was stated by a client or a user: adopted
\* targets are never handed on, however many runs come between.
AdoptedWasStated == \A r \in Runs : LET q == run[r].adopted IN
  q # None /\ exists(q) => /\ run[q].status = "completed" /\ run[q].adopted = None
                           /\ "target" \in profile(run[q])

(* A request makes one run and an event of a client one row, for ever;     *)
(* session, link, profile and log of a run agree about its intake, and a   *)
(* target taken from memory was stated by somebody.                        *)
RequestIsOneStory == OneRunPerRequest /\ EventsOnce /\ IntakeConsistent /\ AdoptedWasStated

\* The cleanup the user confirmed takes no run whose intake was finished, or
\* that ended, while the question was open.
CleanupSparesFinished ==
  [][purgeUnfinishedLedgerRuns => \A r \in tombstones' \ tombstones :
       run[r].status = "active" /\ run[r].session = "active"]_vars

\* What the ledger promises about a run.
phase == [r \in Runs |-> IF r \in tombstones THEN "purged"
                         ELSE CASE run[r].status = "none" -> "absent"
                                [] run[r].status = "active" -> "open"
                                [] OTHER -> run[r].status]
Lifecycle == INSTANCE RunLifecycle WITH Ends <- Terminal
LifecycleKept == Lifecycle!Spec
=============================================================================
