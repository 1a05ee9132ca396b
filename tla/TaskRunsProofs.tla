--------------------------- MODULE TaskRunsProofs ---------------------------
(***************************************************************************)
(* Proofs about the ledger and what is kept beside it, for every set of    *)
(* runs, requests, calls and documents, and runs of any length.            *)
(*                                                                         *)
(* TaskRuns: RunInv is the type invariant with what a tombstone stands     *)
(* for: the run is gone.  It maps every step of TaskRuns to a step of the  *)
(* life cycle.  StoryInv adds what makes the story inductive: the receipt  *)
(* of a request outlives its run, an adopted target was never asked for,   *)
(* and the run it was taken from ended before and was not made anew.       *)
(*                                                                         *)
(* Beside them, each of these makes one property inductive: ExecutionInv   *)
(* the execution of a step, ArchiveInv the exports and imports of a        *)
(* ledger, PromotionInv the way of a proposal into memory, SkillInv the    *)
(* store of skills and DiscoveryInv the attempts that discover them.       *)
(***************************************************************************)
EXTENDS MCTaskRuns, FiniteSetTheorems, SequenceTheorems, TLAPS

RunInv == TypeOK /\ \A r \in tombstones : ~exists(r)

-----------------------------------------------------------------------------
(* Types                                                                   *)

\* What the intake makes of a request and of an answer are rows.
LEMMA IntakeType ==
  ASSUME NEW rec \in Row
  PROVE  /\ evaluated(rec) \in Row
         /\ evaluated(rec).status = rec.status /\ evaluated(rec).hinted = rec.hinted
         /\ evaluated(rec).answer = rec.answer /\ evaluated(rec).adopted = rec.adopted
         /\ evaluated(rec).session = evaluateProfile(profile(rec))
         /\ evaluated(rec).finalized = (evaluateProfile(profile(rec)) = "ready")
<1>1. evaluateProfile(profile(rec)) \in {"active", "ready"}
  BY DEF evaluateProfile
<1>2. profile(evaluated(rec)) = profile(rec)
  BY DEF profile, answeredFields, evaluated, Row
<1> QED
  BY <1>1 DEF evaluated, Row

\* The row of a run that does not exist.
LEMMA NoRowType == NoRow \in Row
BY DEF NoRow, Row

\* A started intake: active, with the hints it was given.
LEMMA StartType ==
  ASSUME NEW h \in SUBSET Field, NEW q \in Runs \cup {None}
  PROVE  LET rec == startAkinator(h, q)
         IN  /\ rec \in Row /\ rec.status = "active" /\ rec.hinted = h /\ rec.adopted = q
             /\ rec.answer = NoRow.answer
<1> DEFINE raw == [NoRow EXCEPT !.status = "active", !.hinted = h, !.adopted = q]
<1>1. raw \in Row /\ raw.status = "active" /\ raw.hinted = h /\ raw.adopted = q /\ raw.answer = NoRow.answer
  BY NoRowType DEF NoRow, Row
<1> HIDE DEF raw
<1>2. evaluated(raw) \in Row /\ evaluated(raw).status = "active" /\ evaluated(raw).hinted = h
      /\ evaluated(raw).adopted = q /\ evaluated(raw).answer = NoRow.answer
  BY <1>1, IntakeType
<1> QED
  BY <1>2 DEF startAkinator, raw

\* An answer changes only the answers and what is made of them.
LEMMA AnswerType ==
  ASSUME NEW rec \in Row, NEW f \in Field, NEW v \in Values
  PROVE  /\ applyAnswer(rec, f, v) \in Row
         /\ applyAnswer(rec, f, v).status = rec.status /\ applyAnswer(rec, f, v).hinted = rec.hinted
         /\ applyAnswer(rec, f, v).adopted = rec.adopted
         /\ applyAnswer(rec, f, v).answer = [rec.answer EXCEPT ![f] = v]
<1> DEFINE raw == [rec EXCEPT !.answer[f] = v]
<1>1. raw \in Row /\ raw.status = rec.status /\ raw.hinted = rec.hinted /\ raw.adopted = rec.adopted
      /\ raw.answer = [rec.answer EXCEPT ![f] = v]
  BY DEF Row
<1> HIDE DEF raw
<1>2. evaluated(raw) \in Row /\ evaluated(raw).status = rec.status /\ evaluated(raw).hinted = rec.hinted
      /\ evaluated(raw).adopted = rec.adopted /\ evaluated(raw).answer = [rec.answer EXCEPT ![f] = v]
  BY <1>1, IntakeType
<1> QED
  BY <1>2 DEF applyAnswer, raw

\* The document of a profile is the set of its fields.
LEMMA ProjectType ==
  ASSUME NEW rec \in Row
  PROVE  projectProfile(rec) \in (SUBSET Field) \cup {None}
<1>1. rec.hinted \subseteq Field
  BY DEF Row
<1>2. profile(rec) \in SUBSET Field
  BY <1>1 DEF profile, answeredFields, Field
<1> QED
  BY <1>2 DEF projectProfile

\* What intakes and clients append are events.
LEMMA EventType ==
  /\ \A type \in {"intake.started", "intake.answered", "intake.ready", "run.started"} :
        lifecycleEvent(type) \in Event
  /\ \A rec : readyEvents(rec) \in Seq(Event)
  /\ Batches \subseteq Seq(Event)
<1>1. \A type \in {"intake.started", "intake.answered", "intake.ready", "run.started"} :
        lifecycleEvent(type) \in Event
  BY DEF lifecycleEvent, Event
<1>2. \A rec : readyEvents(rec) \in Seq(Event)
  BY <1>1 DEF readyEvents
<1>3. Steps \subseteq Event
  BY DEF Steps, step, Event
<1>4. ASSUME NEW b \in Batches
      PROVE  b \in Seq(Event)
  <2>1. CASE \E e \in Steps : b = <<e>>
    BY <1>3, <2>1
  <2>2. CASE b \in Steps \X Steps
    <3>1. PICK d \in Steps, e \in Steps : b = <<d, e>>
      BY <2>2
    <3> QED
      BY <1>3, <3>1
  <2> QED
    BY <2>1, <2>2 DEF Batches
<1> QED
  BY <1>1, <1>2, <1>4

\* An append changes one log, and only at its end.
LEMMA AppendType ==
  ASSUME log \in [Runs -> Seq(Event)], NEW r \in Runs, NEW batch \in Seq(Event),
         appendPreparedBatch(r, batch)
  PROVE  /\ log' \in [Runs -> Seq(Event)]
         /\ \A q \in Runs \ {r} : log'[q] = log[q]
         /\ log'[r] = log[r] \/ log'[r] = log[r] \o batch
BY DEF appendPreparedBatch

\* A purge leaves well-typed rows and receipts without their runs.
LEMMA PurgeType ==
  ASSUME TypeOK, NEW S \in SUBSET Runs, executePurge(S)
  PROVE  /\ run' \in [Runs -> Row] /\ log' \in [Runs -> Seq(Event)]
         /\ receipts' \subseteq Receipt /\ tombstones' \subseteq Runs
         /\ document' \in [Runs -> (SUBSET Field) \cup {None}]
<1>1. run' \in [Runs -> Row] /\ log' \in [Runs -> Seq(Event)] /\ tombstones' \subseteq Runs
  BY NoRowType DEF TypeOK, executePurge
<1>2. document' \in [Runs -> (SUBSET Field) \cup {None}]
  BY DEF TypeOK, executePurge
<1>3. ASSUME NEW x \in receipts
      PROVE  [x EXCEPT !.run = None] \in Receipt
  <2>1. x \in Receipt
    BY DEF TypeOK
  <2>2. CASE x \in [scope : {"create"}, key : Keys, request : Hints, run : Runs \cup {None}]
    BY <2>2 DEF Receipt
  <2>3. CASE x \in [scope : {"answer"}, key : Runs \X Field \X Values, request : {{}},
                    run : Runs \cup {None}]
    BY <2>3 DEF Receipt
  <2> QED
    BY <2>1, <2>2, <2>3 DEF Receipt
<1>4. receipts' \subseteq Receipt
  BY <1>3 DEF TypeOK, executePurge, scrubbedReceipts
<1> QED
  BY <1>1, <1>2, <1>4

\* An empty ledger.
LEMMA TypeInit ==
  ASSUME Init
  PROVE  RunInv
BY NoRowType DEF Init, RunInv, TypeOK, exists, NoRow

\* The events of a new run.
LEMMA FirstEventsType ==
  \A rec : <<lifecycleEvent("intake.started")>> \o readyEvents(rec) \o <<lifecycleEvent("run.started")>>
              \in Seq(Event) \ {<<>>}
BY EventType DEF readyEvents

\* The events of one answer.
LEMMA AnswerEventsType ==
  \A rec : <<lifecycleEvent("intake.answered")>> \o readyEvents(rec) \in Seq(Event)
BY EventType DEF readyEvents

\* RunInv is inductive.
LEMMA RunStep ==
  ASSUME RunInv, [Next]_vars
  PROVE  RunInv'
<1> USE DEF TypeOK, exists
<1>0. TypeOK /\ TaskRunsAssumption /\ (\A r \in tombstones : run[r].status = "none")
  BY TaskRunsAssumption DEF RunInv
<1> SUFFICES TypeOK' /\ \A r \in tombstones' : run'[r].status = "none"
  BY DEF RunInv
<1>1. ASSUME NEW p \in Procs, NEW k \in Keys, NEW h \in Hints, NEW r \in Runs, NEW q \in Runs \cup {None},
             createRun(p, k, h, r, q)
      PROVE  TypeOK' /\ \A s \in tombstones' : run'[s].status = "none"
  <2> DEFINE rec == startAkinator(h, q)
  <2>1. /\ unused(r) /\ run' = [run EXCEPT ![r] = rec]
        /\ log' = [log EXCEPT ![r] = <<lifecycleEvent("intake.started")>> \o readyEvents(rec)
                                     \o <<lifecycleEvent("run.started")>>]
        /\ document' = [document EXCEPT ![r] = projectProfile(rec)]
        /\ receipts' = receipts \cup {receipt("create", k, h, r)}
        /\ proc' = [proc EXCEPT ![p] = r] /\ madeFor' = [madeFor EXCEPT ![r] = k]
        /\ UNCHANGED <<tombstones, plan>>
    BY <1>1 DEF createRun
  <2>2. h \in SUBSET Field
    BY <1>0 DEF TaskRunsAssumption
  <2>3. rec \in Row
    BY <2>2, StartType
  <2> HIDE DEF rec
  <2>4. receipt("create", k, h, r) \in Receipt
    BY DEF receipt, Receipt
  <2>5. document' \in [Runs -> (SUBSET Field) \cup {None}]
    BY <1>0, <2>1, <2>3, ProjectType
  <2>6. log' \in [Runs -> Seq(Event)]
    BY <1>0, <2>1, FirstEventsType
  <2> QED
    BY <1>0, <2>1, <2>3, <2>4, <2>5, <2>6 DEF unused
<1>2. ASSUME NEW p \in Procs, NEW k \in Keys, NEW h \in Hints, replayCreate(p, k, h)
      PROVE  TypeOK' /\ \A s \in tombstones' : run'[s].status = "none"
  <2>1. PICK x \in receipts : x.run # None /\ proc' = [proc EXCEPT ![p] = x.run]
    BY <1>2 DEF replayCreate, stored
  <2>2. x.run \in Runs
    BY <1>0, <2>1 DEF Receipt
  <2> QED
    BY <1>0, <1>2, <2>1, <2>2 DEF replayCreate
<1>3. ASSUME NEW p \in Procs, NEW r \in Runs, NEW f \in Field, NEW v \in Values, answerIntake(p, r, f, v)
      PROVE  TypeOK' /\ \A s \in tombstones' : run'[s].status = "none"
  <2>1. receipt("answer", <<r, f, v>>, {}, r) \in Receipt
    BY DEF receipt, Receipt
  <2>2. /\ receipts' \subseteq Receipt /\ proc' \in [Procs -> Runs \cup {None}]
        /\ UNCHANGED <<tombstones, plan, madeFor>> /\ run[r].status # "none"
    BY <1>0, <1>3, <2>1 DEF answerIntake
  <2>3. CASE UNCHANGED <<run, log, document>>
    BY <1>0, <2>2, <2>3
  <2>4. CASE ~UNCHANGED <<run, log, document>>
    <3> DEFINE rec == applyAnswer(run[r], f, v)
    <3>1. /\ run' = [run EXCEPT ![r] = rec]
          /\ appendPreparedBatch(r, <<lifecycleEvent("intake.answered")>> \o readyEvents(rec))
          /\ document' = [document EXCEPT ![r] = projectProfile(rec)]
      BY <1>3, <2>4 DEF answerIntake
    <3>2. rec \in Row
      BY <1>0, AnswerType
    <3> HIDE DEF rec
    <3>3. log' \in [Runs -> Seq(Event)]
      BY <1>0, <3>1, AnswerEventsType, AppendType
    <3>4. document' \in [Runs -> (SUBSET Field) \cup {None}]
      BY <1>0, <3>1, <3>2, ProjectType
    <3> QED
      BY <1>0, <2>2, <3>1, <3>2, <3>3, <3>4
  <2> QED
    BY <2>3, <2>4
<1>4. ASSUME NEW p \in Procs, NEW r \in Runs, NEW f \in Field, NEW v \in Values, replayAnswer(p, r, f, v)
      PROVE  TypeOK' /\ \A s \in tombstones' : run'[s].status = "none"
  BY <1>0, <1>4 DEF replayAnswer
<1>5. ASSUME NEW p \in Procs, finishes(p)
      PROVE  TypeOK' /\ \A s \in tombstones' : run'[s].status = "none"
  BY <1>0, <1>5 DEF finishes
<1>6. ASSUME NEW rec \in Row, NEW how \in Terminal
      PROVE  updatedStatus(rec, how) \in Row
             /\ (rec.status # "none" => updatedStatus(rec, how).status # "none")
  BY DEF updatedStatus, Row, Terminal
<1>7. ASSUME NEW p \in Procs, failOpenCodeTaskRunAfterAbort(p)
      PROVE  TypeOK' /\ \A s \in tombstones' : run'[s].status = "none"
  <2>1. "failed" \in Terminal /\ proc[p] \in Runs
    BY <1>0, <1>7 DEF failOpenCodeTaskRunAfterAbort, Terminal
  <2>2. updatedStatus(run[proc[p]], "failed") \in Row
    BY <1>0, <1>6, <2>1
  <2> QED
    BY <1>0, <1>7, <2>1, <2>2 DEF failOpenCodeTaskRunAfterAbort
<1>8. ASSUME NEW r \in Runs, NEW b \in Batches, appendBatch(r, b)
      PROVE  TypeOK' /\ \A s \in tombstones' : run'[s].status = "none"
  <2>1. log' \in [Runs -> Seq(Event)]
    BY <1>0, <1>8, EventType, AppendType DEF appendBatch
  <2> QED
    BY <1>0, <1>8, <2>1 DEF appendBatch
<1>9. ASSUME NEW r \in Runs, NEW s \in Outcomes, updateRunStatus(r, s)
      PROVE  TypeOK' /\ \A t \in tombstones' : run'[t].status = "none"
  <2>1. updatedStatus(run[r], s) \in Row
    BY <1>0, <1>6 DEF TaskRunsAssumption
  <2> QED
    BY <1>0, <1>9, <2>1 DEF updateRunStatus
<1>10. ASSUME NEW S \in SUBSET Runs, executePurge(S), UNCHANGED <<proc, madeFor>>
       PROVE  TypeOK' /\ \A s \in tombstones' : run'[s].status = "none"
  <2>1. \A s \in tombstones' : run'[s].status = "none"
    BY <1>0, <1>10 DEF executePurge, NoRow
  <2> QED
    BY <1>0, <1>10, <2>1, PurgeType
<1>11. ASSUME NEW r \in Runs, purgeLedgerTarget(r)
       PROVE  TypeOK' /\ \A s \in tombstones' : run'[s].status = "none"
  BY <1>10, <1>11 DEF purgeLedgerTarget
<1>12. CASE planUnfinishedLedgerRunCleanup \/ declineCleanup
  BY <1>0, <1>12 DEF planUnfinishedLedgerRunCleanup, declineCleanup
<1>13. CASE purgeUnfinishedLedgerRuns
  <2>1. CASE digestMatches(plan)
    <3>1. DOMAIN plan \in SUBSET Runs
      BY <2>1 DEF digestMatches, currentPlan, candidates
    <3> QED
      BY <1>10, <1>13, <2>1, <3>1 DEF purgeUnfinishedLedgerRuns
  <2>2. CASE ~digestMatches(plan)
    BY <1>0, <1>13, <2>2 DEF purgeUnfinishedLedgerRuns
  <2> QED
    BY <2>1, <2>2
<1>14. CASE UNCHANGED vars
  BY <1>0, <1>14 DEF vars
<1> QED
  BY <1>1, <1>2, <1>3, <1>4, <1>5, <1>7, <1>8, <1>9, <1>11, <1>12, <1>13, <1>14 DEF Next

(***************************************************************************)
(* Type correctness of the ledger of task runs: rows, logs, receipts and   *)
(* profile documents keep their types, and no run exists whose tombstone   *)
(* was written, whatever is prepared, answered, appended, aborted or       *)
(* purged.                                                                 *)
(***************************************************************************)
THEOREM RunsTypeCorrect == Spec => []RunInv
BY TypeInit, RunStep, PTL DEF Spec

-----------------------------------------------------------------------------
(* TaskRuns implements RunLifecycle                                        *)

\* What is appended extends the log, and so does nothing.
LEMMA ExtendsByConcat ==
  ASSUME NEW s \in Seq(Event), NEW t \in Seq(Event)
  PROVE  Lifecycle!Extends(s \o t, s) /\ Lifecycle!Extends(s, s)
<1>1. Len(s) \in Nat /\ Len(t) \in Nat /\ Len(s \o t) = Len(s) + Len(t)
  BY ConcatProperties, LenProperties
<1>2. SubSeq(s, 1, Len(s)) = s
  BY SubSeqFull
<1>3. SubSeq(s \o t, 1, Len(s)) = s
  <2>1. CASE Len(s) = 0
    <3>1. s = <<>>
      BY <2>1, EmptySeq
    <3>2. SubSeq(s \o t, 1, 0) = <<>>
      BY SubSeqEmpty
    <3> QED
      BY <2>1, <3>1, <3>2
  <2>2. CASE Len(s) # 0
    <3>1. Len(s) \in 1..Len(s) /\ 1 \in 1..Len(s)
      BY <1>1, <2>2
    <3> QED
      BY <1>2, <3>1, SubSeqOfConcat1
  <2> QED
    BY <2>1, <2>2
<1> QED
  BY <1>1, <1>2, <1>3 DEF Lifecycle!Extends

\* The phase of a run that exists, and of one that may be made.
LEMMA PhaseOf ==
  ASSUME RunInv, NEW r \in Runs
  PROVE  /\ unused(r) => phase[r] = "absent"
         /\ run[r].status = "active" => phase[r] = "open"
         /\ run[r].status \in Terminal => phase[r] = run[r].status
         /\ exists(r) => phase[r] \notin {"absent", "purged"}
BY DEF RunInv, TypeOK, Row, unused, exists, phase, Terminal

\* A step of one row and its log.
LEMMA OneRowPhase ==
  ASSUME RunInv, NEW r \in Runs, NEW rec \in Row, r \notin tombstones, rec.status # "none",
         run' = [run EXCEPT ![r] = rec], tombstones' = tombstones
  PROVE  phase' = [phase EXCEPT ![r] = IF rec.status = "active" THEN "open" ELSE rec.status]
<1>1. run' \in [Runs -> Row] /\ run'[r] = rec /\ \A q \in Runs \ {r} : run'[q] = run[q]
  BY DEF RunInv, TypeOK
<1> QED
  BY <1>1 DEF phase

\* An empty ledger is a life cycle before its start.
LEMMA LifecycleInit ==
  ASSUME Init
  PROVE  Lifecycle!Init
BY DEF Init, Lifecycle!Init, phase, NoRow

\* A step of the ledger is, for every run, a step of its life cycle or none.
LEMMA LifecycleStep ==
  ASSUME RunInv, [Next]_vars
  PROVE  [Lifecycle!Next]_<<phase, log>>
<1> USE DEF Lifecycle!Next
<1>0. /\ run \in [Runs -> Row] /\ log \in [Runs -> Seq(Event)] /\ TaskRunsAssumption
      /\ proc \in [Procs -> Runs \cup {None}]
  BY TaskRunsAssumption DEF RunInv, TypeOK
<1>1. ASSUME UNCHANGED <<run, log, tombstones>>
      PROVE  UNCHANGED <<phase, log>>
  BY <1>1 DEF phase
<1>2. ASSUME NEW r \in Runs, exists(r)
      PROVE  r \notin tombstones
  BY <1>2 DEF RunInv
\* An outcome ends an open run and leaves an ended one alone.
<1>3. ASSUME NEW r \in Runs, exists(r), NEW how \in Terminal,
             run' = [run EXCEPT ![r] = updatedStatus(@, how)], UNCHANGED <<log, tombstones>>
      PROVE  [Lifecycle!Next]_<<phase, log>>
  <2>1. CASE run[r].status \in Terminal
    BY <1>0, <1>1, <1>3, <2>1 DEF updatedStatus
  <2>2. CASE run[r].status = "active"
    <3> DEFINE rec == [run[r] EXCEPT !.status = how]
    <3>1. rec \in Row /\ rec.status = how /\ how \notin {"none", "active"}
      <4>1. run[r] \in Row /\ how \in Terminal
        BY <1>0, <1>3
      <4> QED
        BY <4>1 DEF Row, Terminal
    <3>2. run' = [run EXCEPT ![r] = rec]
      BY <1>3, <2>2 DEF updatedStatus, Terminal
    <3> HIDE DEF rec
    <3>3. phase' = [phase EXCEPT ![r] = how]
      BY <1>2, <1>3, <3>1, <3>2, OneRowPhase
    <3>4. phase[r] = "open"
      BY <2>2, PhaseOf
    <3> QED
      BY <1>3, <3>3, <3>4 DEF Lifecycle!End
  <2> QED
    BY <1>0, <1>3, <2>1, <2>2 DEF exists, Row
\* Events are appended to an open run only.
<1>4. ASSUME NEW r \in Runs, NEW batch \in Seq(Event), appendPreparedBatch(r, batch),
             run[r].status = "active" \/ exists(r), UNCHANGED phase
      PROVE  [Lifecycle!Next]_<<phase, log>>
  <2>1. CASE run[r].status \in Terminal
    <3>1. log' = log
      BY <2>1, <1>4 DEF appendPreparedBatch
    <3> QED
      BY <1>4, <3>1
  <2>2. CASE run[r].status = "active"
    <3>1. /\ log' \in [Runs -> Seq(Event)]
          /\ \A q \in Runs \ {r} : log'[q] = log[q]
          /\ log'[r] = log[r] \/ log'[r] = log[r] \o batch
      BY <1>0, <1>4, AppendType
    <3>2. Lifecycle!Extends(log'[r], log[r])
      BY <1>0, <3>1, ExtendsByConcat
    <3>3. phase[r] = "open"
      BY <2>2, PhaseOf
    <3> QED
      BY <1>4, <3>1, <3>2, <3>3 DEF Lifecycle!Extend
  <2> QED
    BY <1>0, <1>4, <2>1, <2>2 DEF exists, Row
<1>5. ASSUME NEW S \in SUBSET Runs, executePurge(S), \A r \in S : exists(r)
      PROVE  [Lifecycle!Next]_<<phase, log>>
  <2>1. \A r \in S : phase[r] \notin {"absent", "purged"}
    BY <1>5, PhaseOf
  <2>2. phase' = [r \in Runs |-> IF r \in S THEN "purged" ELSE phase[r]]
    BY <1>5 DEF executePurge, phase
  <2>3. Lifecycle!Purge(S)
    BY <1>5, <2>1, <2>2 DEF executePurge, Lifecycle!Purge
  <2> QED
    BY <2>3
<1>6. ASSUME NEW p \in Procs, NEW k \in Keys, NEW h \in Hints, NEW r \in Runs, NEW q \in Runs \cup {None},
             createRun(p, k, h, r, q)
      PROVE  [Lifecycle!Next]_<<phase, log>>
  <2> DEFINE rec == startAkinator(h, q)
  <2>1. /\ unused(r) /\ run' = [run EXCEPT ![r] = rec] /\ tombstones' = tombstones
        /\ log' = [log EXCEPT ![r] = <<lifecycleEvent("intake.started")>> \o readyEvents(rec)
                                     \o <<lifecycleEvent("run.started")>>]
    BY <1>6 DEF createRun
  <2>2. rec \in Row /\ rec.status = "active"
    BY <1>0, StartType DEF TaskRunsAssumption
  <2> HIDE DEF rec
  <2>3. phase' = [phase EXCEPT ![r] = "open"]
    BY <2>1, <2>2, OneRowPhase DEF unused
  <2>4. phase[r] = "absent"
    BY <2>1, PhaseOf
  <2>5. log'[r] # <<>> /\ \A s \in Runs \ {r} : log'[s] = log[s]
    BY <1>0, <2>1, FirstEventsType
  <2> QED
    BY <2>3, <2>4, <2>5 DEF Lifecycle!Open
<1>7. ASSUME NEW p \in Procs, NEW r \in Runs, NEW f \in Field, NEW v \in Values, answerIntake(p, r, f, v)
      PROVE  [Lifecycle!Next]_<<phase, log>>
  <2>1. CASE UNCHANGED <<run, log, document>>
    BY <1>1, <1>7, <2>1 DEF answerIntake
  <2>2. CASE ~UNCHANGED <<run, log, document>>
    <3> DEFINE rec == applyAnswer(run[r], f, v)
    <3>1. /\ run[r].status = "active" /\ run' = [run EXCEPT ![r] = rec] /\ tombstones' = tombstones
          /\ appendPreparedBatch(r, <<lifecycleEvent("intake.answered")>> \o readyEvents(rec))
      BY <1>7, <2>2 DEF answerIntake, acceptsAnswer
    <3>2. rec \in Row /\ rec.status = "active"
      <4>1. run[r] \in Row
        BY <1>0
      <4>2. applyAnswer(run[r], f, v) \in Row /\ applyAnswer(run[r], f, v).status = run[r].status
        BY <4>1, AnswerType
      <4> QED
        BY <3>1, <4>2
    <3> HIDE DEF rec
    <3>3. phase' = [phase EXCEPT ![r] = "open"] /\ phase[r] = "open"
      BY <1>2, <3>1, <3>2, OneRowPhase, PhaseOf DEF exists
    <3>4. phase' = phase
      BY <3>3 DEF phase
    <3> QED
      BY <1>4, <3>1, <3>4, AnswerEventsType
  <2> QED
    BY <2>1, <2>2
<1>8. ASSUME NEW p \in Procs, failOpenCodeTaskRunAfterAbort(p)
      PROVE  [Lifecycle!Next]_<<phase, log>>
  <2>1. proc[p] \in Runs /\ "failed" \in Terminal
    BY <1>0, <1>8 DEF failOpenCodeTaskRunAfterAbort, Terminal
  <2>2. CASE exists(proc[p])
    BY <1>3, <1>8, <2>1, <2>2 DEF failOpenCodeTaskRunAfterAbort
  <2>3. CASE ~exists(proc[p])
    BY <1>1, <1>8, <2>3 DEF failOpenCodeTaskRunAfterAbort
  <2> QED
    BY <2>2, <2>3
<1>9. ASSUME NEW r \in Runs, NEW b \in Batches, appendBatch(r, b)
      PROVE  [Lifecycle!Next]_<<phase, log>>
  <2>1. phase' = phase
    BY <1>9 DEF appendBatch, phase
  <2> QED
    BY <1>4, <1>9, <2>1, EventType DEF appendBatch
<1>10. ASSUME NEW r \in Runs, NEW s \in Outcomes, updateRunStatus(r, s)
       PROVE  [Lifecycle!Next]_<<phase, log>>
  BY <1>0, <1>3, <1>10 DEF updateRunStatus, TaskRunsAssumption
<1>11. ASSUME NEW r \in Runs, purgeLedgerTarget(r)
       PROVE  [Lifecycle!Next]_<<phase, log>>
  BY <1>5, <1>11 DEF purgeLedgerTarget
<1>12. CASE purgeUnfinishedLedgerRuns
  <2>1. CASE digestMatches(plan)
    <3>1. DOMAIN plan = candidates
      BY <2>1 DEF digestMatches, currentPlan
    <3>2. candidates \in SUBSET Runs /\ \A r \in candidates : exists(r)
      BY DEF candidates, exists
    <3> QED
      BY <1>5, <1>12, <2>1, <3>1, <3>2 DEF purgeUnfinishedLedgerRuns
  <2>2. CASE ~digestMatches(plan)
    BY <1>1, <1>12, <2>2 DEF purgeUnfinishedLedgerRuns
  <2> QED
    BY <2>1, <2>2
<1>13. ASSUME NEW p \in Procs, finishes(p)
       PROVE  [Lifecycle!Next]_<<phase, log>>
  BY <1>1, <1>13 DEF finishes
<1>14. ASSUME NEW p \in Procs, NEW k \in Keys, NEW h \in Hints, replayCreate(p, k, h)
       PROVE  [Lifecycle!Next]_<<phase, log>>
  BY <1>1, <1>14 DEF replayCreate
<1>15. ASSUME NEW p \in Procs, NEW r \in Runs, NEW f \in Field, NEW v \in Values, replayAnswer(p, r, f, v)
       PROVE  [Lifecycle!Next]_<<phase, log>>
  BY <1>1, <1>15 DEF replayAnswer
<1>16. CASE planUnfinishedLedgerRunCleanup \/ declineCleanup \/ UNCHANGED vars
  BY <1>1, <1>16 DEF planUnfinishedLedgerRunCleanup, declineCleanup, vars
<1> HIDE DEF Lifecycle!Next
<1> QED
  BY <1>6, <1>7, <1>8, <1>9, <1>10, <1>11, <1>12, <1>13, <1>14, <1>15, <1>16 DEF Next

(***************************************************************************)
(* A task run has the life the ledger promises: it is opened once with its *)
(* first events, its log only grows and only while it is open, its outcome *)
(* is final, and a purged run stays purged.  Creating, answering,          *)
(* appending, aborting, ending and purging are steps of that life or no    *)
(* steps of it, for any number of runs, processes and events.              *)
(***************************************************************************)
THEOREM ImplementsLifecycle == Spec => LifecycleKept
<1>1. Init => RunInv /\ Lifecycle!Init
  BY TypeInit, LifecycleInit
<1>2. RunInv /\ [Next]_vars => RunInv'
  BY RunStep
<1>3. RunInv /\ [Next]_vars => [Lifecycle!Next]_<<phase, log>>
  BY LifecycleStep
<1> QED
  BY <1>1, <1>2, <1>3, PTL DEF Spec, LifecycleKept, Lifecycle!Spec

(***************************************************************************)
(* The cleanup the user confirmed purges no run that was finished, or that *)
(* ended, while the question was open: the runs it takes are those of the  *)
(* plan, and the plan is compared with the ledger of the same transaction. *)
(***************************************************************************)
THEOREM CleanupSafe == Spec => CleanupSparesFinished
<1>1. ASSUME RunInv, purgeUnfinishedLedgerRuns
      PROVE  \A r \in tombstones' \ tombstones : run[r].status = "active" /\ run[r].session = "active"
  <2>1. CASE digestMatches(plan)
    <3>1. DOMAIN plan = candidates
      BY <2>1 DEF digestMatches, currentPlan
    <3>2. tombstones' = tombstones \cup candidates
      BY <1>1, <2>1, <3>1 DEF purgeUnfinishedLedgerRuns, executePurge
    <3> QED
      BY <3>2 DEF candidates
  <2>2. CASE ~digestMatches(plan)
    BY <1>1, <2>2 DEF purgeUnfinishedLedgerRuns
  <2> QED
    BY <2>1, <2>2
<1>2. RunInv /\ [Next]_vars =>
        [purgeUnfinishedLedgerRuns => \A r \in tombstones' \ tombstones :
            run[r].status = "active" /\ run[r].session = "active"]_vars
  BY <1>1
<1> QED
  BY <1>2, TypeInit, RunStep, PTL DEF Spec, CleanupSparesFinished

-----------------------------------------------------------------------------
(* What the story of a run is made of                                      *)

count(s, type) == Cardinality({i \in 1..Len(s) : s[i].type = type})

\* An empty log counts nothing.
LEMMA CountEmpty ==
  ASSUME NEW type
  PROVE  count(<<>>, type) = 0
<1>1. {i \in 1..Len(<<>>) : <<>>[i].type = type} = {}
  OBVIOUS
<1> QED
  BY <1>1, FS_EmptySet DEF count

\* One event more counts one more of its own type.
LEMMA CountOne ==
  ASSUME NEW s \in Seq(Event), NEW e \in Event, NEW type
  PROVE  /\ count(s, type) \in Nat
         /\ count(s \o <<e>>, type) = count(s, type) + IF e.type = type THEN 1 ELSE 0
<1> DEFINE hits == {i \in 1..Len(s) : s[i].type = type}
           more == {i \in 1..Len(s \o <<e>>) : (s \o <<e>>)[i].type = type}
           last == Len(s) + 1
<1>1. Len(s) \in Nat
  BY LenProperties
<1>2. IsFiniteSet(hits)
  <2>1. IsFiniteSet(1..Len(s))
    BY <1>1, FS_Interval
  <2> QED
    BY <2>1, FS_Subset
<1>3. /\ <<e>> \in Seq(Event) /\ Len(<<e>>) = 1
      /\ Len(s \o <<e>>) = last
      /\ \A i \in 1..Len(s) : (s \o <<e>>)[i] = s[i]
      /\ (s \o <<e>>)[last] = e
  BY <1>1, ConcatProperties
<1>4. 1..last = (1..Len(s)) \cup {last} /\ last \notin 1..Len(s)
  BY <1>1
<1>5. more = IF e.type = type THEN hits \cup {last} ELSE hits
  <2>1. more = {i \in 1..last : (s \o <<e>>)[i].type = type}
    BY <1>3
  <2> HIDE DEF last
  <2> QED
    BY <1>3, <1>4, <2>1
<1>6. last \notin hits
  BY <1>4
<1>7. Cardinality(hits) \in Nat /\ Cardinality(hits \cup {last}) = Cardinality(hits) + 1
  <2> HIDE DEF hits, last
  <2> QED
    BY <1>2, <1>6, FS_CardinalityType, FS_AddElement
<1>8. count(s, type) = Cardinality(hits) /\ count(s \o <<e>>, type) = Cardinality(more)
  BY DEF count
<1> HIDE DEF hits, more, last
<1>9. CASE e.type = type
  BY <1>5, <1>7, <1>8, <1>9
<1>10. CASE e.type # type
  BY <1>5, <1>7, <1>8, <1>10
<1> QED
  BY <1>9, <1>10

\* Two events are the one and then the other.
LEMMA PairConcat ==
  ASSUME NEW S, NEW d \in Seq(S), NEW e \in Seq(S), Len(d) = 1, Len(e) = 1,
         NEW t \in Seq(S), Len(t) = 2, t[1] = d[1], t[2] = e[1]
  PROVE  d \o e = t
<1>0. /\ d \o e \in Seq(S) /\ Len(d \o e) = Len(d) + Len(e)
      /\ \A i \in 1..Len(d) + Len(e) :
            (d \o e)[i] = IF i <= Len(d) THEN d[i] ELSE e[i - Len(d)]
  BY ConcatProperties
<1>1. /\ d \o e \in Seq(S) /\ Len(d \o e) = 2
      /\ \A i \in 1..2 : (d \o e)[i] = IF i <= 1 THEN d[i] ELSE e[i - 1]
  BY <1>0
<1>2. (d \o e)[1] = t[1] /\ (d \o e)[2] = t[2]
  BY <1>1
<1>3. \A i \in 1..Len(t) : (d \o e)[i] = t[i]
  <2>1. \A i \in 1..2 : i = 1 \/ i = 2
    OBVIOUS
  <2> QED
    BY <1>2, <2>1
<1> QED
  BY <1>1, <1>3, SeqEqual

\* Two events at once count one by one.
LEMMA CountTwo ==
  ASSUME NEW s \in Seq(Event), NEW t \in Seq(Event), Len(t) = 2, NEW type
  PROVE  count(s \o t, type) =
           count(s, type) + (IF t[1].type = type THEN 1 ELSE 0) + (IF t[2].type = type THEN 1 ELSE 0)
<1> DEFINE d == <<t[1]>>  e == <<t[2]>>
<1>1. t[1] \in Event /\ t[2] \in Event
  BY ElementOfSeq
<1>2. /\ d \in Seq(Event) /\ Len(d) = 1 /\ d[1] = t[1]
      /\ e \in Seq(Event) /\ Len(e) = 1 /\ e[1] = t[2]
  BY <1>1
<1>3. /\ count(s \o d, type) = count(s, type) + IF t[1].type = type THEN 1 ELSE 0
      /\ \A u \in Seq(Event) : count(u \o e, type) = count(u, type) + IF t[2].type = type THEN 1 ELSE 0
  BY <1>1, CountOne
<1> HIDE DEF d, e
<1>4. d \o e = t
  <2>1. t[1] = d[1] /\ t[2] = e[1]
    BY <1>2
  <2> QED
    BY <1>2, <2>1, PairConcat
<1>5. s \o t = (s \o d) \o e /\ s \o d \in Seq(Event)
  <2>1. d \in Seq(Event) /\ e \in Seq(Event)
    BY <1>2
  <2>2. \A a, b, c \in Seq(Event) : (a \o b) \o c = a \o (b \o c)
    BY ConcatAssociative
  <2>3. (s \o d) \o e = s \o (d \o e)
    BY <2>1, <2>2, Zenon
  <2>4. s \o d \in Seq(Event)
    BY <2>1, ConcatProperties
  <2> QED
    BY <1>4, <2>3, <2>4
<1>6. count(s, type) \in Nat
  BY <1>1, CountOne
<1> QED
  BY <1>3, <1>5, <1>6

\* No event from outside twice.
once(s) == \A i, j \in 1..Len(s) : i # j /\ s[i].source # None => s[i].source # s[j].source

\* A log stays without repetition when what is appended is new to it.
LEMMA OnceConcat ==
  ASSUME NEW s \in Seq(Event), NEW t \in Seq(Event), once(s), once(t),
         \A i \in 1..Len(s), j \in 1..Len(t) : t[j].source # None => s[i].source # t[j].source
  PROVE  once(s \o t)
<1>1. Len(s) \in Nat /\ Len(t) \in Nat /\ Len(s \o t) = Len(s) + Len(t)
  BY LenProperties, ConcatProperties
<1>2. \A i \in 1..Len(s) + Len(t) : (s \o t)[i] = IF i <= Len(s) THEN s[i] ELSE t[i - Len(s)]
  BY ConcatProperties
<1> SUFFICES ASSUME NEW i \in 1..Len(s) + Len(t), NEW j \in 1..Len(s) + Len(t), i # j,
                    (s \o t)[i].source # None
             PROVE  (s \o t)[i].source # (s \o t)[j].source
  BY <1>1 DEF once
<1>3. CASE i <= Len(s) /\ j <= Len(s)
  BY <1>1, <1>2, <1>3 DEF once
<1>4. CASE i <= Len(s) /\ ~(j <= Len(s))
  <2>1. i \in 1..Len(s) /\ j - Len(s) \in 1..Len(t) /\ (s \o t)[i] = s[i] /\ (s \o t)[j] = t[j - Len(s)]
    BY <1>1, <1>2, <1>4
  <2> QED
    BY <2>1
<1>5. CASE ~(i <= Len(s)) /\ j <= Len(s)
  <2>1. j \in 1..Len(s) /\ i - Len(s) \in 1..Len(t) /\ (s \o t)[j] = s[j] /\ (s \o t)[i] = t[i - Len(s)]
    BY <1>1, <1>2, <1>5
  <2> QED
    BY <2>1
<1>6. CASE ~(i <= Len(s)) /\ ~(j <= Len(s))
  <2>1. i - Len(s) \in 1..Len(t) /\ j - Len(s) \in 1..Len(t) /\ i - Len(s) # j - Len(s)
        /\ (s \o t)[j] = t[j - Len(s)] /\ (s \o t)[i] = t[i - Len(s)]
    BY <1>1, <1>2, <1>6
  <2> QED
    BY <2>1 DEF once
<1> QED
  BY <1>3, <1>4, <1>5, <1>6

\* Events of the ledger's own have no identity.
ownEvents(s) == \A i \in 1..Len(s) : s[i].source = None

\* The ledger's own events have no source outside.
LEMMA OwnEvents ==
  ASSUME NEW rec
  PROVE  /\ ownEvents(<<lifecycleEvent("intake.answered")>> \o readyEvents(rec))
         /\ ownEvents(<<lifecycleEvent("intake.started")>> \o readyEvents(rec) \o <<lifecycleEvent("run.started")>>)
<1>1. CASE rec.finalized
  BY <1>1 DEF ownEvents, readyEvents, lifecycleEvent
<1>2. CASE ~rec.finalized
  BY <1>2 DEF ownEvents, readyEvents, lifecycleEvent
<1> QED
  BY <1>1, <1>2

\* A batch of a client repeats nothing within itself.
LEMMA BatchOnce ==
  ASSUME NEW b \in Batches
  PROVE  once(b)
<1>1. CASE \E e \in Steps : b = <<e>>
  BY <1>1 DEF once
<1>2. CASE b \in Steps \X Steps /\ b[1].source # b[2].source
  <2>1. PICK d \in Steps, e \in Steps : b = <<d, e>>
    BY <1>2
  <2>2. d.source # e.source
    BY <1>2, <2>1
  <2> QED
    BY <2>1, <2>2 DEF once
<1> QED
  BY <1>1, <1>2 DEF Batches
-----------------------------------------------------------------------------
(* The inductive invariant of the story                                    *)

\* The receipt of a request outlives the run it made.
ReceiptsStay == \A r \in Runs : madeFor[r] # None => stored("create", madeFor[r]) # {}

\* What the story says of one run, its log and its profile document.
consistent(rec, evs, doc) ==
  /\ rec.finalized <=> missingFields(profile(rec)) = {}
  /\ rec.session = "ready" <=> rec.finalized
  /\ doc # None => doc = profile(rec)
  /\ count(evs, "intake.ready") = (IF rec.finalized THEN 1 ELSE 0)
  /\ count(evs, "intake.answered") = Cardinality(answeredFields(rec))
  /\ answeredFields(rec) \cap rec.hinted = {}

\* A client or a user stated the target of the run.
stated(rec) == "target" \in rec.hinted \cup answeredFields(rec)

\* Who adopted a target was never asked for one, and the run it came from
\* completed, with a target that was stated, or is gone for ever.
AdoptedInv == \A r \in Runs : LET q == run[r].adopted IN
  q # None => /\ ~stated(run[r])
              /\ q \in tombstones \/ (run[q].status = "completed" /\ stated(run[q]))

StoryInv == /\ RunInv /\ ReceiptsStay /\ OneRunPerRequest
            /\ \A r \in Runs : once(log[r])
            /\ \A r \in Runs : exists(r) => consistent(run[r], log[r], document[r])
            /\ AdoptedInv
\* An intake that was evaluated knows whether anything is missing.
LEMMA EvaluatedRow ==
  ASSUME NEW rec \in Row
  PROVE  /\ profile(evaluated(rec)) = profile(rec)
         /\ answeredFields(evaluated(rec)) = answeredFields(rec)
         /\ evaluated(rec).finalized <=> missingFields(profile(evaluated(rec))) = {}
         /\ evaluated(rec).session = "ready" <=> evaluated(rec).finalized
<1>1. profile(evaluated(rec)) = profile(rec) /\ answeredFields(evaluated(rec)) = answeredFields(rec)
  BY IntakeType DEF profile, answeredFields
<1>2. /\ evaluateProfile(profile(rec)) = "ready" <=> missingFields(profile(rec)) = {}
  BY DEF evaluateProfile
<1> QED
  BY <1>1, <1>2, IntakeType

\* The events of an intake, counted.
LEMMA CountReady ==
  ASSUME NEW s \in Seq(Event), NEW rec, NEW type
  PROVE  /\ s \o readyEvents(rec) \in Seq(Event)
         /\ count(s \o readyEvents(rec), type)
              = count(s, type) + IF rec.finalized /\ type = "intake.ready" THEN 1 ELSE 0
<1>1. count(s, type) \in Nat
  BY EventType, CountOne
<1>2. s \o readyEvents(rec) \in Seq(Event)
  BY EventType, ConcatProperties
<1>3. CASE rec.finalized
  <2>1. lifecycleEvent("intake.ready") \in Event /\ lifecycleEvent("intake.ready").type = "intake.ready"
    BY EventType DEF lifecycleEvent
  <2>2. readyEvents(rec) = <<lifecycleEvent("intake.ready")>>
    BY <1>3 DEF readyEvents
  <2> QED
    BY <1>2, <1>3, <2>1, <2>2, CountOne
<1>4. CASE ~rec.finalized
  <2>1. readyEvents(rec) = <<>> /\ s \o <<>> = s
    BY <1>4, ConcatEmptySeq DEF readyEvents
  <2> QED
    BY <1>1, <1>2, <1>4, <2>1
<1> QED
  BY <1>3, <1>4

\* The log a run begins with: no answers, and ready only if nothing is missing.
LEMMA CountFirst ==
  ASSUME NEW rec
  PROVE  LET s == <<lifecycleEvent("intake.started")>> \o readyEvents(rec) \o <<lifecycleEvent("run.started")>>
         IN  /\ count(s, "intake.ready") = (IF rec.finalized THEN 1 ELSE 0)
             /\ count(s, "intake.answered") = 0
<1> DEFINE a == lifecycleEvent("intake.started")
           z == lifecycleEvent("run.started")
<1>1. a \in Event /\ z \in Event /\ a.type = "intake.started" /\ z.type = "run.started"
  BY EventType DEF lifecycleEvent
<1>2. <<a>> \in Seq(Event) /\ <<>> \o <<a>> = <<a>> /\ <<>> \in Seq(Event)
  BY <1>1
<1> HIDE DEF a, z
<1>3. ASSUME NEW type
      PROVE  count(<<a>>, type) = IF a.type = type THEN 1 ELSE 0
  <2>1. count(<<>> \o <<a>>, type) = count(<<>>, type) + IF a.type = type THEN 1 ELSE 0
    BY <1>1, <1>2, CountOne
  <2> QED
    BY <1>2, <2>1, CountEmpty
<1> DEFINE s == <<a>>  w == <<a>> \o readyEvents(rec)
<1>4. s \in Seq(Event) /\ (\A type : count(s, type) = IF a.type = type THEN 1 ELSE 0)
  BY <1>2, <1>3
<1>5. w = s \o readyEvents(rec)
  OBVIOUS
<1> HIDE DEF s, w
<1>6. w \in Seq(Event) /\ (\A type : count(w, type) = count(s, type) + IF rec.finalized /\ type = "intake.ready" THEN 1 ELSE 0)
  BY <1>4, <1>5, CountReady
<1>7. \A type : count(w \o <<z>>, type) = count(w, type) + IF z.type = type THEN 1 ELSE 0
  BY <1>1, <1>6, CountOne
<1>8. count(w \o <<z>>, "intake.ready") = (IF rec.finalized THEN 1 ELSE 0)
  BY <1>1, <1>4, <1>6, <1>7
<1>9. count(w \o <<z>>, "intake.answered") = 0
  BY <1>1, <1>4, <1>6, <1>7
<1> QED
  BY <1>8, <1>9 DEF a, z, w

\* The steps of a client are not counted as events of the intake.
LEMMA CountSteps ==
  ASSUME NEW s \in Seq(Event), NEW b \in Batches, NEW type, type # "step"
  PROVE  count(s \o b, type) = count(s, type)
<1>1. \A e \in Steps : e \in Event /\ e.type = "step"
  BY DEF Steps, step, Event
<1>2. CASE \E e \in Steps : b = <<e>>
  <2>1. PICK e \in Steps : b = <<e>>
    BY <1>2
  <2>2. e \in Event /\ e.type = "step"
    BY <1>1
  <2> DEFINE t == <<e>>
  <2>3. count(s, type) \in Nat /\ count(s \o t, type) = count(s, type) + IF e.type = type THEN 1 ELSE 0
    BY <2>2, CountOne
  <2>4. b = t
    BY <2>1
  <2> HIDE DEF t
  <2>5. count(s \o t, type) = count(s, type)
    BY <2>2, <2>3
  <2> QED
    BY <2>4, <2>5
<1>3. CASE b \in Steps \X Steps
  <2>1. b \in Seq(Event) /\ Len(b) = 2 /\ b[1] \in Steps /\ b[2] \in Steps
    <3>1. PICK d \in Steps, e \in Steps : b = <<d, e>>
      BY <1>3
    <3>2. d \in Event /\ e \in Event
      BY <1>1
    <3> QED
      BY <3>1, <3>2
  <2>2. count(s, type) \in Nat
    BY EventType, CountOne
  <2> QED
    BY <1>1, <2>1, <2>2, CountTwo
<1> QED
  BY <1>2, <1>3 DEF Batches
\* The next question asks for something that is missing.
LEMMA NextQuestion ==
  ASSUME NEW known, missingFields(known) # {}
  PROVE  nextQuestion(known) \in missingFields(known)
<1> DEFINE first(i) == Fields[i] \in missingFields(known)
                       /\ \A j \in 1..(i - 1) : Fields[j] \notin missingFields(known)
<1>1. missingFields(known) \subseteq Field
  BY DEF missingFields
<1>2. \E i \in 1..3 : first(i)
  <2>1. Fields[1] = "taskType" /\ Fields[2] = "target" /\ Fields[3] = "expected"
    BY DEF Fields
  <2>2. \E i \in 1..3 : Fields[i] \in missingFields(known)
    BY <1>1, <2>1 DEF Field
  <2>3. CASE Fields[1] \in missingFields(known)
    BY <2>3
  <2>4. CASE Fields[1] \notin missingFields(known) /\ Fields[2] \in missingFields(known)
    <3>1. \A j \in 1..(2 - 1) : j = 1
      OBVIOUS
    <3> QED
      BY <2>4, <3>1
  <2>5. CASE Fields[1] \notin missingFields(known) /\ Fields[2] \notin missingFields(known)
    <3>1. \A j \in 1..(3 - 1) : j = 1 \/ j = 2
      OBVIOUS
    <3>2. Fields[3] \in missingFields(known)
      <4>1. \A j \in 1..3 : j = 1 \/ j = 2 \/ j = 3
        OBVIOUS
      <4> QED
        BY <2>2, <2>5, <4>1
    <3> QED
      BY <2>5, <3>1, <3>2
  <2> QED
    BY <2>3, <2>4, <2>5
<1> QED
  BY <1>2 DEF nextQuestion

\* Answers are given to finitely many fields.
LEMMA FieldsFinite ==
  ASSUME NEW rec
  PROVE  IsFiniteSet(answeredFields(rec))
<1>1. IsFiniteSet({}) /\ IsFiniteSet({} \cup {"taskType"})
  BY FS_EmptySet, FS_AddElement
<1>2. IsFiniteSet(({} \cup {"taskType"}) \cup {"target"})
  BY <1>1, FS_AddElement
<1>3. IsFiniteSet((({} \cup {"taskType"}) \cup {"target"}) \cup {"expected"})
  BY <1>2, FS_AddElement
<1>4. Field = (({} \cup {"taskType"}) \cup {"target"}) \cup {"expected"}
  BY DEF Field
<1>5. IsFiniteSet(Field) /\ answeredFields(rec) \subseteq Field
  BY <1>3, <1>4 DEF answeredFields
<1> QED
  BY <1>5, FS_Subset

\* A new run tells its story.
LEMMA StartConsistent ==
  ASSUME NEW h \in SUBSET Field, NEW q \in Runs \cup {None}
  PROVE  LET rec == startAkinator(h, q)
         IN  /\ consistent(rec, <<lifecycleEvent("intake.started")>> \o readyEvents(rec)
                                  \o <<lifecycleEvent("run.started")>>, projectProfile(rec))
             /\ stated(rec) <=> "target" \in h
<1> DEFINE raw == [NoRow EXCEPT !.status = "active", !.hinted = h, !.adopted = q]
           rec == evaluated(raw)
           evs == <<lifecycleEvent("intake.started")>> \o readyEvents(rec) \o <<lifecycleEvent("run.started")>>
<1>1. raw \in Row /\ raw.hinted = h /\ raw.answer = [f \in Field |-> None]
  BY NoRowType DEF NoRow, Row
<1>2. startAkinator(h, q) = rec
  BY DEF startAkinator
<1> HIDE DEF raw
<1>3. /\ profile(rec) = profile(raw) /\ answeredFields(rec) = answeredFields(raw)
      /\ rec.finalized <=> missingFields(profile(rec)) = {}
      /\ rec.session = "ready" <=> rec.finalized
      /\ rec.hinted = h
  BY <1>1, EvaluatedRow, IntakeType
<1>4. answeredFields(raw) = {}
  BY <1>1 DEF answeredFields
<1>5. count(evs, "intake.ready") = (IF rec.finalized THEN 1 ELSE 0) /\ count(evs, "intake.answered") = 0
  BY CountFirst
<1> HIDE DEF rec, evs
<1>6. Cardinality(answeredFields(rec)) = 0
  BY <1>3, <1>4, FS_EmptySet
<1>7. projectProfile(rec) # None => projectProfile(rec) = profile(rec)
  BY DEF projectProfile
<1>8. consistent(rec, evs, projectProfile(rec))
  BY <1>3, <1>4, <1>5, <1>6, <1>7 DEF consistent
<1>9. stated(rec) <=> "target" \in h
  BY <1>3, <1>4 DEF stated
<1> QED
  BY <1>2, <1>8, <1>9 DEF evs

\* An answer that is accepted continues it: the field it answers was missing.
LEMMA AnswerConsistent ==
  ASSUME NEW rec \in Row, NEW evs \in Seq(Event), NEW doc, consistent(rec, evs, doc),
         NEW f \in Field, NEW v \in Values, rec.session = "active", f = nextQuestion(profile(rec))
  PROVE  LET new == applyAnswer(rec, f, v)
         IN  /\ consistent(new, evs \o (<<lifecycleEvent("intake.answered")>> \o readyEvents(new)),
                           projectProfile(new))
             /\ new.adopted # None => stated(new) <=> stated(rec)
<1> DEFINE raw == [rec EXCEPT !.answer[f] = v]
           new == evaluated(raw)
           a == lifecycleEvent("intake.answered")
<1>1. /\ raw \in Row /\ raw.hinted = rec.hinted /\ raw.adopted = rec.adopted
      /\ raw.answer = [rec.answer EXCEPT ![f] = v] /\ rec.answer \in [Field -> Values \cup {None}]
  BY DEF Row
<1>2. applyAnswer(rec, f, v) = new
  BY DEF applyAnswer
<1> HIDE DEF raw
<1>3. /\ profile(new) = profile(raw) /\ answeredFields(new) = answeredFields(raw)
      /\ new.finalized <=> missingFields(profile(new)) = {}
      /\ new.session = "ready" <=> new.finalized
      /\ new.hinted = rec.hinted /\ new.adopted = rec.adopted
  BY <1>1, EvaluatedRow, IntakeType
<1> HIDE DEF new
<1>4. ~rec.finalized /\ f \notin profile(rec)
  <2>1. ~rec.finalized /\ missingFields(profile(rec)) # {}
    BY DEF consistent
  <2> QED
    BY <2>1, NextQuestion DEF missingFields
<1>5. v # None
  BY TaskRunsAssumption DEF TaskRunsAssumption
<1>6. answeredFields(raw) = answeredFields(rec) \cup {f} /\ f \notin answeredFields(rec) /\ f \notin rec.hinted
  <2>1. f \notin answeredFields(rec) /\ f \notin rec.hinted
    BY <1>4 DEF profile
  <2>2. \A g \in Field : raw.answer[g] = IF g = f THEN v ELSE rec.answer[g]
    BY <1>1
  <2> QED
    BY <1>5, <2>1, <2>2 DEF answeredFields
<1>7. Cardinality(answeredFields(new)) = Cardinality(answeredFields(rec)) + 1
  <2>1. IsFiniteSet(answeredFields(rec))
    BY FieldsFinite
  <2>2. Cardinality(answeredFields(rec) \cup {f}) = Cardinality(answeredFields(rec)) + 1
    BY <1>6, <2>1, FS_AddElement
  <2> QED
    BY <1>3, <1>6, <2>2
<1>8. /\ a \in Event /\ a.type = "intake.answered"
  BY EventType DEF lifecycleEvent
<1> DEFINE s == <<a>>  w == evs \o s
<1>9. /\ s \in Seq(Event) /\ w \in Seq(Event)
      /\ \A type : count(w, type) = count(evs, type) + IF a.type = type THEN 1 ELSE 0
  BY <1>8, CountOne, ConcatProperties
<1> HIDE DEF s, a
<1>10. evs \o (s \o readyEvents(new)) = w \o readyEvents(new)
  BY <1>9, EventType, ConcatAssociative
<1> HIDE DEF w
<1>11. \A type : count(w \o readyEvents(new), type)
                  = count(w, type) + IF new.finalized /\ type = "intake.ready" THEN 1 ELSE 0
  BY <1>9, CountReady
<1>12. count(evs, "intake.ready") = 0 /\ count(evs, "intake.answered") = Cardinality(answeredFields(rec))
  BY <1>4 DEF consistent
<1>13. count(w \o readyEvents(new), "intake.ready") = (IF new.finalized THEN 1 ELSE 0)
  BY <1>8, <1>9, <1>11, <1>12
<1>14. count(w \o readyEvents(new), "intake.answered") = Cardinality(answeredFields(new))
  <2>1. Cardinality(answeredFields(rec)) \in Nat
    BY FieldsFinite, FS_CardinalityType
  <2> QED
    BY <1>7, <1>8, <1>9, <1>11, <1>12, <2>1
<1>15. answeredFields(new) \cap new.hinted = {}
  BY <1>3, <1>6 DEF consistent
<1>16. projectProfile(new) # None => projectProfile(new) = profile(new)
  BY DEF projectProfile
<1>17. consistent(new, evs \o (s \o readyEvents(new)), projectProfile(new))
  BY <1>3, <1>10, <1>13, <1>14, <1>15, <1>16 DEF consistent
<1>18. new.adopted # None => stated(new) <=> stated(rec)
  BY <1>3, <1>4, <1>6 DEF stated, profile
<1> QED
  BY <1>2, <1>17, <1>18 DEF s, a
\* An empty ledger tells no story.
LEMMA StoryInit ==
  ASSUME Init
  PROVE  StoryInv
<1>1. RunInv
  BY TypeInit
<1> QED
  BY <1>1 DEF Init, StoryInv, ReceiptsStay, OneRunPerRequest, AdoptedInv, once, exists, NoRow

\* What the story says of the log and the intake of one run.
runStory(r) == once(log[r]) /\ (exists(r) => consistent(run[r], log[r], document[r]))

\* Each part of the story, for the steps that leave its state alone.
LEMMA StoryFrame ==
  ASSUME StoryInv, RunInv'
  PROVE  /\ UNCHANGED madeFor /\ receipts \subseteq receipts' => (ReceiptsStay /\ OneRunPerRequest)'
         /\ \A r \in Runs : run'[r] = run[r] /\ log'[r] = log[r] /\ document'[r] = document[r] => runStory(r)'
         /\ UNCHANGED <<run, tombstones>> => AdoptedInv'
<1>1. ASSUME UNCHANGED madeFor, receipts \subseteq receipts'
      PROVE  (ReceiptsStay /\ OneRunPerRequest)'
  BY <1>1 DEF StoryInv, ReceiptsStay, OneRunPerRequest, stored
<1>2. ASSUME NEW r \in Runs, run'[r] = run[r], log'[r] = log[r], document'[r] = document[r]
      PROVE  runStory(r)'
  BY <1>2 DEF StoryInv, runStory, exists
<1>3. ASSUME UNCHANGED <<run, tombstones>>
      PROVE  AdoptedInv'
  BY <1>3 DEF StoryInv, AdoptedInv
<1> QED
  BY <1>1, <1>2, <1>3

\* A run that was not adopted by another may change.
LEMMA NobodyAdopted ==
  ASSUME StoryInv, NEW r \in Runs, r \notin tombstones, run[r].status # "completed"
  PROVE  \A q \in Runs : run[q].adopted # r
BY TaskRunsAssumption DEF StoryInv, AdoptedInv, TaskRunsAssumption

\* Adoptions stay justified when one run changes that has neither completed nor gone.
LEMMA AdoptedStep ==
  ASSUME StoryInv, RunInv', NEW r \in Runs, r \notin tombstones, run[r].status # "completed",
         NEW rec \in Row, run' = [run EXCEPT ![r] = rec], UNCHANGED tombstones,
         rec.adopted # None =>
           /\ ~stated(rec) /\ rec.adopted # r
           /\ rec.adopted \in tombstones \/ (run[rec.adopted].status = "completed" /\ stated(run[rec.adopted]))
  PROVE  AdoptedInv'
<1>1. run'[r] = rec /\ \A q \in Runs \ {r} : run'[q] = run[q]
  BY DEF StoryInv, RunInv, TypeOK
<1>2. \A q \in Runs : run[q].adopted # r
  BY NobodyAdopted
<1>3. \A q \in Runs : run'[q].adopted \in Runs \cup {None}
  BY DEF RunInv, TypeOK, Row
<1> SUFFICES ASSUME NEW q \in Runs, run'[q].adopted # None
             PROVE  /\ ~stated(run'[q])
                    /\ run'[q].adopted \in tombstones
                       \/ (run'[run'[q].adopted].status = "completed" /\ stated(run'[run'[q].adopted]))
  BY DEF AdoptedInv, stated
<1>4. CASE q = r
  BY <1>1, <1>3, <1>4
<1>5. CASE q # r
  <2>1. /\ run'[q] = run[q] /\ run[q].adopted # r /\ run[q].adopted \in Runs
    BY <1>1, <1>2, <1>3, <1>5
  <2>2. /\ ~stated(run[q])
        /\ run[q].adopted \in tombstones
           \/ (run[run[q].adopted].status = "completed" /\ stated(run[run[q].adopted]))
    BY <2>1 DEF StoryInv, AdoptedInv
  <2> QED
    BY <1>1, <2>1, <2>2
<1> QED
  BY <1>4, <1>5
\* What an outcome leaves of a row does not matter to the story.
LEMMA OutcomeStory ==
  ASSUME StoryInv, RunInv', NEW r \in Runs, exists(r), NEW how \in Terminal,
         run' = [run EXCEPT ![r] = updatedStatus(@, how)],
         UNCHANGED <<log, receipts, tombstones, document, madeFor>>
  PROVE  StoryInv'
<1> DEFINE rec == updatedStatus(run[r], how)
<1>1. /\ run \in [Runs -> Row] /\ run[r] \in Row /\ r \notin tombstones
      /\ consistent(run[r], log[r], document[r]) /\ once(log[r])
  BY DEF StoryInv, RunInv, TypeOK
<1>2. (ReceiptsStay /\ OneRunPerRequest)'
  BY StoryFrame
<1>3. CASE run[r].status \in Terminal
  <2>1. run' = run
    BY <1>1, <1>3 DEF updatedStatus
  <2> QED
    BY <1>2, <2>1, StoryFrame DEF StoryInv, runStory
<1>4. CASE run[r].status \notin Terminal
  <2>1. /\ rec \in Row /\ rec.hinted = run[r].hinted /\ rec.answer = run[r].answer
        /\ rec.adopted = run[r].adopted /\ rec.session = run[r].session /\ rec.finalized = run[r].finalized
    BY <1>1, <1>4 DEF updatedStatus, Row
  <2>2. run' = [run EXCEPT ![r] = rec]
    OBVIOUS
  <2> HIDE DEF rec
  <2>3. /\ profile(rec) = profile(run[r]) /\ answeredFields(rec) = answeredFields(run[r])
        /\ stated(rec) <=> stated(run[r])
    BY <2>1 DEF profile, answeredFields, stated
  <2>4. consistent(rec, log[r], document[r])
    BY <1>1, <2>1, <2>3 DEF consistent
  <2>5. run'[r] = rec /\ \A q \in Runs \ {r} : run'[q] = run[q]
    BY <1>1, <2>2
  <2>6. \A q \in Runs : runStory(q)'
    <3>1. runStory(r)'
      BY <1>1, <2>4, <2>5 DEF runStory
    <3>2. \A q \in Runs \ {r} : runStory(q)'
      BY <2>5, StoryFrame
    <3> QED
      BY <3>1, <3>2
  <2>7. AdoptedInv'
    <3>1. run[r].status # "completed"
      BY <1>4 DEF Terminal
    <3>2. rec.adopted # None =>
            /\ ~stated(rec) /\ rec.adopted # r
            /\ rec.adopted \in tombstones \/ (run[rec.adopted].status = "completed" /\ stated(run[rec.adopted]))
      BY <1>1, <2>1, <2>3, <3>1, NobodyAdopted DEF StoryInv, AdoptedInv
    <3> QED
      BY <1>1, <2>1, <2>2, <3>1, <3>2, AdoptedStep
  <2> QED
    BY <1>2, <2>6, <2>7 DEF StoryInv, runStory
<1> QED
  BY <1>3, <1>4

\* A purge forgets the runs with their story, not their requests.
LEMMA PurgeStory ==
  ASSUME StoryInv, RunInv', NEW S \in SUBSET Runs, executePurge(S), UNCHANGED madeFor
  PROVE  StoryInv'
<1>1. /\ run' = [r \in Runs |-> IF r \in S THEN NoRow ELSE run[r]]
      /\ log' = [r \in Runs |-> IF r \in S THEN <<>> ELSE log[r]]
      /\ document' = [r \in Runs |-> IF r \in S THEN None ELSE document[r]]
      /\ receipts' = scrubbedReceipts(S) /\ tombstones' = tombstones \cup S
  BY DEF executePurge
<1>2. (ReceiptsStay /\ OneRunPerRequest)'
  <2>1. ASSUME NEW r \in Runs, madeFor[r] # None
        PROVE  \E x \in receipts' : x.scope = "create" /\ x.key = madeFor[r]
    <3>1. PICK x \in receipts : x.scope = "create" /\ x.key = madeFor[r]
      BY <2>1 DEF StoryInv, ReceiptsStay, stored
    <3>2. CASE x.run \notin S
      BY <1>1, <3>1, <3>2 DEF scrubbedReceipts
    <3>3. CASE x.run \in S
      <4>1. [x EXCEPT !.run = None] \in receipts'
        BY <1>1, <3>3 DEF scrubbedReceipts
      <4>2. [x EXCEPT !.run = None].scope = "create" /\ [x EXCEPT !.run = None].key = madeFor[r]
        BY <3>1 DEF StoryInv, RunInv, TypeOK, Receipt
      <4> QED
        BY <4>1, <4>2
    <3> QED
      BY <3>2, <3>3
  <2> QED
    BY <2>1 DEF StoryInv, ReceiptsStay, OneRunPerRequest, stored
<1>3. \A r \in Runs : runStory(r)'
  <2>1. ASSUME NEW r \in Runs, r \in S
        PROVE  runStory(r)'
    BY <1>1, <2>1 DEF runStory, once, exists, NoRow
  <2>2. ASSUME NEW r \in Runs, r \notin S
        PROVE  runStory(r)'
    BY <1>1, <2>2, StoryFrame
  <2> QED
    BY <2>1, <2>2
<1>4. AdoptedInv'
  <2> SUFFICES ASSUME NEW r \in Runs, run'[r].adopted # None
               PROVE  /\ ~stated(run'[r])
                      /\ run'[r].adopted \in tombstones'
                         \/ (run'[run'[r].adopted].status = "completed" /\ stated(run'[run'[r].adopted]))
    BY DEF AdoptedInv, stated
  <2>1. run'[r] = run[r]
    BY <1>1 DEF NoRow
  <2>2. run[r].adopted \in Runs
    BY <2>1 DEF StoryInv, RunInv, TypeOK, Row
  <2>3. /\ ~stated(run[r])
        /\ run[r].adopted \in tombstones
           \/ (run[run[r].adopted].status = "completed" /\ stated(run[run[r].adopted]))
    BY <2>1 DEF StoryInv, AdoptedInv
  <2> QED
    BY <1>1, <2>1, <2>2, <2>3
<1> QED
  BY <1>2, <1>3, <1>4 DEF StoryInv, runStory
\* A new run begins its story, under the receipt of its request.
LEMMA CreateStory ==
  ASSUME StoryInv, RunInv', NEW p \in Procs, NEW k \in Keys, NEW h \in Hints, NEW r \in Runs,
         NEW q \in Runs \cup {None}, createRun(p, k, h, r, q)
  PROVE  StoryInv'
<1> DEFINE rec == startAkinator(h, q)
           evs == <<lifecycleEvent("intake.started")>> \o readyEvents(rec) \o <<lifecycleEvent("run.started")>>
<1>1. /\ stored("create", k) = {} /\ run[r].status = "none" /\ r \notin tombstones
      /\ q \in probeProfileMemory(h)
      /\ run' = [run EXCEPT ![r] = rec] /\ log' = [log EXCEPT ![r] = evs]
      /\ document' = [document EXCEPT ![r] = projectProfile(rec)]
      /\ receipts' = receipts \cup {receipt("create", k, h, r)}
      /\ madeFor' = [madeFor EXCEPT ![r] = k] /\ UNCHANGED tombstones
  BY DEF createRun, unused, exists
<1>2. /\ h \in SUBSET Field /\ k # None /\ None \notin Runs
  BY TaskRunsAssumption DEF TaskRunsAssumption
<1>3. /\ run \in [Runs -> Row] /\ log \in [Runs -> Seq(Event)] /\ madeFor \in [Runs -> Keys \cup {None}]
      /\ document \in [Runs -> (SUBSET Field) \cup {None}]
  BY DEF StoryInv, RunInv, TypeOK
<1>4. rec \in Row /\ rec.adopted = q
  BY <1>2, StartType
<1>5. consistent(rec, evs, projectProfile(rec)) /\ (stated(rec) <=> "target" \in h)
  BY <1>2, StartConsistent
<1>6. ownEvents(evs)
  BY OwnEvents
<1> HIDE DEF rec, evs
<1>7. /\ run'[r] = rec /\ log'[r] = evs /\ document'[r] = projectProfile(rec) /\ madeFor'[r] = k
      /\ \A s \in Runs \ {r} : /\ run'[s] = run[s] /\ log'[s] = log[s] /\ document'[s] = document[s]
                               /\ madeFor'[s] = madeFor[s]
  BY <1>1, <1>3
<1>8. ReceiptsStay'
  <2>1. receipt("create", k, h, r) \in receipts' /\ receipts \subseteq receipts'
    BY <1>1
  <2> QED
    BY <1>7, <2>1 DEF StoryInv, ReceiptsStay, stored, receipt
<1>9. OneRunPerRequest'
  <2>1. \A s \in Runs \ {r} : madeFor[s] # k
    BY <1>1, <1>2 DEF StoryInv, ReceiptsStay
  <2> QED
    BY <1>2, <1>7, <2>1 DEF StoryInv, OneRunPerRequest
<1>10. \A s \in Runs : runStory(s)'
  <2>1. runStory(r)'
    BY <1>5, <1>6, <1>7 DEF runStory, once, ownEvents
  <2>2. \A s \in Runs \ {r} : runStory(s)'
    BY <1>7, StoryFrame
  <2> QED
    BY <2>1, <2>2
<1>11. AdoptedInv'
  <2>1. ASSUME q # None
        PROVE  ~stated(rec) /\ q # r /\ run[q].status = "completed" /\ stated(run[q])
    BY <1>1, <1>5, <2>1 DEF probeProfileMemory, adoptable, stated
  <2> QED
    BY <1>1, <1>4, <2>1, AdoptedStep
<1> QED
  BY <1>8, <1>9, <1>10, <1>11 DEF StoryInv, runStory

\* An answer goes on with the story of its run.
LEMMA AnswerStory ==
  ASSUME StoryInv, RunInv', NEW p \in Procs, NEW r \in Runs, NEW f \in Field, NEW v \in Values,
         answerIntake(p, r, f, v)
  PROVE  StoryInv'
<1> DEFINE rec == applyAnswer(run[r], f, v)
           evs == <<lifecycleEvent("intake.answered")>> \o readyEvents(rec)
<1>1. (ReceiptsStay /\ OneRunPerRequest)'
  BY StoryFrame DEF answerIntake
<1>2. CASE UNCHANGED <<run, log, document>>
  BY <1>1, <1>2, StoryFrame DEF StoryInv, runStory, answerIntake
<1>3. CASE ~UNCHANGED <<run, log, document>>
  <2>1. /\ run[r].session = "active" /\ f = nextQuestion(profile(run[r])) /\ run[r].status = "active"
        /\ run' = [run EXCEPT ![r] = rec] /\ appendPreparedBatch(r, evs)
        /\ document' = [document EXCEPT ![r] = projectProfile(rec)] /\ UNCHANGED tombstones
    BY <1>3 DEF answerIntake, acceptsAnswer
  <2>2. /\ run[r] \in Row /\ log[r] \in Seq(Event) /\ r \notin tombstones
        /\ consistent(run[r], log[r], document[r]) /\ once(log[r])
    BY <2>1 DEF StoryInv, RunInv, TypeOK, exists
  <2>3. /\ rec \in Row /\ rec.adopted = run[r].adopted
    BY <2>2, AnswerType
  <2>4. /\ consistent(rec, log[r] \o evs, projectProfile(rec))
        /\ rec.adopted # None => (stated(rec) <=> stated(run[r]))
    BY <2>1, <2>2, AnswerConsistent
  <2>5. ownEvents(evs) /\ evs \in Seq(Event)
    BY OwnEvents, AnswerEventsType
  <2> HIDE DEF rec, evs
  <2>6. once(log[r] \o evs)
    BY <2>2, <2>5, OnceConcat DEF ownEvents, once
  <2>7. existingRows(r, evs) = {}
    BY <2>5 DEF existingRows, ownEvents
  <2>8. /\ run'[r] = rec /\ log'[r] = log[r] \o evs /\ document'[r] = projectProfile(rec)
        /\ \A s \in Runs \ {r} : run'[s] = run[s] /\ log'[s] = log[s] /\ document'[s] = document[s]
    BY <2>1, <2>7 DEF StoryInv, RunInv, TypeOK, appendPreparedBatch, Terminal
  <2>9. \A s \in Runs : runStory(s)'
    <3>1. runStory(r)'
      BY <2>4, <2>6, <2>8 DEF runStory
    <3>2. \A s \in Runs \ {r} : runStory(s)'
      BY <2>8, StoryFrame
    <3> QED
      BY <3>1, <3>2
  <2>10. AdoptedInv'
    <3>1. run[r].status # "completed"
      BY <2>1
    <3>2. rec.adopted # None =>
            /\ ~stated(rec) /\ rec.adopted # r
            /\ rec.adopted \in tombstones \/ (run[rec.adopted].status = "completed" /\ stated(run[rec.adopted]))
      BY <2>2, <2>3, <2>4, <3>1, NobodyAdopted DEF StoryInv, AdoptedInv
    <3> QED
      BY <2>1, <2>2, <2>3, <3>1, <3>2, AdoptedStep
  <2> QED
    BY <1>1, <2>9, <2>10 DEF StoryInv, runStory
<1> QED
  BY <1>2, <1>3

\* Events from outside are taken once, and say nothing of the intake.
LEMMA AppendStory ==
  ASSUME StoryInv, RunInv', NEW r \in Runs, NEW b \in Batches, appendBatch(r, b)
  PROVE  StoryInv'
<1>1. (ReceiptsStay /\ OneRunPerRequest)' /\ AdoptedInv'
  BY StoryFrame DEF appendBatch
<1>2. /\ UNCHANGED <<run, document>> /\ appendPreparedBatch(r, b)
      /\ log \in [Runs -> Seq(Event)] /\ b \in Seq(Event)
      /\ consistent(run[r], log[r], document[r]) /\ once(log[r])
  BY EventType DEF appendBatch, StoryInv, RunInv, TypeOK
<1>3. CASE existingRows(r, b) = {} /\ run[r].status \notin Terminal
  <2>1. /\ log'[r] = log[r] \o b /\ \A s \in Runs \ {r} : log'[s] = log[s]
    BY <1>2, <1>3 DEF appendPreparedBatch
  <2>2. \A i \in 1..Len(log[r]), j \in 1..Len(b) : b[j].source # None => log[r][i].source # b[j].source
    BY <1>3 DEF existingRows
  <2>3. once(log[r] \o b)
    BY <1>2, <2>2, BatchOnce, OnceConcat
  <2>4. consistent(run[r], log[r] \o b, document[r])
    <3>1. /\ count(log[r] \o b, "intake.ready") = count(log[r], "intake.ready")
          /\ count(log[r] \o b, "intake.answered") = count(log[r], "intake.answered")
      BY <1>2, CountSteps
    <3> QED
      BY <1>2, <3>1 DEF consistent
  <2>5. \A s \in Runs : runStory(s)'
    <3>1. runStory(r)'
      BY <1>2, <2>1, <2>3, <2>4 DEF runStory
    <3>2. \A s \in Runs \ {r} : runStory(s)'
      BY <1>2, <2>1, StoryFrame
    <3> QED
      BY <3>1, <3>2
  <2> QED
    BY <1>1, <2>5 DEF StoryInv, runStory
<1>4. CASE ~(existingRows(r, b) = {} /\ run[r].status \notin Terminal)
  <2>1. log' = log
    BY <1>2, <1>4 DEF appendPreparedBatch
  <2> QED
    BY <1>1, <1>2, <2>1, StoryFrame DEF StoryInv, runStory
<1> QED
  BY <1>3, <1>4
\* StoryInv is inductive.
LEMMA StoryStep ==
  ASSUME StoryInv, [Next]_vars
  PROVE  StoryInv'
<1>1. RunInv' /\ RunInv
  BY RunStep DEF StoryInv
<1>2. ASSUME UNCHANGED <<run, log, receipts, tombstones, document, madeFor>>
      PROVE  StoryInv'
  BY <1>1, <1>2, StoryFrame DEF StoryInv, runStory
<1>3. ASSUME NEW p \in Procs, failOpenCodeTaskRunAfterAbort(p)
      PROVE  StoryInv'
  <2>1. "failed" \in Terminal /\ proc[p] \in Runs
    BY <1>1, <1>3 DEF failOpenCodeTaskRunAfterAbort, Terminal, RunInv, TypeOK
  <2>2. CASE exists(proc[p])
    BY <1>1, <1>3, <2>1, <2>2, OutcomeStory DEF failOpenCodeTaskRunAfterAbort
  <2>3. CASE ~exists(proc[p])
    BY <1>2, <1>3, <2>3 DEF failOpenCodeTaskRunAfterAbort
  <2> QED
    BY <2>2, <2>3
<1>4. ASSUME NEW r \in Runs, NEW s \in Outcomes, updateRunStatus(r, s)
      PROVE  StoryInv'
  BY <1>1, <1>4, OutcomeStory, TaskRunsAssumption DEF updateRunStatus, TaskRunsAssumption
<1>5. ASSUME NEW r \in Runs, purgeLedgerTarget(r)
      PROVE  StoryInv'
  <2>1. {r} \in SUBSET Runs /\ executePurge({r}) /\ UNCHANGED madeFor
    BY <1>5 DEF purgeLedgerTarget
  <2> QED
    BY <1>1, <2>1, PurgeStory
<1>6. CASE purgeUnfinishedLedgerRuns
  <2>1. CASE digestMatches(plan)
    <3>1. DOMAIN plan \in SUBSET Runs
      BY <2>1 DEF digestMatches, currentPlan, candidates
    <3> QED
      BY <1>1, <1>6, <2>1, <3>1, PurgeStory DEF purgeUnfinishedLedgerRuns
  <2>2. CASE ~digestMatches(plan)
    BY <1>2, <1>6, <2>2 DEF purgeUnfinishedLedgerRuns
  <2> QED
    BY <2>1, <2>2
<1>7. ASSUME NEW p \in Procs, NEW k \in Keys, NEW h \in Hints, NEW r \in Runs, NEW q \in Runs \cup {None},
             createRun(p, k, h, r, q)
      PROVE  StoryInv'
  BY <1>1, <1>7, CreateStory
<1>8. ASSUME NEW p \in Procs, NEW r \in Runs, NEW f \in Field, NEW v \in Values, answerIntake(p, r, f, v)
      PROVE  StoryInv'
  BY <1>1, <1>8, AnswerStory
<1>9. ASSUME NEW r \in Runs, NEW b \in Batches, appendBatch(r, b)
      PROVE  StoryInv'
  BY <1>1, <1>9, AppendStory
<1>10. ASSUME NEW p \in Procs, NEW k \in Keys, NEW h \in Hints, replayCreate(p, k, h)
       PROVE  StoryInv'
  BY <1>2, <1>10 DEF replayCreate
<1>11. ASSUME NEW p \in Procs, NEW r \in Runs, NEW f \in Field, NEW v \in Values, replayAnswer(p, r, f, v)
       PROVE  StoryInv'
  BY <1>2, <1>11 DEF replayAnswer
<1>12. ASSUME NEW p \in Procs, finishes(p)
       PROVE  StoryInv'
  BY <1>2, <1>12 DEF finishes
<1>13. CASE planUnfinishedLedgerRunCleanup \/ declineCleanup \/ UNCHANGED vars
  BY <1>2, <1>13 DEF planUnfinishedLedgerRunCleanup, declineCleanup, vars
<1> QED
  BY <1>3, <1>4, <1>5, <1>6, <1>7, <1>8, <1>9, <1>10, <1>11, <1>12, <1>13 DEF Next

(***************************************************************************)
(* A request makes one run and an event from outside one row, for ever;    *)
(* the session, the intake link, the profile document and the log of a run *)
(* agree about its intake; and a target taken from memory was stated by a  *)
(* client or a user in a run that completed.  For any number of requests,  *)
(* runs, processes, questions asked at once, retries, batches and purges.  *)
(***************************************************************************)
THEOREM StoryKept == Spec => []RequestIsOneStory
<1>1. ASSUME StoryInv
      PROVE  RequestIsOneStory
  <2>1. OneRunPerRequest /\ EventsOnce
    BY <1>1 DEF StoryInv, EventsOnce, once
  <2>2. IntakeConsistent
    <3>1. ASSUME NEW r \in Runs, exists(r)
          PROVE  consistent(run[r], log[r], document[r])
      BY <1>1, <3>1 DEF StoryInv
    <3>2. \A r \in Runs : \A type : countOf(r, type) = count(log[r], type)
      BY DEF countOf, count
    <3> QED
      BY <3>1, <3>2 DEF IntakeConsistent, consistent
  <2>3. AdoptedWasStated
    <3> SUFFICES ASSUME NEW r \in Runs, run[r].adopted # None, exists(run[r].adopted)
                 PROVE  /\ run[run[r].adopted].status = "completed" /\ run[run[r].adopted].adopted = None
                        /\ "target" \in profile(run[run[r].adopted])
      BY DEF AdoptedWasStated
    <3> DEFINE q == run[r].adopted
    <3>1. q \in Runs
      BY <1>1 DEF StoryInv, RunInv, TypeOK, Row
    <3>2. run[q].status = "completed" /\ stated(run[q])
      BY <1>1, <3>1 DEF StoryInv, AdoptedInv, RunInv
    <3>3. run[q].adopted = None
      BY <1>1, <3>1, <3>2 DEF StoryInv, AdoptedInv
    <3> QED
      BY <3>2, <3>3 DEF stated, profile
  <2> QED
    BY <2>1, <2>2, <2>3 DEF RequestIsOneStory
<1> QED
  BY <1>1, StoryInit, StoryStep, PTL DEF Spec
-----------------------------------------------------------------------------
(* How a run is executed: every reservation keeps the call it was made     *)
(* for, and what a call ran is what was reserved for it.                   *)

Invocations == [selection : Nat, contract : Nat, prompt : Prompts]
Selections == [choice : {"pending", "ordinary", "enno", "cancelled"}, revision : Nat]

ExecutionTypes ==
  /\ chosen \in Selections
  /\ contract \in {None} \cup [status : {"live", "ended"}, revision : Nat]
  /\ flight \in [Calls -> {None} \cup [invocation : Invocations, phase : {"begun", "called", "dropped"}]]
  /\ dispatches = [i \in DOMAIN dispatches |-> dispatches[i]]
  /\ \A i \in DOMAIN dispatches :
       dispatches[i] \in [call : Calls, status : {"started", "completed", "failed"}]

ReservedFor(rows, i, c) == i \in DOMAIN rows /\ rows[i].call = c

Reserved ==
  /\ \A c \in Calls : flight[c] # None => ReservedFor(dispatches, flight[c].invocation, c)
  /\ \A c \in DOMAIN ran : ReservedFor(dispatches, ran[c], c)

\* Receipts do not run ahead of the selection, and the latest is what it chose.
ReceiptsAgree ==
  \A op \in DOMAIN choices :
    /\ choices[op].revision \in Nat /\ choices[op].revision <= chosen.revision
    /\ choices[op].revision = chosen.revision => choices[op].choice = chosen.choice

ExecutionInv == ExecutionTypes /\ Reserved /\ ReceiptsAgree

\* ExecutionInv is inductive.
LEMMA ExecutionStep == ExecutionInv /\ [Execution!Next]_selectionVars => ExecutionInv'
<1> SUFFICES ASSUME ExecutionInv, [Execution!Next]_selectionVars PROVE ExecutionInv'
  OBVIOUS
<1>1. CASE Execution!contractStep
  <2>1. contract' \in {None} \cup [status : {"live", "ended"}, revision : Nat]
    <3>1. CASE contract = None
      BY <1>1, <3>1 DEF Execution!contractStep
    <3>2. CASE contract # None
      BY <1>1, <3>2 DEF Execution!contractStep, ExecutionInv, ExecutionTypes
    <3> QED
      BY <3>1, <3>2
  <2>2. UNCHANGED <<chosen, choices, dispatches, flight, ran>>
    BY <1>1 DEF Execution!contractStep
  <2> QED
    BY <2>1, <2>2 DEF ExecutionInv, ExecutionTypes, Reserved, ReservedFor, ReceiptsAgree
<1>2. CASE Execution!leaseChanges \/ Execution!checkpoint
  BY <1>2 DEF Execution!leaseChanges, Execution!checkpoint, ExecutionInv, ExecutionTypes, Reserved,
              ReservedFor, ReceiptsAgree
<1>3. ASSUME NEW op \in Operations, NEW choice \in {"ordinary", "enno", "cancelled"},
             Execution!selectExecution(op, choice)
      PROVE  ExecutionInv'
  <2>1. UNCHANGED <<dispatches, flight, ran>>
    BY <1>3 DEF Execution!selectExecution
  <2>2. CASE UNCHANGED <<status, chosen, contract, choices>>
    BY <2>1, <2>2 DEF ExecutionInv, ExecutionTypes, Reserved, ReservedFor, ReceiptsAgree
  <2>3. CASE ~UNCHANGED <<status, chosen, contract, choices>>
    <3>1. /\ chosen' = [choice |-> choice, revision |-> chosen.revision + 1]
          /\ contract' = IF choice = "enno" \/ contract = None THEN contract
                         ELSE [contract EXCEPT !.status = "ended"]
          /\ choices' = Execution!with(choices, op, [choice |-> choice, revision |-> chosen'.revision])
      BY <1>3, <2>3 DEF Execution!selectExecution
    <3>2. chosen' \in Selections /\ chosen'.revision = chosen.revision + 1 /\ chosen.revision \in Nat
      BY <3>1 DEF ExecutionInv, ExecutionTypes, Selections
    <3>3. contract' \in {None} \cup [status : {"live", "ended"}, revision : Nat]
      BY <3>1 DEF ExecutionInv, ExecutionTypes
    <3>4. ReceiptsAgree'
      <4>1. ASSUME NEW o \in DOMAIN choices'
            PROVE  /\ choices'[o].revision \in Nat /\ choices'[o].revision <= chosen'.revision
                   /\ choices'[o].revision = chosen'.revision => choices'[o].choice = chosen'.choice
        <5>1. CASE o = op
          <6>1. choices'[o] = [choice |-> choice, revision |-> chosen'.revision]
            BY <3>1, <5>1 DEF Execution!with
          <6> QED
            BY <3>1, <3>2, <6>1
        <5>2. CASE o # op
          <6>1. o \in DOMAIN choices /\ choices'[o] = choices[o]
            BY <3>1, <4>1, <5>2 DEF Execution!with
          <6> QED
            BY <3>2, <6>1 DEF ExecutionInv, ReceiptsAgree
        <5> QED
          BY <5>1, <5>2
      <4> QED
        BY <4>1 DEF ReceiptsAgree
    <3> QED
      BY <2>1, <3>2, <3>3, <3>4 DEF ExecutionInv, ExecutionTypes, Reserved, ReservedFor
  <2> QED
    BY <2>2, <2>3
<1>4. ASSUME NEW c \in Calls, Execution!runModel(c) PROVE ExecutionInv'
  <2>1. /\ flight[c] # None /\ flight' = [flight EXCEPT ![c].phase = "called"]
        /\ ran' = Execution!with(ran, c, flight[c].invocation)
        /\ UNCHANGED <<chosen, contract, choices, dispatches>>
    BY <1>4 DEF Execution!runModel
  <2>2. /\ flight' \in [Calls -> {None} \cup [invocation : Invocations, phase : {"begun", "called", "dropped"}]]
        /\ \A d \in Calls : flight'[d] # None => flight[d] # None /\ flight'[d].invocation = flight[d].invocation
    BY <2>1 DEF ExecutionInv, ExecutionTypes
  <2>3. ReservedFor(dispatches, flight[c].invocation, c)
    BY <2>1 DEF ExecutionInv, Reserved
  <2>4. \A d \in DOMAIN ran' : ReservedFor(dispatches, ran'[d], d)
    BY <2>1, <2>3 DEF ExecutionInv, Reserved, Execution!with
  <2> QED
    BY <2>1, <2>2, <2>4 DEF ExecutionInv, ExecutionTypes, Reserved, ReservedFor, ReceiptsAgree
<1>5. ASSUME NEW c \in Calls, NEW prompt \in Prompts, NEW answered \in BOOLEAN,
             Execution!beginDispatch(c, prompt, answered)
      PROVE  ExecutionInv'
  <2> DEFINE i == Execution!invocation(prompt)
             new == [call |-> c, status |-> "started"]
             sent == [invocation |-> i, phase |-> IF answered THEN "begun" ELSE "dropped"]
  <2>1. /\ i \notin DOMAIN dispatches
        /\ dispatches' = Execution!with(dispatches, i, new)
        /\ flight' = [flight EXCEPT ![c] = sent]
        /\ UNCHANGED <<chosen, contract, choices, ran>>
        /\ contract # None
    BY <1>5 DEF Execution!beginDispatch, Execution!reservable, Execution!routed
  <2>2. i \in Invocations
    BY <2>1 DEF Execution!invocation, Invocations, Selections, ExecutionInv, ExecutionTypes
  <2>3. /\ sent \in [invocation : Invocations, phase : {"begun", "called", "dropped"}]
        /\ sent.invocation = i
        /\ new \in [call : Calls, status : {"started", "completed", "failed"}] /\ new.call = c
    BY <2>2
  <2> HIDE DEF i, new, sent
  <2>4. /\ DOMAIN dispatches' = DOMAIN dispatches \cup {i} /\ dispatches'[i] = new
        /\ \A x \in DOMAIN dispatches : dispatches'[x] = dispatches[x]
        /\ dispatches' = [x \in DOMAIN dispatches' |-> dispatches'[x]]
    BY <2>1 DEF Execution!with
  <2>5. \A x, d : ReservedFor(dispatches, x, d) => ReservedFor(dispatches', x, d)
    BY <2>4 DEF ReservedFor
  <2>6. ReservedFor(dispatches', i, c)
    BY <2>3, <2>4 DEF ReservedFor
  <2>7. flight' \in [Calls -> {None} \cup [invocation : Invocations, phase : {"begun", "called", "dropped"}]]
    BY <2>1, <2>3 DEF ExecutionInv, ExecutionTypes
  <2>8. ExecutionTypes'
    BY <2>1, <2>3, <2>4, <2>7 DEF ExecutionInv, ExecutionTypes
  <2>9. \A d \in Calls : flight'[d] # None => ReservedFor(dispatches', flight'[d].invocation, d)
    BY <2>1, <2>3, <2>5, <2>6 DEF ExecutionInv, ExecutionTypes, Reserved
  <2>10. \A d \in DOMAIN ran' : ReservedFor(dispatches', ran'[d], d)
    BY <2>1, <2>5 DEF ExecutionInv, Reserved
  <2> QED
    BY <2>1, <2>8, <2>9, <2>10 DEF ExecutionInv, Reserved, ReceiptsAgree
<1>6. ASSUME NEW c \in Calls, NEW end \in {"completed", "failed"}, NEW reached \in BOOLEAN,
             Execution!reportEnd(c, end, reached)
      PROVE  ExecutionInv'
  <2>1. /\ flight[c] # None /\ flight' = [flight EXCEPT ![c].phase = "dropped"]
        /\ UNCHANGED <<chosen, contract, choices, ran>>
    BY <1>6 DEF Execution!reportEnd
  <2>2. PICK i : \/ UNCHANGED dispatches
                 \/ i \in DOMAIN dispatches /\ dispatches' = [dispatches EXCEPT ![i].status = end]
    BY <1>6 DEF Execution!reportEnd
  <2>3. /\ flight' \in [Calls -> {None} \cup [invocation : Invocations, phase : {"begun", "called", "dropped"}]]
        /\ \A d \in Calls : flight'[d] # None => flight[d] # None /\ flight'[d].invocation = flight[d].invocation
    BY <2>1 DEF ExecutionInv, ExecutionTypes
  <2>4. /\ DOMAIN dispatches' = DOMAIN dispatches
        /\ dispatches' = [x \in DOMAIN dispatches' |-> dispatches'[x]]
        /\ \A x \in DOMAIN dispatches :
             /\ dispatches'[x] \in [call : Calls, status : {"started", "completed", "failed"}]
             /\ dispatches'[x].call = dispatches[x].call
    BY <2>2 DEF ExecutionInv, ExecutionTypes
  <2>5. \A x, d : ReservedFor(dispatches, x, d) => ReservedFor(dispatches', x, d)
    BY <2>4 DEF ReservedFor
  <2>6. ExecutionTypes'
    BY <2>1, <2>3, <2>4 DEF ExecutionInv, ExecutionTypes
  <2>7. Reserved'
    BY <2>1, <2>3, <2>5 DEF ExecutionInv, Reserved
  <2> QED
    BY <2>1, <2>6, <2>7 DEF ExecutionInv, ReceiptsAgree
<1>7. CASE Execution!restartPlugin
  <2>1. /\ flight' = [c \in Calls |-> IF flight[c] = None THEN None ELSE [flight[c] EXCEPT !.phase = "dropped"]]
        /\ UNCHANGED <<chosen, contract, choices, dispatches, ran>>
    BY <1>7 DEF Execution!restartPlugin
  <2>2. /\ flight' \in [Calls -> {None} \cup [invocation : Invocations, phase : {"begun", "called", "dropped"}]]
        /\ \A d \in Calls : flight'[d] # None => flight[d] # None /\ flight'[d].invocation = flight[d].invocation
    BY <2>1 DEF ExecutionInv, ExecutionTypes
  <2> QED
    BY <2>1, <2>2 DEF ExecutionInv, ExecutionTypes, Reserved, ReservedFor, ReceiptsAgree
<1>8. CASE UNCHANGED selectionVars
  BY <1>8 DEF selectionVars, ExecutionInv, ExecutionTypes, Reserved, ReservedFor, ReceiptsAgree
<1> QED
  BY <1>1, <1>2, <1>3, <1>4, <1>5, <1>6, <1>7, <1>8 DEF Execution!Next

\* A step while a run is executed is a step of ExecutionSelection.
LEMMA OnlyExecutionSteps ==
  InExecution /\ [AllNext]_all => InExecution' /\ [Execution!Next]_selectionVars
<1> SUFFICES ASSUME InExecution, [AllNext]_all PROVE InExecution' /\ [Execution!Next]_selectionVars
  OBVIOUS
<1> QED
  BY DEF AllNext, all, InExecution, InRuns, InArchive, InSkills, InDiscovery, InPromotion,
         OnlyExecution, Execution!Next

\* The scenario of a behaviour is that of its first state.
LEMMA OtherScenarios == ~InExecution /\ [AllNext]_all => ~InExecution'
BY DEF AllNext, all, InExecution, OnlyRuns, OnlyArchive, OnlySkills, OnlyDiscovery, OnlyPromotion

\* A model call is made once for a step, whatever answers are lost and however
\* often the plugin restarts, and a repeated selection is answered with what it
\* chose (recordExecutionDispatch and selectExecution).
THEOREM ExecutionRanOnce == LedgerSpec => []RanOnce
<1> DEFINE Inv == InExecution => ExecutionInv
<1>1. AllInit => Inv
  <2> SUFFICES ASSUME AllInit, InExecution PROVE ExecutionInv
    OBVIOUS
  <2>1. Execution!Init
    BY DEF AllInit, InExecution
  <2> QED
    BY <2>1 DEF Execution!Init, ExecutionInv, ExecutionTypes, Selections, Reserved, ReceiptsAgree
<1>2. Inv /\ [AllNext]_all => Inv'
  BY OnlyExecutionSteps, OtherScenarios, ExecutionStep
<1>3. Inv => RanOnce
  <2> SUFFICES ASSUME ExecutionInv PROVE Execution!RanOnce
    BY DEF RanOnce
  <2> QED
    BY DEF ExecutionInv, Reserved, ReservedFor, ReceiptsAgree, Execution!RanOnce, Execution!retryAnswer
<1> QED
  BY <1>1, <1>2, <1>3, PTL DEF LedgerSpec
-----------------------------------------------------------------------------
(* Archives: the events of a run are the prefixes of the history its row   *)
(* is at, and an archive that one import has compared is of histories that *)
(* have only grown since.                                                  *)

Histories == Seq({"here", "there"}) \ {<<>>}
Rows == [Runs -> {None} \cup Histories]

\* A run an archive can hold has been created: no other run gets its id.
Known(rows) == \A r \in Runs : rows[r] # None => r \in created

\* What the archive holds is absent here, or here is what came before.
Fits(archive) ==
  \A r \in Runs : archive[r] # None => row[r] = None \/ archive[r] \in Archive!prefixes(row[r])

ArchiveTypes ==
  /\ row \in Rows /\ Known(row)
  /\ events = [r \in Runs |-> events[r]]
  /\ reading # None => reading \in Rows /\ Known(reading)
  /\ \A archive \in archives : archive \in Rows /\ Known(archive)
  /\ import = [i \in Importers |-> import[i]]
  /\ \A i \in Importers : import[i] # None => import[i].archive \in Rows /\ Known(import[i].archive)

OneImport ==
  /\ \A i, j \in Importers : import[i] # None /\ import[j] # None => i = j
  /\ \A i \in Importers : import[i] # None => Fits(import[i].archive)

ArchiveInv ==
  ArchiveTypes /\ (~overlapped => OneImport /\ Archive!validateGraph(row, events))

\* A history that goes on has one prefix more, and what came before it came
\* before what follows.
LEMMA Prefixes ==
  ASSUME NEW h \in Histories, NEW x \in {"here", "there"}
  PROVE  /\ Append(h, x) \in Histories
         /\ h \in Archive!prefixes(h)
         /\ Archive!prefixes(Append(h, x)) = Archive!prefixes(h) \cup {Append(h, x)}
         /\ \A g \in Archive!prefixes(h) : Archive!prefixes(g) \subseteq Archive!prefixes(h)
<1>1. h \in Seq({"here", "there"}) /\ h # <<>> /\ Len(h) \in Nat \ {0}
  BY EmptySeq DEF Histories
<1>2. Append(h, x) \in Histories /\ Len(Append(h, x)) = Len(h) + 1
  BY <1>1, AppendProperties DEF Histories
<1>3. h = SubSeq(h, 1, Len(h))
  BY <1>1
<1>4. ASSUME NEW n \in 1..Len(h) PROVE SubSeq(Append(h, x), 1, n) = SubSeq(h, 1, n)
  BY <1>1, <1>4
<1>5. SubSeq(Append(h, x), 1, Len(h) + 1) = Append(h, x)
  BY <1>1
<1>6. Archive!prefixes(Append(h, x)) = Archive!prefixes(h) \cup {Append(h, x)}
  <2>1. 1..(Len(h) + 1) = 1..Len(h) \cup {Len(h) + 1}
    BY <1>1
  <2> QED
    BY <1>2, <1>4, <1>5, <2>1 DEF Archive!prefixes
<1>7. ASSUME NEW n \in 1..Len(h), NEW m \in 1..n
      PROVE  /\ Len(SubSeq(h, 1, n)) = n
             /\ SubSeq(SubSeq(h, 1, n), 1, m) = SubSeq(h, 1, m)
  BY <1>1, <1>7
<1>8. ASSUME NEW g \in Archive!prefixes(h) PROVE Archive!prefixes(g) \subseteq Archive!prefixes(h)
  <2>1. PICK n \in 1..Len(h) : g = SubSeq(h, 1, n)
    BY <1>8 DEF Archive!prefixes
  <2>2. 1..n \subseteq 1..Len(h) /\ Len(g) = n
    BY <1>1, <1>7, <2>1
  <2> QED
    BY <1>7, <2>1, <2>2 DEF Archive!prefixes
<1>9. h \in Archive!prefixes(h)
  <2>1. Len(h) \in 1..Len(h)
    BY <1>1
  <2> QED
    BY <1>3, <2>1 DEF Archive!prefixes
<1> QED
  BY <1>2, <1>6, <1>8, <1>9

\* ArchiveInv is inductive.
LEMMA ArchiveStep == ArchiveInv /\ [Archive!Next]_archiveVars => ArchiveInv'
<1> SUFFICES ASSUME ArchiveInv, [Archive!Next]_archiveVars PROVE ArchiveInv'
  OBVIOUS
<1>1. None \notin Histories
  BY LedgerAssumption DEF Histories
<1>2. ASSUME NEW r \in Runs, Archive!createRun(r) PROVE ArchiveInv'
  <2> DEFINE h == <<"here">>
  <2>1. /\ r \notin created /\ created' = created \cup {r}
        /\ row' = [row EXCEPT ![r] = h] /\ events' = [events EXCEPT ![r] = {h}]
        /\ UNCHANGED <<reading, archives, import, overlapped>>
    BY <1>2 DEF Archive!createRun
  <2>2. h \in Histories /\ Archive!prefixes(h) = {h}
    <3>1. h \in Seq({"here", "there"}) /\ Len(h) = 1 /\ h # <<>>
      OBVIOUS
    <3> HIDE DEF h
    <3>2. SubSeq(h, 1, Len(h)) = h
      BY <3>1
    <3>3. 1..1 = {1}
      OBVIOUS
    <3> QED
      BY <3>1, <3>2, <3>3 DEF Histories, Archive!prefixes
  <2> HIDE DEF h
  <2>3. row' \in Rows /\ events' = [q \in Runs |-> events'[q]]
    BY <2>1, <2>2 DEF ArchiveInv, ArchiveTypes, Rows
  <2>4. \A rows \in Rows : Known(rows) => Known(rows)'
    BY <2>1 DEF Known
  <2>5. Known(row)'
    BY <2>1 DEF Known, ArchiveInv, ArchiveTypes, Rows
  <2>6. ArchiveTypes'
    BY <2>1, <2>3, <2>4, <2>5 DEF ArchiveInv, ArchiveTypes, Known
  <2>7. ASSUME NEW archive \in Rows, Known(archive), Fits(archive) PROVE Fits(archive)'
    BY <2>1, <2>7 DEF Fits, Known, ArchiveInv, ArchiveTypes, Rows
  <2>8. OneImport => OneImport'
    BY <2>1, <2>7 DEF OneImport, ArchiveInv, ArchiveTypes, Fits
  <2>9. Archive!validateGraph(row, events) => Archive!validateGraph(row', events')
    BY <1>1, <2>1, <2>2, <2>3 DEF Archive!validateGraph, ArchiveInv, ArchiveTypes, Rows
  <2> QED
    BY <2>1, <2>6, <2>8, <2>9 DEF ArchiveInv
<1>3. ASSUME NEW r \in Runs, Archive!appendEvent(r) PROVE ArchiveInv'
  <2> DEFINE h == Append(row[r], "here")
  <2>1. /\ row[r] # None /\ row' = [row EXCEPT ![r] = h]
        /\ events' = [events EXCEPT ![r] = events[r] \cup {h}]
        /\ UNCHANGED <<created, reading, archives, import, overlapped>>
    BY <1>3 DEF Archive!appendEvent
  <2>2. row[r] \in Histories
    BY <2>1 DEF ArchiveInv, ArchiveTypes, Rows
  <2>3. h \in Histories /\ Archive!prefixes(h) = Archive!prefixes(row[r]) \cup {h}
    BY <2>2, Prefixes
  <2> HIDE DEF h
  <2>4. row' \in Rows /\ events' = [q \in Runs |-> events'[q]]
    BY <2>1, <2>3 DEF ArchiveInv, ArchiveTypes, Rows
  <2>5. Known(row)'
    BY <2>1 DEF Known, ArchiveInv, ArchiveTypes, Rows
  <2>6. ArchiveTypes'
    BY <2>1, <2>4, <2>5 DEF ArchiveInv, ArchiveTypes, Known
  <2>7. ASSUME NEW archive, Fits(archive) PROVE Fits(archive)'
    BY <2>1, <2>3, <2>7 DEF Fits, ArchiveInv, ArchiveTypes, Rows
  <2>8. OneImport => OneImport'
    BY <2>1, <2>7 DEF OneImport, Fits
  <2>9. Archive!validateGraph(row, events) => Archive!validateGraph(row', events')
    BY <1>1, <2>1, <2>2, <2>3, <2>4 DEF Archive!validateGraph, ArchiveInv, ArchiveTypes, Rows
  <2> QED
    BY <2>1, <2>6, <2>8, <2>9 DEF ArchiveInv
<1>4. ASSUME NEW r \in Runs, Archive!purgeRun(r) PROVE ArchiveInv'
  <2>1. /\ row' = [row EXCEPT ![r] = None] /\ events' = [events EXCEPT ![r] = {}]
        /\ UNCHANGED <<created, reading, archives, import, overlapped>>
    BY <1>4 DEF Archive!purgeRun
  <2>2. ArchiveTypes'
    BY <2>1 DEF ArchiveInv, ArchiveTypes, Rows, Known
  <2>3. ASSUME NEW archive, Fits(archive) PROVE Fits(archive)'
    BY <2>1, <2>3 DEF Fits, ArchiveInv, ArchiveTypes, Rows
  <2>4. OneImport => OneImport'
    BY <2>1, <2>3 DEF OneImport, Fits
  <2>5. Archive!validateGraph(row, events) => Archive!validateGraph(row', events')
    BY <2>1, <2>2 DEF Archive!validateGraph, ArchiveInv, ArchiveTypes, Rows
  <2> QED
    BY <2>1, <2>2, <2>4, <2>5 DEF ArchiveInv
<1>5. CASE Archive!readRuns \/ Archive!exportLedgerArchive
  <2>1. /\ UNCHANGED <<row, events, created, import, overlapped>>
        /\ reading' \in {row, None}
        /\ \A archive \in archives' : archive \in archives \/ (reading # None /\ archive = reading)
    BY <1>5 DEF Archive!readRuns, Archive!exportLedgerArchive, Archive!kept
  <2>2. ArchiveTypes'
    BY <2>1 DEF ArchiveInv, ArchiveTypes, Known
  <2> QED
    BY <2>1, <2>2 DEF ArchiveInv, OneImport, Fits
<1>6. ASSUME NEW r \in Runs, NEW archive \in archives, Archive!continuedElsewhere(archive, r)
      PROVE  ArchiveInv'
  <2> DEFINE longer == [archive EXCEPT ![r] = Append(archive[r], "there")]
  <2>1. /\ archive[r] # None /\ archives' = archives \cup {longer}
        /\ UNCHANGED <<row, events, created, reading, import, overlapped>>
    BY <1>6 DEF Archive!continuedElsewhere, Archive!kept
  <2>2. archive \in Rows /\ Known(archive) /\ archive[r] \in Histories
    BY <2>1 DEF ArchiveInv, ArchiveTypes, Rows
  <2>3. Append(archive[r], "there") \in Histories
    BY <2>2, Prefixes
  <2>4. longer \in Rows /\ Known(longer)
    BY <2>1, <2>2, <2>3 DEF Rows, Known
  <2> HIDE DEF longer
  <2>5. ArchiveTypes'
    BY <2>1, <2>4 DEF ArchiveInv, ArchiveTypes, Known
  <2> QED
    BY <2>1, <2>5 DEF ArchiveInv, OneImport, Fits
<1>7. ASSUME NEW i \in Importers, NEW archive \in archives, Archive!compareExisting(i, archive)
      PROVE  ArchiveInv'
  <2> DEFINE found == [archive |-> archive,
                       duplicates |-> {"runs" : r \in {s \in Runs : archive[s] # None /\ row[s] # None}}
                         \cup {"events" : r \in {s \in Runs : Archive!eventsOf(archive, s) \cap events[s] # {}}}]
  <2>1. import' = [import EXCEPT ![i] = found] /\ found.archive = archive
    BY <1>7 DEF Archive!compareExisting
  <2> HIDE DEF found
  <2>2. /\ Archive!sameRows(archive)
        /\ overlapped' = (overlapped \/ \E j \in Importers : import[j] # None)
        /\ UNCHANGED <<row, events, created, reading, archives>>
    BY <1>7 DEF Archive!compareExisting
  <2>3. archive \in Rows /\ Known(archive)
    BY DEF ArchiveInv, ArchiveTypes
  <2>4. ArchiveTypes'
    BY <2>1, <2>2, <2>3 DEF ArchiveInv, ArchiveTypes, Known
  <2>5. Fits(archive)'
    <3> SUFFICES ASSUME NEW r \in Runs, archive[r] # None, row[r] # None
                 PROVE  archive[r] \in Archive!prefixes(row[r])
      BY <2>2 DEF Fits
    <3>1. row[r] = archive[r] /\ row[r] \in Histories
      BY <2>2 DEF Archive!sameRows, ArchiveInv, ArchiveTypes, Rows
    <3> QED
      BY <3>1, Prefixes
  <2>6. ~overlapped' => OneImport'
    <3> SUFFICES ASSUME ~overlapped' PROVE OneImport'
      OBVIOUS
    <3>1. \A j \in Importers : import[j] = None
      BY <2>2
    <3> QED
      BY <2>1, <2>2, <2>5, <3>1 DEF OneImport, Fits, ArchiveInv, ArchiveTypes
  <2> QED
    BY <2>2, <2>4, <2>6 DEF ArchiveInv
<1>8. ASSUME NEW i \in Importers, Archive!insertRecords(i) PROVE ArchiveInv'
  <2> DEFINE archive == import[i].archive
  <2>1. /\ import[i] # None /\ import' = [import EXCEPT ![i] = None]
        /\ UNCHANGED <<created, reading, archives, overlapped>>
        /\ \/ UNCHANGED <<row, events>>
           \/ /\ row' = [r \in Runs |-> IF row[r] = None THEN archive[r] ELSE row[r]]
              /\ events' = [r \in Runs |-> events[r] \cup Archive!eventsOf(archive, r)]
    BY <1>8 DEF Archive!insertRecords
  <2>2. archive \in Rows /\ Known(archive)
    BY <2>1 DEF ArchiveInv, ArchiveTypes
  <2>3. OneImport => Fits(archive)
    BY <2>1 DEF OneImport
  <2> HIDE DEF archive
  <2>4. row' \in Rows /\ Known(row)' /\ events' = [r \in Runs |-> events'[r]]
    <3>1. CASE UNCHANGED <<row, events>>
      BY <2>1, <3>1 DEF ArchiveInv, ArchiveTypes, Known
    <3>2. CASE ~UNCHANGED <<row, events>>
      BY <2>1, <2>2, <3>2 DEF ArchiveInv, ArchiveTypes, Known, Rows
    <3> QED
      BY <3>1, <3>2
  <2>5. ArchiveTypes'
    BY <2>1, <2>4 DEF ArchiveInv, ArchiveTypes, Known
  <2>6. OneImport => OneImport'
    BY <2>1 DEF OneImport, ArchiveInv, ArchiveTypes
  <2>7. ASSUME OneImport, Archive!validateGraph(row, events)
        PROVE  Archive!validateGraph(row', events')
    <3> SUFFICES ASSUME NEW r \in Runs, ~UNCHANGED <<row, events>>
                 PROVE  events'[r] = IF row'[r] = None THEN {} ELSE Archive!prefixes(row'[r])
      BY <2>7 DEF Archive!validateGraph
    <3>1. /\ row'[r] = IF row[r] = None THEN archive[r] ELSE row[r]
          /\ events'[r] = events[r] \cup Archive!eventsOf(archive, r)
          /\ events[r] = IF row[r] = None THEN {} ELSE Archive!prefixes(row[r])
      BY <2>1, <2>7 DEF Archive!validateGraph
    <3>2. CASE archive[r] = None \/ row[r] = None
      BY <3>1, <3>2 DEF Archive!eventsOf
    <3>3. CASE archive[r] # None /\ row[r] # None
      <4>1. row[r] \in Histories /\ archive[r] \in Archive!prefixes(row[r])
        BY <2>3, <2>7, <3>3 DEF Fits, ArchiveInv, ArchiveTypes, Rows
      <4>2. Archive!prefixes(archive[r]) \subseteq Archive!prefixes(row[r])
        BY <4>1, Prefixes
      <4> QED
        BY <3>1, <3>3, <4>2 DEF Archive!eventsOf
    <3> QED
      BY <3>2, <3>3
  <2> QED
    BY <2>1, <2>5, <2>6, <2>7 DEF ArchiveInv
<1>9. CASE UNCHANGED archiveVars
  BY <1>9 DEF archiveVars, ArchiveInv, ArchiveTypes, OneImport, Known, Fits
<1> QED
  BY <1>2, <1>3, <1>4, <1>5, <1>6, <1>7, <1>8, <1>9 DEF Archive!Next

\* A new ledger is empty and whole.
LEMMA ArchiveInit == Archive!Init => ArchiveInv
BY DEF Archive!Init, ArchiveInv, ArchiveTypes, Rows, Known, OneImport, Archive!validateGraph
-----------------------------------------------------------------------------
(* Promotion: a proposal that made an entry has its link until the user    *)
(* purges the link, and an entry that nobody has edited still stands in    *)
(* the way of its own text.                                                *)

PromotionTypes ==
  /\ entries \in [Ids -> {None, Purged} \cup Entry]
  /\ \A e \in Ids : Promotion!exists(e) => entries[e].history # <<>>
  /\ read \in [Clients -> {None} \cup [id : Ids, revision : Nat, content : Content]]
  /\ ledger \in {Purged} \cup Seq(Proposals)
  /\ deliveries = [d \in Deliveries |-> deliveries[d]]
  /\ links \subseteq [event : Proposals, delivery : Deliveries \cup {None}, entry : Ids]

LinkLeads(l) ==
  /\ Promotion!exists(l.entry) /\ Promotion!origin(l.entry) = Promotion!proposed(l.event, l.delivery)
  /\ Promotion!inLedger(l.event)
  /\ l.delivery # None => deliveries[l.delivery] \notin {None, Purged}

SourceOf(e) == Promotion!origin(e)[2][1]

\* Two entries made from proposals.
Distinct(e, f) ==
  /\ SourceOf(e) = SourceOf(f) => SourceOf(e) \in released
  /\ Promotion!revision(e) = 1 /\ Promotion!revision(f) = 1 =>
       Promotion!origin(e)[1] # Promotion!origin(f)[1]

PromotionInv ==
  /\ PromotionTypes
  /\ \A l \in links : LinkLeads(l)
  /\ ledger # Purged => \A e \in Ids : Promotion!promoted(e) =>
       SourceOf(e) \in released \/ \E l \in links : l.event = SourceOf(e)
  /\ \A e, f \in Ids : Promotion!promoted(e) /\ Promotion!promoted(f) /\ e # f => Distinct(e, f)

\* What the operations on entries leave of every entry: its origin, and a later
\* revision; what is new was proposed by nobody.
EntriesKept ==
  \A e \in Ids : Promotion!exists(e)' =>
    \/ /\ Promotion!exists(e) /\ Promotion!origin(e)' = Promotion!origin(e)
       /\ Promotion!revision(e) \in Nat \ {0} /\ Promotion!revision(e)' >= Promotion!revision(e)
    \/ Promotion!origin(e)'[2] = None

\* An entry has a text that is current, and one it began with.
LEMMA EntryHas ==
  ASSUME PromotionTypes, NEW e \in Ids, Promotion!exists(e)
  PROVE  /\ entries[e] \in Entry /\ entries[e].workspace = "project"
         /\ entries[e].history \in Seq(Content) /\ entries[e].history # <<>>
         /\ Promotion!revision(e) \in Nat \ {0}
         /\ Promotion!current(e) \in Content /\ Promotion!origin(e) \in Content
         /\ Promotion!revision(e) = 1 => Promotion!current(e) = Promotion!origin(e)
<1>1. entries[e] \in Entry /\ entries[e].history # <<>>
  BY DEF PromotionTypes, Promotion!exists
<1>2. entries[e].workspace = "project" /\ entries[e].history \in Seq(Content)
  BY <1>1 DEF Entry
<1>3. Len(entries[e].history) \in Nat \ {0}
  BY <1>1, <1>2, EmptySeq
<1>4. \A i \in 1..Len(entries[e].history) : entries[e].history[i] \in Content
  BY <1>2, ElementOfSeq
<1> QED
  BY <1>1, <1>2, <1>3, <1>4 DEF Promotion!revision, Promotion!current, Promotion!origin

\* Nothing else than entries changes, and no linked entry goes.
LEMMA KeptInv ==
  ASSUME PromotionInv, PromotionTypes', EntriesKept, UNCHANGED <<ledger, deliveries, links, released>>,
         \A l \in links : /\ Promotion!exists(l.entry)'
                          /\ Promotion!origin(l.entry)' = Promotion!origin(l.entry)
  PROVE  PromotionInv'
<1>1. ASSUME NEW e \in Ids, Promotion!promoted(e)'
      PROVE  /\ Promotion!promoted(e) /\ Promotion!origin(e)' = Promotion!origin(e)
             /\ Promotion!revision(e) \in Nat \ {0} /\ Promotion!revision(e)' >= Promotion!revision(e)
  <2>1. Promotion!exists(e)' /\ Promotion!origin(e)'[2] # None
    BY <1>1 DEF Promotion!promoted
  <2>2. /\ Promotion!exists(e) /\ Promotion!origin(e)' = Promotion!origin(e)
        /\ Promotion!revision(e) \in Nat \ {0} /\ Promotion!revision(e)' >= Promotion!revision(e)
    BY <2>1 DEF EntriesKept
  <2>3. entries[e].workspace = "project"
    BY <2>2, EntryHas DEF PromotionInv
  <2> QED
    BY <2>1, <2>2, <2>3 DEF Promotion!promoted
<1>2. \A l \in links' : LinkLeads(l)'
  BY DEF PromotionInv, LinkLeads, Promotion!proposed, Promotion!inLedger
<1>3. ledger' # Purged => \A e \in Ids : Promotion!promoted(e)' =>
        SourceOf(e)' \in released' \/ \E l \in links' : l.event = SourceOf(e)'
  BY <1>1 DEF PromotionInv, SourceOf
<1>4. ASSUME NEW e \in Ids, NEW f \in Ids, Promotion!promoted(e)', Promotion!promoted(f)', e # f
      PROVE  Distinct(e, f)'
  <2>1. Distinct(e, f)
    BY <1>1, <1>4 DEF PromotionInv
  <2>2. /\ Promotion!origin(e)' = Promotion!origin(e) /\ Promotion!origin(f)' = Promotion!origin(f)
        /\ Promotion!revision(e)' = 1 => Promotion!revision(e) = 1
        /\ Promotion!revision(f)' = 1 => Promotion!revision(f) = 1
    <3>1. /\ Promotion!revision(e) \in Nat \ {0} /\ Promotion!revision(e)' >= Promotion!revision(e)
          /\ Promotion!revision(f) \in Nat \ {0} /\ Promotion!revision(f)' >= Promotion!revision(f)
      BY <1>1, <1>4
    <3> QED
      BY <1>1, <1>4, <3>1
  <2> QED
    BY <2>1, <2>2 DEF Distinct, SourceOf
<1> QED
  BY <1>2, <1>3, <1>4 DEF PromotionInv

\* A new row is an entry with one revision.
LEMMA NewEntry ==
  ASSUME PromotionTypes, NEW e \in Ids, NEW content \in Content,
         entries' = Promotion!inserted(e, "project", content, "candidate", None)
  PROVE  /\ entries' \in [Ids -> {None, Purged} \cup Entry]
         /\ Promotion!exists(e)' /\ Promotion!origin(e)' = content /\ Promotion!revision(e)' = 1
         /\ entries'[e].history # <<>> /\ entries'[e].workspace = "project"
         /\ \A f \in Ids \ {e} : entries'[f] = entries[f]
<1> DEFINE new == [workspace |-> "project", status |-> "candidate", history |-> <<content>>,
                   supersededBy |-> None, source |-> None, promotedAs |-> None]
<1>1. entries' = [entries EXCEPT ![e] = new]
  BY DEF Promotion!inserted
<1>2. <<content>> \in Seq(Content) /\ <<content>> # <<>> /\ <<content>>[1] = content /\ Len(<<content>>) = 1
  OBVIOUS
<1>3. new \in Entry /\ new.workspace = "project" /\ new.history = <<content>>
  BY <1>2 DEF Entry
<1>4. new \notin {None, Purged}
  BY <1>3, LedgerAssumption
<1> HIDE DEF new
<1>5. entries' \in [Ids -> {None, Purged} \cup Entry] /\ entries'[e] = new
      /\ \A f \in Ids \ {e} : entries'[f] = entries[f]
  BY <1>1, <1>3 DEF PromotionTypes
<1> QED
  BY <1>2, <1>3, <1>4, <1>5 DEF Promotion!exists, Promotion!origin, Promotion!revision

\* A row that is changed in place keeps its origin when its history does.
LEMMA ChangedEntry ==
  ASSUME PromotionTypes, NEW e \in Ids, Promotion!exists(e), NEW new \in Entry,
         entries' = [entries EXCEPT ![e] = new], UNCHANGED <<read, ledger, deliveries, links>>,
         new.history # <<>>, new.history[1] = entries[e].history[1],
         Len(new.history) >= Len(entries[e].history)
  PROVE  /\ PromotionTypes' /\ EntriesKept
         /\ \A f \in Ids : Promotion!exists(f) =>
              Promotion!exists(f)' /\ Promotion!origin(f)' = Promotion!origin(f)
<1>1. new \notin {None, Purged}
  BY LedgerAssumption
<1>2. /\ entries' \in [Ids -> {None, Purged} \cup Entry] /\ entries'[e] = new
      /\ \A f \in Ids \ {e} : entries'[f] = entries[f]
  BY DEF PromotionTypes
<1>3. PromotionTypes'
  BY <1>2 DEF PromotionTypes, Promotion!exists
<1>4. ASSUME NEW f \in Ids, Promotion!exists(f)
      PROVE  /\ Promotion!exists(f)' /\ Promotion!origin(f)' = Promotion!origin(f)
             /\ Promotion!revision(f) \in Nat \ {0} /\ Promotion!revision(f)' >= Promotion!revision(f)
  <2>1. Promotion!revision(f) \in Nat \ {0}
    BY <1>4, EntryHas
  <2>2. CASE f = e
    BY <1>1, <1>2, <2>1, <2>2 DEF Promotion!exists, Promotion!origin, Promotion!revision
  <2>3. CASE f # e
    BY <1>2, <1>4, <2>1, <2>3 DEF Promotion!exists, Promotion!origin, Promotion!revision
  <2> QED
    BY <2>2, <2>3
<1>5. \A f \in Ids : Promotion!exists(f)' => Promotion!exists(f)
  BY <1>2 DEF Promotion!exists
<1> QED
  BY <1>3, <1>4, <1>5 DEF EntriesKept

\* What clients do to entries keeps the invariant.
LEMMA EntryOperations ==
  ASSUME PromotionInv,
         \/ \E c \in Clients : Promotion!verify(c)
         \/ \E c \in Clients, e \in Ids : Promotion!look(c, e) \/ Promotion!supersede(c, e)
         \/ \E c \in Clients, content \in Written : Promotion!edit(c, content)
         \/ \E e \in Ids : Promotion!purge(e)
         \/ \E e \in Ids, content \in Written : Promotion!record(e, content)
  PROVE  PromotionInv'
<1> USE DEF Promotion!ledgerVars
<1>1. PromotionTypes
  BY DEF PromotionInv
<1>2. ASSUME NEW c \in Clients, Promotion!expected(c)
      PROVE  /\ read[c] \in [id : Ids, revision : Nat, content : Content]
             /\ read[c].id \in Ids /\ Promotion!exists(read[c].id)
             /\ entries[read[c].id] \in Entry /\ entries[read[c].id].history \in Seq(Content)
             /\ entries[read[c].id].history # <<>>
             /\ Len(entries[read[c].id].history) \in Nat \ {0}
  <2>1. read[c] \in [id : Ids, revision : Nat, content : Content] /\ Promotion!exists(read[c].id)
    BY <1>1, <1>2 DEF PromotionTypes, Promotion!expected
  <2>2. read[c].id \in Ids
    BY <2>1
  <2> QED
    BY <1>1, <2>1, <2>2, EntryHas, EmptySeq DEF Promotion!revision
<1>3. ASSUME NEW e \in Ids, NEW new \in Entry, Promotion!exists(e),
             entries' = [entries EXCEPT ![e] = new],
             UNCHANGED <<read, ledger, deliveries, links, released>>,
             new.history # <<>>, new.history[1] = entries[e].history[1],
             Len(new.history) >= Len(entries[e].history)
      PROVE  PromotionInv'
  <2>1. /\ PromotionTypes' /\ EntriesKept
        /\ \A f \in Ids : Promotion!exists(f) =>
             Promotion!exists(f)' /\ Promotion!origin(f)' = Promotion!origin(f)
    BY <1>1, <1>3, ChangedEntry
  <2>2. \A l \in links : l.entry \in Ids /\ Promotion!exists(l.entry)
    BY <1>1 DEF PromotionTypes, PromotionInv, LinkLeads
  <2> QED
    BY <1>3, <2>1, <2>2, KeptInv
<1>4. ASSUME NEW c \in Clients, Promotion!verify(c) PROVE PromotionInv'
  <2> DEFINE e == read[c].id
             new == [entries[e] EXCEPT !.status = "verified", !.promotedAs = read[c].content]
  <2>1. /\ Promotion!expected(c) /\ UNCHANGED <<read, ledger, deliveries, links, released>>
        /\ entries' = [entries EXCEPT ![e].status = "verified", ![e].promotedAs = read[c].content]
    BY <1>4 DEF Promotion!verify, Promotion!promoteEntry
  <2>2. /\ e \in Ids /\ entries[e] \in Entry /\ read[c].content \in Content
        /\ Promotion!exists(e) /\ entries[e].history # <<>> /\ Len(entries[e].history) \in Nat
    BY <1>2, <2>1
  <2>3. entries' = [entries EXCEPT ![e] = new]
    BY <1>1, <2>1, <2>2 DEF PromotionTypes
  <2>4. new \in Entry /\ new.history = entries[e].history
    BY <2>2 DEF Entry
  <2> HIDE DEF new
  <2>5. /\ new.history # <<>> /\ new.history[1] = entries[e].history[1]
        /\ Len(new.history) >= Len(entries[e].history)
    BY <2>2, <2>4
  <2>6. UNCHANGED <<read, ledger, deliveries, links, released>>
    BY <2>1
  <2> HIDE DEF e
  <2> QED
    BY <1>3, <2>2, <2>3, <2>4, <2>5, <2>6
<1>5. ASSUME NEW c \in Clients, NEW f \in Ids, Promotion!supersede(c, f) PROVE PromotionInv'
  <2> DEFINE e == read[c].id
             new == [entries[e] EXCEPT !.status = "superseded", !.supersededBy = f]
  <2>1. /\ Promotion!expected(c) /\ UNCHANGED <<read, ledger, deliveries, links, released>>
        /\ entries' = [entries EXCEPT ![e].status = "superseded", ![e].supersededBy = f]
    BY <1>5 DEF Promotion!supersede, Promotion!supersedeEntry
  <2>2. /\ e \in Ids /\ entries[e] \in Entry
        /\ Promotion!exists(e) /\ entries[e].history # <<>> /\ Len(entries[e].history) \in Nat
    BY <1>2, <2>1
  <2>3. entries' = [entries EXCEPT ![e] = new]
    BY <1>1, <2>1, <2>2 DEF PromotionTypes
  <2>4. new \in Entry /\ new.history = entries[e].history
    BY <2>2 DEF Entry
  <2> HIDE DEF new
  <2>5. /\ new.history # <<>> /\ new.history[1] = entries[e].history[1]
        /\ Len(new.history) >= Len(entries[e].history)
    BY <2>2, <2>4
  <2>6. UNCHANGED <<read, ledger, deliveries, links, released>>
    BY <2>1
  <2> HIDE DEF e
  <2> QED
    BY <1>3, <2>2, <2>3, <2>4, <2>5, <2>6
<1>6. ASSUME NEW c \in Clients, NEW content \in Written, Promotion!edit(c, content) PROVE PromotionInv'
  <2> DEFINE e == read[c].id
             longer == Append(entries[e].history, content)
             new == [entries[e] EXCEPT !.history = longer]
  <2>1. /\ Promotion!expected(c) /\ UNCHANGED <<read, ledger, deliveries, links, released>>
        /\ entries' = [entries EXCEPT ![e].history = longer]
    BY <1>6 DEF Promotion!edit, Promotion!updateCandidateEntry
  <2>2. /\ e \in Ids /\ entries[e] \in Entry /\ entries[e].history \in Seq(Content)
        /\ Promotion!exists(e) /\ entries[e].history # <<>> /\ Len(entries[e].history) \in Nat \ {0}
    BY <1>2, <2>1
  <2>3. entries' = [entries EXCEPT ![e] = new]
    BY <1>1, <2>1, <2>2 DEF PromotionTypes
  <2>4. content \in Content
    BY DEF Content
  <2>5. /\ longer \in Seq(Content) /\ Len(longer) = Len(entries[e].history) + 1
        /\ longer[1] = entries[e].history[1] /\ longer # <<>>
    BY <2>2, <2>4, AppendProperties
  <2> HIDE DEF longer
  <2>6. new \in Entry /\ new.history = longer
    BY <2>2, <2>5 DEF Entry
  <2> HIDE DEF new
  <2>7. /\ new.history # <<>> /\ new.history[1] = entries[e].history[1]
        /\ Len(new.history) >= Len(entries[e].history)
    BY <2>2, <2>5, <2>6
  <2>8. UNCHANGED <<read, ledger, deliveries, links, released>>
    BY <2>1
  <2> HIDE DEF e
  <2> QED
    BY <1>3, <2>2, <2>3, <2>6, <2>7, <2>8
<1>7. ASSUME NEW c \in Clients, NEW e \in Ids, Promotion!look(c, e) PROVE PromotionInv'
  <2>1. /\ Promotion!exists(e) /\ UNCHANGED <<entries, ledger, deliveries, links, released>>
        /\ read' = [read EXCEPT ![c] = [id |-> e, revision |-> Promotion!revision(e),
                                        content |-> Promotion!current(e)]]
    BY <1>7 DEF Promotion!look, Promotion!readEntry
  <2>2. Promotion!revision(e) \in Nat /\ Promotion!current(e) \in Content
    BY <1>1, <2>1, EntryHas
  <2>3. PromotionTypes'
    BY <1>1, <2>1, <2>2 DEF PromotionTypes, Promotion!exists
  <2>4. \A f \in Ids : Promotion!exists(f) => Promotion!revision(f) \in Nat \ {0}
    BY <1>1, EntryHas
  <2>5. EntriesKept
    BY <2>1, <2>4 DEF EntriesKept, Promotion!exists, Promotion!origin, Promotion!revision
  <2>6. \A l \in links : Promotion!exists(l.entry)' /\ Promotion!origin(l.entry)' = Promotion!origin(l.entry)
    BY <2>1 DEF PromotionInv, LinkLeads, Promotion!exists, Promotion!origin
  <2> QED
    BY <2>1, <2>3, <2>5, <2>6, KeptInv
<1>8. ASSUME NEW e \in Ids, Promotion!purge(e) PROVE PromotionInv'
  <2>1. /\ entries' = [entries EXCEPT ![e] = Purged] /\ \A l \in links : l.entry # e
        /\ UNCHANGED <<read, ledger, deliveries, links, released>>
    BY <1>8 DEF Promotion!purge, Promotion!purgeEntry
  <2>2. PromotionTypes'
    BY <1>1, <2>1 DEF PromotionTypes, Promotion!exists
  <2>3. \A f \in Ids : Promotion!exists(f) => Promotion!revision(f) \in Nat \ {0}
    BY <1>1, EntryHas
  <2>4. \A f \in Ids : f # e => entries'[f] = entries[f]
    BY <1>1, <2>1 DEF PromotionTypes
  <2>5. ~Promotion!exists(e)'
    BY <1>1, <2>1 DEF PromotionTypes, Promotion!exists
  <2>6. EntriesKept
    BY <2>3, <2>4, <2>5 DEF EntriesKept, Promotion!exists, Promotion!origin, Promotion!revision
  <2>7. \A l \in links : Promotion!exists(l.entry)' /\ Promotion!origin(l.entry)' = Promotion!origin(l.entry)
    BY <1>1, <2>1, <2>4 DEF PromotionTypes, PromotionInv, LinkLeads, Promotion!exists, Promotion!origin
  <2> QED
    BY <2>1, <2>2, <2>6, <2>7, KeptInv
<1>9. ASSUME NEW e \in Ids, NEW content \in Written, Promotion!record(e, content) PROVE PromotionInv'
  <2>1. /\ entries[e] = None /\ UNCHANGED <<read, ledger, deliveries, links, released>>
        /\ entries' = Promotion!inserted(e, "project", content, "candidate", None)
    BY <1>9 DEF Promotion!record, Promotion!recordEntry
  <2>2. content \in Content /\ content[2] = None
    BY LedgerAssumption DEF Content
  <2>3. /\ entries' \in [Ids -> {None, Purged} \cup Entry]
        /\ Promotion!exists(e)' /\ Promotion!origin(e)' = content
        /\ entries'[e].history # <<>> /\ \A f \in Ids \ {e} : entries'[f] = entries[f]
    BY <1>1, <2>1, <2>2, NewEntry
  <2>4. PromotionTypes'
    BY <1>1, <2>1, <2>3 DEF PromotionTypes, Promotion!exists
  <2>5. \A f \in Ids : Promotion!exists(f) => Promotion!revision(f) \in Nat \ {0}
    BY <1>1, EntryHas
  <2>6. EntriesKept
    BY <2>2, <2>3, <2>5 DEF EntriesKept, Promotion!exists, Promotion!origin, Promotion!revision
  <2>7. \A l \in links : l.entry \in Ids /\ l.entry # e
    BY <1>1, <2>1 DEF PromotionTypes, PromotionInv, LinkLeads, Promotion!exists
  <2>8. \A l \in links : Promotion!exists(l.entry)' /\ Promotion!origin(l.entry)' = Promotion!origin(l.entry)
    BY <2>3, <2>7 DEF PromotionInv, LinkLeads, Promotion!exists, Promotion!origin
  <2> QED
    BY <2>1, <2>4, <2>6, <2>8, KeptInv
<1> QED
  BY <1>4, <1>5, <1>6, <1>7, <1>8, <1>9

\* A promotion makes an entry of a proposal that has no link, of a text no
\* entry has.
LEMMA PromotionMakesOne ==
  ASSUME PromotionInv, NEW event \in Proposals, NEW d \in Deliveries \cup {None}, NEW e \in Ids,
         Promotion!promoteLedgerProposal(event, d, e)
  PROVE  PromotionInv'
<1> DEFINE content == Promotion!proposed(event, d)
           link == [event |-> event, delivery |-> d, entry |-> e]
<1>1. PromotionTypes
  BY DEF PromotionInv
<1>2. /\ Promotion!loadSource(event, d) /\ Promotion!existing(event, d) = {}
      /\ Promotion!sourceLink(event) = {}
      /\ entries[e] = None /\ entries' = Promotion!inserted(e, "project", content, "candidate", None)
      /\ links' = links \cup {link} /\ UNCHANGED <<read, ledger, deliveries, released>>
  BY DEF Promotion!promoteLedgerProposal, Promotion!recordEntry
<1>3. content = <<TextOf[event], <<event, d>>>> /\ content \in Content
  BY DEF Promotion!proposed, Content
<1>4. content[1] = TextOf[event] /\ content[2][1] = event
  BY <1>3
<1>5. link \in [event : Proposals, delivery : Deliveries \cup {None}, entry : Ids]
      /\ link.event = event /\ link.delivery = d /\ link.entry = e
  OBVIOUS
<1> HIDE DEF content, link
<1>6. /\ entries' \in [Ids -> {None, Purged} \cup Entry]
      /\ Promotion!exists(e)' /\ Promotion!origin(e)' = content /\ Promotion!revision(e)' = 1
      /\ entries'[e].history # <<>> /\ \A f \in Ids \ {e} : entries'[f] = entries[f]
  BY <1>1, <1>2, <1>3, NewEntry
<1>7. PromotionTypes'
  BY <1>1, <1>2, <1>5, <1>6 DEF PromotionTypes, Promotion!exists
<1>8. ~Promotion!exists(e)
  BY <1>2 DEF Promotion!exists
<1>9. \A f \in Ids \ {e} :
        /\ Promotion!exists(f)' = Promotion!exists(f) /\ Promotion!origin(f)' = Promotion!origin(f)
        /\ Promotion!revision(f)' = Promotion!revision(f) /\ Promotion!promoted(f)' = Promotion!promoted(f)
        /\ SourceOf(f)' = SourceOf(f)
  BY <1>6 DEF Promotion!exists, Promotion!origin, Promotion!revision, Promotion!promoted, SourceOf
<1>10. ledger # Purged /\ Promotion!inLedger(event)
       /\ (d # None => deliveries[d] \notin {None, Purged})
  BY <1>2 DEF Promotion!loadSource, Promotion!inLedger
<1>11. \A l \in links' : LinkLeads(l)'
  <2>1. LinkLeads(link)'
    BY <1>2, <1>5, <1>6, <1>10 DEF LinkLeads, Promotion!inLedger, Promotion!proposed, content
  <2>2. ASSUME NEW l \in links PROVE LinkLeads(l)'
    <3>1. LinkLeads(l) /\ l.entry \in Ids \ {e}
      BY <1>1, <1>8 DEF PromotionInv, PromotionTypes, LinkLeads
    <3> QED
      BY <1>2, <1>9, <3>1 DEF LinkLeads, Promotion!inLedger, Promotion!proposed
  <2> QED
    BY <1>2, <2>1, <2>2
<1>12. SourceOf(e)' = event
  BY <1>4, <1>6 DEF SourceOf
<1>13. \A f \in Ids : Promotion!promoted(f)' =>
         SourceOf(f)' \in released' \/ \E l \in links' : l.event = SourceOf(f)'
  <2> SUFFICES ASSUME NEW f \in Ids, Promotion!promoted(f)'
               PROVE  SourceOf(f)' \in released' \/ \E l \in links' : l.event = SourceOf(f)'
    OBVIOUS
  <2>1. CASE f = e
    BY <1>2, <1>5, <1>12, <2>1
  <2>2. CASE f # e
    <3>1. Promotion!promoted(f) /\ SourceOf(f)' = SourceOf(f)
      BY <1>9, <2>2
    <3> QED
      BY <1>2, <1>10, <3>1 DEF PromotionInv
  <2> QED
    BY <2>1, <2>2
<1>14. ASSUME NEW f \in Ids, f # e, Promotion!promoted(f)
       PROVE  /\ SourceOf(f) = event => event \in released
              /\ Promotion!revision(f) = 1 => Promotion!origin(f)[1] # TextOf[event]
  <2>1. \A l \in links : l.event # event
    BY <1>2 DEF Promotion!sourceLink
  <2>2. SourceOf(f) = event => event \in released
    BY <1>10, <1>14, <2>1 DEF PromotionInv
  <2>3. Promotion!exists(f) /\ entries[f].workspace = "project"
    BY <1>14 DEF Promotion!promoted
  <2>4. Promotion!current(f)[1] # TextOf[event]
    BY <1>2, <2>3 DEF Promotion!existing, Promotion!findSameContentEntry
  <2> QED
    BY <1>1, <2>2, <2>3, <2>4, EntryHas
<1>15. ASSUME NEW f \in Ids, f # e, Promotion!promoted(f)'
       PROVE  Distinct(e, f)' /\ Distinct(f, e)'
  <2>1. /\ Promotion!promoted(f) /\ SourceOf(f)' = SourceOf(f)
        /\ Promotion!origin(f)' = Promotion!origin(f) /\ Promotion!revision(f)' = Promotion!revision(f)
    BY <1>9, <1>15
  <2>2. /\ SourceOf(f) = event => event \in released
        /\ Promotion!revision(f) = 1 => Promotion!origin(f)[1] # TextOf[event]
    BY <1>14, <1>15, <2>1
  <2>3. Promotion!origin(e)'[1] = TextOf[event] /\ released' = released
    BY <1>2, <1>4, <1>6
  <2> QED
    BY <1>12, <2>1, <2>2, <2>3 DEF Distinct
<1>16. ASSUME NEW f \in Ids, NEW g \in Ids, Promotion!promoted(f)', Promotion!promoted(g)', f # g
       PROVE  Distinct(f, g)'
  <2>1. CASE f = e \/ g = e
    BY <1>15, <1>16, <2>1
  <2>2. CASE f # e /\ g # e
    <3>1. /\ Promotion!promoted(f) /\ SourceOf(f)' = SourceOf(f)
          /\ Promotion!origin(f)' = Promotion!origin(f) /\ Promotion!revision(f)' = Promotion!revision(f)
      BY <1>9, <1>16, <2>2
    <3>2. /\ Promotion!promoted(g) /\ SourceOf(g)' = SourceOf(g)
          /\ Promotion!origin(g)' = Promotion!origin(g) /\ Promotion!revision(g)' = Promotion!revision(g)
      BY <1>9, <1>16, <2>2
    <3>3. Distinct(f, g)
      BY <1>16, <3>1, <3>2 DEF PromotionInv
    <3> QED
      BY <1>2, <3>1, <3>2, <3>3 DEF Distinct
  <2> QED
    BY <2>1, <2>2
<1> QED
  BY <1>7, <1>11, <1>13, <1>16 DEF PromotionInv

\* Purges of links leave the entries and remember what was released.
LEMMA LinksPurged ==
  ASSUME PromotionInv, UNCHANGED entries, PromotionTypes',
         links' \subseteq links, released \subseteq released',
         \A l \in links' : Promotion!inLedger(l.event)'
                           /\ (l.delivery # None => deliveries'[l.delivery] \notin {None, Purged}),
         ledger' # Purged => ledger # Purged,
         ledger' # Purged => \A l \in links \ links' : l.event \in released'
  PROVE  PromotionInv'
<1>1. \A e : /\ Promotion!exists(e)' = Promotion!exists(e) /\ Promotion!origin(e)' = Promotion!origin(e)
             /\ Promotion!revision(e)' = Promotion!revision(e)
             /\ Promotion!promoted(e)' = Promotion!promoted(e) /\ SourceOf(e)' = SourceOf(e)
  BY DEF Promotion!exists, Promotion!origin, Promotion!revision, Promotion!promoted, SourceOf
<1>2. \A l \in links' : LinkLeads(l)'
  BY <1>1 DEF PromotionInv, LinkLeads, Promotion!proposed
<1>3. ledger' # Purged => \A e \in Ids : Promotion!promoted(e)' =>
        SourceOf(e)' \in released' \/ \E l \in links' : l.event = SourceOf(e)'
  BY <1>1 DEF PromotionInv
<1>4. \A e, f \in Ids : Promotion!promoted(e)' /\ Promotion!promoted(f)' /\ e # f => Distinct(e, f)'
  BY <1>1 DEF PromotionInv, Distinct
<1> QED
  BY <1>2, <1>3, <1>4 DEF PromotionInv

\* PromotionInv is inductive.
LEMMA PromotionStep == PromotionInv /\ [Promotion!PromotionNext]_promotionVars => PromotionInv'
<1> SUFFICES ASSUME PromotionInv, [Promotion!PromotionNext]_promotionVars PROVE PromotionInv'
  OBVIOUS
<1> USE DEF Promotion!entryVars
<1>1. PromotionTypes /\ \A l \in links : LinkLeads(l)
  BY DEF PromotionInv
<1>2. ASSUME NEW event \in Proposals, Promotion!propose(event) PROVE PromotionInv'
  <2>1. /\ ledger # Purged /\ ledger' = Append(ledger, event)
        /\ UNCHANGED <<entries, referenced, read, deliveries, links, released>>
    BY <1>2 DEF Promotion!propose
  <2>2. ledger \in Seq(Proposals)
    BY <1>1, <2>1 DEF PromotionTypes
  <2>3. ledger' \in Seq(Proposals) /\ Len(ledger') = Len(ledger) + 1
        /\ \A i \in 1..Len(ledger) : ledger'[i] = ledger[i]
    BY <2>1, <2>2, AppendProperties
  <2>4. ledger' # Purged
    BY <2>3, LedgerAssumption
  <2>5. \A l \in links : Promotion!inLedger(l.event)'
    <3> SUFFICES ASSUME NEW l \in links PROVE \E i \in DOMAIN ledger' : ledger'[i] = l.event
      BY <2>4 DEF Promotion!inLedger
    <3>1. PICK i \in DOMAIN ledger : ledger[i] = l.event
      BY <1>1 DEF LinkLeads, Promotion!inLedger
    <3>2. i \in 1..Len(ledger) /\ i \in DOMAIN ledger'
      BY <2>2, <2>3
    <3> QED
      BY <2>3, <3>1, <3>2
  <2>6. PromotionTypes'
    BY <1>1, <2>1, <2>3 DEF PromotionTypes, Promotion!exists
  <2>7. \A l \in links' : l.delivery # None => deliveries'[l.delivery] \notin {None, Purged}
    BY <1>1, <2>1 DEF LinkLeads
  <2> QED
    BY <2>1, <2>5, <2>6, <2>7, LinksPurged
<1>3. ASSUME NEW d \in Deliveries, Promotion!deliver(d) PROVE PromotionInv'
  <2>1. /\ deliveries[d] = None /\ deliveries' = [deliveries EXCEPT ![d] = Len(ledger)]
        /\ UNCHANGED <<entries, referenced, read, ledger, links, released>>
    BY <1>3 DEF Promotion!deliver
  <2>2. PromotionTypes'
    BY <1>1, <2>1 DEF PromotionTypes, Promotion!exists
  <2>3. \A l \in links' : Promotion!inLedger(l.event)'
                          /\ (l.delivery # None => deliveries'[l.delivery] \notin {None, Purged})
    BY <1>1, <2>1 DEF PromotionTypes, LinkLeads, Promotion!inLedger
  <2> QED
    BY <2>1, <2>2, <2>3, LinksPurged
<1>4. ASSUME NEW d \in Deliveries, Promotion!purgeDelivery(d) PROVE PromotionInv'
  <2>1. /\ deliveries' = [deliveries EXCEPT ![d] = Purged]
        /\ links' = {l \in links : l.delivery # d}
        /\ released' = released \cup {l.event : l \in links \ links'}
        /\ UNCHANGED <<entries, referenced, read, ledger>>
    BY <1>4 DEF Promotion!purgeDelivery
  <2>2. PromotionTypes'
    BY <1>1, <2>1 DEF PromotionTypes, Promotion!exists
  <2>3. \A l \in links' : Promotion!inLedger(l.event)'
                          /\ (l.delivery # None => deliveries'[l.delivery] \notin {None, Purged})
    BY <1>1, <2>1 DEF PromotionTypes, LinkLeads, Promotion!inLedger
  <2>4. links' \subseteq links /\ released \subseteq released'
        /\ \A l \in links \ links' : l.event \in released'
    BY <2>1
  <2> QED
    BY <2>1, <2>2, <2>3, <2>4, LinksPurged
<1>5. ASSUME NEW k \in links, Promotion!purgeLink(k) PROVE PromotionInv'
  <2>1. /\ links' = links \ {k} /\ released' = released \cup {k.event}
        /\ UNCHANGED <<entries, referenced, read, ledger, deliveries>>
    BY <1>5 DEF Promotion!purgeLink
  <2>2. PromotionTypes'
    BY <1>1, <2>1 DEF PromotionTypes, Promotion!exists
  <2>3. \A l \in links' : Promotion!inLedger(l.event)'
                          /\ (l.delivery # None => deliveries'[l.delivery] \notin {None, Purged})
    BY <1>1, <2>1 DEF LinkLeads, Promotion!inLedger
  <2> QED
    BY <2>1, <2>2, <2>3, LinksPurged
<1>6. CASE Promotion!purgeRun
  <2>1. /\ ledger' = Purged /\ links' = {} /\ UNCHANGED <<entries, referenced, read, released>>
        /\ deliveries' = [d \in Deliveries |-> IF deliveries[d] = None THEN None ELSE Purged]
    BY <1>6 DEF Promotion!purgeRun
  <2>2. PromotionTypes'
    BY <1>1, <2>1 DEF PromotionTypes, Promotion!exists
  <2> QED
    BY <2>1, <2>2, LinksPurged
<1>7. CASE UNCHANGED promotionVars
  <2>1. UNCHANGED <<entries, referenced, read, ledger, deliveries, links, released>>
    BY <1>7 DEF promotionVars
  <2>2. PromotionTypes'
    BY <1>1, <2>1 DEF PromotionTypes, Promotion!exists
  <2>3. \A l \in links' : Promotion!inLedger(l.event)'
                          /\ (l.delivery # None => deliveries'[l.delivery] \notin {None, Purged})
    BY <1>1, <2>1 DEF LinkLeads, Promotion!inLedger
  <2> QED
    BY <2>1, <2>2, <2>3, LinksPurged
<1> QED
  BY <1>2, <1>3, <1>4, <1>5, <1>6, <1>7, PromotionMakesOne, EntryOperations DEF Promotion!PromotionNext

\* A new ledger has no proposal and no entry.
LEMMA PromotionStarts == Promotion!PromotionInit => PromotionInv
<1> SUFFICES ASSUME Promotion!PromotionInit PROVE PromotionInv
  OBVIOUS
<1>1. \A e \in Ids : ~Promotion!exists(e)
  BY DEF Promotion!PromotionInit, Promotion!Init, Promotion!exists
<1>2. PromotionTypes
  BY <1>1 DEF Promotion!PromotionInit, Promotion!Init, PromotionTypes
<1> QED
  BY <1>1, <1>2 DEF Promotion!PromotionInit, PromotionInv, Promotion!promoted

\* The steps of an archive and of a promotion are steps of theirs alone.
LEMMA OnlyArchiveSteps ==
  [AllNext]_all => /\ InArchive' => InArchive /\ [Archive!Next]_archiveVars
                   /\ InPromotion' => InPromotion /\ [Promotion!PromotionNext]_promotionVars
<1>1. [AllNext]_all => (InArchive' => InArchive /\ [Archive!Next]_archiveVars)
  BY DEF AllNext, all, InExecution, InRuns, InArchive, InSkills, InDiscovery, InPromotion, OnlyRuns,
         OnlyExecution, OnlyArchive, OnlySkills, OnlyDiscovery, OnlyPromotion, Archive!Next
<1>2. [AllNext]_all => (InPromotion' => InPromotion /\ [Promotion!PromotionNext]_promotionVars)
  BY DEF AllNext, all, InExecution, InRuns, InArchive, InSkills, InDiscovery, InPromotion, OnlyRuns,
         OnlyExecution, OnlyArchive, OnlySkills, OnlyDiscovery, OnlyPromotion, Promotion!PromotionNext
<1> QED
  BY <1>1, <1>2

\* What doctor checks of a ledger survives exports, imports that do not overlap,
\* appends and purges (LedgerArchiveImporter), and what an agent proposed becomes
\* one entry to which its link leads (promotePreparedInTransaction).
THEOREM ArchivesAndPromotionsWhole == LedgerSpec => []LedgerWhole
<1> DEFINE Inv == (InArchive => ArchiveInv) /\ (InPromotion => PromotionInv)
<1>1. AllInit => Inv
  <2>1. AllInit /\ InArchive => ArchiveInv
    BY ArchiveInit DEF AllInit, InArchive
  <2>2. AllInit /\ InPromotion => PromotionInv
    BY PromotionStarts DEF AllInit, InPromotion
  <2> QED
    BY <2>1, <2>2
<1>2. Inv /\ [AllNext]_all => Inv'
  BY OnlyArchiveSteps, ArchiveStep, PromotionStep
<1>3. Inv => LedgerWhole
  <2>1. ArchiveInv => Archive!LedgerWhole
    BY DEF ArchiveInv, Archive!LedgerWhole
  <2>2. PromotionInv => Promotion!PromotedOnce
    BY DEF PromotionInv, LinkLeads, Distinct, SourceOf, Promotion!PromotedOnce
  <2> QED
    BY <2>1, <2>2 DEF LedgerWhole
<1> QED
  BY <1>1, <1>2, <1>3, PTL DEF LedgerSpec

-----------------------------------------------------------------------------
(* The store of external skills                                            *)

SkillCall == [kind : {"import", "refresh", "discover"}, skill : Runs, existing : {None} \cup Runs,
              seen : {None} \cup SkillRow, all : [Runs -> {None} \cup SkillRow],
              version : {None} \cup DOMAIN Snapshots, canonical : {None} \cup Runs]
Documents == [Docs -> {None} \cup SkillDocument]

NotAfter(rowNow, v) == rowNow # None /\ rowNow.snapshot # None => rowNow.snapshot <= v

\* A row and its documents: what is active is the snapshot of an imported skill.
Serves(rowNow, documents) ==
  /\ \A d \in Docs : documents[d] # None /\ documents[d].active
                     <=> rowNow # None /\ rowNow.state = "imported" /\ d \in Snapshots[rowNow.snapshot]
  /\ rowNow # None /\ rowNow.snapshot # None
       => \A d \in Snapshots[rowNow.snapshot] : documents[d] # None /\ documents[d].version = rowNow.snapshot
RowFits(rowNow) ==
  rowNow # None => /\ rowNow.state = "imported" => rowNow.snapshot # None /\ ~rowNow.disabled
                   /\ rowNow.state = "disabled" => rowNow.disabled

\* A call has seen nothing newer than what it fetches.
CallFits(c) ==
  c # None =>
    /\ c.seen # None => c.existing # None
    /\ c.kind = "refresh" => c.existing # None
    /\ c.version # None => c.canonical # None /\ c.version <= published
    /\ LET newest == IF c.version = None THEN published ELSE c.version IN
       NotAfter(c.seen, newest) /\ \A t \in Runs : NotAfter(c.all[t], newest)

SkillTypes ==
  /\ published \in DOMAIN Snapshots /\ clock \in Nat
  /\ skill \in [Runs -> {None} \cup SkillRow] /\ mapping \in [Runs -> Documents]
  /\ call \in [Calls -> {None} \cup SkillCall] /\ withheld \subseteq Runs

RowInv(s) == Serves(skill[s], mapping[s]) /\ RowFits(skill[s]) /\ NotAfter(skill[s], published)
SkillInv ==
  /\ SkillTypes
  /\ \A s \in Runs : RowInv(s)
  /\ \A s \in withheld : skill[s] # None /\ skill[s].disabled
  /\ \A k \in Calls : CallFits(call[k])

\* Snapshots are numbered, and no number, row or document is None.
LEMMA SkillConstants ==
  /\ \A v \in DOMAIN Snapshots : v \in Nat /\ v # None /\ Snapshots[v] \subseteq Docs
  /\ \A rowNow \in SkillRow : rowNow # None
  /\ \A doc \in SkillDocument : doc # None
  /\ \A s \in Runs : s # None
  /\ 1 \in DOMAIN Snapshots
<1>1. Snapshots \in Seq(SUBSET Docs) /\ Snapshots # <<>>
  BY LedgerAssumption DEF LedgerAssumption
<1>2. Len(Snapshots) \in Nat /\ DOMAIN Snapshots = 1..Len(Snapshots) /\ Len(Snapshots) > 0
  BY <1>1
<1>3. \A v \in DOMAIN Snapshots : Snapshots[v] \in SUBSET Docs
  BY <1>1, <1>2
<1>4. \A n \in Nat : n # None
  BY LedgerAssumption DEF LedgerAssumption
<1> QED
  BY <1>2, <1>3, <1>4, LedgerAssumption DEF LedgerAssumption

\* A new store has no skill.
LEMMA SkillInit == Store!Init => SkillInv
<1> SUFFICES ASSUME Store!Init PROVE SkillInv
  OBVIOUS
<1>1. SkillTypes
  BY SkillConstants DEF Store!Init, SkillTypes, Documents
<1>2. \A s \in Runs : RowInv(s)
  BY DEF Store!Init, RowInv, Serves, RowFits, NotAfter
<1>3. withheld = {} /\ \A k \in Calls : call[k] = None
  BY DEF Store!Init
<1> QED
  BY <1>1, <1>2, <1>3 DEF SkillInv, CallFits

\* The rows change and a call ends.
LEMMA RowsWritten ==
  ASSUME SkillInv, clock' \in Nat, skill' \in [Runs -> {None} \cup SkillRow], mapping' \in [Runs -> Documents],
         UNCHANGED published, \A s \in Runs : RowInv(s)',
         withheld' \subseteq Runs, \A s \in withheld' : skill'[s] # None /\ skill'[s].disabled,
         UNCHANGED call \/ (\E k \in Calls : Store!done(k))
  PROVE  SkillInv'
<1>1. call' \in [Calls -> {None} \cup SkillCall] /\ \A k \in Calls : call'[k] \in {None, call[k]}
  BY DEF SkillInv, SkillTypes, Store!done
<1>2. \A k \in Calls : CallFits(call'[k])
  BY <1>1 DEF SkillInv, CallFits
<1>3. \A k \in Calls : CallFits(call[k])'
  BY <1>2 DEF CallFits
<1>4. SkillTypes'
  BY <1>1 DEF SkillInv, SkillTypes
<1> QED
  BY <1>3, <1>4 DEF SkillInv

\* A step of a call that leaves the store alone.
LEMMA CallWorks ==
  ASSUME SkillInv, NEW k \in Calls, NEW c \in {None} \cup SkillCall, CallFits(c), call' = [call EXCEPT ![k] = c],
         UNCHANGED <<published, clock, skill, mapping, withheld>>
  PROVE  SkillInv'
<1>1. call' \in [Calls -> {None} \cup SkillCall] /\ \A j \in Calls : call'[j] = IF j = k THEN c ELSE call[j]
  BY DEF SkillInv, SkillTypes
<1>2. \A j \in Calls : CallFits(call'[j])
  BY <1>1 DEF SkillInv
<1>3. \A j \in Calls : CallFits(call[j])'
  BY <1>2 DEF CallFits
<1>4. SkillTypes' /\ \A s \in Runs : RowInv(s)'
  BY <1>1 DEF SkillInv, SkillTypes, RowInv
<1> QED
  BY <1>3, <1>4 DEF SkillInv

\* What a command reads when it begins is not newer than what is published.
LEMMA CallBegins ==
  ASSUME SkillInv, NEW k \in Calls, NEW kind \in {"import", "refresh", "discover"}, NEW s \in Runs,
         NEW existing \in {None} \cup Runs, kind = "refresh" => existing # None,
         call' = [call EXCEPT ![k] = Store!begun(kind, s, existing)],
         UNCHANGED <<published, clock, skill, mapping, withheld>>
  PROVE  SkillInv'
<1> DEFINE observed == Store!rowOf(existing)
           every == [t \in Runs |-> IF kind = "discover" THEN skill[t] ELSE None]
           c == [kind |-> kind, skill |-> s, existing |-> existing, seen |-> observed, all |-> every,
                 version |-> None, canonical |-> None]
<1>1. Store!begun(kind, s, existing) = c
  BY DEF Store!begun
<1>2. observed \in {None} \cup SkillRow /\ NotAfter(observed, published) /\ (observed # None => existing # None)
  BY DEF SkillInv, SkillTypes, RowInv, NotAfter, Store!rowOf
<1>3. every \in [Runs -> {None} \cup SkillRow] /\ \A t \in Runs : NotAfter(every[t], published)
  BY DEF SkillInv, SkillTypes, RowInv, NotAfter
<1> HIDE DEF observed, every
<1>4. c \in SkillCall
  BY <1>2, <1>3 DEF SkillCall
<1>5. CallFits(c)
  BY <1>2, <1>3 DEF CallFits
<1> HIDE DEF c
<1> QED
  BY <1>1, <1>4, <1>5, CallWorks

\* A snapshot is published, and fetched by a call.
LEMMA SnapshotsStep ==
  ASSUME SkillInv,
         Store!publish \/ (\E k \in Calls, t \in Runs : Store!fetchSnapshot(k, t))
  PROVE  SkillInv'
<1>1. CASE Store!publish
  <2>1. /\ published \in Nat /\ published' \in DOMAIN Snapshots /\ published' = published + 1
        /\ UNCHANGED <<clock, skill, mapping, call, withheld>>
    BY <1>1, SkillConstants DEF SkillInv, SkillTypes, Store!publish, Store!Versions
  <2>2. \A rowNow \in {None} \cup SkillRow, v \in DOMAIN Snapshots : NotAfter(rowNow, v) /\ v = published => NotAfter(rowNow, published')
    BY <2>1, SkillConstants DEF NotAfter, SkillRow
  <2>3. \A s \in Runs : RowInv(s)'
    BY <2>1, <2>2 DEF SkillInv, SkillTypes, RowInv
  <2>4. ASSUME NEW k \in Calls, call[k] # None PROVE CallFits(call[k])'
    <3>1. call[k] \in SkillCall /\ CallFits(call[k]) /\ published \in DOMAIN Snapshots
      BY <2>4 DEF SkillInv, SkillTypes
    <3>2. call[k].version # None => call[k].version \in Nat
      BY <3>1, SkillConstants DEF SkillCall
    <3>3. call[k].seen \in {None} \cup SkillRow /\ \A t \in Runs : call[k].all[t] \in {None} \cup SkillRow
      BY <3>1 DEF SkillCall
    <3> QED
      BY <2>1, <2>2, <3>1, <3>2, <3>3 DEF CallFits
  <2>5. SkillTypes'
    BY <2>1 DEF SkillInv, SkillTypes
  <2>6. \A k \in Calls : CallFits(call[k])'
    BY <2>1, <2>4 DEF CallFits
  <2> QED
    BY <2>1, <2>3, <2>5, <2>6 DEF SkillInv
<1>2. ASSUME NEW k \in Calls, NEW t \in Runs, Store!fetchSnapshot(k, t)
      PROVE  SkillInv'
  <2> DEFINE v == published
             c == [call[k] EXCEPT !.version = v, !.canonical = t]
  <2>1. call[k] \in SkillCall /\ call[k] # None /\ call[k].version = None /\ CallFits(call[k])
    BY <1>2 DEF SkillInv, SkillTypes, Store!fetchSnapshot
  <2>2. v \in DOMAIN Snapshots /\ v \in Nat /\ v # None /\ t # None
    BY SkillConstants DEF SkillInv, SkillTypes
  <2>3. call' = [call EXCEPT ![k] = c] /\ UNCHANGED <<published, clock, skill, mapping, withheld>>
    BY <1>2, <2>1 DEF SkillInv, SkillTypes, Store!fetchSnapshot
  <2>4. v = published
    OBVIOUS
  <2> HIDE DEF v
  <2>5. c \in SkillCall
    BY <2>1, <2>2 DEF SkillCall
  <2>6. /\ c.version = v /\ c.canonical = t /\ c.seen = call[k].seen /\ c.existing = call[k].existing
        /\ c.kind = call[k].kind /\ c.all = call[k].all
    BY <2>1 DEF SkillCall
  <2> HIDE DEF c
  <2>7. CallFits(c)
    BY <2>1, <2>2, <2>4, <2>6 DEF CallFits
  <2> QED
    BY <2>3, <2>5, <2>7, CallWorks
<1> QED
  BY <1>1, <1>2

\* Documents that are not served are kept, without being active.
LEMMA InactiveDocuments ==
  ASSUME NEW documents \in Documents
  PROVE  /\ Store!inactive(documents) \in Documents
         /\ \A d \in Docs : /\ Store!inactive(documents)[d] = None <=> documents[d] = None
                            /\ documents[d] # None => /\ ~Store!inactive(documents)[d].active
                                                      /\ Store!inactive(documents)[d].version = documents[d].version
<1>1. ASSUME NEW d \in Docs, documents[d] # None
      PROVE  /\ [documents[d] EXCEPT !.active = FALSE] \in SkillDocument
             /\ ~[documents[d] EXCEPT !.active = FALSE].active
             /\ [documents[d] EXCEPT !.active = FALSE].version = documents[d].version
  <2>1. documents[d] \in SkillDocument
    BY <1>1 DEF Documents
  <2> QED
    BY <2>1 DEF SkillDocument
<1> QED
  BY <1>1, SkillConstants DEF Store!inactive, Documents

\* After an import the documents are those of the new snapshot, and the
\* others are inactive.
LEMMA ImportedDocuments ==
  ASSUME NEW documents \in Documents, NEW v \in DOMAIN Snapshots, NEW disabled \in BOOLEAN
  PROVE  /\ Store!mappingsAfter(documents, v, disabled) \in Documents
         /\ \A d \in Docs :
              LET doc == Store!mappingsAfter(documents, v, disabled)[d] IN
              /\ d \in Snapshots[v] => doc # None /\ doc.version = v /\ doc.active = ~disabled
              /\ d \notin Snapshots[v] /\ doc # None => ~doc.active
<1>1. /\ [version |-> v, active |-> ~disabled] \in SkillDocument
  BY DEF SkillDocument
<1>2. Store!inactive(documents) \in Documents
      /\ \A d \in Docs : Store!inactive(documents)[d] # None => ~Store!inactive(documents)[d].active
  BY InactiveDocuments
<1> QED
  BY <1>1, <1>2, SkillConstants DEF Store!mappingsAfter, Documents

\* persistSkillImportInTransaction: the row of s names v, keeps what the user
\* wants, and its documents are those of v; nothing else is served.
LEMMA SnapshotPersisted ==
  ASSUME SkillInv, NEW s \in Runs, NEW v \in DOMAIN Snapshots, v <= published, NEW q \in Runs, NEW more \in Nat,
         NEW others \in [Runs -> {None} \cup SkillRow],
         \A m \in Runs : m # s => \/ others[m] = skill[m]
                                  \/ others[m] = None /\ skill[m] # None /\ skill[m].state # "imported",
         Store!persistImport(s, v, skill[q], mapping[q], more, others)
  PROVE  /\ clock' \in Nat /\ skill' \in [Runs -> {None} \cup SkillRow] /\ mapping' \in [Runs -> Documents]
         /\ \A m \in Runs : /\ Serves(skill'[m], mapping'[m]) /\ RowFits(skill'[m]) /\ NotAfter(skill'[m], published)
                            /\ m # s => skill'[m] = others[m]
         /\ skill'[s] # None /\ skill'[s].snapshot = v
         /\ skill'[s].disabled = (skill[q] # None /\ skill[q].disabled)
<1>1. /\ published \in DOMAIN Snapshots /\ clock \in Nat /\ skill \in [Runs -> {None} \cup SkillRow]
      /\ mapping \in [Runs -> Documents] /\ v \in Nat
  BY SkillConstants DEF SkillInv, SkillTypes
<1>2. Serves(skill[q], mapping[q]) /\ RowFits(skill[q])
  BY DEF SkillInv, RowInv
<1>3. \A m \in Runs : Serves(skill[m], mapping[m]) /\ RowFits(skill[m]) /\ NotAfter(skill[m], published)
  BY DEF SkillInv, RowInv
<1>4. ASSUME NEW m \in Runs, m # s
      PROVE  /\ Serves(others[m], mapping[m]) /\ RowFits(others[m]) /\ NotAfter(others[m], published)
             /\ others[m] = None => \A d \in Docs : ~(mapping[m][d] # None /\ mapping[m][d].active)
  <2>1. CASE others[m] = skill[m]
    BY <1>3, <1>4, <2>1 DEF Serves
  <2>2. CASE others[m] = None /\ skill[m] # None /\ skill[m].state # "imported"
    BY <1>3, <1>4, <2>2 DEF Serves, RowFits, NotAfter
  <2> QED
    BY <1>4, <2>1, <2>2
<1>5. CASE skill[q] # None /\ skill[q].snapshot = v /\ skill[q].state = "imported"
  <2> DEFINE g == clock + more + 1
             new == [skill[q] EXCEPT !.generation = g]
  <2>1. /\ clock' = clock + (more + 1) /\ skill' = [others EXCEPT ![s] = new]
        /\ mapping' = [mapping EXCEPT ![s] = mapping[q]]
    BY <1>5 DEF Store!persistImport, Store!allocated
  <2>2. g \in Nat /\ skill[q] \in SkillRow
    BY <1>1, <1>5
  <2> HIDE DEF g
  <2>3. new \in SkillRow
    BY <2>2 DEF SkillRow
  <2>4. new.snapshot = skill[q].snapshot /\ new.state = skill[q].state /\ new.disabled = skill[q].disabled
    BY <2>2 DEF SkillRow
  <2> HIDE DEF new
  <2>5. new # None
    BY <2>3, SkillConstants
  <2>6. clock' \in Nat /\ skill' \in [Runs -> {None} \cup SkillRow] /\ mapping' \in [Runs -> Documents]
    BY <1>1, <2>1, <2>3
  <2>7. /\ \A m \in Runs : m # s => skill'[m] = others[m] /\ mapping'[m] = mapping[m]
        /\ skill'[s] = new /\ mapping'[s] = mapping[q]
    BY <1>1, <2>1
  <2>8. Serves(new, mapping[q])
    BY <1>2, <1>5, <2>4, <2>5 DEF Serves
  <2>9. RowFits(new) /\ NotAfter(new, published) /\ ~skill[q].disabled
    BY <1>2, <1>5, <2>4, <2>5 DEF RowFits, NotAfter
  <2> QED
    BY <1>4, <1>5, <2>2, <2>4, <2>5, <2>6, <2>7, <2>8, <2>9 DEF SkillRow
<1>6. CASE ~(skill[q] # None /\ skill[q].snapshot = v /\ skill[q].state = "imported")
  <2> DEFINE disabled == Store!preserveDisabled(skill[q])
             new == [generation |-> clock + more + 2, snapshot |-> v, disabled |-> disabled,
                     state |-> IF disabled THEN "disabled" ELSE "imported"]
             after == Store!mappingsAfter(mapping[q], v, disabled)
             none == [d \in Docs |-> None]
  <2>1. /\ clock' = clock + (more + 2) /\ skill' = [others EXCEPT ![s] = new]
        /\ mapping' = [m \in Runs |-> IF m = s THEN after ELSE IF others[m] = None THEN none ELSE mapping[m]]
    BY <1>6 DEF Store!persistImport, Store!allocated
  <2>2. disabled \in BOOLEAN /\ (disabled <=> skill[q] # None /\ skill[q].disabled)
    <3>1. skill[q] # None => skill[q].disabled \in BOOLEAN
      BY <1>1 DEF SkillRow
    <3> QED
      BY <3>1 DEF Store!preserveDisabled
  <2> HIDE DEF disabled
  <2>3. new \in SkillRow /\ new # None
    BY <1>1, <2>2, SkillConstants DEF SkillRow
  <2>4. new.snapshot = v /\ new.disabled = disabled /\ (new.state = "imported" <=> ~disabled) /\ (new.state = "disabled" <=> disabled)
    BY <2>2
  <2> HIDE DEF new
  <2>5. /\ after \in Documents
        /\ \A d \in Docs : /\ d \in Snapshots[v] => after[d] # None /\ after[d].version = v /\ after[d].active = ~disabled
                           /\ d \notin Snapshots[v] /\ after[d] # None => ~after[d].active
    BY <1>1, <2>2, ImportedDocuments
  <2> HIDE DEF after
  <2>6. clock' \in Nat /\ skill' \in [Runs -> {None} \cup SkillRow] /\ mapping' \in [Runs -> Documents]
    BY <1>1, <2>1, <2>3, <2>5 DEF Documents
  <2>7. skill'[s] = new /\ mapping'[s] = after /\ \A m \in Runs : m # s => skill'[m] = others[m]
    BY <2>1
  <2>8. Snapshots[v] \subseteq Docs
    BY SkillConstants
  <2>9. Serves(new, after)
    BY <2>2, <2>3, <2>4, <2>5, <2>8 DEF Serves
  <2>10. RowFits(new) /\ NotAfter(new, published)
    BY <1>1, <2>2, <2>4, SkillConstants DEF RowFits, NotAfter
  <2>11. \A m \in Runs : m # s => Serves(skill'[m], mapping'[m])
    BY <1>4, <2>1, <2>7 DEF Serves
  <2> QED
    BY <1>4, <2>2, <2>3, <2>4, <2>6, <2>7, <2>9, <2>10, <2>11
<1> QED
  BY <1>5, <1>6

\* An import into the row of s: late fetches meet a row that is not newer.
LEMMA ImportStep ==
  ASSUME SkillInv, NEW s \in Runs, NEW v \in DOMAIN Snapshots, v <= published, NEW q \in Runs, NEW more \in Nat,
         NEW others \in [Runs -> {None} \cup SkillRow],
         \A m \in Runs : m # s => \/ others[m] = skill[m]
                                  \/ /\ others[m] = None /\ skill[m] # None /\ skill[m].state # "imported"
                                     /\ ~skill[m].disabled,
         Store!persistImport(s, v, skill[q], mapping[q], more, others),
         skill[s] # None => q = s, NotAfter(skill[s], v),
         UNCHANGED <<published, withheld>>, NEW k \in Calls, Store!done(k)
  PROVE  SkillInv' /\ Store!NeverOlder
<1>1. /\ clock' \in Nat /\ skill' \in [Runs -> {None} \cup SkillRow] /\ mapping' \in [Runs -> Documents]
      /\ \A m \in Runs : /\ Serves(skill'[m], mapping'[m]) /\ RowFits(skill'[m]) /\ NotAfter(skill'[m], published)
                         /\ m # s => skill'[m] = others[m]
      /\ skill'[s] # None /\ skill'[s].snapshot = v
      /\ skill'[s].disabled = (skill[q] # None /\ skill[q].disabled)
  BY SnapshotPersisted
<1>2. \A m \in Runs : RowInv(m)'
  BY <1>1 DEF RowInv
<1>3. ASSUME NEW m \in withheld' PROVE skill'[m] # None /\ skill'[m].disabled
  <2>1. m \in Runs /\ skill[m] # None /\ skill[m].disabled
    BY <1>3 DEF SkillInv, SkillTypes
  <2>2. CASE m = s
    BY <1>1, <2>1, <2>2
  <2>3. CASE m # s
    BY <1>1, <2>1, <2>3
  <2> QED
    BY <2>2, <2>3
<1>4. withheld' \subseteq Runs
  BY DEF SkillInv, SkillTypes
<1>5. SkillInv'
  BY <1>1, <1>2, <1>3, <1>4, RowsWritten
<1>6. ASSUME NEW m \in Runs, skill[m] # None, skill[m].snapshot # None, skill'[m] # None
      PROVE  skill'[m].snapshot >= skill[m].snapshot
  <2>1. skill[m] \in SkillRow
    BY <1>6 DEF SkillInv, SkillTypes
  <2>2. skill[m].snapshot \in Nat
    BY <1>6, <2>1, SkillConstants DEF SkillRow
  <2>3. CASE m = s
    BY <1>1, <1>6, <2>2, <2>3, SkillConstants DEF NotAfter
  <2>4. CASE m # s
    <3>1. skill'[m] = skill[m]
      BY <1>1, <1>6, <2>4
    <3> QED
      BY <2>2, <3>1
  <2> QED
    BY <2>3, <2>4
<1> QED
  BY <1>5, <1>6 DEF Store!NeverOlder, Store!materialized

\* One row changes and keeps its snapshot.
LEMMA RowStep ==
  ASSUME SkillInv, NEW s \in Runs, NEW new \in SkillRow, NEW documents \in Documents, clock' \in Nat,
         skill' = [skill EXCEPT ![s] = new], mapping' = [mapping EXCEPT ![s] = documents], UNCHANGED published,
         skill[s] # None => new.snapshot = skill[s].snapshot,
         Serves(new, documents), RowFits(new), NotAfter(new, published),
         withheld' \subseteq withheld \cup {s}, s \in withheld' => new.disabled,
         UNCHANGED call \/ (\E k \in Calls : Store!done(k))
  PROVE  SkillInv' /\ Store!NeverOlder
<1>1. /\ skill \in [Runs -> {None} \cup SkillRow] /\ mapping \in [Runs -> Documents] /\ withheld' \subseteq Runs
      /\ new # None
  BY SkillConstants DEF SkillInv, SkillTypes
<1>2. /\ skill' \in [Runs -> {None} \cup SkillRow] /\ mapping' \in [Runs -> Documents]
      /\ \A m \in Runs : /\ skill'[m] = IF m = s THEN new ELSE skill[m]
                         /\ mapping'[m] = IF m = s THEN documents ELSE mapping[m]
  BY <1>1
<1>3. \A m \in Runs : RowInv(m)'
  BY <1>2 DEF SkillInv, RowInv
<1>4. \A m \in withheld' : skill'[m] # None /\ skill'[m].disabled
  BY <1>1, <1>2 DEF SkillInv
<1>5. SkillInv'
  BY <1>1, <1>2, <1>3, <1>4, RowsWritten
<1>6. ASSUME NEW m \in Runs, skill[m] # None, skill[m].snapshot # None
      PROVE  skill'[m].snapshot >= skill[m].snapshot
  <2>1. skill[m] \in SkillRow
    BY <1>1, <1>6
  <2>2. skill[m].snapshot \in Nat
    BY <1>6, <2>1, SkillConstants DEF SkillRow
  <2>3. skill'[m].snapshot = skill[m].snapshot
    BY <1>2, <1>6
  <2> QED
    BY <2>2, <2>3
<1> QED
  BY <1>5, <1>6 DEF Store!NeverOlder, Store!materialized

\* A row that is marked stale or blocked serves nothing.
LEMMA MarkStep ==
  ASSUME SkillInv, NEW s \in Runs, skill[s] # None, NEW state \in {"stale", "blocked"}, Store!marked(s, state),
         UNCHANGED <<published, withheld>>, NEW k \in Calls, Store!done(k)
  PROVE  SkillInv' /\ Store!NeverOlder
<1>1. skill[s] \in SkillRow /\ clock \in Nat /\ mapping[s] \in Documents /\ RowInv(s)
  BY DEF SkillInv, SkillTypes
<1> DEFINE g == clock + 1
           new == [skill[s] EXCEPT !.generation = g, !.state = state]
<1>2. skill' = [skill EXCEPT ![s] = new] /\ mapping' = [mapping EXCEPT ![s] = Store!inactive(mapping[s])] /\ clock' = g
  BY DEF Store!marked, Store!allocated
<1>3. g \in Nat
  BY <1>1
<1> HIDE DEF g
<1>4. new \in SkillRow
  BY <1>1, <1>3 DEF SkillRow
<1>5. new.snapshot = skill[s].snapshot /\ new.state = state /\ new.disabled = skill[s].disabled
  BY <1>1 DEF SkillRow
<1> HIDE DEF new
<1>6. new # None
  BY <1>4, SkillConstants
<1>7. Serves(new, Store!inactive(mapping[s]))
  <2>1. new.snapshot # None => Snapshots[new.snapshot] \subseteq Docs
    BY <1>4, SkillConstants DEF SkillRow
  <2> QED
    BY <1>1, <1>5, <1>6, <2>1, InactiveDocuments DEF Serves, RowInv
<1>8. RowFits(new) /\ NotAfter(new, published)
  BY <1>1, <1>5 DEF RowInv, RowFits, NotAfter
<1>9. s \in withheld' => new.disabled
  BY <1>5 DEF SkillInv
<1>10. Store!inactive(mapping[s]) \in Documents
  BY <1>1, InactiveDocuments
<1> QED
  BY <1>2, <1>3, <1>4, <1>5, <1>7, <1>8, <1>9, <1>10, RowStep

\* setExternalSkillState: a disabled skill serves nothing, and an enabled one
\* the snapshot it had.
LEMMA StateStep ==
  ASSUME SkillInv, NEW s \in Runs, Store!disable(s) \/ Store!enable(s)
  PROVE  SkillInv' /\ Store!NeverOlder
<1>1. skill[s] \in SkillRow /\ skill[s] # None /\ clock \in Nat /\ mapping[s] \in Documents /\ RowInv(s)
  BY DEF SkillInv, SkillTypes, Store!disable, Store!enable, Store!rows
<1> DEFINE g == clock + 1
<1>2. g \in Nat /\ (skill[s].snapshot # None => Snapshots[skill[s].snapshot] \subseteq Docs)
  BY <1>1, SkillConstants DEF SkillRow
<1>3. CASE Store!disable(s)
  <2> DEFINE new == [skill[s] EXCEPT !.generation = g, !.state = "disabled", !.disabled = TRUE]
  <2>1. /\ skill' = [skill EXCEPT ![s] = new] /\ mapping' = [mapping EXCEPT ![s] = Store!inactive(mapping[s])] /\ clock' = g
        /\ withheld' = withheld \cup {s} /\ UNCHANGED <<published, call>>
    BY <1>3 DEF Store!disable, Store!allocated
  <2> HIDE DEF g
  <2>2. new \in SkillRow
    BY <1>1, <1>2 DEF SkillRow
  <2>3. new.snapshot = skill[s].snapshot /\ new.state = "disabled" /\ new.disabled
    BY <1>1 DEF SkillRow
  <2> HIDE DEF new
  <2>4. new # None
    BY <2>2, SkillConstants
  <2>5. Serves(new, Store!inactive(mapping[s]))
    BY <1>1, <1>2, <2>3, <2>4, InactiveDocuments DEF Serves, RowInv
  <2>6. RowFits(new) /\ NotAfter(new, published) /\ Store!inactive(mapping[s]) \in Documents
    BY <1>1, <2>3, InactiveDocuments DEF RowInv, RowFits, NotAfter
  <2> QED
    BY <1>2, <2>1, <2>2, <2>3, <2>5, <2>6, RowStep
<1>4. CASE Store!enable(s)
  <2> DEFINE new == [skill[s] EXCEPT !.generation = g, !.state = "imported", !.disabled = FALSE]
             documents == [d \in Docs |-> IF d \in Snapshots[skill[s].snapshot] THEN [mapping[s][d] EXCEPT !.active = TRUE]
                                          ELSE Store!inactive(mapping[s])[d]]
  <2>1. /\ skill' = [skill EXCEPT ![s] = new] /\ mapping' = [mapping EXCEPT ![s] = documents] /\ clock' = g
        /\ withheld' = withheld \ {s} /\ UNCHANGED <<published, call>> /\ skill[s].snapshot # None
    BY <1>4 DEF Store!enable, Store!allocated, Store!materialized
  <2> HIDE DEF g
  <2>2. new \in SkillRow
    BY <1>1, <1>2 DEF SkillRow
  <2>3. new.snapshot = skill[s].snapshot /\ new.state = "imported" /\ ~new.disabled
    BY <1>1 DEF SkillRow
  <2> HIDE DEF new
  <2>4. new # None
    BY <2>2, SkillConstants
  <2>5. ASSUME NEW d \in Docs, d \in Snapshots[skill[s].snapshot]
        PROVE  /\ documents[d] \in SkillDocument /\ documents[d].active /\ documents[d] # None
               /\ documents[d].version = skill[s].snapshot
    <3>1. mapping[s][d] \in SkillDocument /\ mapping[s][d].version = skill[s].snapshot
      BY <1>1, <2>1, <2>5 DEF RowInv, Serves, Documents
    <3>2. documents[d] = [mapping[s][d] EXCEPT !.active = TRUE]
      BY <2>5
    <3>3. documents[d] \in SkillDocument /\ documents[d].active /\ documents[d].version = skill[s].snapshot
      BY <3>1, <3>2 DEF SkillDocument
    <3> QED
      BY <3>3, SkillConstants
  <2>6. ASSUME NEW d \in Docs, d \notin Snapshots[skill[s].snapshot]
        PROVE  documents[d] \in {None} \cup SkillDocument /\ (documents[d] # None => ~documents[d].active)
    BY <1>1, <2>6, InactiveDocuments DEF Documents
  <2>7. documents \in Documents
    BY <2>5, <2>6 DEF Documents
  <2> HIDE DEF documents
  <2>8. Serves(new, documents)
    BY <1>2, <2>1, <2>3, <2>4, <2>5, <2>6 DEF Serves
  <2>9. RowFits(new) /\ NotAfter(new, published)
    BY <1>1, <2>1, <2>3 DEF RowInv, RowFits, NotAfter
  <2> QED
    BY <1>2, <2>1, <2>2, <2>3, <2>7, <2>8, <2>9, RowStep
<1> QED
  BY <1>3, <1>4

\* A call that has fetched a snapshot: it is not newer than what is
\* published, and not older than any row the call has seen.
LEMMA Fetched ==
  ASSUME SkillInv, NEW k \in Calls, call[k] # None
  PROVE  /\ call[k] \in SkillCall /\ (call[k].seen # None => call[k].existing \in Runs)
         /\ call[k].kind = "refresh" => call[k].existing \in Runs
         /\ call[k].version # None => /\ call[k].version \in DOMAIN Snapshots /\ call[k].version <= published
                                      /\ call[k].canonical \in Runs /\ NotAfter(call[k].seen, call[k].version)
                                      /\ \A t \in Runs : NotAfter(call[k].all[t], call[k].version)
<1>1. call[k] \in SkillCall /\ CallFits(call[k])
  BY DEF SkillInv, SkillTypes
<1>2. call[k].existing \in {None} \cup Runs /\ call[k].canonical \in {None} \cup Runs
      /\ call[k].version \in {None} \cup DOMAIN Snapshots
  BY <1>1 DEF SkillCall
<1> QED
  BY <1>1, <1>2 DEF CallFits

\* The import of a skill that has no row.
LEMMA NewStep ==
  ASSUME SkillInv, NEW k \in Calls, Store!persistNew(k)
  PROVE  SkillInv' /\ Store!NeverOlder
<1> DEFINE s == call[k].canonical
           v == call[k].version
<1>1. /\ call[k] # None /\ v # None /\ skill[s] = None /\ Store!done(k) /\ UNCHANGED <<published, withheld>>
      /\ Store!persistImport(s, v, skill[s], mapping[s], 0, skill)
  BY DEF Store!persistNew, Store!persistAt
<1>2. s \in Runs /\ v \in DOMAIN Snapshots /\ v <= published /\ skill \in [Runs -> {None} \cup SkillRow]
  BY <1>1, Fetched DEF SkillInv, SkillTypes
<1>3. NotAfter(skill[s], v)
  BY <1>1 DEF NotAfter
<1> HIDE DEF s, v
<1> QED
  BY <1>1, <1>2, <1>3, ImportStep

\* What a command refreshes is the row it has seen.
LEMMA Observed ==
  ASSUME SkillInv, NEW k \in Calls, call[k] # None, call[k].version # None,
         Store!observed(call[k]).row # None
  PROVE  /\ Store!observed(call[k]).id \in Runs
         /\ NotAfter(Store!observed(call[k]).row, call[k].version)
BY Fetched DEF Store!observed, SkillCall

\* A row that is unchanged since it was seen is not newer than it was.
LEMMA Unchanged ==
  ASSUME NEW s \in Runs, NEW seenThen, NEW v, Store!unchanged(s, seenThen), NotAfter(seenThen, v)
  PROVE  skill[s] # None /\ NotAfter(skill[s], v)
BY DEF Store!unchanged, NotAfter

\* A refresh writes the row that it has read, or marks it.
LEMMA RefreshStep ==
  ASSUME SkillInv, NEW k \in Calls, Store!refreshExternalSkillSnapshot(k)
  PROVE  SkillInv' /\ Store!NeverOlder
<1> DEFINE c == call[k]
           o == Store!observed(call[k])
           s == o.id
           v == call[k].version
<1>1. /\ c # None /\ v # None /\ o.row # None /\ Store!unchanged(s, o.row) /\ Store!done(k)
      /\ UNCHANGED <<published, withheld>>
      /\ \/ Store!persistAt(s, v)
         \/ Store!marked(s, "stale")
  BY DEF Store!refreshExternalSkillSnapshot
<1>2. v \in DOMAIN Snapshots /\ v <= published
  BY <1>1, Fetched
<1>3. s \in Runs /\ NotAfter(o.row, v)
  BY <1>1, Observed
<1>4. skill \in [Runs -> {None} \cup SkillRow]
  BY DEF SkillInv, SkillTypes
<1> HIDE DEF c, o, s, v
<1>5. skill[s] # None /\ NotAfter(skill[s], v)
  BY <1>1, <1>3, Unchanged
<1>6. CASE Store!persistAt(s, v)
  <2>1. Store!persistImport(s, v, skill[s], mapping[s], 0, skill)
    BY <1>6 DEF Store!persistAt
  <2> QED
    BY <1>1, <1>2, <1>3, <1>4, <1>5, <2>1, ImportStep
<1>7. CASE Store!marked(s, "stale")
  BY <1>1, <1>3, <1>5, <1>7, MarkStep
<1> QED
  BY <1>1, <1>6, <1>7

\* An alias without a snapshot gives way to the canonical row, or becomes it.
LEMMA ExistingStep ==
  ASSUME SkillInv, NEW k \in Calls, Store!persistExisting(k)
  PROVE  SkillInv' /\ Store!NeverOlder
<1> DEFINE o == Store!observed(call[k])
           s == o.id
           t == call[k].canonical
           v == call[k].version
           rest == IF t = s THEN skill ELSE [skill EXCEPT ![s] = None]
           q == IF skill[t] = None THEN s ELSE t
<1>1. /\ call[k] # None /\ v # None /\ o.row # None /\ o.row.snapshot = None /\ Store!unchanged(s, o.row)
      /\ skill[s].state \in {"discovered", "stale"} /\ ~skill[s].disabled
      /\ Store!done(k) /\ UNCHANGED <<published, withheld>>
  BY DEF Store!persistExisting, Store!materialized
<1>2. \/ t = s /\ Store!persistAt(t, v)
      \/ /\ t # s
         /\ skill[t] # None => Store!unchanged(t, call[k].all[t])
         /\ Store!persistImport(t, v, IF skill[t] = None THEN skill[s] ELSE skill[t],
                                IF skill[t] = None THEN mapping[s] ELSE mapping[t], 1, rest)
  BY DEF Store!persistExisting
<1>3. v \in DOMAIN Snapshots /\ v <= published /\ t \in Runs /\ NotAfter(call[k].all[t], v)
  BY <1>1, Fetched
<1>4. s \in Runs /\ NotAfter(o.row, v)
  BY <1>1, Observed
<1>5. skill \in [Runs -> {None} \cup SkillRow]
  BY DEF SkillInv, SkillTypes
<1> HIDE DEF o, s, t, v
<1>6. skill[s] # None /\ NotAfter(skill[s], v)
  BY <1>1, <1>4, Unchanged
<1>7. CASE t = s /\ Store!persistAt(t, v)
  <2>1. Store!persistImport(s, v, skill[s], mapping[s], 0, skill)
    BY <1>7 DEF Store!persistAt
  <2> QED
    BY <1>1, <1>3, <1>4, <1>5, <1>6, <2>1, ImportStep
<1>8. CASE /\ t # s
           /\ skill[t] # None => Store!unchanged(t, call[k].all[t])
           /\ Store!persistImport(t, v, IF skill[t] = None THEN skill[s] ELSE skill[t],
                                  IF skill[t] = None THEN mapping[s] ELSE mapping[t], 1, rest)
  <2>1. q \in Runs /\ (skill[t] # None => q = t)
    BY <1>3, <1>4
  <2>2. Store!persistImport(t, v, skill[q], mapping[q], 1, rest)
    <3>1. CASE skill[t] = None
      BY <1>8, <3>1
    <3>2. CASE skill[t] # None
      BY <1>8, <3>2
    <3> QED
      BY <3>1, <3>2
  <2>3. rest \in [Runs -> {None} \cup SkillRow] /\ \A m \in Runs : rest[m] = IF m = s THEN None ELSE skill[m]
    BY <1>5, <1>8
  <2>4. NotAfter(skill[t], v)
    <3>1. CASE skill[t] = None
      BY <3>1 DEF NotAfter
    <3>2. CASE skill[t] # None
      BY <1>3, <1>8, <3>2, Unchanged
    <3> QED
      BY <3>1, <3>2
  <2>5. \A m \in Runs : m # t => \/ rest[m] = skill[m]
                                 \/ /\ rest[m] = None /\ skill[m] # None /\ skill[m].state # "imported"
                                    /\ ~skill[m].disabled
    BY <1>1, <1>6, <2>3
  <2> HIDE DEF q, rest
  <2> QED
    BY <1>1, <1>3, <2>1, <2>2, <2>3, <2>4, <2>5, ImportStep
<1> QED
  BY <1>2, <1>7, <1>8

\* The source of a skill is gone or refused, or was never reached.
LEMMA FailureStep ==
  ASSUME SkillInv, NEW k \in Calls,
         Store!recordStale(k) \/ (\E state \in {"stale", "blocked"} : Store!markRefreshFailure(k, state))
  PROVE  SkillInv' /\ Store!NeverOlder
<1>1. ASSUME NEW state \in {"stale", "blocked"}, Store!markRefreshFailure(k, state)
      PROVE  SkillInv' /\ Store!NeverOlder
  <2> DEFINE s == call[k].existing
  <2>1. /\ call[k] # None /\ call[k].seen # None /\ skill[s] # None /\ Store!marked(s, state) /\ Store!done(k)
        /\ UNCHANGED <<published, withheld>>
    BY <1>1 DEF Store!markRefreshFailure, Store!unchanged
  <2>2. s \in Runs
    BY <2>1, Fetched
  <2> HIDE DEF s
  <2> QED
    BY <2>1, <2>2, MarkStep
<1>2. CASE Store!recordStale(k)
  <2> DEFINE s == call[k].skill
             new == [generation |-> clock + 2, snapshot |-> None, disabled |-> FALSE, state |-> "stale"]
  <2>1. /\ call[k] # None /\ skill[s] = None /\ clock' = clock + 2 /\ skill' = [skill EXCEPT ![s] = new] /\ Store!done(k)
        /\ UNCHANGED <<published, mapping, withheld>>
    BY <1>2 DEF Store!recordStale, Store!allocated
  <2>2. s \in Runs /\ clock \in Nat /\ mapping \in [Runs -> Documents]
    BY <2>1, Fetched DEF SkillInv, SkillTypes, SkillCall
  <2>3. new \in SkillRow /\ new.snapshot = None /\ new.state = "stale"
    BY <2>2 DEF SkillRow
  <2> HIDE DEF s, new
  <2>4. mapping' = [mapping EXCEPT ![s] = mapping[s]] /\ mapping[s] \in Documents
    BY <2>1, <2>2
  <2>5. Serves(new, mapping[s])
    <3>1. \A d \in Docs : ~(mapping[s][d] # None /\ mapping[s][d].active)
      BY <2>1, <2>2 DEF SkillInv, RowInv, Serves
    <3> QED
      BY <2>3, <3>1 DEF Serves
  <2>6. RowFits(new) /\ NotAfter(new, published)
    BY <2>3 DEF RowFits, NotAfter
  <2>7. s \notin withheld'
    BY <2>1 DEF SkillInv
  <2>8. clock' \in Nat
    BY <2>1, <2>2
  <2> QED
    BY <2>1, <2>2, <2>3, <2>4, <2>5, <2>6, <2>7, <2>8, RowStep
<1> QED
  BY <1>1, <1>2

\* A snapshot stays where it is when no row changes.
LEMMA SameRows ==
  ASSUME SkillInv, UNCHANGED skill
  PROVE  Store!NeverOlder
<1> SUFFICES ASSUME NEW s \in Runs, skill[s] # None, skill[s].snapshot # None
             PROVE  skill'[s].snapshot >= skill[s].snapshot
  BY DEF Store!NeverOlder, Store!materialized
<1>1. skill[s] \in SkillRow
  BY DEF SkillInv, SkillTypes
<1>2. skill[s].snapshot \in Nat
  BY <1>1, SkillConstants DEF SkillRow
<1> QED
  BY <1>2

\* SkillInv is inductive, and no step takes a skill back to an older snapshot.
LEMMA SkillStep == SkillInv /\ [Store!Next]_skillVars => SkillInv' /\ Store!NeverOlder
<1> SUFFICES ASSUME SkillInv, [Store!Next]_skillVars PROVE SkillInv' /\ Store!NeverOlder
  OBVIOUS
<1>1. ASSUME NEW k \in Calls, Store!failCall(k) \/ Store!reuseImported(k)
      PROVE  SkillInv' /\ Store!NeverOlder
  <2>1. call' = [call EXCEPT ![k] = None] /\ UNCHANGED <<published, clock, skill, mapping, withheld>>
    BY <1>1 DEF Store!failCall, Store!reuseImported, Store!done
  <2>2. CallFits(None)
    BY DEF CallFits
  <2> QED
    BY <2>1, <2>2, CallWorks, SameRows
<1>2. ASSUME NEW k \in Calls, NEW s \in Runs,
             Store!importSkill(k, s) \/ Store!refreshSkill(k, s) \/ Store!discover(k, s)
      PROVE  SkillInv' /\ Store!NeverOlder
  <2>1. Store!selected(s) \in {None} \cup Runs
    BY DEF Store!selected, Store!owners, Store!rows
  <2>2. PICK kind \in {"import", "refresh", "discover"}, existing \in {None} \cup Runs :
          /\ kind = "refresh" => existing # None
          /\ call' = [call EXCEPT ![k] = Store!begun(kind, s, existing)]
          /\ UNCHANGED <<published, clock, skill, mapping, withheld>>
    BY <1>2, <2>1, SkillConstants DEF Store!importSkill, Store!refreshSkill, Store!discover
  <2> QED
    BY <2>2, CallBegins, SameRows
<1>3. ASSUME Store!publish \/ (\E k \in Calls, t \in Runs : Store!fetchSnapshot(k, t))
      PROVE  SkillInv' /\ Store!NeverOlder
  <2>1. UNCHANGED skill
    BY <1>3 DEF Store!publish, Store!fetchSnapshot
  <2> QED
    BY <1>3, <2>1, SnapshotsStep, SameRows
<1>4. CASE UNCHANGED skillVars
  <2>1. UNCHANGED <<published, clock, skill, mapping, call, withheld>>
    BY <1>4 DEF skillVars
  <2>2. SkillTypes' /\ \A s \in Runs : RowInv(s)'
    BY <2>1 DEF SkillInv, SkillTypes, RowInv
  <2>3. \A k \in Calls : CallFits(call[k])'
    BY <2>1 DEF SkillInv, CallFits
  <2> QED
    BY <2>1, <2>2, <2>3, SameRows DEF SkillInv
<1>5. CASE Store!Next
  BY <1>1, <1>2, <1>3, <1>5, StateStep, NewStep, RefreshStep, ExistingStep, FailureStep DEF Store!Next
<1> QED
  BY <1>4, <1>5

-----------------------------------------------------------------------------
(* The discovery of skills: budgets and latches                            *)

Units == {None, "primary", "fallback"} \cup Found
Discoverer == [request : Requests, queries : Nat, limit : Nat, scope : {"owner", "general"}, asked : Nat,
               curated : BOOLEAN, flight : Units, latched : BOOLEAN, authFailed : BOOLEAN, sourceLatched : BOOLEAN,
               found : SUBSET Units, audits : Nat, allowed : SUBSET Units, denied : SUBSET Units,
               tried : SUBSET Units, selected : SUBSET Units, phase : {"search", "audit", "fetch", "persist"}]
SearchRow == [outcome : {"success", "empty", "unavailable", "auth", "invalid"}, skills : SUBSET Found]

\* What counts against the budget of a request, and all that does.
countedFor(r, kind) ==
  IF attempt[r] = None THEN 0
  ELSE IF attempt[r].state = "started" THEN attempt[r].reserved[kind] ELSE attempt[r].used[kind]
Counted(kind) == UNION {{<<r, i>> : i \in 1..countedFor(r, kind)} : r \in Requests}

\* The skills that were taken for a request.
takenFor(r) == {s \in Units : <<r, s>> \in taken}

DiscoveryTypes ==
  /\ searchCache \in [Discovery!CacheKeys -> {None} \cup SearchRow]
  /\ attempt \in [Requests -> {None} \cup SkillAttempt] /\ work \in [Workers -> {None} \cup Discoverer]
  /\ executed \in [Requests -> Nat] /\ taken \subseteq Requests \X Units

\* A worker has the one attempt of its request that is under way, asks for no
\* more than was reserved, and nothing after a failure.
WorkFits(d) ==
  /\ d.asked <= d.queries /\ d.queries <= MaxQueries
  /\ attempt[d.request] # None /\ attempt[d.request].state = "started"
  /\ attempt[d.request].reserved = [queries |-> d.queries, skills |-> d.limit]
  /\ IsFiniteSet(d.selected) /\ Cardinality(d.selected) <= d.limit
  /\ d.phase = "fetch" /\ d.flight # None => Cardinality(d.selected) < d.limit
  /\ d.latched /\ d.phase \in {"search", "audit"} => d.flight = None
  /\ takenFor(d.request) = d.selected
WorkInv ==
  /\ \A w \in Workers : work[w] # None => WorkFits(work[w])
  /\ \A w, u \in Workers : work[w] # None /\ work[u] # None /\ w # u => work[w].request # work[u].request

BudgetInv ==
  /\ \A kind \in {"queries", "skills"} : IsFiniteSet(Counted(kind))
  /\ Cardinality(Counted("queries")) <= MaxQueries /\ Cardinality(Counted("skills")) <= MaxSkills
  /\ issued \subseteq Counted("queries")
  /\ \A r \in Requests : IsFiniteSet(takenFor(r)) /\ Cardinality(takenFor(r)) <= countedFor(r, "skills")

ExecutedInv == \A r \in Requests : executed[r] <= 1 /\ (attempt[r] = None => executed[r] = 0)

DiscoveryInv == DiscoveryTypes /\ WorkInv /\ BudgetInv /\ ExecutedInv

\* The budget that is used is counted as Cardinality counts.
LEMMA SameCount == \A S : Discovery!Cardinality(S) = Cardinality(S)
BY DEF Discovery!Cardinality, Cardinality

\* What is used of a budget.
LEMMA UsedBudget ==
  ASSUME NEW kind \in {"queries", "skills"}
  PROVE  Discovery!usedDiscoveryBudget(kind) = Cardinality(Counted(kind))
BY SameCount DEF Discovery!usedDiscoveryBudget, Counted, countedFor

\* What counts for a request is a number.
LEMMA CountedNumber ==
  ASSUME DiscoveryTypes, NEW r \in Requests, NEW kind \in {"queries", "skills"}
  PROVE  countedFor(r, kind) \in Nat
<1>1. attempt[r] # None => attempt[r] \in SkillAttempt
  BY DEF DiscoveryTypes
<1>2. attempt[r] # None => attempt[r].reserved[kind] \in Nat /\ attempt[r].used[kind] \in Nat
  BY <1>1 DEF SkillAttempt, SkillBudget
<1> QED
  BY <1>2 DEF countedFor

\* A finite set of at most n elements fits into 1..n.
LEMMA FitsInto ==
  ASSUME NEW S, IsFiniteSet(S), NEW n \in Nat, Cardinality(S) <= n
  PROVE  \E f \in [S -> 1..n] : \A x, y \in S : x # y => f[x] # f[y]
<1>1. Cardinality(S) \in Nat /\ \E f : f \in Bijection(1..Cardinality(S), S)
  BY FS_CardinalityType DEF ExistsBijection
<1>2. PICK f \in [1..Cardinality(S) -> S] : \A x \in S : \E i \in 1..Cardinality(S) : f[i] = x
  BY <1>1 DEF Bijection, Surjection
<1> DEFINE g == [x \in S |-> CHOOSE i \in 1..Cardinality(S) : f[i] = x]
<1>3. \A x \in S : g[x] \in 1..Cardinality(S) /\ f[g[x]] = x
  BY <1>2
<1>4. 1..Cardinality(S) \subseteq 1..n
  BY <1>1
<1>5. g \in [S -> 1..n]
  BY <1>3, <1>4
<1>6. \A x, y \in S : x # y => g[x] # g[y]
  BY <1>3
<1> QED
  BY <1>5, <1>6

\* No more skills were taken than count against the budget.
LEMMA TakenCounted ==
  ASSUME DiscoveryInv
  PROVE  IsFiniteSet(taken) /\ Cardinality(taken) <= Cardinality(Counted("skills"))
<1> DEFINE F == [r \in Requests |-> CHOOSE f \in [takenFor(r) -> 1..countedFor(r, "skills")] :
                                       \A x, y \in takenFor(r) : x # y => f[x] # f[y]]
           G == [x \in taken |-> <<x[1], F[x[1]][x[2]]>>]
<1>1. ASSUME NEW r \in Requests
      PROVE  /\ F[r] \in [takenFor(r) -> 1..countedFor(r, "skills")]
             /\ \A x, y \in takenFor(r) : x # y => F[r][x] # F[r][y]
  <2>1. countedFor(r, "skills") \in Nat /\ IsFiniteSet(takenFor(r)) /\ Cardinality(takenFor(r)) <= countedFor(r, "skills")
    BY CountedNumber DEF DiscoveryInv, BudgetInv
  <2>2. \E f \in [takenFor(r) -> 1..countedFor(r, "skills")] : \A x, y \in takenFor(r) : x # y => f[x] # f[y]
    BY <2>1, FitsInto
  <2> QED
    BY <2>2
<1>2. \A x \in taken : x = <<x[1], x[2]>> /\ x[1] \in Requests /\ x[2] \in takenFor(x[1])
  BY DEF DiscoveryInv, DiscoveryTypes, takenFor
<1> HIDE DEF F
<1>3. ASSUME NEW x \in taken PROVE G[x] = <<x[1], F[x[1]][x[2]]>> /\ G[x] \in Counted("skills")
  BY <1>1, <1>2 DEF Counted
<1>4. ASSUME NEW x \in taken, NEW y \in taken, G[x] = G[y] PROVE x = y
  <2>1. x[1] = y[1] /\ F[x[1]][x[2]] = F[y[1]][y[2]]
    BY <1>3, <1>4
  <2>2. x[2] \in takenFor(x[1]) /\ y[2] \in takenFor(x[1]) /\ x[1] \in Requests
    BY <1>2, <2>1
  <2>3. x[2] = y[2]
    BY <1>1, <2>1, <2>2
  <2> QED
    BY <1>2, <2>1, <2>3
<1> HIDE DEF G
<1>5. G \in [taken -> Counted("skills")]
  BY <1>3 DEF G
<1>6. G \in Injection(taken, Counted("skills"))
  BY <1>4, <1>5 DEF Injection, IsInjective
<1>7. IsFiniteSet(Counted("skills"))
  BY DEF DiscoveryInv, BudgetInv
<1> QED
  BY <1>6, <1>7, FS_Injection DEF ExistsInjection

\* A run stays within its budgets, and no request is executed twice.
LEMMA BudgetsKept == DiscoveryInv => Discovery!BudgetKept /\ Discovery!SilentAfterFailure
<1> SUFFICES ASSUME DiscoveryInv PROVE Discovery!BudgetKept /\ Discovery!SilentAfterFailure
  OBVIOUS
<1>1. \A kind \in {"queries", "skills"} : Cardinality(Counted(kind)) \in Nat
  BY FS_CardinalityType DEF DiscoveryInv, BudgetInv
<1>2. MaxQueries \in Nat /\ MaxSkills \in Nat
  BY LedgerAssumption DEF LedgerAssumption
<1>3. Cardinality(issued) <= MaxQueries
  <2>1. IsFiniteSet(issued) /\ Cardinality(issued) <= Cardinality(Counted("queries"))
    BY FS_Subset DEF DiscoveryInv, BudgetInv
  <2>2. Cardinality(issued) \in Nat
    BY <2>1, FS_CardinalityType
  <2> QED
    BY <1>1, <1>2, <2>1, <2>2 DEF DiscoveryInv, BudgetInv
<1>4. Cardinality(taken) <= MaxSkills
  <2>1. IsFiniteSet(taken) /\ Cardinality(taken) <= Cardinality(Counted("skills"))
    BY TakenCounted
  <2>2. Cardinality(taken) \in Nat
    BY <2>1, FS_CardinalityType
  <2> QED
    BY <1>1, <1>2, <2>1, <2>2 DEF DiscoveryInv, BudgetInv
<1>5. \A r \in Requests : executed[r] <= 1
  BY DEF DiscoveryInv, ExecutedInv
<1>6. Discovery!BudgetKept
  BY <1>3, <1>4, <1>5, SameCount DEF Discovery!BudgetKept
<1>7. Discovery!SilentAfterFailure
  BY DEF DiscoveryInv, WorkInv, WorkFits, Discovery!SilentAfterFailure
<1> QED
  BY <1>6, <1>7

\* Before anything is claimed, nothing is used.
LEMMA DiscoveryInit == Discovery!Init => DiscoveryInv
<1> SUFFICES ASSUME Discovery!Init PROVE DiscoveryInv
  OBVIOUS
<1>1. /\ searchCache = [k \in Discovery!CacheKeys |-> None] /\ attempt = [r \in Requests |-> None]
      /\ work = [w \in Workers |-> None] /\ executed = [r \in Requests |-> 0] /\ issued = {} /\ taken = {}
  BY DEF Discovery!Init
<1>2. DiscoveryTypes
  BY <1>1 DEF DiscoveryTypes
<1>3. WorkInv /\ ExecutedInv
  BY <1>1 DEF WorkInv, ExecutedInv
<1>4. \A kind \in {"queries", "skills"} : Counted(kind) = {}
  BY <1>1 DEF Counted, countedFor
<1>5. \A r \in Requests : takenFor(r) = {} /\ countedFor(r, "skills") = 0
  BY <1>1 DEF takenFor, countedFor
<1>6. IsFiniteSet({}) /\ Cardinality({}) = 0 /\ MaxQueries \in Nat /\ MaxSkills \in Nat
  BY FS_EmptySet, LedgerAssumption DEF LedgerAssumption
<1>7. BudgetInv
  BY <1>1, <1>4, <1>5, <1>6 DEF BudgetInv
<1> QED
  BY <1>2, <1>3, <1>7 DEF DiscoveryInv

\* A worker goes on with its attempt: it may issue a query it has reserved and
\* take a skill while its limit is not reached.
LEMMA WorkGoesOn ==
  ASSUME DiscoveryInv, NEW w \in Workers, work[w] # None, NEW d \in Discoverer,
         work' = [work EXCEPT ![w] = d],
         d.request = work[w].request, d.queries = work[w].queries, d.limit = work[w].limit, d.asked <= d.queries,
         UNCHANGED <<attempt, executed>>, searchCache' \in [Discovery!CacheKeys -> {None} \cup SearchRow],
         \A x \in issued' : x \in issued \/ (\E i \in 1..d.queries : x = <<d.request, i>>),
         \/ taken' = taken /\ d.selected = work[w].selected
         \/ /\ Cardinality(work[w].selected) < d.limit
            /\ \E s \in Units : taken' = taken \cup {<<d.request, s>>} /\ d.selected = work[w].selected \cup {s},
         d.phase = "fetch" /\ d.flight # None => Cardinality(d.selected) < d.limit,
         d.latched /\ d.phase \in {"search", "audit"} => d.flight = None
  PROVE  DiscoveryInv'
<1>1. /\ WorkFits(work[w]) /\ work[w] \in Discoverer /\ d.request \in Requests /\ d.limit \in Nat /\ d.queries \in Nat
      /\ taken \subseteq Requests \X Units
  BY DEF DiscoveryInv, WorkInv, DiscoveryTypes, Discoverer
<1> DEFINE r == d.request
<1>2. /\ takenFor(r) = work[w].selected /\ takenFor(r)' = d.selected /\ taken' \subseteq Requests \X Units
      /\ \A q \in Requests : q # r => takenFor(q)' = takenFor(q)
  BY <1>1 DEF takenFor, WorkFits, Discoverer
<1>3. IsFiniteSet(d.selected) /\ Cardinality(d.selected) <= d.limit
  <2>1. CASE d.selected = work[w].selected
    BY <1>1, <2>1 DEF WorkFits
  <2>2. CASE Cardinality(work[w].selected) < d.limit /\ \E s \in Units : d.selected = work[w].selected \cup {s}
    <3>1. IsFiniteSet(work[w].selected) /\ Cardinality(work[w].selected) \in Nat
      BY <1>1, FS_CardinalityType DEF WorkFits
    <3>2. PICK s \in Units : d.selected = work[w].selected \cup {s}
      BY <2>2
    <3>3. /\ IsFiniteSet(d.selected)
          /\ Cardinality(d.selected) \in {Cardinality(work[w].selected), Cardinality(work[w].selected) + 1}
      <4> DEFINE before == work[w].selected
      <4>1. IsFiniteSet(before) /\ d.selected = before \cup {s}
        BY <3>1, <3>2
      <4> HIDE DEF before
      <4>2. IsFiniteSet(before \cup {s}) /\ Cardinality(before \cup {s}) = IF s \in before THEN Cardinality(before) ELSE Cardinality(before) + 1
        BY <4>1, FS_AddElement
      <4>3. IsFiniteSet(d.selected) /\ Cardinality(d.selected) \in {Cardinality(before), Cardinality(before) + 1}
        BY <4>1, <4>2
      <4> QED
        BY <4>3 DEF before
    <3> QED
      BY <1>1, <2>2, <3>1, <3>3
  <2> QED
    BY <2>1, <2>2
<1>4. attempt[r] # None /\ attempt[r].state = "started" /\ attempt[r].reserved = [queries |-> d.queries, skills |-> d.limit]
  BY <1>1 DEF WorkFits
<1>5. /\ \A q \in Requests, kind \in {"queries", "skills"} : countedFor(q, kind)' = countedFor(q, kind)
      /\ \A kind \in {"queries", "skills"} : Counted(kind)' = Counted(kind)
  BY DEF countedFor, Counted
<1>6. countedFor(r, "skills") = d.limit /\ countedFor(r, "queries") = d.queries
  BY <1>4 DEF countedFor
<1>7. work' \in [Workers -> {None} \cup Discoverer] /\ \A u \in Workers : work'[u] = IF u = w THEN d ELSE work[u]
  BY DEF DiscoveryInv, DiscoveryTypes
<1>8. DiscoveryTypes' /\ ExecutedInv'
  BY <1>2, <1>7 DEF DiscoveryInv, DiscoveryTypes, ExecutedInv
<1>9. ASSUME NEW u \in Workers, work[u]' # None PROVE WorkFits(work[u])'
  <2>1. CASE u = w
    <3>1. work[u]' = d
      BY <1>7, <2>1
    <3>2. takenFor(work[u].request)' = d.selected
      BY <1>2, <3>1 DEF takenFor
    <3> QED
      BY <1>1, <1>3, <1>4, <3>1, <3>2 DEF WorkFits
  <2>2. CASE u # w
    <3>1. work[u]' = work[u] /\ work[u] \in Discoverer /\ work[u].request # r /\ WorkFits(work[u])
      BY <1>1, <1>7, <1>9, <2>2 DEF DiscoveryInv, WorkInv, DiscoveryTypes
    <3>2. work[u].request \in Requests
      BY <3>1 DEF Discoverer
    <3>3. takenFor(work[u].request)' = takenFor(work[u].request)
      BY <1>2, <3>1, <3>2 DEF takenFor
    <3> QED
      BY <3>1, <3>3 DEF WorkFits
  <2> QED
    BY <2>1, <2>2
<1>10. \A v, u \in Workers : work'[v] # None /\ work'[u] # None /\ v # u => work'[v].request # work'[u].request
  BY <1>7 DEF DiscoveryInv, WorkInv
<1>11. ASSUME NEW q \in Requests
       PROVE  IsFiniteSet(takenFor(q)') /\ Cardinality(takenFor(q)') <= countedFor(q, "skills")'
  <2>1. CASE q = r
    BY <1>2, <1>3, <1>5, <1>6, <2>1
  <2>2. CASE q # r
    BY <1>2, <1>5, <2>2 DEF DiscoveryInv, BudgetInv
  <2> QED
    BY <2>1, <2>2
<1>12. issued' \subseteq Counted("queries")
  BY <1>1, <1>6 DEF DiscoveryInv, BudgetInv, Counted
<1>13. BudgetInv'
  BY <1>5, <1>11, <1>12 DEF DiscoveryInv, BudgetInv
<1>14. WorkInv'
  BY <1>9, <1>10 DEF WorkInv
<1> QED
  BY <1>8, <1>13, <1>14 DEF DiscoveryInv

\* What a search leaves as it is.
SameAttempt(d, e) ==
  /\ e \in Discoverer /\ e.request = d.request /\ e.queries = d.queries /\ e.limit = d.limit
  /\ e.selected = d.selected /\ e.phase = d.phase /\ e.asked = d.asked
  /\ e.latched => e.flight = None

\* The outcome of a search, from its record or from the registry.
LEMMA OutcomeKnown ==
  ASSUME NEW d \in Discoverer, NEW found \in SearchRow
  PROVE  SameAttempt(d, Discovery!withOutcome(d, found))
<1>1. ASSUME found.outcome \in {"success", "empty"}
      PROVE  SameAttempt(d, Discovery!withOutcome(d, found))
  <2> DEFINE all2 == d.found \cup found.skills
             e == [d EXCEPT !.found = all2, !.flight = None]
  <2>1. all2 \in SUBSET Units
    BY DEF Discoverer, SearchRow, Units
  <2>2. Discovery!withOutcome(d, found) = e
    BY <1>1 DEF Discovery!withOutcome, Discoverer
  <2> HIDE DEF all2
  <2>3. e \in Discoverer
    BY <2>1 DEF Discoverer, Units
  <2>4. /\ e.request = d.request /\ e.queries = d.queries /\ e.limit = d.limit
        /\ e.selected = d.selected /\ e.phase = d.phase /\ e.asked = d.asked /\ e.flight = None
    BY DEF Discoverer
  <2> QED
    BY <2>2, <2>3, <2>4 DEF SameAttempt
<1>2. ASSUME found.outcome \notin {"success", "empty"}
      PROVE  SameAttempt(d, Discovery!withOutcome(d, found))
  <2> DEFINE e == [d EXCEPT !.latched = TRUE, !.flight = None]
  <2>1. Discovery!withOutcome(d, found) = e
    BY <1>2 DEF Discovery!withOutcome
  <2>2. e \in Discoverer
    BY DEF Discoverer, Units
  <2>3. /\ e.request = d.request /\ e.queries = d.queries /\ e.limit = d.limit
        /\ e.selected = d.selected /\ e.phase = d.phase /\ e.asked = d.asked /\ e.flight = None
    BY DEF Discoverer
  <2> QED
    BY <2>1, <2>2, <2>3 DEF SameAttempt
<1> QED
  BY <1>1, <1>2

\* A search that is asked for.
LEMMA Asking ==
  ASSUME NEW d \in Discoverer, ~d.latched, NEW provider \in {"primary", "fallback"}
  PROVE  SameAttempt(d, [d EXCEPT !.flight = provider])
<1> DEFINE e == [d EXCEPT !.flight = provider]
<1>1. e \in Discoverer
  BY DEF Discoverer, Units
<1>2. /\ e.request = d.request /\ e.queries = d.queries /\ e.limit = d.limit
      /\ e.selected = d.selected /\ e.phase = d.phase /\ e.asked = d.asked /\ e.latched = d.latched
  BY DEF Discoverer
<1> HIDE DEF e
<1> QED
  BY <1>1, <1>2 DEF SameAttempt, e

\* A record that is read is one that was written.
LEMMA RecordRead ==
  ASSUME DiscoveryTypes, NEW d \in Discoverer, d.asked <= MaxQueries, NEW provider \in {"primary", "fallback"},
         Discovery!live(d, provider)
  PROVE  searchCache[Discovery!key(d, provider)] \in SearchRow
<1>1. d.scope \in {"owner", "general"} /\ d.asked \in Nat /\ MaxQueries \in Nat
  BY LedgerAssumption DEF LedgerAssumption, Discoverer
<1>2. (IF d.curated THEN 0 ELSE d.asked) \in 0..MaxQueries
  BY <1>1
<1>3. Discovery!key(d, provider) \in Discovery!CacheKeys
  BY <1>1, <1>2 DEF Discovery!key, Discovery!CacheKeys, Discovery!Scopes
<1> QED
  BY <1>3 DEF DiscoveryTypes, Discovery!live

\* Nothing is asked for by a search that has failed.
LEMMA Fallback ==
  ASSUME DiscoveryTypes, NEW d \in Discoverer, d.asked <= MaxQueries, ~d.latched
  PROVE  SameAttempt(d, Discovery!searchFallback(d))
<1>1. CASE Discovery!live(d, "fallback")
  BY <1>1, RecordRead, OutcomeKnown DEF Discovery!searchFallback
<1>2. CASE ~Discovery!live(d, "fallback")
  BY <1>2, Asking DEF Discovery!searchFallback
<1> QED
  BY <1>1, <1>2

\* The key of a provider is refused.
LEMMA Refused ==
  ASSUME DiscoveryTypes, NEW d \in Discoverer, d.asked <= MaxQueries, ~d.latched
  PROVE  SameAttempt(d, Discovery!searchFallback([d EXCEPT !.authFailed = TRUE]))
<1> DEFINE e == [d EXCEPT !.authFailed = TRUE]
<1>1. e \in Discoverer
  BY DEF Discoverer
<1>2. /\ e.request = d.request /\ e.queries = d.queries /\ e.limit = d.limit
      /\ e.selected = d.selected /\ e.phase = d.phase /\ e.asked = d.asked /\ e.latched = d.latched
  BY DEF Discoverer
<1> HIDE DEF e
<1>3. SameAttempt(e, Discovery!searchFallback(e))
  BY <1>1, <1>2, Fallback
<1> QED
  BY <1>2, <1>3 DEF SameAttempt, e

\* The search of a query or of the curated list.
LEMMA Primary ==
  ASSUME DiscoveryTypes, NEW d \in Discoverer, d.asked <= MaxQueries, ~d.latched
  PROVE  SameAttempt(d, Discovery!searchPrimary(d))
<1>1. CASE ~Discovery!live(d, "primary")
  BY <1>1, Asking DEF Discovery!searchPrimary
<1>2. CASE Discovery!live(d, "primary")
  BY <1>2, RecordRead, OutcomeKnown, Refused DEF Discovery!searchPrimary
<1> QED
  BY <1>1, <1>2

\* The steps of a search.
LEMMA SearchSteps ==
  ASSUME DiscoveryInv, NEW w \in Workers,
         \/ Discovery!searchWithCache(w) \/ Discovery!searchCurated(w)
         \/ \E outcome \in Discovery!Searches, S \in SUBSET Found : Discovery!searchAnswered(w, outcome, S)
  PROVE  DiscoveryInv'
<1>1. /\ work[w] # None /\ work[w] \in Discoverer /\ WorkFits(work[w]) /\ work[w].phase = "search"
      /\ UNCHANGED <<attempt, executed, taken>>
  BY DEF DiscoveryInv, DiscoveryTypes, WorkInv, Discovery!searchWithCache, Discovery!searchCurated, Discovery!searchAnswered,
         Discovery!history, Discovery!tables
<1>2. work[w].asked <= work[w].queries /\ work[w].queries <= MaxQueries /\ work[w].asked <= MaxQueries
  BY <1>1, LedgerAssumption DEF WorkFits, Discoverer, LedgerAssumption
<1>3. DiscoveryTypes
  BY DEF DiscoveryInv
<1>4. ASSUME NEW e \in Discoverer, work' = [work EXCEPT ![w] = e], e.request = work[w].request, e.queries = work[w].queries,
             e.limit = work[w].limit, e.asked <= e.queries, e.selected = work[w].selected, e.phase = "search",
             e.latched => e.flight = None, searchCache' \in [Discovery!CacheKeys -> {None} \cup SearchRow],
             \A x \in issued' : x \in issued \/ (\E i \in 1..e.queries : x = <<e.request, i>>)
      PROVE  DiscoveryInv'
  BY <1>1, <1>4, WorkGoesOn
<1>5. CASE Discovery!searchWithCache(w)
  <2> DEFINE n == work[w].asked + 1
             d == [work[w] EXCEPT !.asked = n]
             e == IF d.latched THEN d ELSE Discovery!searchPrimary(d)
  <2>1. /\ work[w].flight = None /\ work[w].asked < work[w].queries /\ work' = [work EXCEPT ![w] = e]
        /\ issued' = issued \cup {<<work[w].request, n>>} /\ searchCache' = searchCache
    BY <1>5 DEF Discovery!searchWithCache, Discovery!becomes, Discovery!tables
  <2>2. n \in Nat /\ n <= work[w].queries /\ n \in 1..work[w].queries
    BY <1>1, <2>1 DEF Discoverer
  <2> HIDE DEF n
  <2>3. d \in Discoverer
    BY <1>1, <2>2 DEF Discoverer
  <2>4. /\ d.request = work[w].request /\ d.queries = work[w].queries /\ d.limit = work[w].limit /\ d.asked = n
        /\ d.selected = work[w].selected /\ d.phase = "search" /\ d.latched = work[w].latched /\ d.flight = None
    BY <1>1, <2>1 DEF Discoverer
  <2> HIDE DEF d
  <2>5. n <= MaxQueries
    BY <1>1, <1>2, <2>2, LedgerAssumption DEF Discoverer, LedgerAssumption
  <2>6. SameAttempt(d, e)
    <3>1. CASE d.latched
      BY <2>3, <2>4, <3>1 DEF SameAttempt
    <3>2. CASE ~d.latched
      BY <1>3, <2>3, <2>4, <2>5, <3>2, Primary
    <3> QED
      BY <3>1, <3>2
  <2> HIDE DEF e
  <2> QED
    <3>1. /\ e \in Discoverer /\ e.request = work[w].request /\ e.queries = work[w].queries /\ e.limit = work[w].limit
          /\ e.asked = n /\ e.selected = work[w].selected /\ e.phase = "search"
          /\ e.latched => e.flight = None
      BY <2>4, <2>6 DEF SameAttempt
    <3>2. searchCache' \in [Discovery!CacheKeys -> {None} \cup SearchRow]
      BY <1>3, <2>1 DEF DiscoveryTypes
    <3>3. n \in 1..e.queries /\ e.asked <= e.queries
      BY <1>1, <2>2, <3>1 DEF Discoverer
    <3>4. \A x \in issued' : x \in issued \/ (\E i \in 1..e.queries : x = <<e.request, i>>)
      BY <2>1, <3>1, <3>3
    <3> QED
      BY <1>4, <2>1, <3>1, <3>2, <3>3, <3>4
<1>6. CASE Discovery!searchCurated(w)
  <2> DEFINE d == [work[w] EXCEPT !.curated = TRUE]
             e == Discovery!searchPrimary(d)
  <2>1. ~work[w].latched /\ work' = [work EXCEPT ![w] = e] /\ UNCHANGED <<issued, searchCache>>
    BY <1>6 DEF Discovery!searchCurated, Discovery!becomes, Discovery!tables, Discovery!history
  <2>2. d \in Discoverer
    BY <1>1 DEF Discoverer
  <2>3. /\ d.request = work[w].request /\ d.queries = work[w].queries /\ d.limit = work[w].limit /\ d.asked = work[w].asked
        /\ d.selected = work[w].selected /\ d.phase = "search" /\ d.latched = work[w].latched
    BY <1>1 DEF Discoverer
  <2> HIDE DEF d
  <2>4. SameAttempt(d, e)
    BY <1>2, <1>3, <2>1, <2>2, <2>3, Primary
  <2> HIDE DEF e
  <2> QED
    BY <1>2, <1>3, <1>4, <2>1, <2>3, <2>4 DEF SameAttempt, DiscoveryTypes
<1>7. ASSUME NEW outcome \in Discovery!Searches, NEW S \in SUBSET Found, Discovery!searchAnswered(w, outcome, S)
      PROVE  DiscoveryInv'
  <2> DEFINE d == work[w]
             found == [outcome |-> outcome, skills |-> S]
             e == IF outcome = "auth" /\ d.flight = "primary" /\ ~d.curated
                  THEN Discovery!searchFallback([d EXCEPT !.authFailed = TRUE]) ELSE Discovery!withOutcome(d, found)
  <2>1. d.flight # None /\ work' = [work EXCEPT ![w] = e] /\ UNCHANGED issued
        /\ searchCache' = Discovery!searchRecords(Discovery!key(d, d.flight), found)
    BY <1>7 DEF Discovery!searchAnswered, Discovery!becomes, Discovery!history
  <2>2. found \in SearchRow
    BY <1>7 DEF SearchRow, Discovery!Searches
  <2>3. searchCache' \in [Discovery!CacheKeys -> {None} \cup SearchRow]
    BY <1>3, <2>1, <2>2 DEF Discovery!searchRecords, DiscoveryTypes
  <2>4. ~d.latched
    BY <1>1, <2>1 DEF WorkFits
  <2>5. SameAttempt(d, e)
    BY <1>1, <1>2, <1>3, <2>2, <2>4, Refused, OutcomeKnown
  <2> HIDE DEF e
  <2> QED
    BY <1>1, <1>2, <1>4, <2>1, <2>3, <2>5 DEF SameAttempt
<1> QED
  BY <1>5, <1>6, <1>7

\* The audits and fetches of what was found.
LEMMA CandidateSteps ==
  ASSUME DiscoveryInv, NEW w \in Workers,
         \/ Discovery!beginCandidates(w) \/ Discovery!endCandidates(w)
         \/ \E s \in Found : Discovery!audit(w, s) \/ Discovery!fetch(w, s)
         \/ \E outcome \in Discovery!Audits : Discovery!auditAnswered(w, outcome)
         \/ \E outcome \in Discovery!Fetches : Discovery!fetchAnswered(w, outcome)
  PROVE  DiscoveryInv'
<1>1. /\ work[w] # None /\ work[w] \in Discoverer /\ WorkFits(work[w]) /\ searchCache' = searchCache
      /\ UNCHANGED <<attempt, executed, issued>>
  BY DEF DiscoveryInv, DiscoveryTypes, WorkInv, Discovery!beginCandidates, Discovery!endCandidates, Discovery!audit,
         Discovery!fetch, Discovery!auditAnswered, Discovery!fetchAnswered, Discovery!history, Discovery!tables
<1>2. work[w].asked <= work[w].queries /\ work[w].queries \in Nat /\ searchCache' \in [Discovery!CacheKeys -> {None} \cup SearchRow]
  BY <1>1 DEF WorkFits, Discoverer, DiscoveryInv, DiscoveryTypes
<1> DEFINE d == work[w]
<1>3. ASSUME NEW e \in Discoverer, work' = [work EXCEPT ![w] = e], e.request = d.request, e.queries = d.queries,
             e.limit = d.limit, e.asked <= d.queries, e.selected = d.selected, taken' = taken,
             e.phase = "fetch" /\ e.flight # None => Cardinality(d.selected) < d.limit,
             e.latched /\ e.phase \in {"search", "audit"} => e.flight = None
      PROVE  DiscoveryInv'
  BY <1>1, <1>2, <1>3, WorkGoesOn
<1>4. CASE Discovery!beginCandidates(w)
  <2> DEFINE e == [d EXCEPT !.phase = "audit"]
  <2>1. d.flight = None /\ work' = [work EXCEPT ![w] = e] /\ taken' = taken
    BY <1>4 DEF Discovery!beginCandidates, Discovery!becomes, Discovery!history
  <2>2. e \in Discoverer
    BY <1>1 DEF Discoverer
  <2>3. /\ e.request = d.request /\ e.queries = d.queries /\ e.limit = d.limit /\ e.asked = d.asked
        /\ e.selected = d.selected /\ e.phase = "audit" /\ e.flight = d.flight
    BY <1>1 DEF Discoverer
  <2> HIDE DEF e
  <2> QED
    BY <1>2, <1>3, <2>1, <2>2, <2>3
<1>5. CASE Discovery!endCandidates(w)
  <2> DEFINE again == [d EXCEPT !.phase = "search", !.scope = "general", !.asked = 0, !.curated = FALSE]
             last == [d EXCEPT !.phase = "persist"]
  <2>1. d.flight = None /\ taken' = taken /\ (work' = [work EXCEPT ![w] = again] \/ work' = [work EXCEPT ![w] = last])
    BY <1>5 DEF Discovery!endCandidates, Discovery!becomes, Discovery!history
  <2>2. again \in Discoverer /\ last \in Discoverer
    BY <1>1 DEF Discoverer
  <2>3. /\ again.request = d.request /\ again.queries = d.queries /\ again.limit = d.limit /\ again.asked = 0
        /\ again.selected = d.selected /\ again.phase = "search" /\ again.flight = d.flight
    BY <1>1 DEF Discoverer
  <2>4. /\ last.request = d.request /\ last.queries = d.queries /\ last.limit = d.limit /\ last.asked = d.asked
        /\ last.selected = d.selected /\ last.phase = "persist" /\ last.flight = d.flight
    BY <1>1 DEF Discoverer
  <2> HIDE DEF again, last
  <2>5. CASE work' = [work EXCEPT ![w] = again]
    <3>1. again.asked <= d.queries
      BY <1>2, <2>3
    <3> QED
      BY <1>3, <2>1, <2>2, <2>3, <2>5, <3>1
  <2>6. CASE work' = [work EXCEPT ![w] = last]
    BY <1>2, <1>3, <2>1, <2>2, <2>4, <2>6
  <2> QED
    BY <2>1, <2>5, <2>6
<1>6. ASSUME NEW s \in Found, Discovery!audit(w, s)
      PROVE  DiscoveryInv'
  <2> DEFINE refused == d.denied \cup {s}
             more == d.audits + 1
             silent == [d EXCEPT !.latched = TRUE, !.denied = refused]
             asked2 == [d EXCEPT !.flight = s, !.audits = more]
             enough == [d EXCEPT !.denied = refused]
  <2>1. /\ d.phase = "audit" /\ d.flight = None /\ taken' = taken
        /\ \/ work' = [work EXCEPT ![w] = silent]
           \/ work' = [work EXCEPT ![w] = asked2] /\ ~d.latched
           \/ work' = [work EXCEPT ![w] = enough]
    BY <1>6 DEF Discovery!audit, Discovery!communityAllowed, Discovery!becomes, Discovery!history
  <2>2. refused \in SUBSET Units /\ more \in Nat /\ s \in Units
    BY <1>1 DEF Discoverer, Units
  <2> HIDE DEF refused, more
  <2>3. silent \in Discoverer /\ asked2 \in Discoverer /\ enough \in Discoverer
    BY <1>1, <2>2 DEF Discoverer
  <2>4. /\ silent.request = d.request /\ silent.queries = d.queries /\ silent.limit = d.limit /\ silent.asked = d.asked
        /\ silent.selected = d.selected /\ silent.phase = d.phase /\ silent.flight = d.flight
    BY <1>1 DEF Discoverer
  <2>5. /\ asked2.request = d.request /\ asked2.queries = d.queries /\ asked2.limit = d.limit /\ asked2.asked = d.asked
        /\ asked2.selected = d.selected /\ asked2.phase = d.phase /\ asked2.latched = d.latched
    BY <1>1 DEF Discoverer
  <2>6. /\ enough.request = d.request /\ enough.queries = d.queries /\ enough.limit = d.limit /\ enough.asked = d.asked
        /\ enough.selected = d.selected /\ enough.phase = d.phase /\ enough.flight = d.flight
    BY <1>1 DEF Discoverer
  <2> HIDE DEF silent, asked2, enough
  <2>7. CASE work' = [work EXCEPT ![w] = silent]
    BY <1>2, <1>3, <2>1, <2>3, <2>4, <2>7
  <2>8. CASE work' = [work EXCEPT ![w] = asked2] /\ ~d.latched
    BY <1>2, <1>3, <2>1, <2>3, <2>5, <2>8
  <2>9. CASE work' = [work EXCEPT ![w] = enough]
    BY <1>2, <1>3, <2>1, <2>3, <2>6, <2>9
  <2> QED
    BY <2>1, <2>7, <2>8, <2>9
<1>7. ASSUME NEW outcome \in Discovery!Audits, Discovery!auditAnswered(w, outcome)
      PROVE  DiscoveryInv'
  <2> DEFINE s == d.flight
             landed == [d EXCEPT !.flight = None]
             more == landed.allowed \cup {s}
             refused == landed.denied \cup {s}
             failed == outcome \in {"unavailable", "invalid"}
             passed == [landed EXCEPT !.allowed = more]
             denied == [landed EXCEPT !.denied = refused, !.latched = failed]
  <2>1. /\ d.phase = "audit" /\ taken' = taken
        /\ work' = [work EXCEPT ![w] = passed] \/ work' = [work EXCEPT ![w] = denied]
    BY <1>7 DEF Discovery!auditAnswered, Discovery!becomes, Discovery!history
  <2>2. s \in Units /\ failed \in BOOLEAN
    BY <1>1 DEF Discoverer
  <2>3. landed \in Discoverer
    BY <1>1 DEF Discoverer, Units
  <2>4. /\ landed.request = d.request /\ landed.queries = d.queries /\ landed.limit = d.limit /\ landed.asked = d.asked
        /\ landed.selected = d.selected /\ landed.phase = d.phase /\ landed.flight = None
    BY <1>1 DEF Discoverer
  <2> HIDE DEF s, landed, failed
  <2>5. more \in SUBSET Units /\ refused \in SUBSET Units
    BY <2>2, <2>3 DEF Discoverer
  <2> HIDE DEF more, refused
  <2>6. passed \in Discoverer /\ denied \in Discoverer
    BY <2>2, <2>3, <2>5 DEF Discoverer
  <2>7. /\ passed.request = landed.request /\ passed.queries = landed.queries /\ passed.limit = landed.limit
        /\ passed.asked = landed.asked /\ passed.selected = landed.selected /\ passed.phase = landed.phase
        /\ passed.flight = landed.flight
    BY <2>3 DEF Discoverer
  <2>8. /\ denied.request = landed.request /\ denied.queries = landed.queries /\ denied.limit = landed.limit
        /\ denied.asked = landed.asked /\ denied.selected = landed.selected /\ denied.phase = landed.phase
        /\ denied.flight = landed.flight
    BY <2>3 DEF Discoverer
  <2> HIDE DEF passed, denied
  <2>9. CASE work' = [work EXCEPT ![w] = passed]
    BY <1>2, <1>3, <2>1, <2>4, <2>6, <2>7, <2>9
  <2>10. CASE work' = [work EXCEPT ![w] = denied]
    BY <1>2, <1>3, <2>1, <2>4, <2>6, <2>8, <2>10
  <2> QED
    BY <2>1, <2>9, <2>10
<1>8. ASSUME NEW s \in Found, Discovery!fetch(w, s)
      PROVE  DiscoveryInv'
  <2> DEFINE more == d.tried \cup {s}
             skips == [d EXCEPT !.phase = "fetch", !.tried = more]
             fetches == [skips EXCEPT !.flight = s]
  <2>1. /\ d.flight = None /\ taken' = taken /\ ~Discovery!full(d)
        /\ work' = [work EXCEPT ![w] = skips] \/ work' = [work EXCEPT ![w] = fetches]
    BY <1>8 DEF Discovery!fetch, Discovery!becomes, Discovery!history
  <2>2. more \in SUBSET Units /\ s \in Units
    BY <1>1 DEF Discoverer, Units
  <2> HIDE DEF more
  <2>3. skips \in Discoverer
    BY <1>1, <2>2 DEF Discoverer
  <2>4. /\ skips.request = d.request /\ skips.queries = d.queries /\ skips.limit = d.limit /\ skips.asked = d.asked
        /\ skips.selected = d.selected /\ skips.phase = "fetch" /\ skips.flight = d.flight
    BY <1>1 DEF Discoverer
  <2> HIDE DEF skips
  <2>5. fetches \in Discoverer
    BY <2>2, <2>3 DEF Discoverer
  <2>6. /\ fetches.request = skips.request /\ fetches.queries = skips.queries /\ fetches.limit = skips.limit
        /\ fetches.asked = skips.asked /\ fetches.selected = skips.selected /\ fetches.phase = skips.phase
    BY <2>3 DEF Discoverer
  <2> HIDE DEF fetches
  <2>7. Cardinality(d.selected) < d.limit
    <3>1. Cardinality(d.selected) \in Nat /\ d.limit \in Nat
      BY <1>1, FS_CardinalityType DEF WorkFits, Discoverer
    <3>2. ~(Cardinality(d.selected) >= d.limit)
      BY <2>1, SameCount DEF Discovery!full
    <3> QED
      BY <3>1, <3>2
  <2>8. CASE work' = [work EXCEPT ![w] = skips]
    BY <1>2, <1>3, <2>1, <2>3, <2>4, <2>7, <2>8
  <2>9. CASE work' = [work EXCEPT ![w] = fetches]
    BY <1>2, <1>3, <2>1, <2>4, <2>5, <2>6, <2>7, <2>9
  <2> QED
    BY <2>1, <2>8, <2>9
<1>9. ASSUME NEW outcome \in Discovery!Fetches, Discovery!fetchAnswered(w, outcome)
      PROVE  DiscoveryInv'
  <2> DEFINE s == d.flight
             limited == outcome = "rate_limited"
             landed == [d EXCEPT !.flight = None, !.sourceLatched = limited]
             more == landed.selected \cup {s}
             got == [landed EXCEPT !.selected = more]
  <2>1. /\ d.phase = "fetch" /\ d.flight # None
        /\ \/ work' = [work EXCEPT ![w] = got] /\ taken' = taken \cup {<<landed.request, s>>}
           \/ work' = [work EXCEPT ![w] = landed] /\ taken' = taken
    BY <1>9 DEF Discovery!fetchAnswered, Discovery!becomes
  <2>2. s \in Units /\ limited \in BOOLEAN
    BY <1>1 DEF Discoverer
  <2> HIDE DEF limited
  <2>3. landed \in Discoverer
    BY <1>1, <2>2 DEF Discoverer, Units
  <2>4. /\ landed.request = d.request /\ landed.queries = d.queries /\ landed.limit = d.limit /\ landed.asked = d.asked
        /\ landed.selected = d.selected /\ landed.phase = d.phase /\ landed.flight = None
    BY <1>1, <2>2 DEF Discoverer
  <2>5. Cardinality(d.selected) < d.limit
    BY <1>1, <2>1 DEF WorkFits
  <2> HIDE DEF s, landed
  <2>6. more \in SUBSET Units
    BY <2>2, <2>3 DEF Discoverer
  <2>7. more = d.selected \cup {s}
    BY <2>4
  <2> HIDE DEF more
  <2>8. got \in Discoverer
    BY <2>3, <2>6 DEF Discoverer
  <2>9. /\ got.request = landed.request /\ got.queries = landed.queries /\ got.limit = landed.limit
        /\ got.asked = landed.asked /\ got.selected = more /\ got.phase = landed.phase /\ got.flight = landed.flight
    BY <2>3 DEF Discoverer
  <2> HIDE DEF got
  <2>10. CASE work' = [work EXCEPT ![w] = landed] /\ taken' = taken
    BY <1>2, <1>3, <2>1, <2>3, <2>4, <2>10
  <2>11. CASE work' = [work EXCEPT ![w] = got] /\ taken' = taken \cup {<<landed.request, s>>}
    <3>1. got.request = d.request /\ got.queries = d.queries /\ got.limit = d.limit /\ got.asked <= got.queries
          /\ got.flight = None /\ got.selected = d.selected \cup {s} /\ taken' = taken \cup {<<got.request, s>>}
      BY <1>2, <2>4, <2>7, <2>9, <2>11
    <3>2. Cardinality(work[w].selected) < got.limit
      BY <2>5, <3>1
    <3> QED
      BY <1>1, <1>2, <2>2, <2>8, <2>11, <3>1, <3>2, WorkGoesOn
  <2> QED
    BY <2>1, <2>10, <2>11
<1> QED
  BY <1>4, <1>5, <1>6, <1>7, <1>8, <1>9

\* An attempt ends: what counts for its request is at least what was taken.
LEMMA AttemptEnds ==
  ASSUME DiscoveryInv, NEW w \in Workers,
         Discovery!completeTaskSkillDiscoveryAttempt(w) \/ Discovery!failTaskSkillDiscoveryAttempt(w)
  PROVE  DiscoveryInv'
<1> DEFINE d == work[w]
           r == work[w].request
<1>1. work[w] # None /\ work[w] \in Discoverer /\ WorkFits(work[w]) /\ r \in Requests /\ attempt[r] \in SkillAttempt
  BY DEF DiscoveryInv, DiscoveryTypes, WorkInv, WorkFits, Discoverer, Discovery!completeTaskSkillDiscoveryAttempt,
         Discovery!failTaskSkillDiscoveryAttempt, Discovery!started
<1>2. /\ d.limit \in Nat /\ d.queries \in Nat /\ Cardinality(d.selected) \in Nat /\ Cardinality(d.selected) <= d.limit
      /\ attempt[r].reserved = [queries |-> d.queries, skills |-> d.limit] /\ attempt[r].state = "started"
      /\ takenFor(r) = d.selected /\ IsFiniteSet(d.selected)
  BY <1>1, FS_CardinalityType DEF WorkFits, Discoverer
<1> DEFINE Ends(state, used) ==
             /\ attempt' = [attempt EXCEPT ![r].state = state, ![r].used = used] /\ work' = [work EXCEPT ![w] = None]
             /\ UNCHANGED <<searchCache, executed, issued, taken>>
             /\ used.queries = d.queries /\ used.skills <= d.limit /\ Cardinality(d.selected) <= used.skills
<1>3. PICK state \in {"completed", "failed"}, used \in SkillBudget : Ends(state, used)
  <2>1. CASE Discovery!completeTaskSkillDiscoveryAttempt(w)
    <3>1. Discovery!summary(d) = [queries |-> d.queries, skills |-> Cardinality(d.selected)]
      BY SameCount DEF Discovery!summary
    <3>2. Discovery!ended(w, "completed", Discovery!summary(d))
      BY <2>1 DEF Discovery!completeTaskSkillDiscoveryAttempt
    <3>3. Discovery!summary(d) \in SkillBudget /\ Discovery!summary(d).queries = d.queries
          /\ Discovery!summary(d).skills = Cardinality(d.selected)
      BY <1>2, <3>1 DEF SkillBudget
    <3>4. attempt' = [attempt EXCEPT ![r].state = "completed", ![r].used = Discovery!summary(d)]
      BY <3>2 DEF Discovery!ended
    <3>5. work' = [work EXCEPT ![w] = None]
      BY <3>2 DEF Discovery!ended
    <3>6. UNCHANGED <<searchCache, executed, issued, taken>>
      BY <3>2 DEF Discovery!ended, Discovery!tables, Discovery!history
    <3>7. Ends("completed", Discovery!summary(d))
      BY <1>2, <3>3, <3>4, <3>5, <3>6
    <3> HIDE DEF Ends
    <3> QED
      BY <3>3, <3>7
  <2>2. CASE Discovery!failTaskSkillDiscoveryAttempt(w)
    <3>1. Discovery!ended(w, "failed", attempt[r].reserved)
      BY <2>2 DEF Discovery!failTaskSkillDiscoveryAttempt
    <3>2. /\ attempt[r].reserved \in SkillBudget /\ attempt[r].reserved.queries = d.queries
          /\ attempt[r].reserved.skills = d.limit
      BY <1>1, <1>2 DEF SkillAttempt
    <3>3. attempt' = [attempt EXCEPT ![r].state = "failed", ![r].used = attempt[r].reserved]
      BY <3>1 DEF Discovery!ended
    <3>4. work' = [work EXCEPT ![w] = None]
      BY <3>1 DEF Discovery!ended
    <3>5. UNCHANGED <<searchCache, executed, issued, taken>>
      BY <3>1 DEF Discovery!ended, Discovery!tables, Discovery!history
    <3>6. Ends("failed", attempt[r].reserved)
      BY <1>2, <3>2, <3>3, <3>4, <3>5
    <3> HIDE DEF Ends
    <3> QED
      BY <3>2, <3>6
  <2> QED
    BY <2>1, <2>2
<1> DEFINE new == [attempt[r] EXCEPT !.state = state, !.used = used]
<1>4. new \in SkillAttempt
  BY <1>1 DEF SkillAttempt
<1>5. new.state = state /\ new.used = used /\ new # None
  BY <1>1, <1>4, LedgerAssumption DEF SkillAttempt, LedgerAssumption
<1>6. attempt' = [attempt EXCEPT ![r] = new]
  BY <1>3
<1> HIDE DEF new
<1>7. attempt' \in [Requests -> {None} \cup SkillAttempt] /\ \A q \in Requests : attempt'[q] = IF q = r THEN new ELSE attempt[q]
  BY <1>1, <1>4, <1>6 DEF DiscoveryInv, DiscoveryTypes
<1>8. work' \in [Workers -> {None} \cup Discoverer] /\ \A u \in Workers : work'[u] = IF u = w THEN None ELSE work[u]
  BY <1>3 DEF DiscoveryInv, DiscoveryTypes
<1>9. DiscoveryTypes'
  <2>1. searchCache' = searchCache /\ executed' = executed /\ taken' = taken
    BY <1>3
  <2> QED
    BY <1>7, <1>8, <2>1 DEF DiscoveryInv, DiscoveryTypes
<1>10. ExecutedInv'
  BY <1>1, <1>2, <1>3, <1>5, <1>7 DEF DiscoveryInv, ExecutedInv, WorkFits
<1>11. ASSUME NEW kind \in {"queries", "skills"}, NEW q \in Requests
       PROVE  /\ countedFor(q, kind)' \in Nat /\ countedFor(q, kind)' <= countedFor(q, kind)
              /\ q # r => countedFor(q, kind)' = countedFor(q, kind)
              /\ q = r => countedFor(q, kind)' = used[kind]
  <2>1. countedFor(q, kind) \in Nat
    BY CountedNumber DEF DiscoveryInv
  <2>2. CASE q # r
    <3>1. attempt'[q] = attempt[q]
      BY <1>7, <2>2
    <3>2. countedFor(q, kind)' = countedFor(q, kind)
      BY <3>1 DEF countedFor
    <3> QED
      BY <2>1, <2>2, <3>2
  <2>3. CASE q = r
    <3>1. countedFor(q, kind) = IF kind = "queries" THEN d.queries ELSE d.limit
      BY <1>1, <1>2, <2>3 DEF countedFor, WorkFits
    <3>2. attempt'[q] = new
      BY <1>7, <2>3
    <3>3. countedFor(q, kind)' = used[kind]
      BY <1>3, <1>5, <3>2 DEF countedFor
    <3>4. used[kind] \in Nat /\ used[kind] <= countedFor(q, kind)
      BY <1>2, <1>3, <3>1 DEF SkillBudget
    <3> QED
      BY <2>1, <2>3, <3>3, <3>4
  <2> QED
    BY <2>2, <2>3
<1>12. ASSUME NEW u \in Workers, work[u]' # None
       PROVE  WorkFits(work[u])'
  <2>1. u # w /\ work[u]' = work[u] /\ work[u] \in Discoverer /\ WorkFits(work[u]) /\ work[u].request # r
    BY <1>1, <1>8, <1>12 DEF DiscoveryInv, DiscoveryTypes, WorkInv
  <2>2. work[u].request \in Requests
    BY <2>1 DEF Discoverer
  <2>3. attempt'[work[u].request] = attempt[work[u].request]
    BY <1>7, <2>1, <2>2
  <2>4. takenFor(work[u].request)' = takenFor(work[u].request)
    BY <1>3, <2>1 DEF takenFor
  <2> QED
    BY <2>1, <2>3, <2>4 DEF WorkFits
<1>13. WorkInv'
  <2>1. \A v, u \in Workers : work'[v] # None /\ work'[u] # None /\ v # u => work'[v].request # work'[u].request
    BY <1>8 DEF DiscoveryInv, WorkInv
  <2> QED
    BY <1>12, <2>1 DEF WorkInv
<1>14. ASSUME NEW kind \in {"queries", "skills"}
       PROVE  IsFiniteSet(Counted(kind)') /\ Cardinality(Counted(kind)') <= Cardinality(Counted(kind))
  <2>1. Counted(kind)' \subseteq Counted(kind)
    <3> SUFFICES ASSUME NEW x \in Counted(kind)' PROVE x \in Counted(kind)
      OBVIOUS
    <3>1. PICK q \in Requests : \E i \in 1..countedFor(q, kind)' : x = <<q, i>>
      BY DEF Counted
    <3>2. \A i \in 1..countedFor(q, kind)' : i \in 1..countedFor(q, kind)
      <4>1. countedFor(q, kind) \in Nat /\ countedFor(q, kind)' \in Nat /\ countedFor(q, kind)' <= countedFor(q, kind)
        BY <1>11, CountedNumber DEF DiscoveryInv
      <4> QED
        BY <4>1
    <3> QED
      BY <3>1, <3>2 DEF Counted
  <2>2. IsFiniteSet(Counted(kind))
    BY DEF DiscoveryInv, BudgetInv
  <2> QED
    BY <2>1, <2>2, FS_Subset
<1>15. Counted("queries")' = Counted("queries")
  <2>1. \A q \in Requests : countedFor(q, "queries")' = countedFor(q, "queries")
    <3>1. countedFor(r, "queries") = d.queries
      BY <1>1, <1>2 DEF countedFor, WorkFits
    <3>2. ASSUME NEW q \in Requests
          PROVE  (q # r => countedFor(q, "queries")' = countedFor(q, "queries"))
                 /\ (q = r => countedFor(q, "queries")' = used["queries"])
      BY <1>11
    <3>3. used["queries"] = d.queries
      BY <1>3
    <3> QED
      BY <1>1, <3>1, <3>2, <3>3
  <2> QED
    BY <2>1 DEF Counted
<1>16. ASSUME NEW q \in Requests
       PROVE  IsFiniteSet(takenFor(q)') /\ Cardinality(takenFor(q)') <= countedFor(q, "skills")'
  <2>1. takenFor(q)' = takenFor(q) /\ IsFiniteSet(takenFor(q)) /\ Cardinality(takenFor(q)) <= countedFor(q, "skills")
    BY <1>3 DEF takenFor, DiscoveryInv, BudgetInv
  <2>2. CASE q = r
    BY <1>2, <1>3, <1>11, <2>1, <2>2
  <2>3. CASE q # r
    BY <1>11, <2>1, <2>3
  <2> QED
    BY <2>2, <2>3
<1>17. BudgetInv'
  <2>1. \A kind \in {"queries", "skills"} : Cardinality(Counted(kind)) \in Nat /\ Cardinality(Counted(kind)') \in Nat
    BY <1>14, FS_CardinalityType DEF DiscoveryInv, BudgetInv
  <2>2. MaxQueries \in Nat /\ MaxSkills \in Nat
    BY LedgerAssumption DEF LedgerAssumption
  <2>3. Cardinality(Counted("queries")') <= MaxQueries /\ Cardinality(Counted("skills")') <= MaxSkills
    BY <1>14, <2>1, <2>2 DEF DiscoveryInv, BudgetInv
  <2>4. issued' \subseteq Counted("queries")'
    BY <1>3, <1>15 DEF DiscoveryInv, BudgetInv
  <2> QED
    BY <1>14, <1>16, <2>3, <2>4 DEF BudgetInv
<1> QED
  BY <1>9, <1>10, <1>13, <1>17 DEF DiscoveryInv

\* What is granted fits what is left of the budgets.
LEMMA Granted ==
  ASSUME DiscoveryInv
  PROVE  /\ Discovery!granted \in SkillBudget
         /\ Cardinality(Counted("queries")) + Discovery!granted.queries <= MaxQueries
         /\ Cardinality(Counted("skills")) + Discovery!granted.skills <= MaxSkills
         /\ Cardinality(Counted("queries")) \in Nat /\ Cardinality(Counted("skills")) \in Nat
<1> DEFINE used1 == Cardinality(Counted("queries"))
           used2 == Cardinality(Counted("skills"))
<1>1. used1 \in Nat /\ used2 \in Nat /\ used1 <= MaxQueries /\ used2 <= MaxSkills
  BY FS_CardinalityType DEF DiscoveryInv, BudgetInv
<1>2. Wanted \in Nat /\ MaxQueries \in Nat /\ MaxSkills \in Nat
  BY LedgerAssumption DEF LedgerAssumption
<1> DEFINE q == Discovery!least(Wanted, MaxQueries - used1)
           s == Discovery!least(Wanted, MaxSkills - used2)
<1>3. Discovery!granted = IF q = 0 \/ s = 0 THEN [queries |-> 0, skills |-> 0] ELSE [queries |-> q, skills |-> s]
  BY UsedBudget DEF Discovery!granted
<1> HIDE DEF used1, used2
<1>4. q \in Nat /\ s \in Nat /\ used1 + q <= MaxQueries /\ used2 + s <= MaxSkills
  BY <1>1, <1>2 DEF Discovery!least
<1> HIDE DEF q, s
<1>5. Discovery!granted \in SkillBudget /\ used1 + Discovery!granted.queries <= MaxQueries
      /\ used2 + Discovery!granted.skills <= MaxSkills
  BY <1>1, <1>2, <1>3, <1>4 DEF SkillBudget
<1> QED
  BY <1>1, <1>5 DEF used1, used2

\* What counts for one request is as much as was granted to it.
LEMMA Share ==
  ASSUME NEW r, NEW n \in Nat
  PROVE  IsFiniteSet({<<r, i>> : i \in 1..n}) /\ Cardinality({<<r, i>> : i \in 1..n}) = n
<1>1. IsFiniteSet(1..n) /\ Cardinality(1..n) = n
  BY FS_Interval
<1> DEFINE f == [i \in 1..n |-> <<r, i>>]
           S == {<<r, i>> : i \in 1..n}
<1>2. f \in Bijection(1..n, S)
  <2>1. f \in [1..n -> S] /\ \A i, j \in 1..n : f[i] = f[j] => i = j
    OBVIOUS
  <2>2. \A x \in S : \E i \in 1..n : f[i] = x
    OBVIOUS
  <2> HIDE DEF f, S
  <2> QED
    BY <2>1, <2>2 DEF Bijection, Injection, IsInjective, Surjection
<1>3. IsFiniteSet(S) /\ Cardinality(S) = Cardinality(1..n)
  <2> HIDE DEF f, S
  <2> QED
    BY <1>1, <1>2, FS_Bijection DEF ExistsBijection
<1> QED
  BY <1>1, <1>3

\* A request without a record is claimed, for what is left of the budgets.
LEMMA ClaimStep ==
  ASSUME DiscoveryInv, NEW w \in Workers, NEW r \in Requests,
         Discovery!claimTaskSkillDiscoveryAttempt(w, r)
  PROVE  DiscoveryInv'
<1> DEFINE grant == Discovery!granted
           none == [queries |-> 0, skills |-> 0]
           new == [state |-> "started", reserved |-> grant, used |-> none]
           d == [request |-> r, queries |-> grant.queries, limit |-> grant.skills,
                 scope |-> "owner", asked |-> 0, curated |-> FALSE, flight |-> None,
                 latched |-> FALSE, authFailed |-> FALSE, sourceLatched |-> FALSE,
                 found |-> {}, audits |-> 0, allowed |-> {}, denied |-> {}, tried |-> {}, selected |-> {},
                 phase |-> IF grant.queries = 0 THEN "persist" ELSE "search"]
<1>1. /\ work[w] = None /\ attempt[r] = None /\ attempt' = [attempt EXCEPT ![r] = new] /\ work' = [work EXCEPT ![w] = d]
      /\ executed' = [executed EXCEPT ![r] = @ + 1] /\ UNCHANGED <<searchCache, issued, taken>>
  BY DEF Discovery!claimTaskSkillDiscoveryAttempt, Discovery!tables
<1>2. /\ grant \in SkillBudget /\ Cardinality(Counted("queries")) + grant.queries <= MaxQueries
      /\ Cardinality(Counted("skills")) + grant.skills <= MaxSkills
      /\ Cardinality(Counted("queries")) \in Nat /\ Cardinality(Counted("skills")) \in Nat
  BY Granted
<1> HIDE DEF grant
<1>3. grant.queries \in Nat /\ grant.skills \in Nat /\ grant = [queries |-> grant.queries, skills |-> grant.skills]
      /\ MaxQueries \in Nat /\ MaxSkills \in Nat /\ grant.queries <= MaxQueries
  BY <1>2, LedgerAssumption DEF SkillBudget, LedgerAssumption
<1>4. new \in SkillAttempt /\ new # None /\ d \in Discoverer
  BY <1>2, <1>3, LedgerAssumption DEF SkillAttempt, SkillBudget, LedgerAssumption, Discoverer, Units
<1>5. new.state = "started" /\ new.reserved = grant
  OBVIOUS
<1>6. /\ d.request = r /\ d.queries = grant.queries /\ d.limit = grant.skills /\ d.asked = 0 /\ d.selected = {}
      /\ d.flight = None /\ d.phase # "fetch"
  OBVIOUS
<1> HIDE DEF new, d
<1>7. /\ attempt' \in [Requests -> {None} \cup SkillAttempt] /\ work' \in [Workers -> {None} \cup Discoverer]
      /\ \A q \in Requests : attempt'[q] = IF q = r THEN new ELSE attempt[q]
      /\ \A u \in Workers : work'[u] = IF u = w THEN d ELSE work[u]
  BY <1>1, <1>4 DEF DiscoveryInv, DiscoveryTypes
<1>8. DiscoveryTypes'
  BY <1>1, <1>7 DEF DiscoveryInv, DiscoveryTypes
<1>9. ExecutedInv'
  BY <1>1, <1>4, <1>7 DEF DiscoveryInv, DiscoveryTypes, ExecutedInv
<1>10. /\ \A q \in Requests, kind \in {"queries", "skills"} :
             countedFor(q, kind)' = IF q = r THEN grant[kind] ELSE countedFor(q, kind)
       /\ \A kind \in {"queries", "skills"} : countedFor(r, kind) = 0
  BY <1>1, <1>4, <1>5, <1>7 DEF countedFor
<1>11. ASSUME NEW kind \in {"queries", "skills"}
       PROVE  /\ Counted(kind)' = Counted(kind) \cup {<<r, i>> : i \in 1..grant[kind]}
              /\ IsFiniteSet(Counted(kind)') /\ Cardinality(Counted(kind)') <= Cardinality(Counted(kind)) + grant[kind]
              /\ Cardinality(Counted(kind)') \in Nat
  <2>1. Counted(kind)' = UNION {{<<q, i>> : i \in 1..countedFor(q, kind)'} : q \in Requests}
    BY DEF Counted
  <2>2. \A x : x \in Counted(kind)' <=> \E q \in Requests : x \in {<<q, i>> : i \in 1..countedFor(q, kind)'}
    BY <2>1
  <2>3. \A x : x \in Counted(kind) <=> \E q \in Requests : x \in {<<q, i>> : i \in 1..countedFor(q, kind)}
    BY DEF Counted
  <2>4. Counted(kind)' = Counted(kind) \cup {<<r, i>> : i \in 1..grant[kind]}
    <3>1. ASSUME NEW x PROVE x \in Counted(kind)' <=> x \in Counted(kind) \cup {<<r, i>> : i \in 1..grant[kind]}
      <4>1. \A q \in Requests : q # r => countedFor(q, kind)' = countedFor(q, kind)
        BY <1>10
      <4>2. countedFor(r, kind)' = grant[kind] /\ countedFor(r, kind) = 0
        BY <1>10
      <4>3. {<<r, i>> : i \in 1..countedFor(r, kind)} = {}
        BY <4>2
      <4> QED
        BY <2>2, <2>3, <4>1, <4>2, <4>3
    <3> QED
      BY <3>1
  <2>5. grant[kind] \in Nat
    BY <1>3
  <2> DEFINE share == {<<r, i>> : i \in 1..grant[kind]}
  <2>6. IsFiniteSet(share) /\ Cardinality(share) = grant[kind]
    BY <2>5, Share
  <2>7. IsFiniteSet(Counted(kind)) /\ Cardinality(Counted(kind)) \in Nat
    BY <1>2 DEF DiscoveryInv, BudgetInv
  <2> HIDE DEF share
  <2>8. /\ IsFiniteSet(Counted(kind) \cup share)
        /\ Cardinality(Counted(kind) \cup share) <= Cardinality(Counted(kind)) + Cardinality(share)
    <3>1. /\ IsFiniteSet(Counted(kind) \cup share) /\ IsFiniteSet(Counted(kind) \cap share)
          /\ Cardinality(Counted(kind) \cup share) = Cardinality(Counted(kind)) + Cardinality(share) - Cardinality(Counted(kind) \cap share)
      BY <2>6, <2>7, FS_Union, FS_Intersection
    <3>2. Cardinality(Counted(kind) \cap share) \in Nat
      BY <3>1, FS_CardinalityType
    <3> QED
      BY <2>5, <2>6, <2>7, <3>1, <3>2
  <2>9. Cardinality(Counted(kind) \cup share) \in Nat
    BY <2>8, FS_CardinalityType
  <2> QED
    BY <2>4, <2>6, <2>8, <2>9 DEF share
<1>12. takenFor(r) = {}
  <2>1. IsFiniteSet(takenFor(r)) /\ Cardinality(takenFor(r)) <= 0
    BY <1>10 DEF DiscoveryInv, BudgetInv
  <2>2. Cardinality(takenFor(r)) = 0
    BY <2>1, FS_CardinalityType
  <2> QED
    BY <2>1, <2>2, FS_EmptySet
<1>13. \A q \in Requests : takenFor(q)' = takenFor(q)
  BY <1>1 DEF takenFor
<1>14. ASSUME NEW u \in Workers, work[u]' # None
       PROVE  WorkFits(work[u])'
  <2>1. CASE u = w
    <3>1. work[u]' = d /\ attempt'[r] = new
      BY <1>7, <2>1
    <3>2. takenFor(work[u].request)' = {}
      BY <1>6, <1>12, <1>13, <3>1 DEF takenFor
    <3>3. IsFiniteSet({}) /\ Cardinality({}) = 0
      BY FS_EmptySet
    <3> QED
      BY <1>3, <1>4, <1>5, <1>6, <3>1, <3>2, <3>3 DEF WorkFits
  <2>2. CASE u # w
    <3>1. work[u]' = work[u] /\ work[u] \in Discoverer /\ WorkFits(work[u])
      BY <1>7, <1>14, <2>2 DEF DiscoveryInv, DiscoveryTypes, WorkInv
    <3>2. work[u].request \in Requests /\ work[u].request # r
      BY <1>1, <3>1 DEF Discoverer, WorkFits
    <3>3. attempt'[work[u].request] = attempt[work[u].request] /\ takenFor(work[u].request)' = takenFor(work[u].request)
      BY <1>7, <1>13, <3>1, <3>2 DEF takenFor
    <3> QED
      BY <3>1, <3>3 DEF WorkFits
  <2> QED
    BY <2>1, <2>2
<1>15. WorkInv'
  <2>1. \A u \in Workers : work[u] # None => work[u].request # r
    BY <1>1 DEF DiscoveryInv, WorkInv, WorkFits
  <2>2. \A v, u \in Workers : work'[v] # None /\ work'[u] # None /\ v # u => work'[v].request # work'[u].request
    BY <1>6, <1>7, <2>1 DEF DiscoveryInv, WorkInv
  <2> QED
    BY <1>14, <2>2 DEF WorkInv
<1>16. BudgetInv'
  <2>1. Cardinality(Counted("queries")') <= MaxQueries /\ Cardinality(Counted("skills")') <= MaxSkills
    BY <1>2, <1>3, <1>11
  <2>2. issued' \subseteq Counted("queries")'
    BY <1>1, <1>11 DEF DiscoveryInv, BudgetInv
  <2>3. ASSUME NEW q \in Requests
        PROVE  IsFiniteSet(takenFor(q)') /\ Cardinality(takenFor(q)') <= countedFor(q, "skills")'
    <3>1. CASE q = r
      <4>1. takenFor(q)' = {} /\ IsFiniteSet({}) /\ Cardinality({}) = 0
        BY <1>12, <1>13, <3>1, FS_EmptySet
      <4> QED
        BY <1>3, <1>10, <3>1, <4>1
    <3>2. CASE q # r
      BY <1>10, <1>13, <3>2 DEF DiscoveryInv, BudgetInv
    <3> QED
      BY <3>1, <3>2
  <2> QED
    BY <1>11, <2>1, <2>2, <2>3 DEF BudgetInv
<1> QED
  BY <1>8, <1>9, <1>15, <1>16 DEF DiscoveryInv

\* A process stops, or records expire.
LEMMA StopStep ==
  ASSUME DiscoveryInv,
         (\E w \in Workers : Discovery!crash(w)) \/ (\E K \in SUBSET Discovery!CacheKeys, S \in SUBSET Found : Discovery!recordsExpire(K, S))
         \/ UNCHANGED discoveryVars
  PROVE  DiscoveryInv'
<1>1. /\ UNCHANGED <<attempt, executed, issued, taken>> /\ searchCache' \in [Discovery!CacheKeys -> {None} \cup SearchRow]
      /\ work' \in [Workers -> {None} \cup Discoverer] /\ \A u \in Workers : work'[u] \in {None, work[u]}
  BY DEF Discovery!crash, Discovery!recordsExpire, discoveryVars, Discovery!tables, Discovery!history, DiscoveryInv, DiscoveryTypes
<1>2. DiscoveryTypes' /\ ExecutedInv'
  BY <1>1 DEF DiscoveryInv, DiscoveryTypes, ExecutedInv
<1>3. \A kind \in {"queries", "skills"} : Counted(kind)' = Counted(kind)
  BY <1>1 DEF Counted, countedFor
<1>4. \A q \in Requests : takenFor(q)' = takenFor(q) /\ countedFor(q, "skills")' = countedFor(q, "skills")
  BY <1>1 DEF takenFor, countedFor
<1>5. BudgetInv'
  BY <1>1, <1>3, <1>4 DEF DiscoveryInv, BudgetInv
<1>6. ASSUME NEW u \in Workers, work[u]' # None PROVE WorkFits(work[u])'
  <2>1. work[u]' = work[u] /\ WorkFits(work[u])
    BY <1>1, <1>6 DEF DiscoveryInv, WorkInv
  <2>2. takenFor(work[u].request)' = takenFor(work[u].request)
    BY <1>1, <2>1 DEF takenFor
  <2> QED
    BY <1>1, <2>1, <2>2 DEF WorkFits
<1>7. WorkInv'
  <2>1. \A v, u \in Workers : work'[v] # None /\ work'[u] # None /\ v # u => work'[v].request # work'[u].request
    BY <1>1 DEF DiscoveryInv, WorkInv
  <2> QED
    BY <1>6, <2>1 DEF WorkInv
<1> QED
  BY <1>2, <1>5, <1>7 DEF DiscoveryInv

\* DiscoveryInv is inductive.
LEMMA DiscoveryStep == DiscoveryInv /\ [Discovery!Next]_discoveryVars => DiscoveryInv'
<1> SUFFICES ASSUME DiscoveryInv, [Discovery!Next]_discoveryVars PROVE DiscoveryInv'
  OBVIOUS
<1>1. CASE UNCHANGED discoveryVars
  BY <1>1, StopStep
<1>2. CASE Discovery!Next
  BY <1>2, ClaimStep, AttemptEnds, StopStep, SearchSteps, CandidateSteps DEF Discovery!Next
<1> QED
  BY <1>1, <1>2

\* The steps of the store of skills and of a discovery are steps of theirs alone.
LEMMA OnlySkillSteps ==
  [AllNext]_all => /\ InSkills' => InSkills /\ [Store!Next]_skillVars
                   /\ InDiscovery' => InDiscovery /\ [Discovery!Next]_discoveryVars
                   /\ InSkills => InSkills'
<1>1. [AllNext]_all => (InSkills' => InSkills /\ [Store!Next]_skillVars)
  BY DEF AllNext, all, InExecution, InRuns, InArchive, InSkills, InDiscovery, InPromotion, OnlyRuns,
         OnlyExecution, OnlyArchive, OnlySkills, OnlyDiscovery, OnlyPromotion, Store!Next
<1>2. [AllNext]_all => (InDiscovery' => InDiscovery /\ [Discovery!Next]_discoveryVars)
  BY DEF AllNext, all, InExecution, InRuns, InArchive, InSkills, InDiscovery, InPromotion, OnlyRuns,
         OnlyExecution, OnlyArchive, OnlySkills, OnlyDiscovery, OnlyPromotion, Discovery!Next
<1>3. [AllNext]_all => (InSkills => InSkills')
  BY DEF AllNext, all, InExecution, InRuns, InArchive, InSkills, InDiscovery, InPromotion, OnlyRuns,
         OnlyExecution, OnlyArchive, OnlySkills, OnlyDiscovery, OnlyPromotion
<1> QED
  BY <1>1, <1>2, <1>3

\* What a skill serves is one snapshot of it, or nothing.
LEMMA SkillsServe == SkillInv => Store!ServesOneSnapshot /\ Store!DisabledServesNothing
<1> SUFFICES ASSUME SkillInv PROVE Store!ServesOneSnapshot /\ Store!DisabledServesNothing
  OBVIOUS
<1>1. ASSUME NEW s \in Runs
      PROVE  /\ Store!activeDocs(s) = IF skill[s] # None /\ skill[s].state = "imported"
                                      THEN Snapshots[skill[s].snapshot] ELSE {}
             /\ skill[s] # None /\ Store!materialized(skill[s]) =>
                   \A d \in Snapshots[skill[s].snapshot] : mapping[s][d] # None /\ mapping[s][d].version = skill[s].snapshot
  <2>1. Serves(skill[s], mapping[s]) /\ RowFits(skill[s]) /\ (skill[s] # None => skill[s] \in SkillRow)
    BY DEF SkillInv, SkillTypes, RowInv
  <2>2. CASE skill[s] # None /\ skill[s].state = "imported"
    <3>1. Snapshots[skill[s].snapshot] \subseteq Docs
      BY <2>1, <2>2, SkillConstants DEF RowFits, SkillRow
    <3>2. \A d \in Docs : d \in Store!activeDocs(s) <=> d \in Snapshots[skill[s].snapshot]
      BY <2>1, <2>2 DEF Serves, Store!activeDocs
    <3>3. Store!activeDocs(s) \subseteq Docs
      BY DEF Store!activeDocs
    <3>4. Store!activeDocs(s) = Snapshots[skill[s].snapshot]
      BY <3>1, <3>2, <3>3
    <3> QED
      BY <2>1, <2>2, <3>4 DEF Serves, Store!materialized
  <2>3. CASE ~(skill[s] # None /\ skill[s].state = "imported")
    <3>1. Store!activeDocs(s) = {}
      BY <2>1, <2>3 DEF Serves, Store!activeDocs
    <3> QED
      BY <2>1, <2>3, <3>1 DEF Serves, Store!materialized
  <2> QED
    BY <2>2, <2>3
<1>2. ASSUME NEW s \in withheld PROVE Store!activeDocs(s) = {}
  <2>1. s \in Runs /\ skill[s] # None /\ skill[s].disabled
    BY DEF SkillInv, SkillTypes
  <2>2. RowFits(skill[s])
    BY <2>1 DEF SkillInv, RowInv
  <2> QED
    BY <1>1, <2>1, <2>2 DEF RowFits
<1> QED
  BY <1>1, <1>2 DEF Store!ServesOneSnapshot, Store!DisabledServesNothing

\* Whatever commands and discoveries overlap, a skill serves the documents of one
\* snapshot or none, no refresh installs an older one (refreshExternalSkillSnapshot),
\* and the attempts of a run stay within its budget
\* (claimTaskSkillDiscoveryAttempt, searchWithCache).
THEOREM SkillsServeOneSnapshot == LedgerSpec => SkillServesItsSnapshot
<1> DEFINE Inv == (InSkills => SkillInv) /\ (InDiscovery => DiscoveryInv)
           Served == InSkills => Store!ServesOneSnapshot /\ Store!DisabledServesNothing
           Kept == InDiscovery => Discovery!BudgetKept /\ Discovery!SilentAfterFailure
           Newer == InSkills => Store!NeverOlder
<1>1. AllInit => Inv
  <2>1. AllInit /\ InSkills => SkillInv
    BY SkillInit DEF AllInit, InSkills
  <2>2. AllInit /\ InDiscovery => DiscoveryInv
    BY DiscoveryInit DEF AllInit, InDiscovery
  <2> QED
    BY <2>1, <2>2
<1>2. Inv /\ [AllNext]_all => Inv'
  BY OnlySkillSteps, SkillStep, DiscoveryStep
<1>3. Inv => Served /\ Kept
  BY SkillsServe, BudgetsKept
<1>4. Inv /\ [AllNext]_all => Newer
  BY OnlySkillSteps, SkillStep
<1>5. LedgerSpec => []Inv
  BY <1>1, <1>2, PTL DEF LedgerSpec
<1>6. LedgerSpec => []Served /\ []Kept
  BY <1>3, <1>5, PTL
<1>7. LedgerSpec => [][Newer]_all
  BY <1>4, <1>5, PTL DEF LedgerSpec
<1> QED
  BY <1>6, <1>7 DEF SkillServesItsSnapshot
=============================================================================
