------------------------------ MODULE EnnoRun ------------------------------
(***************************************************************************)
(* One Enno-Oduno run (src/src/enno-oduno): the contract row and its       *)
(* phases, the work units of the current plan with their execution leases, *)
(* the per-run operation receipt, the focused and final verifier runs, the *)
(* advisory round of the current phase, and the client route.              *)
(*                                                                         *)
(* Every action is one SQLite transaction (BEGIN IMMEDIATE) of service.ts  *)
(* or adapters.ts.  Two operations are not one transaction: reportEnnoWork *)
(* of a completed unit and prepareEnnoVerification commit, run verifiers   *)
(* for minutes and commit again; their halves are separate actions and any *)
(* other client, the clock or a crash may come between them.               *)
(*                                                                         *)
(* Abstractions.  A call that is refused changes nothing and is no step.   *)
(* A completed receipt replays its stored answer, which is no step either. *)
(* Clients quote the credential they were given (unit, serial, revision    *)
(* and epoch); a lease is live or expired, and may expire whenever time    *)
(* passes.  The repository is a version number: an edit makes contents not *)
(* seen before.  needs_confirmation and blocked are states of older        *)
(* databases: no operation of this code enters them (submitEnnoPlan fixes  *)
(* needsConfirmation to false), so answerEnno is its cancel case.          *)
(***************************************************************************)
EXTENDS Naturals, FiniteSets

CONSTANTS
    Units,          \* ids of work units
    Plans,          \* the plans Zenki may submit (see PlansAssumption)
    Sessions,       \* OpenCode sessions
    Provisional,    \* the orchestration session: owner while no client is bound
    Bindings,       \* the clients a draft may be created for
    Procs,          \* processes that may be between two halves of an operation
    None,           \* no process, no advice, no evidence
    Good,           \* the repository versions on which the final verifiers pass
    Outcomes,       \* checkpoint outcomes offered while the run is active
    MaxParallel,    \* maxParallelWorkUnits of the server (3 by default)
    ClaimLimits,    \* the maxParallel values of enno_work_claim
    MaxAttempts,    \* contract.maxAttempts
    MaxRevision,    \* bound: contract revisions
    MaxEdits,       \* bound: edits of the repository
    MaxSerial,      \* bound: leases issued for one unit
    MaxEpoch        \* bound: client routes

Isolations == {"shared_serial", "read_only", "isolated_worktree"}
Access == {"read", "write", "quota"}

UnitsOf(p) == DOMAIN p.rank

\* What workPlanSchema demands of a plan: a list of at least one unit,
\* dependencies inside the plan and acyclic.  rank is the order of the units array.
ASSUME PlansAssumption ==
    \A p \in Plans :
        /\ UnitsOf(p) \subseteq Units /\ UnitsOf(p) # {} /\ IsFiniteSet(UnitsOf(p))
        /\ \A u \in UnitsOf(p) :
              /\ p.rank[u] \in Nat
              /\ p.needs[u] \subseteq UnitsOf(p)
              /\ p.isolation[u] \in Isolations
              /\ \A k \in DOMAIN p.claims[u] : p.claims[u][k] \in Access
              /\ \A v \in UnitsOf(p) : p.rank[u] = p.rank[v] => u = v
        /\ \A S \in SUBSET UnitsOf(p) :
              S # {} => \E u \in S : p.needs[u] \cap S = {}

ASSUME SessionsAssumption ==
    /\ Provisional \notin Sessions
    /\ Bindings \subseteq Sessions \cup {Provisional}
    /\ None \notin Procs

ASSUME OutcomesAssumption == Outcomes \subseteq {"completed", "failed", "cancelled"}

ASSUME BoundsAssumption ==
    /\ MaxParallel \in 1..8 /\ ClaimLimits \subseteq 1..8
    /\ {MaxAttempts, MaxRevision, MaxEdits, MaxSerial, MaxEpoch} \subseteq Nat /\ MaxRevision > 0

VARIABLES
    status,     \* exposedStatus of the contract row
    revision,   \* contract revision
    mutation,   \* mutation_revision
    attempts,   \* attempts, never above 20
    bound,      \* client_session_id, Provisional while it is null
    epoch,      \* route_epoch
    ledger,     \* status of the ledger run the contract belongs to
    plan,       \* the work plan of the current revision
    unit,       \* status of each unit at the current revision
    leases,     \* rows of enno_execution_leases
    issued,     \* the credentials handed out so far
    receipt,    \* the process whose operation receipt is started and unexpired
    op,         \* what each process is in the middle of
    evidence,   \* the latest finished run of the final verifiers
    advice,     \* the context of the advisory round of this phase, if submitted
    continued,  \* total_count of continuations per session
    repo,       \* the version of the repository
    accepted    \* the version the accepting review committed on (history)

contract == <<status, revision, mutation, attempts>>
route == <<bound, epoch, continued>>
work == <<plan, unit, leases, issued>>
review == <<evidence, advice, accepted>>
vars == <<contract, route, ledger, work, receipt, op, review, repo>>

-----------------------------------------------------------------------------

Statuses == {"oduno_ideal", "zenki_planning", "goki_executing", "enno_verifying",
             "oduno_meditation", "completed", "cancelled"}
ActiveStatuses == Statuses \ {"completed", "cancelled"}
UnitStatuses == {"absent", "pending", "in_progress", "completed", "failed", "blocked"}
Owners == Sessions \cup {Provisional}

Credential == [unit : Units, serial : 1..MaxSerial, revision : 1..MaxRevision, epoch : 0..MaxEpoch]
Lease == [unit : Units, serial : 1..MaxSerial, revision : 1..MaxRevision, epoch : 0..MaxEpoch,
          mutation : Nat, owner : Owners, live : BOOLEAN]
Evidence == [revision : 1..MaxRevision, mutation : Nat, pre : 0..MaxEdits, post : 0..MaxEdits,
             passed : BOOLEAN]
Idle == [kind |-> "idle"]
Reporting == [kind : {"report"}, credential : Credential, mutated : BOOLEAN]
Verifying == [kind : {"prepare", "verify", "verified", "captured"}, revision : 1..MaxRevision,
              pre : 0..MaxEdits, post : 0..MaxEdits, cached : BOOLEAN, passed : BOOLEAN]

NoPlan == [rank |-> [u \in {} |-> 0], needs |-> [u \in {} |-> {}],
           isolation |-> [u \in {} |-> "read_only"], claims |-> [u \in {} |-> {}]]
NoUnits == [u \in Units |-> "absent"]

TypeOK ==
    /\ status \in Statuses
    /\ revision \in 1..MaxRevision /\ mutation \in Nat /\ attempts \in 0..20
    /\ bound \in Owners /\ epoch \in 0..MaxEpoch
    /\ ledger \in {"active", "completed", "failed", "cancelled"}
    /\ plan \in Plans \cup {NoPlan}
    /\ unit \in [Units -> UnitStatuses]
    /\ leases \subseteq Lease /\ issued \subseteq Credential
    /\ receipt \in Procs \cup {None}
    /\ op \in [Procs -> {Idle} \cup Reporting \cup Verifying]
    /\ evidence \in Evidence \cup {None}
    /\ advice \in Evidence \cup {None}
    /\ continued \in [Sessions -> 0..MaxAttempts]
    /\ repo \in 0..MaxEdits
    /\ accepted \in 0..MaxEdits \cup {None}

\* createEnnoDraft
Init ==
    /\ status = "oduno_ideal" /\ revision = 1 /\ mutation = 0 /\ attempts = 0
    /\ bound \in Bindings /\ epoch = 0 /\ continued = [s \in Sessions |-> 0]
    /\ ledger = "active"
    /\ plan = NoPlan /\ unit = NoUnits /\ leases = {} /\ issued = {}
    /\ receipt = None /\ op = [p \in Procs |-> Idle]
    /\ evidence = None /\ advice = None /\ accepted = None
    /\ repo = 0

-----------------------------------------------------------------------------
(* Guards every operation shares.                                          *)

\* appendPreparedBatchInTransaction refuses a terminal run, and all but the
\* idle steps below append events.
LedgerOpen == ledger = "active"

\* startOperationInTransaction: no other receipt is started and unexpired.
NoOperation == receipt = None

\* updateContractInTransaction: one UPDATE of the row, guarded by the revision
\* and status the same transaction read
updatesContract(s, rev, tries, mut) ==
    status' = s /\ revision' = rev /\ attempts' = tries /\ mutation' = mut

oneMoreAttempt == IF attempts < 20 THEN attempts + 1 ELSE 20

expired(ls) == {l \in ls : l.revision = revision /\ ~l.live}

\* The lease check as it would be without the credential's token.
HoldsSomeLease(c) ==
    /\ c.revision = revision
    /\ \E l \in leases : l.revision = revision /\ l.unit = c.unit /\ l.live

\* assertExecutionLeaseInTransaction for a report that quotes credential c
HoldsLease(c) ==
    /\ c.revision = revision
    /\ \E l \in leases :
          /\ l.revision = revision /\ l.unit = c.unit
          /\ l.live
          /\ l.mutation = mutation
          /\ l.serial = c.serial
          /\ l.epoch = c.epoch /\ l.epoch = epoch
          /\ l.owner = bound

\* renewExecutionLeaseInTransaction: the lease is asserted, and lives on
renewsLease(c) == HoldsLease(c) /\ UNCHANGED leases

-----------------------------------------------------------------------------
(* Scheduling: startReadyUnits                                             *)

readyUnits(p, us) ==
    {u \in UnitsOf(p) : us[u] = "pending" /\ \A d \in p.needs[u] : us[d] = "completed"}

active(us) == {u \in Units : us[u] = "in_progress"}

claimsConflict(p, u, v) ==
    /\ ~(p.isolation[u] = "isolated_worktree" /\ p.isolation[v] = "isolated_worktree")
    /\ \E k \in DOMAIN p.claims[u] \cap DOMAIN p.claims[v] :
          p.claims[u][k] # "read" \/ p.claims[v][k] # "read"

parallelSafe(p, u) == p.isolation[u] \in {"read_only", "isolated_worktree"}

\* The loop's tests without the resource claims, and without the exception
\* that lets any unit run alone.
admissibleUnchecked(p, u, busy, limit) ==
    /\ Cardinality(busy) < limit
    /\ parallelSafe(p, u) \/ busy = {}

admissibleSafeOnly(p, u, busy, limit) ==
    /\ Cardinality(busy) < limit
    /\ parallelSafe(p, u)
    /\ \A v \in busy : ~claimsConflict(p, u, v)

\* u passes the loop's tests while the units of `busy` run or are selected.
admissible(p, u, busy, limit) ==
    /\ Cardinality(busy) < limit
    /\ parallelSafe(p, u) \/ busy = {}
    /\ \A v \in busy : ~claimsConflict(p, u, v)

\* The units the loop over the ready units, in the order of the plan, picks.
selects(p, us, limit, S) ==
    /\ S \subseteq readyUnits(p, us)
    /\ \A u \in readyUnits(p, us) :
          (u \in S) <=> admissible(p, u,
              active(us) \cup {v \in S : p.rank[v] < p.rank[u]}, limit)

\* 'Enno WorkPlan dependencies cannot advance' is raised otherwise.
canAdvance(us, S) == S # {} \/ active(us) # {}

starts(us, S) == [u \in Units |-> IF u \in S THEN "in_progress" ELSE us[u]]

nextSerial(u) == 1 + Cardinality({c \in issued : c.unit = u})

\* claimExecutionLeaseInTransaction where no live row is in the way: a row of
\* the same revision and unit is overwritten.
grants(ls, S, rev, mut, ep, owner) ==
    {l \in ls : ~(l.revision = rev /\ l.unit \in S)}
    \cup {[unit |-> u, serial |-> nextSerial(u), revision |-> rev, epoch |-> ep,
           mutation |-> mut, owner |-> owner, live |-> TRUE] : u \in S}

issues(S, rev, ep) ==
    {[unit |-> u, serial |-> nextSerial(u), revision |-> rev, epoch |-> ep] : u \in S}

withinSerials(S) == \A u \in S : nextSerial(u) <= MaxSerial

\* startReadyUnits on unit states us, after the caller's own changes
startReadyUnits(p, us, ls, rev, mut, limit) ==
    \E S \in SUBSET UnitsOf(p) :
        /\ selects(p, us, limit, S)
        /\ canAdvance(us, S)
        /\ withinSerials(S)
        /\ unit' = starts(us, S)
        /\ leases' = grants(ls, S, rev, mut, epoch, bound)
        /\ issued' = issued \cup issues(S, rev, epoch)

-----------------------------------------------------------------------------
(* Advisory rounds and final evidence                                      *)

\* readFreshFinalVerifierResults for the repository version d
fresh(d) ==
    /\ evidence # None
    /\ evidence.revision = revision /\ evidence.mutation = mutation
    /\ evidence.pre = d /\ evidence.post = d

\* readEnnoSnapshot captures the repository in the verification phase and looks
\* for evidence of just that version.
finalEvidenceReady == status = "enno_verifying" /\ fresh(repo)

\* advisoryContextForSubmission: the contract, with the final evidence where the
\* phase has one; None where the phase takes no advice now
context ==
    CASE status \in {"oduno_ideal", "zenki_planning"} ->
            [revision |-> revision, mutation |-> mutation, pre |-> 0, post |-> 0, passed |-> FALSE]
      [] finalEvidenceReady -> evidence
      [] OTHER -> None

submitEnnoAdvice ==
    /\ LedgerOpen /\ NoOperation
    /\ context # None
    /\ advice' = context
    /\ UNCHANGED <<contract, route, ledger, work, receipt, op, evidence, accepted, repo>>

\* consumeAdvisoryRoundIfPresent: a round of this phase must be the current
\* one and is consumed; without a round the caller gives no digest.
consumesAdvice == advice = None \/ advice = context

-----------------------------------------------------------------------------
(* Ideal and plan                                                          *)

submitOdunoIdeal ==
    /\ status = "oduno_ideal"
    /\ LedgerOpen /\ NoOperation /\ consumesAdvice
    /\ updatesContract("zenki_planning", revision, attempts, mutation)
    /\ advice' = None
    /\ UNCHANGED <<route, ledger, work, receipt, op, evidence, accepted, repo>>

submitEnnoPlan(p) ==
    /\ status = "zenki_planning" /\ revision < MaxRevision
    /\ LedgerOpen /\ NoOperation /\ consumesAdvice
    /\ updatesContract("goki_executing", revision + 1, attempts, mutation)
    /\ plan' = p
    /\ startReadyUnits(p, [u \in Units |-> IF u \in UnitsOf(p) THEN "pending" ELSE "absent"],
                       leases, revision + 1, mutation, MaxParallel)
    /\ advice' = None
    /\ UNCHANGED <<route, ledger, receipt, op, evidence, accepted, repo>>

\* answerEnno with action cancel
answerEnno ==
    /\ status = "zenki_planning"
    /\ LedgerOpen /\ NoOperation
    /\ updatesContract("cancelled", revision, attempts, mutation)
    /\ ledger' = "cancelled"
    /\ advice' = None
    /\ UNCHANGED <<route, work, receipt, op, evidence, accepted, repo>>

-----------------------------------------------------------------------------
(* Execution                                                               *)

\* The sweep as it would be had it only deleted the expired leases.
requeuedNothing(us, ls) == us

\* requeueExpiredExecutionLeasesInTransaction
requeued(us, ls) ==
    [u \in Units |-> IF us[u] = "in_progress" /\ \E l \in expired(ls) : l.unit = u
                     THEN "pending" ELSE us[u]]

claimEnnoWork(limit) ==
    /\ status = "goki_executing" /\ LedgerOpen
    /\ startReadyUnits(plan, requeued(unit, leases), leases \ expired(leases),
                       revision, mutation, limit)
    /\ UNCHANGED <<contract, route, ledger, plan, receipt, op, review, repo>>

\* What a failed or rejected unit does to the contract: a new revision for
\* Zenki, and every lease of the run is released.
replans(mut) ==
    /\ revision < MaxRevision
    /\ updatesContract("zenki_planning", revision + 1, oneMoreAttempt, mut)
    /\ plan' = NoPlan /\ unit' = NoUnits
    /\ leases' = {}
    /\ UNCHANGED issued

\* reportEnnoWork with outcome failed or blocked
reportFailed(c) ==
    /\ status = "goki_executing" /\ unit[c.unit] = "in_progress"
    /\ HoldsLease(c)
    /\ LedgerOpen /\ NoOperation
    /\ replans(mutation)
    /\ UNCHANGED <<route, ledger, receipt, op, review, repo>>

\* reportEnnoWork with outcome completed, up to the first commit: the lease is
\* renewed and the receipt started (neither appends an event)
reportBegins(p, c, mutated) ==
    /\ op[p] = Idle
    /\ status = "goki_executing" /\ unit[c.unit] = "in_progress"
    /\ renewsLease(c)
    /\ NoOperation
    /\ receipt' = p
    /\ op' = [op EXCEPT ![p] = [kind |-> "report", credential |-> c, mutated |-> mutated]]
    /\ UNCHANGED <<contract, route, ledger, plan, unit, issued, review, repo>>

\* Sibling leases left behind by an accepted mutation.
advanceNoSibling(ls) == ls

\* advanceSiblingLeaseMutationInTransaction
advanceSiblingLeaseMutation(ls) ==
    {IF l.revision = revision /\ l.epoch = epoch /\ l.mutation = mutation
     THEN [l EXCEPT !.mutation = mutation + 1] ELSE l : l \in ls}

\* The conditions of the second transaction; completeOperationInTransaction
\* needs the receipt to be the caller's and unexpired.
reportHolds(p) ==
    /\ op[p].kind = "report" /\ receipt = p
    /\ status = "goki_executing"
    /\ HoldsLease(op[p].credential)
    /\ unit[op[p].credential.unit] = "in_progress"
    /\ LedgerOpen

\* Nothing left to start, although a sibling may still be running.
nothingReady(us) == readyUnits(plan, us) = {}

allCompleted(us) == \A u \in UnitsOf(plan) : us[u] = "completed"

\* focused verification passed
reportPasses(p) ==
    /\ reportHolds(p)
    /\ LET u == op[p].credential.unit
           us == [unit EXCEPT ![u] = "completed"]
           own == {l \in leases : ~(l.revision = revision /\ l.unit = u)}
           ls == IF op[p].mutated THEN advanceSiblingLeaseMutation(own) ELSE own
           mut == IF op[p].mutated THEN mutation + 1 ELSE mutation
       IN IF allCompleted(us)
          THEN /\ updatesContract("enno_verifying", revision, attempts, mut)
               /\ unit' = us /\ leases' = ls
               /\ UNCHANGED issued
          ELSE /\ updatesContract(status, revision, attempts, mut)
               /\ startReadyUnits(plan, us, ls, revision, mut, MaxParallel)
    /\ receipt' = None
    /\ op' = [op EXCEPT ![p] = Idle]
    /\ UNCHANGED <<route, ledger, plan, review, repo>>

\* focused verification rejected the unit
reportRejected(p) ==
    /\ reportHolds(p)
    /\ replans(IF op[p].mutated THEN mutation + 1 ELSE mutation)
    /\ receipt' = None
    /\ op' = [op EXCEPT ![p] = Idle]
    /\ UNCHANGED <<route, ledger, review, repo>>

-----------------------------------------------------------------------------
(* Final verification and review                                           *)

\* prepareEnnoVerification reads the snapshot and captures the repository
\* before its first transaction.
prepareReads(p) ==
    /\ op[p] = Idle
    /\ status = "enno_verifying"
    /\ op' = [op EXCEPT ![p] = [kind |-> "prepare", revision |-> revision, pre |-> repo,
                                post |-> repo, cached |-> FALSE, passed |-> FALSE]]
    /\ UNCHANGED <<contract, route, ledger, work, receipt, review, repo>>

\* The first transaction: fresh evidence for the captured version is reused.
prepareBegins(p) ==
    /\ op[p].kind = "prepare"
    /\ status = "enno_verifying" /\ revision = op[p].revision
    /\ LedgerOpen /\ NoOperation
    /\ receipt' = p
    /\ op' = [op EXCEPT ![p].kind = IF fresh(op[p].pre) THEN "verified" ELSE "verify",
                        ![p].cached = fresh(op[p].pre)]
    /\ UNCHANGED <<contract, route, ledger, work, review, repo>>

\* runVerifiers: they see the repository as it is now, and may fail for
\* reasons of their own (time out, not start)
runVerifiers(p) ==
    /\ op[p].kind = "verify"
    /\ \E passed \in {FALSE, (repo \in Good)} :
          op' = [op EXCEPT ![p].kind = "verified", ![p].passed = passed]
    /\ UNCHANGED <<contract, route, ledger, work, receipt, review, repo>>

\* captureRepositoryState after the verifiers
captureAfter(p) ==
    /\ op[p].kind = "verified"
    /\ op' = [op EXCEPT ![p].kind = "captured", ![p].post = repo]
    /\ UNCHANGED <<contract, route, ledger, work, receipt, review, repo>>

\* The version captured before the verifiers ran is not kept.
prepareEndsUnchecked(p) ==
    /\ op[p].kind = "captured" /\ receipt = p
    /\ status = "enno_verifying" /\ revision = op[p].revision
    /\ evidence' = IF op[p].cached THEN evidence
                   ELSE [revision |-> revision, mutation |-> mutation, pre |-> op[p].post,
                         post |-> op[p].post, passed |-> op[p].passed]
    /\ receipt' = None
    /\ op' = [op EXCEPT ![p] = Idle]
    /\ UNCHANGED <<contract, route, ledger, work, advice, accepted, repo>>

\* finishVerifierRunsInTransaction: the rows are finished with both versions.
finishVerifierRuns(p) ==
    evidence' = [revision |-> revision, mutation |-> mutation, pre |-> op[p].pre,
                 post |-> op[p].post, passed |-> op[p].passed]

\* The second transaction: cached results have no rows to finish.
prepareEnds(p) ==
    /\ op[p].kind = "captured" /\ receipt = p
    /\ status = "enno_verifying" /\ revision = op[p].revision
    /\ IF op[p].cached THEN UNCHANGED evidence ELSE finishVerifierRuns(p)
    /\ receipt' = None
    /\ op' = [op EXCEPT ![p] = Idle]
    /\ UNCHANGED <<contract, route, ledger, work, advice, accepted, repo>>

finishEnno(decision) ==
    /\ finalEvidenceReady
    /\ LedgerOpen /\ NoOperation /\ consumesAdvice
    /\ IF evidence.passed /\ decision = "accept"
       THEN /\ updatesContract("oduno_meditation", revision, oneMoreAttempt, mutation)
            /\ accepted' = repo
            /\ UNCHANGED work
       ELSE /\ revision < MaxRevision
            /\ updatesContract("zenki_planning", revision + 1, oneMoreAttempt, mutation)
            /\ plan' = NoPlan /\ unit' = NoUnits
            /\ UNCHANGED <<leases, issued, accepted>>
    /\ advice' = None
    /\ UNCHANGED <<route, ledger, receipt, op, evidence, repo>>

submitOdunoMeditation ==
    /\ status = "oduno_meditation"
    /\ LedgerOpen /\ NoOperation
    /\ updatesContract("completed", revision, attempts, mutation)
    /\ ledger' = "completed"
    /\ UNCHANGED <<route, work, receipt, op, review, repo>>

-----------------------------------------------------------------------------
(* Client routing                                                          *)

\* routeCandidateInTransaction: a live lease of another concrete session
\* stops the route; provisional leases are revoked by the first binding.
routable(s) ==
    \/ bound = s
    \/ /\ LedgerOpen /\ epoch < MaxEpoch
       /\ \A l \in leases : l.live => \/ l.owner = s
                                      \/ bound = Provisional /\ l.owner = Provisional

routedLeases(s) ==
    IF bound # s /\ bound = Provisional THEN {l \in leases : l.owner # Provisional} ELSE leases

\* nextReadyWorkUnit: the first unit in progress, else the first ready one
nextReadyWorkUnit ==
    LET candidates == IF active(unit) # {} THEN active(unit) ELSE readyUnits(plan, unit)
    IN {u \in candidates : \A v \in candidates : plan.rank[u] <= plan.rank[v]}

\* directiveForRun, as far as a continuation acts on it: only the directive of
\* the execution phase names a unit.
directiveUnits == IF status = "goki_executing" THEN nextReadyWorkUnit ELSE {}

\* claimContinuation: the limits on continuations
mayContinue(s) == continued[s] < MaxAttempts /\ attempts < MaxAttempts

\* decideAdapterContinuation.  claimContinuation allows at most maxAttempts
\* continuations of a session, none once the attempts are used up and always
\* the first; how often the same directive may repeat in between is left open.
continuation(s, allowed) ==
    /\ status \in ActiveStatuses
    /\ routable(s)
    /\ IF allowed THEN mayContinue(s)
                  ELSE continued[s] > 0 \/ attempts >= MaxAttempts
    /\ bound' = s
    /\ LET ep == IF bound = s THEN epoch ELSE epoch + 1
           ls == routedLeases(s)
           U == IF allowed THEN directiveUnits ELSE {}
           live == {l \in ls : l.revision = revision /\ l.unit \in U /\ l.live}
           G == {u \in U : \A l \in live : l.unit # u}
       IN /\ \A l \in live : l.mutation = mutation /\ l.epoch = ep /\ l.owner = s
          /\ withinSerials(G)
          /\ epoch' = ep
          /\ leases' = grants(ls, G, revision, mutation, ep, s)
          /\ issued' = issued \cup issues(G, revision, ep)
    /\ continued' = IF allowed THEN [continued EXCEPT ![s] = @ + 1] ELSE continued
    /\ UNCHANGED <<contract, ledger, plan, unit, receipt, op, review, repo>>

-----------------------------------------------------------------------------
(* The rest of the plugin, the clock and the processes                     *)

\* selectExecution with a choice other than enno
selectExecution(choice) ==
    /\ ledger = "active" /\ status \in ActiveStatuses
    /\ \A l \in leases : ~l.live
    /\ status' = "cancelled"
    /\ ledger' = IF choice = "cancelled" THEN "cancelled" ELSE ledger
    /\ UNCHANGED <<revision, mutation, attempts, route, work, receipt, op, review, repo>>

\* checkpointScopedMemory of this run: it ends the ledger run
checkpoint(outcome) ==
    /\ ledger = "active"
    /\ ledger' = outcome
    /\ UNCHANGED <<contract, route, work, receipt, op, review, repo>>

\* (the last lease the bound allows for a unit does not expire)
leaseExpires(l) ==
    /\ l.live /\ l.serial < MaxSerial
    /\ leases' = (leases \ {l}) \cup {[l EXCEPT !.live = FALSE]}
    /\ UNCHANGED <<contract, route, ledger, plan, unit, issued, receipt, op, review, repo>>

receiptExpires ==
    /\ receipt # None
    /\ receipt' = None
    /\ UNCHANGED <<contract, route, ledger, work, op, review, repo>>

\* The process dies, or its second transaction is refused: either way the
\* started receipt stays behind.
breaksOff(p) ==
    /\ op[p] # Idle
    /\ op' = [op EXCEPT ![p] = Idle]
    /\ UNCHANGED <<contract, route, ledger, work, receipt, review, repo>>

editRepository(version) ==
    /\ version = repo + 1
    /\ repo' = version
    /\ UNCHANGED <<contract, route, ledger, work, receipt, op, review>>

-----------------------------------------------------------------------------

reportEnds(p) == reportPasses(p) \/ reportRejected(p)

Next ==
    \/ submitEnnoAdvice \/ submitOdunoIdeal \/ answerEnno \/ submitOdunoMeditation
    \/ \E p \in Plans : submitEnnoPlan(p)
    \/ \E limit \in ClaimLimits : claimEnnoWork(limit)
    \/ \E c \in issued : reportFailed(c)
    \/ \E p \in Procs, c \in issued, mutated \in BOOLEAN : reportBegins(p, c, mutated)
    \/ \E p \in Procs : \/ reportPasses(p) \/ reportRejected(p)
                        \/ prepareReads(p) \/ prepareBegins(p) \/ runVerifiers(p)
                        \/ captureAfter(p) \/ prepareEnds(p)
                        \/ breaksOff(p)
    \/ \E decision \in {"accept", "revise"} : finishEnno(decision)
    \/ \E s \in Sessions, allowed \in BOOLEAN : continuation(s, allowed)
    \/ \E choice \in {"ordinary", "cancelled"} : selectExecution(choice)
    \/ \E outcome \in Outcomes : checkpoint(outcome)
    \/ \E l \in leases : leaseExpires(l)
    \/ receiptExpires
    \/ \E version \in 1..MaxEdits : editRepository(version)

Spec == Init /\ [][Next]_vars

(***************************************************************************)
(* Fairness.  Nothing obliges anyone to plan, review or edit.  The parent  *)
(* agent reports the units it holds leases for and asks for work while the *)
(* run executes; a started receipt runs out; a process does not stay       *)
(* between two transactions for ever (its verifiers have timeouts), and    *)
(* not every process that gets there is killed or overtaken by its lease,  *)
(* which lasts longer than all the verifier timeouts together.             *)
(***************************************************************************)
Fairness ==
    /\ WF_vars(\E limit \in ClaimLimits : claimEnnoWork(limit))
    /\ WF_vars(\E p \in Procs, c \in issued, mutated \in BOOLEAN : reportBegins(p, c, mutated))
    /\ WF_vars(receiptExpires)
    /\ \A p \in Procs : WF_vars(breaksOff(p)) /\ SF_vars(reportEnds(p))

FairSpec == Spec /\ Fairness

-----------------------------------------------------------------------------
(* Properties                                                              *)

(***************************************************************************)
(* 'Enno WorkPlan dependencies cannot advance' is never raised: whatever   *)
(* has been claimed, reported and requeued so far, enno_work_claim after   *)
(* its sweep of expired leases, and the report of any running unit, leave  *)
(* a unit in progress or the plan completed.  If either raised, the run    *)
(* could not leave the execution phase.                                    *)
(***************************************************************************)
WorkAdvances ==
    status = "goki_executing" =>
        \A us \in {requeued(unit, leases)} \cup {[unit EXCEPT ![u] = "completed"] : u \in active(unit)} :
            \/ allCompleted(us)
            \/ \E S \in SUBSET UnitsOf(plan) : selects(plan, us, 1, S) /\ canAdvance(us, S)

(***************************************************************************)
(* Units that run at the same time have compatible resource claims         *)
(* (claimsConflict), although they may be started by different calls of    *)
(* startReadyUnits: a plan, a claim or the report of a sibling.            *)
(***************************************************************************)
ActiveUnitsCompatible ==
    \A u, v \in active(unit) : u # v => ~claimsConflict(plan, u, v)

(***************************************************************************)
(* A run is verified, meditated on or completed only when every unit of    *)
(* the contract's current plan is completed: a report that races a replan, *)
(* a requeued unit or an expired lease cannot carry it past one.           *)
(***************************************************************************)
VerifiedIsWhole ==
    status \in {"enno_verifying", "oduno_meditation", "completed"} =>
        /\ UnitsOf(plan) # {}
        /\ \A u \in UnitsOf(plan) : unit[u] = "completed"

(***************************************************************************)
(* A live lease is one its holder can report under: it names the current   *)
(* revision, epoch, mutation revision and client, and a unit in progress.  *)
(* A live lease that fell behind any of them would be refused by           *)
(* assertExecutionLeaseInTransaction and would still block rerouting and   *)
(* the execution selection until it expired.                               *)
(***************************************************************************)
LiveLeaseIsCurrent ==
    \A l \in leases : l.live =>
        /\ l.revision = revision /\ l.epoch = epoch
        /\ l.mutation = mutation /\ l.owner = bound
        /\ status = "goki_executing" /\ unit[l.unit] = "in_progress"

(* Units that run together may do so, every live lease is of the present   *)
(* plan, attempt and mutation revision, and only a plan whose units are    *)
(* all completed is verified.                                              *)
LeasesFollowThePlan == ActiveUnitsCompatible /\ LiveLeaseIsCurrent /\ VerifiedIsWhole

(***************************************************************************)
(* The review accepts only a repository the final verifiers really pass    *)
(* on, whatever is edited before, while and after they run: finishEnno     *)
(* compares the version before, the version after and its own.             *)
(***************************************************************************)
AcceptedIsGood ==
    status \in {"oduno_meditation", "completed"} => accepted \in Good

(***************************************************************************)
(* A unit is completed by the holder of the latest lease issued for it: a  *)
(* worker whose lease expired and whose unit was handed to another while   *)
(* its verifiers ran does not get its report in.                           *)
(***************************************************************************)
SupersededNeverReports ==
    [][\A u \in Units : unit[u] = "in_progress" /\ unit'[u] = "completed" =>
          \E p \in Procs : /\ op[p].kind = "report" /\ op'[p] = Idle
                           /\ op[p].credential.unit = u
                           /\ op[p].credential.serial + 1 = nextSerial(u)]_vars

(***************************************************************************)
(* Execution ends: units are reported, requeued after a crash and verified *)
(* until the run goes on to verification, back to Zenki, or is cancelled.  *)
(* A receipt left behind by a dead process blocks the run only for a time. *)
(* A checkpoint that ends the ledger run underneath stops it for good.     *)
(***************************************************************************)
GokiEnds == status = "goki_executing" ~> (status # "goki_executing" \/ ~LedgerOpen)

(***************************************************************************)
(* 'The first matching host continuation atomically revokes them [the      *)
(* provisional leases], advances routeEpoch below, and receives fresh      *)
(* tokens' (adapters.ts): a unit in progress has a lease row, without      *)
(* which neither a report nor the requeueing of expired leases reaches it. *)
(***************************************************************************)
ActiveUnitsAreLeased ==
    \A u \in active(unit) : \E l \in leases : l.revision = revision /\ l.unit = u

=============================================================================
