----------------------------- MODULE TaskContext -----------------------------
(***************************************************************************)
(* The context of one task run: what task_prepare and context_refresh      *)
(* deliver from memory, the reviews and verifications of what was          *)
(* delivered, and what the final checkpoint reports about them.            *)
(*                                                                         *)
(* task_prepare selects and stores a delivery in one transaction           *)
(* (queryScopedContextGated with atomic = true) and records the context    *)
(* revision in a second one.  context_refresh ranks first and persists     *)
(* later, so its transaction checks again everything the ranking read.     *)
(* A verification reserves its evidence, runs the verifier outside every   *)
(* transaction and stores the outcome in a second transaction.             *)
(*                                                                         *)
(* A search is a deterministic function of what the query hash covers.     *)
(* The task is a code change, so an adopted memory needs evidence.  An     *)
(* edit of the repository never restores content it had before.            *)
(***************************************************************************)
EXTENDS Naturals, Sequences, FiniteSets

CONSTANTS
    Entries,      \* memory entries of the project
    Requests,     \* request identities of memory operations
    Calls,        \* calls of task_prepare and context_refresh under way
    Limit,        \* the most items one delivery holds
    None,
    MaxChanges,   \* bound on changes of entries, events and files
    MaxContexts   \* bound on deliveries and context revisions

\* Rows of task_memory_operations and of task_memory_evidence.
Operation == [kind : {"evidence", "verify", "review"}]
             \cup [kind : {"refresh"}, expected : Nat, revision : Nat]
Evidence == [delivery : Nat, host : BOOLEAN, content : Nat, state : {"running", "finished"},
             outcome : {"unknown", "passed", "failed"}]

ASSUME TaskContextAssumption ==
    /\ None \notin Requests \cup Operation \cup Evidence
    /\ IsFiniteSet(Entries) /\ Limit \in Nat /\ MaxContexts \in Nat

VARIABLES
    changes,      \* how often entries, events and files have changed so far
    entry,        \* entry[e]: its current revision and status
    run,          \* ledger row of the run: status and last_sequence
    repo,         \* the repository: its content and its manifest
    deliveries,   \* context_deliveries in the order of rowid
    revisions,    \* task_context_revisions, by context_revision
    call,         \* call[k]: what call k has prepared and not yet persisted
    operations,   \* task_memory_operations: the receipt of a request
    evidence,     \* task_memory_evidence, by the request that made it
    ran,          \* ran[q]: contents on which the verifier of q was run
    reviews,      \* task_memory_reviews, by delivery and entry
    report        \* what the checkpoint that ended the run reported

vars == <<changes, entry, run, repo, deliveries, revisions, call, operations, evidence, ran, reviews, report>>
world == <<changes, entry, repo>>
memory == <<operations, evidence, ran, reviews, report>>

Init ==
    /\ changes = 0
    /\ entry = [e \in Entries |-> [rev |-> 1, status |-> "candidate"]]
    /\ run = [status |-> "active", seq |-> 0]
    /\ repo = [content |-> 0, manifest |-> 0]
    /\ deliveries = <<>> /\ revisions = <<>>
    /\ call = [k \in Calls |-> None]
    /\ operations = [q \in Requests |-> None]
    /\ evidence = [q \in Requests |-> None]
    /\ ran = [q \in Requests |-> <<>>]
    /\ reviews = [x \in (1..MaxContexts) \X Entries |-> None]
    /\ report = None

------------------------------------------------------------------------------
(* The world around the run.                                               *)

worldChanges == changes < MaxChanges /\ changes' = changes + 1

\* A candidate entry is edited: its revision grows.
updateCandidateEntry(e) ==
    /\ entry[e].status = "candidate" /\ worldChanges
    /\ entry' = [entry EXCEPT ![e].rev = @ + 1]
    /\ UNCHANGED <<run, repo, deliveries, revisions, call, memory>>

\* An entry is promoted or superseded: its revision stays.
changeStatus(e) ==
    /\ worldChanges
    /\ \/ entry[e].status = "candidate" /\ entry' = [entry EXCEPT ![e].status = "verified"]
       \/ entry[e].status # "superseded" /\ entry' = [entry EXCEPT ![e].status = "superseded"]
    /\ UNCHANGED <<run, repo, deliveries, revisions, call, memory>>

appendEvent ==
    /\ run.status = "active" /\ worldChanges
    /\ run' = [run EXCEPT !.seq = @ + 1]
    /\ UNCHANGED <<entry, repo, deliveries, revisions, call, memory>>

\* Somebody edits the repository, its manifest or only other files.
editRepository ==
    /\ worldChanges
    /\ repo' \in {[content |-> repo.content + 1, manifest |-> m] : m \in {repo.manifest, repo.manifest + 1}}
    /\ UNCHANGED <<entry, run, deliveries, revisions, call, memory>>

------------------------------------------------------------------------------
(* Selecting context.                                                      *)

\* The entries the retrieval state hash covers and may return.
retrievable(e) == entry[e].status # "superseded"

\* Slip: the hash does not cover the revisions of the entries.
queryOfStatuses(by) ==
    [by |-> by, catalog |-> [e \in Entries |-> [entry[e] EXCEPT !.rev = 0]], seq |-> run.seq, manifest |-> repo.manifest]

\* queryHash: everything the selection depends on, and the refresh request.
queryHash(by) == [by |-> by, catalog |-> entry, seq |-> run.seq, manifest |-> repo.manifest]

\* fitScopedItems: the best ranked entries, up to the limit.
fitScopedItems(S) == IF Cardinality(S) <= Limit THEN S ELSE CHOOSE T \in SUBSET S : Cardinality(T) = Limit

select ==
    LET S == fitScopedItems({e \in Entries : retrievable(e)}) IN [e \in S |-> entry[e].rev]

\* A delivered item is still current: its revision is the entry's revision
\* and the entry may still be retrieved.
currentRetrievableDeliveryEntry(e, rev) == entry[e].rev = rev /\ retrievable(e)

itemsCurrent(items) == \A e \in DOMAIN items : currentRetrievableDeliveryEntry(e, items[e])

\* Deliveries of the same query whose items are still current.
replayable(query) ==
    {d \in DOMAIN deliveries : deliveries[d].query = query /\ itemsCurrent(deliveries[d].items)}

\* prepareScopedContextSnapshot: a replay of a stored delivery, or a new one.
prepareScopedContextSnapshot(by) ==
    LET query == queryHash(by) IN
    IF replayable(query) # {}
    THEN LET d == CHOOSE d \in replayable(query) : TRUE
         IN [query |-> query, items |-> deliveries[d].items, replay |-> d]
    ELSE [query |-> query, items |-> select, replay |-> 0]

assertPreparedScopedRun(query) == run.status = "active" /\ run.seq = query.seq

\* assertPreparedScopedState: manifest, run, items and catalog are those of
\* the ranking.
assertPreparedScopedState(prepared) ==
    /\ repo.manifest = prepared.query.manifest
    /\ assertPreparedScopedRun(prepared.query)
    /\ itemsCurrent(prepared.items)
    /\ entry = prepared.query.catalog

\* scopedDeliveryId hashes the body: a stored delivery with this body.
storedAs(query, items) == {d \in DOMAIN deliveries : deliveries[d] = [query |-> query, items |-> items]}

\* writeContextDelivery: an existing identical row is returned.
writtenAt(prepared) ==
    CASE prepared.replay # 0 -> prepared.replay
      [] prepared.replay = 0 /\ storedAs(prepared.query, prepared.items) # {} ->
            CHOOSE d \in storedAs(prepared.query, prepared.items) : TRUE
      [] OTHER -> Len(deliveries) + 1

writeContextDelivery(prepared) ==
    /\ writtenAt(prepared) <= MaxContexts
    /\ deliveries' = IF writtenAt(prepared) \in DOMAIN deliveries THEN deliveries
                     ELSE Append(deliveries, [query |-> prepared.query, items |-> prepared.items])

\* recordTaskContextRevisionInTransaction: the same context keeps its number.
numbered(context) == {n \in DOMAIN revisions : revisions[n] = context}
contextRevision(context) == IF numbered(context) = {} THEN Len(revisions) + 1 ELSE CHOOSE n \in numbered(context) : TRUE
recordTaskContextRevision(context) ==
    /\ contextRevision(context) <= MaxContexts
    /\ revisions' = IF numbered(context) = {} THEN Append(revisions, context) ELSE revisions

\* task_prepare: selection and delivery in one transaction.
selectFinalTaskContext(k) ==
    /\ call[k] = None /\ run.status = "active"
    /\ LET prepared == prepareScopedContextSnapshot(None) IN
        /\ writeContextDelivery(prepared)
        /\ call' = [call EXCEPT ![k] = [kind |-> "prepared", delivery |-> writtenAt(prepared)]]
    /\ UNCHANGED <<world, run, revisions, memory>>

\* task_prepare records its context in a later transaction, which does not
\* look at the run.
withPreparedEnno(k) ==
    /\ call[k] # None /\ call[k].kind = "prepared"
    /\ recordTaskContextRevision([by |-> None, delivery |-> call[k].delivery])
    /\ call' = [call EXCEPT ![k] = None]
    /\ UNCHANGED <<world, run, deliveries, memory>>

\* context_refresh up to the end of the ranking.  A request with a receipt
\* is answered from it.
refreshTaskContext(k, q) ==
    /\ call[k] = None /\ run.status = "active" /\ operations[q] = None
    /\ revisions # <<>>
    /\ call' = [call EXCEPT ![k] = [kind |-> "refresh", request |-> q, expected |-> Len(revisions),
                                    prepared |-> prepareScopedContextSnapshot(q)]]
    /\ UNCHANGED <<world, run, deliveries, revisions, memory>>

\* Slip: the expected revision is only checked before the ranking.
assertEarlier(expected) == Len(revisions) >= expected

\* assertCurrent: the context revision the request expects is the last one.
assertCurrent(expected) == Len(revisions) = expected

\* The transaction of a refresh: delivery, revision and receipt.  A request
\* whose receipt has appeared meanwhile fails assertCurrent, and is answered
\* from the receipt.
queryScopedContextTransaction(k) ==
    /\ call[k] # None /\ call[k].kind = "refresh"
    /\ LET q == call[k].request
           context == [by |-> q, delivery |-> writtenAt(call[k].prepared)] IN
        /\ assertPreparedScopedState(call[k].prepared)
        /\ assertCurrent(call[k].expected) /\ operations[q] = None
        /\ writeContextDelivery(call[k].prepared)
        /\ recordTaskContextRevision(context)
        /\ operations' = [operations EXCEPT ![q] =
              [kind |-> "refresh", expected |-> call[k].expected, revision |-> contextRevision(context)]]
    /\ call' = [call EXCEPT ![k] = None]
    /\ UNCHANGED <<world, run, evidence, ran, reviews, report>>

\* A call that meets a conflict, or whose process dies, writes nothing more.
abandonCall(k) ==
    /\ call[k] # None
    /\ call' = [call EXCEPT ![k] = None]
    /\ UNCHANGED <<world, run, deliveries, revisions, memory>>

------------------------------------------------------------------------------
(* Reviewing and verifying what was delivered.                             *)

latestMemoryDeliveryId == Len(deliveries)

\* Slip: a verification that comes back late is stored all the same.
assertNothing(d) == d # 0

\* assertDelivery: the run is active and d is its latest delivery.
assertDelivery(d) == run.status = "active" /\ d # 0 /\ d = latestMemoryDeliveryId

\* A caller reports what it saw, about the content it saw it on.
recordMemoryEvidence(q, outcome) ==
    /\ operations[q] = None /\ assertDelivery(Len(deliveries))
    /\ evidence' = [evidence EXCEPT ![q] = [delivery |-> Len(deliveries), host |-> FALSE,
            content |-> repo.content, state |-> "finished", outcome |-> outcome]]
    /\ operations' = [operations EXCEPT ![q] = [kind |-> "evidence"]]
    /\ UNCHANGED <<world, run, deliveries, revisions, call, ran, reviews, report>>

\* verifyTaskMemory, first transaction: evidence with an unknown outcome and
\* the receipt are stored before the verifier runs.
reserveVerification(k, q) ==
    /\ call[k] = None
    /\ operations[q] = None /\ assertDelivery(Len(deliveries))
    /\ evidence' = [evidence EXCEPT ![q] = [delivery |-> Len(deliveries), host |-> TRUE,
            content |-> repo.content, state |-> "running", outcome |-> "unknown"]]
    /\ operations' = [operations EXCEPT ![q] = [kind |-> "verify"]]
    /\ call' = [call EXCEPT ![k] = [kind |-> "verify", request |-> q, result |-> "none"]]
    /\ UNCHANGED <<world, run, deliveries, revisions, ran, reviews, report>>

\* runVerifiers, outside of every transaction.
runVerifiers(k, result) ==
    /\ call[k] # None /\ call[k].kind = "verify" /\ call[k].result = "none"
    /\ ran' = [ran EXCEPT ![call[k].request] = Append(@, repo.content)]
    /\ call' = [call EXCEPT ![k].result = result]
    /\ UNCHANGED <<world, run, deliveries, revisions, operations, evidence, reviews, report>>

\* It passed only if the repository is what it was when it was reserved.
outcomeOf(result, content) ==
    CASE result = "failed" -> "failed"
      [] result = "passed" -> IF repo.content = content THEN "passed" ELSE "unknown"

\* verifyTaskMemory, second transaction.
finishVerification(k) ==
    /\ call[k] # None /\ call[k].kind = "verify" /\ call[k].result # "none"
    /\ LET q == call[k].request IN
        /\ assertDelivery(evidence[q].delivery)
        /\ evidence' = [evidence EXCEPT ![q].state = "finished",
                                        ![q].outcome = outcomeOf(call[k].result, evidence[q].content)]
    /\ call' = [call EXCEPT ![k] = None]
    /\ UNCHANGED <<world, run, deliveries, revisions, operations, ran, reviews, report>>

\* Evidence of this delivery, which a review of it may name.
evidenceOf(d) == {q \in Requests : evidence[q] # None /\ evidence[q].delivery = d}

\* reviewTaskMemory: of an entry that was delivered in its current revision.
reviewTaskMemory(q, e, adopt, E) ==
    LET d == Len(deliveries) IN
    /\ operations[q] = None /\ assertDelivery(d)
    /\ e \in DOMAIN deliveries[d].items /\ entry[e].rev = deliveries[d].items[e]
    /\ E \subseteq evidenceOf(d)
    /\ reviews' = [reviews EXCEPT ![<<d, e>>] =
            [entryRevision |-> entry[e].rev, adopt |-> adopt, evidence |-> E,
             revision |-> (IF @ = None THEN 0 ELSE @.revision) + 1]]
    /\ operations' = [operations EXCEPT ![q] = [kind |-> "review"]]
    /\ UNCHANGED <<world, run, deliveries, revisions, call, evidence, ran, report>>

\* Slip: evidence that passed counts whatever has changed since.
evidenceFailed(q) == evidence[q].outcome # "passed"

\* memoryApplicationStatus: why an item of the latest delivery is not done.
evidenceInvalid(q) == evidence[q].outcome # "passed" \/ evidence[q].content # repo.content
itemComplete(d, e) ==
    /\ reviews[<<d, e>>] # None
    /\ entry[e].rev = reviews[<<d, e>>].entryRevision
    /\ reviews[<<d, e>>].adopt =>
         /\ reviews[<<d, e>>].evidence # {}
         /\ \A q \in reviews[<<d, e>>].evidence : ~evidenceInvalid(q)
memoryApplicationStatus ==
    latestMemoryDeliveryId # 0 => \A e \in DOMAIN deliveries[latestMemoryDeliveryId].items : itemComplete(latestMemoryDeliveryId, e)

\* checkpointScopedMemory: the run ends, and an incomplete application of
\* memory is a warning, never a refusal.
checkpointScopedMemory ==
    /\ run.status = "active"
    /\ run' = [run EXCEPT !.status = "ended"]
    /\ report' = [complete |-> memoryApplicationStatus, delivery |-> Len(deliveries),
                  entry |-> entry, content |-> repo.content]
    /\ UNCHANGED <<world, deliveries, revisions, call, operations, evidence, ran, reviews>>

Next ==
    \/ \E e \in Entries : updateCandidateEntry(e) \/ changeStatus(e)
    \/ appendEvent \/ editRepository \/ checkpointScopedMemory
    \/ \E k \in Calls :
        \/ selectFinalTaskContext(k) \/ withPreparedEnno(k)
        \/ queryScopedContextTransaction(k) \/ abandonCall(k) \/ finishVerification(k)
        \/ \E q \in Requests : refreshTaskContext(k, q) \/ reserveVerification(k, q)
        \/ \E result \in {"passed", "failed"} : runVerifiers(k, result)
    \/ \E q \in Requests :
        \/ \E outcome \in {"passed", "failed"} : recordMemoryEvidence(q, outcome)
        \/ \E e \in Entries, adopt \in BOOLEAN, E \in SUBSET Requests : reviewTaskMemory(q, e, adopt, E)

Spec == Init /\ [][Next]_vars

------------------------------------------------------------------------------
(* Refreshes of one run are serial: a refresh that was answered made the   *)
(* context revision right after the one it expected, and no other request  *)
(* or task_prepare made that revision.                                     *)
RefreshesAreSerial ==
    \A q \in Requests : operations[q] # None /\ operations[q].kind = "refresh" =>
        /\ operations[q].revision = operations[q].expected + 1
        /\ revisions[operations[q].revision].by = q

(* A retry whose inputs did not change is given the delivery of the first  *)
(* attempt: no query is stored as two deliveries, whichever calls overlap. *)
OneDeliveryPerQuery ==
    \A c, d \in DOMAIN deliveries : deliveries[c].query = deliveries[d].query => c = d

(* A run that is reported with its memory applied ended on the repository  *)
(* its verifiers really ran on: every delivered item was reviewed in the   *)
(* revision it had at the end, and each host-run verification of an        *)
(* adopted one was run, once, on the content of the end.                   *)
ReportIsHonest ==
    report # None /\ report.complete /\ report.delivery # 0 =>
        \A e \in DOMAIN deliveries[report.delivery].items :
            LET review == reviews[<<report.delivery, e>>] IN
            /\ review # None /\ review.entryRevision = report.entry[e].rev
            /\ review.adopt => \A q \in review.evidence :
                 evidence[q].host => ran[q] = <<report.content>>

(* A query is stored once for a state of the run, refreshes of its context *)
(* do not cross, and a run reported with its memory applied ended on what  *)
(* was reviewed and verified.                                              *)
DeliveriesAreHonest == OneDeliveryPerQuery /\ RefreshesAreSerial /\ ReportIsHonest

(* Once the run has ended nothing of its record changes any more, although *)
(* refreshes and verifiers of it may still be under way.                   *)
EndedIsFrozen ==
    [][run.status = "ended" => UNCHANGED <<run, deliveries, operations, evidence, reviews, report>>]_vars
==============================================================================
