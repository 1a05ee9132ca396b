---------------------------- MODULE ContextBroker ----------------------------
(***************************************************************************)
(* The generic context broker of a run (ContextBroker), with the feedback  *)
(* on what it delivered.                                                   *)
(*                                                                         *)
(* A query is ranked against the deliveries the run already had: what was  *)
(* delivered before and not found helpful ranks lower.  The id of a new    *)
(* delivery therefore attests the history it was ranked against.  Ranking  *)
(* happens outside of a transaction; the transaction that stores the       *)
(* delivery and a third one before the answer check that nothing the       *)
(* ranking read has changed.  Calls of one broker with the same query      *)
(* share one execution; here every call is a broker of its own.            *)
(*                                                                         *)
(* Deliveries are named by their place in context_deliveries.  Hashes are  *)
(* the values they are computed from.                                      *)
(***************************************************************************)
EXTENDS Naturals, Sequences

CONSTANTS
    Entries, Queries, Calls, Keys,   \* Keys: idempotency keys of feedback
    Best,            \* Best[q][pool]: what of a pool of entries a query is given
    None,
    MaxChanges, MaxRows              \* bounds

VARIABLES
    changes,    \* how often entries and events have changed
    revision,   \* revision[e]: the current revision of an entry
    seq,        \* last_sequence of the run
    rows,       \* context_deliveries of the run: id, query, items
    feedback,   \* feedback[key]: the stored record, or None
    pending     \* pending[c]: what call c has ranked and not yet answered

brokerVars == <<changes, revision, seq, rows, feedback, pending>>

Init ==
    /\ changes = 0 /\ seq = 0 /\ rows = <<>>
    /\ revision = [e \in Entries |-> 1]
    /\ feedback = [key \in Keys |-> None]
    /\ pending = [c \in Calls |-> None]

worldChanges == changes < MaxChanges /\ changes' = changes + 1

editEntry(e) ==
    /\ worldChanges
    /\ revision' = [revision EXCEPT ![e] = @ + 1]
    /\ UNCHANGED <<seq, rows, feedback, pending>>

appendEvent ==
    /\ worldChanges
    /\ seq' = seq + 1
    /\ UNCHANGED <<revision, rows, feedback, pending>>

------------------------------------------------------------------------------
(* Feedback: one record per key, about an entry of a stored delivery.      *)

assertContextTarget(d, e) == d \in DOMAIN rows /\ e \in DOMAIN rows[d].items

\* A repeated key returns the stored record when the body is the same and is
\* a conflict otherwise; only a new key writes.
recordContextFeedback(key, d, e, verdict) ==
    /\ assertContextTarget(d, e)
    /\ feedback[key] = None
    /\ feedback' = [feedback EXCEPT ![key] = [delivery |-> d, entry |-> e, verdict |-> verdict]]
    /\ UNCHANGED <<changes, revision, seq, rows, pending>>

\* contextFeedbackSignals: verdicts of an entry, each counted once per run.
contextFeedbackSignals(e) ==
    {feedback[key].verdict : key \in {k \in Keys : feedback[k] # None /\ feedback[k].entry = e}}

------------------------------------------------------------------------------
(* Preparing.                                                              *)

\* contextRetrievalStateHash: entries and the feedback on them.
retrievalState == [e \in Entries |-> <<revision[e], contextFeedbackSignals(e)>>]

\* The query hash covers all that ranking reads except earlier deliveries.
preparedQuery(q) == [input |-> q, seq |-> seq, retrieval |-> retrievalState]

currentItem(items) == \A e \in DOMAIN items : revision[e] = items[e]

\* priorData: earlier deliveries but for excludeId; the entries of those of
\* other queries count as delivered unless they were helpful.
itemsOf(row) == {<<e, row.items[e]>> : e \in DOMAIN row.items}
priorOf(stored, excludeId, excludeQuery) ==
    LET R == DOMAIN stored \ {excludeId}
        others == {d \in R : stored[d].query # excludeQuery}
    IN [rows |-> R, exclude |-> excludeQuery,
        delivered |-> {i \in UNION {itemsOf(stored[d]) : d \in others} : "helpful" \notin contextFeedbackSignals(i[1])},
        stale |-> {i \in UNION {itemsOf(stored[d]) : d \in R} : revision[i[1]] > i[2]}]
priorData(excludeId, excludeQuery) == priorOf(rows, excludeId, excludeQuery)

historyAttestedDeliveryId(query, history) == [query |-> query, history |-> history]

sameQuery(query) == {d \in DOMAIN rows : rows[d].query = query}

\* Slip: an earlier delivery of the same query is not left out on replay.
noExclusionForReplay(query, d) == None

\* deliveryHistoryExclusionForReplay: another delivery of the same query.
deliveryHistoryExclusionForReplay(query, d) == IF sameQuery(query) \ {d} = {} THEN None ELSE query

\* The id of d is the one its query has now, had d not been stored.
deliveryHistoryIsAttested(query, d) ==
    rows[d].id = historyAttestedDeliveryId(query, priorData(d, deliveryHistoryExclusionForReplay(query, d)))

\* Those that may be given again: the code takes the first by its id, a hash.
replayableDelivery(query) ==
    {d \in sameQuery(query) : currentItem(rows[d].items) /\ deliveryHistoryIsAttested(query, d)}

\* rank: entries not delivered before come first.
fresh(history) == {e \in Entries : <<e, revision[e]>> \notin history.delivered}
rank(q, history) == [e \in Best[q][IF fresh(history) = {} THEN Entries ELSE fresh(history)] |-> revision[e]]

\* prepareResult: a stored delivery that still holds, or a new ranking.  If
\* only outdated deliveries of the query exist, they do not count against
\* their own entries.
prepareResult(c, q) ==
    /\ pending[c] = None
    /\ LET query == preparedQuery(q)
           replay == replayableDelivery(query)
           exclude == IF replay = {} /\ sameQuery(query) # {} THEN query ELSE None
           history == priorData(0, exclude)
           answers == IF replay = {} THEN {[replay |-> 0, items |-> rank(q, history)]}
                      ELSE {[replay |-> d, items |-> rows[d].items] : d \in replay}
       IN \E answer \in answers :
            pending' = [pending EXCEPT ![c] =
                [query |-> query, history |-> history, phase |-> "ranked", committed |-> None, after |-> None,
                 replay |-> answer.replay, items |-> answer.items]]
    /\ UNCHANGED <<changes, revision, seq, rows, feedback>>

------------------------------------------------------------------------------
(* Persisting and answering.                                               *)

\* Slip: the history of deliveries is not looked at again.
assertRunAndEntriesOnly(p, history) ==
    /\ preparedQuery(p.query.input) = p.query
    /\ currentItem(p.items)

\* assertPreparedBrokerState: run, entries, catalog and history are those of
\* the ranking.
assertPreparedBrokerState(p, history) ==
    /\ preparedQuery(p.query.input) = p.query
    /\ currentItem(p.items)
    /\ priorData(0, p.history.exclude) = history

\* The transaction of a replay.
answerReplay(c) ==
    /\ pending[c] # None /\ pending[c].replay # 0
    /\ assertPreparedBrokerState(pending[c], pending[c].history)
    /\ pending' = [pending EXCEPT ![c] = None]
    /\ UNCHANGED <<changes, revision, seq, rows, feedback>>

\* The transaction that stores a new delivery, inside the caller's queue.
persistPrepared(c) ==
    /\ pending[c] # None /\ pending[c].replay = 0 /\ pending[c].phase = "ranked"
    /\ Len(rows) < MaxRows
    /\ assertPreparedBrokerState(pending[c], pending[c].history)
    /\ rows' = Append(rows, [id |-> historyAttestedDeliveryId(pending[c].query, pending[c].history),
                             query |-> pending[c].query, items |-> pending[c].items])
    /\ pending' = [pending EXCEPT ![c].phase = "stored", ![c].committed = Len(rows) + 1,
                                        ![c].after = priorOf(rows', 0, pending[c].history.exclude)]
    /\ UNCHANGED <<changes, revision, seq, feedback>>

\* The third transaction: the answer is given only if all still holds.
answerStored(c) ==
    /\ pending[c] # None /\ pending[c].phase = "stored"
    /\ deliveryHistoryIsAttested(pending[c].query, pending[c].committed)
    /\ assertPreparedBrokerState(pending[c], pending[c].after)
    /\ pending' = [pending EXCEPT ![c] = None]
    /\ UNCHANGED <<changes, revision, seq, rows, feedback>>

\* A call that meets a conflict, or dies, keeps what it stored.
failCall(c) ==
    /\ pending[c] # None
    /\ pending' = [pending EXCEPT ![c] = None]
    /\ UNCHANGED <<changes, revision, seq, rows, feedback>>

Next ==
    \/ appendEvent
    \/ \E e \in Entries : editEntry(e)
    \/ \E key \in Keys, d \in DOMAIN rows, e \in Entries, verdict \in {"helpful", "irrelevant"} :
          recordContextFeedback(key, d, e, verdict)
    \/ \E c \in Calls :
        \/ answerReplay(c) \/ persistPrepared(c) \/ answerStored(c) \/ failCall(c)
        \/ \E q \in Queries : prepareResult(c, q)

Spec == Init /\ [][Next]_brokerVars

------------------------------------------------------------------------------
(* A query that is repeated while nothing has changed is given the newest  *)
(* delivery again, also when the call that stored it never answered: the   *)
(* id that attests the history when it is written is the id computed on    *)
(* replay, where the delivery itself is part of the history.  Otherwise    *)
(* every retry would store one more delivery.                              *)
NewestReplays ==
    rows # <<>> =>
        LET d == Len(rows) IN
        rows[d].query = preparedQuery(rows[d].query.input) => replayableDelivery(rows[d].query) = {d}

(* A new delivery was ranked against all deliveries stored before it: two  *)
(* calls that overlap never store two deliveries ranked against the same   *)
(* history.                                                                *)
RankedAgainstAllBefore ==
    \A d \in DOMAIN rows : rows[d].id.history.rows = 1..(d - 1)
==============================================================================
