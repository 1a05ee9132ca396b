---------------------------- MODULE ReplayReview -----------------------------
(***************************************************************************)
(* The review of a finished task by a person, and the store of memories    *)
(* that were approved in it.                                               *)
(*                                                                         *)
(* A review asks for permission, extracts a proposal, and shows revision   *)
(* after revision of it until one is approved, declined or the call is     *)
(* cancelled.  Only the approved revision is saved, in one transaction.    *)
(* Two processes may review the same task: the MCP server and the worker   *)
(* of the terminal UI.  Each remembers in its own memory what it answered  *)
(* and what was approved but not yet known to be saved; a restart forgets  *)
(* both.                                                                   *)
(*                                                                         *)
(* A COMMIT whose acknowledgment is lost may or may not be durable.  An    *)
(* approval key is a hash of proposal id, revision and digest; here it is  *)
(* the proposal itself.                                                    *)
(***************************************************************************)
EXTENDS Naturals, FiniteSets

CONSTANTS
    Processes,      \* processes that offer reviews
    Texts,          \* what a proposal can say
    None,
    MaxProposals,   \* bound on reviews that are begun
    MaxRevision,    \* bound on the revisions of one proposal
    MaxRestarts     \* bound on restarts

VARIABLES
    proposals,      \* how many proposal ids have been drawn
    restarts,
    review,         \* review[p]: the dialog under way in p, or None
    approved,       \* approved[p]: approved, not yet known to be saved
    finished,       \* finished[p]: the final answer p remembers
    pressed,        \* proposals that a person saw and approved
    memories,       \* replay_memories: stored proposals, by approval key
    receipts,       \* replay_memory_receipts: approval key -> memory key
    content,        \* replay_memory_content: text -> memory key
    entryOf,        \* replay_memory_entries with the state of the entry
    retired         \* replay_memory_retired

reviewVars == <<proposals, restarts, review, approved, finished, pressed, memories, receipts, content, entryOf, retired>>
store == <<memories, receipts, content, entryOf, retired>>

Init ==
    /\ proposals = 0 /\ restarts = 0
    /\ review = [p \in Processes |-> None]
    /\ approved = [p \in Processes |-> None]
    /\ finished = [p \in Processes |-> None]
    /\ pressed = {} /\ memories = {} /\ retired = {}
    /\ receipts = <<>> /\ content = <<>> /\ entryOf = <<>>

------------------------------------------------------------------------------
(* The dialog.                                                             *)

\* review(): a finished task is answered from memory, an approved one is
\* reconciled, and one dialog per task is open at a time.
begin(p) ==
    /\ finished[p] = None /\ approved[p] = None /\ review[p] = None
    /\ proposals < MaxProposals
    /\ proposals' = proposals + 1
    /\ review' = [review EXCEPT ![p] = [phase |-> "organize", id |-> proposals', revision |-> 0, text |-> None]]
    /\ UNCHANGED <<restarts, approved, finished, pressed, store>>

in(p, phase) == review[p] # None /\ review[p].phase = phase

\* Answers end the dialog: declined is remembered, unavailable is not.
declined(p) == review' = [review EXCEPT ![p] = None] /\ finished' = [finished EXCEPT ![p] = [status |-> "declined"]]

\* Permission is given and the proposal extracted, or extraction fails.
organize(p, text) ==
    /\ in(p, "organize")
    /\ review' = [review EXCEPT ![p] = [phase |-> "review", id |-> @.id, revision |-> 1, text |-> text]]
    /\ UNCHANGED <<proposals, restarts, approved, finished, pressed, store>>

extractionFails(p) ==
    /\ in(p, "organize")
    /\ review' = [review EXCEPT ![p] = None]
    /\ UNCHANGED <<proposals, restarts, approved, finished, pressed, store>>

\* Slip: an answer to an earlier question counts.
answersAny(p, revision) == TRUE

\* The question that was answered must be the one on display.
answersShown(p, revision) == revision = review[p].revision

\* The person edits what is shown: a further revision of the proposal.
revise(p, text) ==
    /\ in(p, "review") /\ review[p].revision < MaxRevision
    /\ review' = [review EXCEPT ![p].revision = @ + 1, ![p].text = text]
    /\ UNCHANGED <<proposals, restarts, approved, finished, pressed, store>>

proposal(p) == [id |-> review[p].id, revision |-> review[p].revision, text |-> review[p].text]

\* An approval arrives for a revision that was shown.  It is retained before
\* the save begins; one for another question declines.
approve(p, revision) ==
    /\ in(p, "review") /\ revision \in 1..review[p].revision
    /\ IF answersShown(p, revision)
       THEN /\ review' = [review EXCEPT ![p].phase = "save"]
            /\ approved' = [approved EXCEPT ![p] = proposal(p)]
            /\ UNCHANGED finished
       ELSE declined(p) /\ UNCHANGED approved
    /\ pressed' = pressed \cup (IF revision = review[p].revision THEN {proposal(p)} ELSE {})
    /\ UNCHANGED <<proposals, restarts, store>>

\* The person declines, or the call is cancelled, before an approval.
decline(p) ==
    /\ in(p, "organize") \/ in(p, "review")
    /\ declined(p)
    /\ UNCHANGED <<proposals, restarts, approved, pressed, store>>

------------------------------------------------------------------------------
(* The store.                                                              *)

at(f, k) == IF k \in DOMAIN f THEN f[k] ELSE None
with(f, k, v) == [x \in DOMAIN f \cup {k} |-> IF x = k THEN v ELSE f[x]]
without(f, S) == [x \in DOMAIN f \ S |-> f[x]]

\* The body of the transaction: a receipt that exists is enough; the same
\* text is stored once and later approvals of it refer to it.
saveTransaction(key) ==
    /\ key \notin retired
    /\ IF key \in DOMAIN receipts THEN UNCHANGED store
       ELSE LET duplicate == at(content, key.text) IN
            /\ receipts' = with(receipts, key, IF duplicate = None THEN key ELSE duplicate)
            /\ IF duplicate # None THEN UNCHANGED <<memories, content, entryOf, retired>>
               ELSE /\ content' = with(content, key.text, key)
                    /\ memories' = memories \cup {key}
                    /\ entryOf' = with(entryOf, key, "current")
                    /\ UNCHANGED retired

\* Slip: a lost acknowledgment is taken for a success.
reconciledAnyway(key, durable) == TRUE

\* reconcile: only a receipt read through a separate connection is proof.
reconciled(key, durable) == key \in DOMAIN durable

\* The end of a save: saved, or unavailable with the approval retained.
answered(p, saved) ==
    /\ review' = [review EXCEPT ![p] = None]
    /\ IF saved
       THEN finished' = [finished EXCEPT ![p] = [status |-> "saved", key |-> approved[p]]]
            /\ approved' = [approved EXCEPT ![p] = None]
       ELSE UNCHANGED <<finished, approved>>

save(p) ==
    /\ in(p, "save")
    /\ saveTransaction(approved[p]) /\ answered(p, TRUE)
    /\ UNCHANGED <<proposals, restarts, pressed>>

\* Cancelled, the binding changed, or an error rolled the transaction back.
saveFails(p) ==
    /\ in(p, "save") /\ answered(p, FALSE)
    /\ UNCHANGED <<proposals, restarts, pressed, store>>

\* COMMIT and ROLLBACK both fail: durable or not, the writer cannot know.
commitUncertain(p) ==
    /\ in(p, "save")
    /\ saveTransaction(approved[p]) \/ UNCHANGED store
    /\ answered(p, reconciled(approved[p], receipts'))
    /\ UNCHANGED <<proposals, restarts, pressed>>

\* A later call for the task looks for the receipt and never writes.
reconcile(p) ==
    /\ approved[p] # None /\ review[p] = None
    /\ answered(p, reconciled(approved[p], receipts))
    /\ UNCHANGED <<proposals, restarts, pressed, store>>

\* The process ends; a write it had begun is committed or lost.
restart(p) ==
    /\ restarts < MaxRestarts /\ restarts' = restarts + 1
    /\ review[p] # None \/ approved[p] # None \/ finished[p] # None
    /\ (in(p, "save") /\ saveTransaction(approved[p])) \/ UNCHANGED store
    /\ review' = [review EXCEPT ![p] = None]
    /\ approved' = [approved EXCEPT ![p] = None]
    /\ finished' = [finished EXCEPT ![p] = None]
    /\ UNCHANGED <<proposals, pressed>>

\* The entry of a memory is edited or superseded: it is no longer recalled.
entryChanges(key) ==
    /\ key \in DOMAIN entryOf /\ entryOf[key] = "current"
    /\ entryOf' = [entryOf EXCEPT ![key] = "changed"]
    /\ UNCHANGED <<proposals, restarts, review, approved, finished, pressed, memories, receipts, content, retired>>

referring(f, key) == {x \in DOMAIN f : f[x] = key}

\* Slip: the text index is left behind.
contentKept(key) == content

\* The text index of a purged memory.
purgedContent(key) == without(content, referring(content, key))

\* purgeReplayMemoryForEntryInTransaction: every key that led to the memory
\* is retired, and nothing of the memory is left.
purge(key) ==
    /\ key \in DOMAIN entryOf
    /\ retired' = retired \cup referring(receipts, key)
    /\ receipts' = without(receipts, referring(receipts, key))
    /\ content' = purgedContent(key)
    /\ entryOf' = without(entryOf, {key})
    /\ memories' = memories \ {key}
    /\ UNCHANGED <<proposals, restarts, review, approved, finished, pressed>>

Next ==
    \/ \E p \in Processes :
        \/ begin(p) \/ extractionFails(p) \/ decline(p) \/ save(p) \/ saveFails(p)
        \/ commitUncertain(p) \/ reconcile(p) \/ restart(p)
        \/ \E text \in Texts : organize(p, text) \/ revise(p, text)
        \/ \E revision \in 1..MaxRevision : approve(p, revision)
    \/ \E key \in memories : entryChanges(key) \/ purge(key)

Spec == Init /\ [][Next]_reviewVars

------------------------------------------------------------------------------
(* A review that answered "saved" told the truth: its approval has a       *)
(* receipt, unless the memory was purged since.  That holds for a commit   *)
(* whose acknowledgment was lost and for a later reconciliation too.       *)
SavedIsStored ==
    \A p \in Processes : finished[p] # None /\ finished[p].status = "saved" =>
        finished[p].key \in DOMAIN receipts \cup retired

(* What is stored was approved word for word: each memory is a revision    *)
(* that a person was shown and approved, whichever edits, declines,        *)
(* cancellations and late answers surround it.                             *)
StoredWasApproved == memories \cup DOMAIN receipts \subseteq pressed

(* Every receipt leads to a stored memory, a text is stored once, and a    *)
(* purge leaves nothing that leads to what it removed: an approval of the  *)
(* same text afterwards stores it again.                                   *)
ReceiptsReachMemory ==
    /\ \A k \in DOMAIN receipts : receipts[k] \in memories /\ receipts[k].text = k.text
    /\ \A t \in DOMAIN content : content[t] \in memories
    /\ \A k, m \in memories : k.text = m.text => k = m
    /\ DOMAIN entryOf = memories /\ retired \cap DOMAIN receipts = {}
==============================================================================
