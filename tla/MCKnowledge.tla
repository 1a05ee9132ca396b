---------------------------- MODULE MCKnowledge -----------------------------
(***************************************************************************)
(* What a run is given from memory and leaves in it, for TLC: the context  *)
(* of a task run, the generic context broker, the advice derived from the  *)
(* ledger, the review of a finished task, the memory entries and their     *)
(* archives.  They share no state here, so each behaviour is one of them.  *)
(***************************************************************************)
EXTENDS TaskContext, TLC

CONSTANTS Queries, Best, Keys, MaxRows, Checkpoints, MaxPerRun, MinDistance, MaxLog,
    Processes, Texts, MaxProposals, MaxRevision, MaxRestarts, Ids, Clients, Purged,
    ArchiveIds, ArchiveClients, MaxExports

VARIABLES scenario, brokerChanges, revision, seq, rows, feedback, pending, log, nudges,
    proposals, restarts, review, approved, finished, pressed, memories, receipts, content, entryOf, retired,
    entries, referenced, read, links, purges, archive, exports, importer, whole

Broker == INSTANCE ContextBroker WITH changes <- brokerChanges
Advice == INSTANCE RunAdvice
Review == INSTANCE ReplayReview
Memory == INSTANCE MemoryEntries WITH Contents <- Texts
Archive == INSTANCE WorkspaceArchive WITH Contents <- Texts, Ids <- ArchiveIds, Clients <- ArchiveClients

\* For TLC: a query is given as many entries as it may have.
AsMany ==
  LET most(pool) == IF Cardinality(pool) < Limit THEN Cardinality(pool) ELSE Limit
  IN [q \in Queries |-> [pool \in SUBSET Entries |-> CHOOSE T \in SUBSET pool : Cardinality(T) = most(pool)]]

Content(I) == Texts \cup (I \X Nat \X I)
EntryRow(I) == [workspace : {"project", "other", "global"}, status : {"candidate", "verified", "superseded"},
                history : Seq(Content(I)), supersededBy : I \cup {None}, source : (I \X Nat) \cup {None},
                promotedAs : Content(I) \cup {None}]

Proposal == [id : Nat, revision : Nat, text : Texts]

\* What is absent or purged is no entry, nothing absent is one that was purged,
\* a command that was told nothing was not told of its success, and what is
\* absent is neither a proposal nor a number.  A query is given entries of the
\* pool that it ranks.
ASSUME KnowledgeAssumption ==
  /\ None \notin {Purged, "imported"} \cup Ids \cup ArchiveIds
  /\ {None, Purged} \cap EntryRow(Ids) = {} /\ {None, Purged} \cap EntryRow(ArchiveIds) = {}
  /\ \A q \in Queries : \A pool \in SUBSET Entries : Best[q][pool] \subseteq pool
  /\ None \notin Proposal \cup Nat /\ MaxPerRun \in Nat /\ MinDistance \in Nat /\ MaxLog \in Nat

brokerVars == <<brokerChanges, revision, seq, rows, feedback, pending>>
adviceVars == <<log, nudges>>
reviewVars == <<proposals, restarts, review, approved, finished, pressed, memories, receipts, content, entryOf, retired>>
entryVars == <<entries, referenced, read>>
archiveVars == <<links, purges, archive, exports, importer, whole>>
all == <<scenario, vars, brokerVars, adviceVars, reviewVars, entryVars, archiveVars>>

NoBroker ==
  /\ brokerChanges = None /\ revision = None /\ seq = None
  /\ rows = None /\ feedback = None /\ pending = None

NoAdvice == log = None /\ nudges = None

NoReview ==
  /\ proposals = None /\ restarts = None /\ review = None /\ approved = None
  /\ finished = None /\ pressed = None /\ memories = None /\ receipts = None
  /\ content = None /\ entryOf = None /\ retired = None

NoEntries == entries = None /\ referenced = None /\ read = None

NoArchive ==
  /\ links = None /\ purges = None /\ archive = None
  /\ exports = None /\ importer = None /\ whole = None

\* What does not run has no state, except for the context of the task.
AllInit ==
  /\ Init
  /\ \/ scenario = "task" /\ NoBroker /\ NoAdvice /\ NoReview /\ NoEntries /\ NoArchive
     \/ scenario = "broker" /\ Broker!Init /\ NoAdvice /\ NoReview /\ NoEntries /\ NoArchive
     \/ scenario = "advice" /\ Advice!Init /\ NoBroker /\ NoReview /\ NoEntries /\ NoArchive
     \/ scenario = "review" /\ Review!Init /\ NoBroker /\ NoAdvice /\ NoEntries /\ NoArchive
     \/ scenario = "entries" /\ Memory!Init /\ NoBroker /\ NoAdvice /\ NoReview /\ NoArchive
     \/ scenario = "archive" /\ Archive!ArchiveInit /\ NoBroker /\ NoAdvice /\ NoReview

InTask == scenario = "task"
InBroker == scenario = "broker"
InAdvice == scenario = "advice"
InReview == scenario = "review"
InEntries == scenario = "entries"
InArchive == scenario = "archive"

OnlyTask == UNCHANGED <<scenario, brokerVars, adviceVars, reviewVars, entryVars, archiveVars>>
OnlyBroker == UNCHANGED <<scenario, vars, adviceVars, reviewVars, entryVars, archiveVars>>
OnlyAdvice == UNCHANGED <<scenario, vars, brokerVars, reviewVars, entryVars, archiveVars>>
OnlyReview == UNCHANGED <<scenario, vars, brokerVars, adviceVars, entryVars, archiveVars>>
OnlyEntries == UNCHANGED <<scenario, vars, brokerVars, adviceVars, reviewVars, archiveVars>>
OnlyArchive == UNCHANGED <<scenario, vars, brokerVars, adviceVars, reviewVars>>

Verdicts == {"passed", "failed"}

AllNext ==
  \/ \E e \in Entries : InTask /\ updateCandidateEntry(e) /\ OnlyTask
  \/ \E e \in Entries : InTask /\ changeStatus(e) /\ OnlyTask
  \/ InTask /\ appendEvent /\ OnlyTask
  \/ InTask /\ editRepository /\ OnlyTask
  \/ InTask /\ checkpointScopedMemory /\ OnlyTask
  \/ \E k \in Calls : InTask /\ selectFinalTaskContext(k) /\ OnlyTask
  \/ \E k \in Calls : InTask /\ withPreparedEnno(k) /\ OnlyTask
  \/ \E k \in Calls, q \in Requests : InTask /\ refreshTaskContext(k, q) /\ OnlyTask
  \/ \E k \in Calls : InTask /\ queryScopedContextTransaction(k) /\ OnlyTask
  \/ \E k \in Calls : InTask /\ abandonCall(k) /\ OnlyTask
  \/ \E k \in Calls, q \in Requests : InTask /\ reserveVerification(k, q) /\ OnlyTask
  \/ \E k \in Calls, result \in Verdicts : InTask /\ runVerifiers(k, result) /\ OnlyTask
  \/ \E k \in Calls : InTask /\ finishVerification(k) /\ OnlyTask
  \/ \E q \in Requests, outcome \in Verdicts : InTask /\ recordMemoryEvidence(q, outcome) /\ OnlyTask
  \/ \E q \in Requests, e \in Entries, adopt \in BOOLEAN, E \in SUBSET Requests :
        InTask /\ reviewTaskMemory(q, e, adopt, E) /\ OnlyTask
  \/ InBroker /\ Broker!appendEvent /\ OnlyBroker
  \/ \E e \in Entries : InBroker /\ Broker!editEntry(e) /\ OnlyBroker
  \/ InBroker /\ OnlyBroker /\ \E key \in Keys, d \in DOMAIN rows, e \in Entries, verdict \in {"helpful", "irrelevant"} :
        Broker!recordContextFeedback(key, d, e, verdict)
  \/ \E c \in Calls, q \in Queries : InBroker /\ Broker!prepareResult(c, q) /\ OnlyBroker
  \/ \E c \in Calls : InBroker /\ Broker!answerReplay(c) /\ OnlyBroker
  \/ \E c \in Calls : InBroker /\ Broker!persistPrepared(c) /\ OnlyBroker
  \/ \E c \in Calls : InBroker /\ Broker!answerStored(c) /\ OnlyBroker
  \/ \E c \in Calls : InBroker /\ Broker!failCall(c) /\ OnlyBroker
  \/ \E kind \in Advice!Kinds, resolves \in {{}} \cup {{n} : n \in 1..MaxLog} :
        InAdvice /\ Advice!appendEvent(kind, resolves) /\ OnlyAdvice
  \/ \E c \in Checkpoints : InAdvice /\ Advice!recordNudgeDelivery(c) /\ OnlyAdvice
  \/ \E p \in Processes : InReview /\ Review!begin(p) /\ OnlyReview
  \/ \E p \in Processes, text \in Texts : InReview /\ Review!organize(p, text) /\ OnlyReview
  \/ \E p \in Processes : InReview /\ Review!extractionFails(p) /\ OnlyReview
  \/ \E p \in Processes, text \in Texts : InReview /\ Review!revise(p, text) /\ OnlyReview
  \/ \E p \in Processes, n \in 1..MaxRevision : InReview /\ Review!approve(p, n) /\ OnlyReview
  \/ \E p \in Processes : InReview /\ Review!decline(p) /\ OnlyReview
  \/ \E p \in Processes : InReview /\ Review!save(p) /\ OnlyReview
  \/ \E p \in Processes : InReview /\ Review!saveFails(p) /\ OnlyReview
  \/ \E p \in Processes : InReview /\ Review!commitUncertain(p) /\ OnlyReview
  \/ \E p \in Processes : InReview /\ Review!reconcile(p) /\ OnlyReview
  \/ \E p \in Processes : InReview /\ Review!restart(p) /\ OnlyReview
  \/ InReview /\ OnlyReview /\ \E key \in memories : Review!entryChanges(key)
  \/ InReview /\ OnlyReview /\ \E key \in memories : Review!purge(key)
  \/ \E e \in Ids, text \in Texts : InEntries /\ Memory!recordEntry(e, text) /\ OnlyEntries
  \/ \E c \in Clients, e \in Ids : InEntries /\ Memory!readEntry(c, e) /\ OnlyEntries
  \/ \E c \in Clients, text \in Texts : InEntries /\ Memory!updateCandidateEntry(c, text) /\ OnlyEntries
  \/ \E c \in Clients : InEntries /\ Memory!promoteEntry(c) /\ OnlyEntries
  \/ \E c \in Clients, e \in Ids : InEntries /\ Memory!supersedeEntry(c, e) /\ OnlyEntries
  \/ \E e \in Ids : InEntries /\ Memory!reference(e) /\ OnlyEntries
  \/ \E e \in Ids : InEntries /\ Memory!purgeEntry(e) /\ OnlyEntries
  \/ \E c \in Clients, e \in Ids : InEntries /\ Memory!globalizeCuratorCandidate(c, e) /\ OnlyEntries
  \/ \E e \in ArchiveIds, text \in Texts : InArchive /\ Archive!record(e, text) /\ OnlyArchive
  \/ \E c \in ArchiveClients, e \in ArchiveIds : InArchive /\ Archive!look(c, e) /\ OnlyArchive
  \/ \E c \in ArchiveClients, text \in Texts : InArchive /\ Archive!edit(c, text) /\ OnlyArchive
  \/ \E c \in ArchiveClients : InArchive /\ Archive!promote(c) /\ OnlyArchive
  \/ \E c \in ArchiveClients, e \in ArchiveIds : InArchive /\ Archive!supersede(c, e) /\ OnlyArchive
  \/ \E from, to \in ArchiveIds : InArchive /\ Archive!linkEntries(from, to) /\ OnlyArchive
  \/ \E e \in ArchiveIds : InArchive /\ Archive!purge(e) /\ OnlyArchive
  \/ \E ws \in Archive!Workspaces : InArchive /\ Archive!writeExport(ws) /\ OnlyArchive
  \/ \E ws \in Archive!Workspaces : InArchive /\ Archive!importWorkspace(ws) /\ OnlyArchive
  \/ \E ws \in Archive!Workspaces : InArchive /\ Archive!dryRun(ws) /\ OnlyArchive
  \/ InArchive /\ Archive!changeArchive /\ OnlyArchive
  \/ InArchive /\ Archive!readBoundedArchive /\ OnlyArchive
  \/ InArchive /\ Archive!parseImport /\ OnlyArchive

KnowledgeSpec == AllInit /\ [][AllNext]_all

Symmetry == Permutations(Requests) \cup Permutations(Calls)

-----------------------------------------------------------------------------
(* A repeated query is given the newest delivery while nothing changed,    *)
(* and every delivery was ranked against all that were stored before it.   *)
BrokerKnowsItsHistory == InBroker => Broker!NewestReplays /\ Broker!RankedAgainstAllBefore

(* The one-pass projection of the ledger agrees with what it stands for,   *)
(* and the nudges it led to are a history that its reader accepts.         *)
AdviceFollowsLedger == InAdvice => Advice!ProjectionMeansIt /\ Advice!NudgeHistoryReadable

(* A stored memory is a revision that a person was shown and approved, a   *)
(* review that answered "saved" told the truth, receipts lead to stored    *)
(* memories, and a purge leaves none behind.                               *)
ReviewKeepsItsWord == InReview => Review!SavedIsStored /\ Review!StoredWasApproved /\ Review!ReceiptsReachMemory

(* Superseded advice has a current replacement, a verified entry says what *)
(* its reviewer had read, and a revision has one current global copy.  The *)
(* same holds around exports and imports, which leave the archive whole in *)
(* the workspace and every content with one owner.                         *)
EntriesCanBeTrusted ==
  /\ InEntries => Memory!ChainsEndLive /\ Memory!VerifiedAsRead /\ Memory!GlobalizedOnce
  /\ InArchive => Archive!ImportKeepsOrder
=============================================================================
