------------------------------ MODULE MCTaskRuns ------------------------------
(***************************************************************************)
(* The ledger and what is kept beside it, for TLC: task runs, the way a    *)
(* run is executed, archives of runs, promotion of what was proposed in    *)
(* them, the external skills and their discovery.  They share no state     *)
(* here, so each behaviour is one of them.                                 *)
(***************************************************************************)
EXTENDS TaskRuns, TLC

CONSTANTS Calls, Prompts, Operations, MaxRevision, Importers, MaxHistory, MaxArchives,
    Docs, MaxGeneration, MaxShared, Requests, Workers, MaxQueries, MaxSkills, Wanted, MaxAudits,
    Ids, Clients, Purged, Proposals, Deliveries, TextOf, Written, Snapshots, Phases, Found

VARIABLES scenario,
    chosen, contract, lease, choices, dispatches, flight, failures, ran, status,
    row, events, created, reading, archives, import, overlapped,
    published, clock, skill, mapping, call, withheld,
    searchCache, auditFailure, sourceFailure, attempt, work, executed, issued, taken,
    entries, referenced, read, ledger, deliveries, links, released

Execution == INSTANCE ExecutionSelection WITH run <- status, selection <- chosen, receipts <- choices
Archive == INSTANCE LedgerArchive WITH MaxEvents <- MaxHistory

\* Two snapshots of a skill, with one document in common.
TwoSnapshots == <<{"d1", "d2"}, {"d1", "d3"}>>
Store == INSTANCE SkillStore WITH Skills <- Runs, DocumentsOf <- Snapshots

\* Requests of two phases for one skill.
TwoPhases == [r \in Requests |-> IF r = "q1" THEN "intake" ELSE "zenki"]
Discovery == INSTANCE SkillDiscovery WITH Skills <- Found, PhaseOf <- Phases

\* Two proposals of one text.
OneText == [p \in Proposals |-> "t1"]
TwoTexts == {<<"t1", None>>, <<"t2", None>>}
Promotion == INSTANCE LedgerPromotion WITH Contents <- Written

Content == Written \cup {<<TextOf[p], <<p, d>>>> : p \in Proposals, d \in Deliveries \cup {None}}
Entry == [workspace : {"project"}, status : {"candidate", "verified", "superseded"},
          history : Seq(Content), supersededBy : Ids \cup {None}, source : {None},
          promotedAs : Content \cup {None}]

SkillRow == [generation : Nat, snapshot : {None} \cup DOMAIN Snapshots, disabled : BOOLEAN,
             state : {"imported", "disabled", "stale", "blocked"}]
SkillDocument == [version : DOMAIN Snapshots, active : BOOLEAN]
SkillBudget == [queries : Nat, skills : Nat]
SkillAttempt == [state : {"started", "completed", "failed"}, reserved : SkillBudget, used : SkillBudget]

\* What is absent or purged is no history, no ledger and no entry, a client's
\* content names no source, and a skill was published once.
ASSUME LedgerAssumption ==
  /\ None \notin Seq({"here", "there"}) /\ Purged \notin Seq(Proposals)
  /\ {None, Purged} \cap Entry = {}
  /\ \A content \in Written : content[2] = None
  /\ Snapshots \in Seq(SUBSET Docs) /\ Snapshots # <<>>
  /\ None \notin Nat /\ None \notin Runs \cup SkillRow \cup SkillDocument \cup SkillAttempt
  /\ None \notin Found \cup {"primary", "fallback"}
  /\ Wanted \in Nat /\ MaxQueries \in Nat /\ MaxSkills \in Nat

selectionVars == <<chosen, contract, lease, choices, dispatches, flight, failures, ran, status>>
archiveVars == <<row, events, created, reading, archives, import, overlapped>>
skillVars == <<published, clock, skill, mapping, call, withheld>>
discoveryVars == <<searchCache, auditFailure, sourceFailure, attempt, work, executed, issued, taken>>
promotionVars == <<entries, referenced, read, ledger, deliveries, links, released>>
all == <<scenario, vars, selectionVars, archiveVars, skillVars, discoveryVars, promotionVars>>

NoExecution ==
  /\ chosen = None /\ contract = None /\ lease = None /\ choices = None /\ dispatches = None
  /\ flight = None /\ failures = None /\ ran = None /\ status = None

NoArchive ==
  /\ row = None /\ events = None /\ created = None /\ reading = None
  /\ archives = None /\ import = None /\ overlapped = None

NoSkills ==
  /\ published = None /\ clock = None /\ skill = None
  /\ mapping = None /\ call = None /\ withheld = None

NoDiscovery ==
  /\ searchCache = None /\ auditFailure = None /\ sourceFailure = None /\ attempt = None
  /\ work = None /\ executed = None /\ issued = None /\ taken = None

NoPromotion ==
  /\ entries = None /\ referenced = None /\ read = None /\ ledger = None
  /\ deliveries = None /\ links = None /\ released = None

\* What does not run has no state, except for the task runs.
AllInit ==
  /\ Init
  /\ \/ scenario = "runs" /\ NoExecution /\ NoArchive /\ NoSkills /\ NoDiscovery /\ NoPromotion
     \/ scenario = "execution" /\ Execution!Init /\ NoArchive /\ NoSkills /\ NoDiscovery /\ NoPromotion
     \/ scenario = "archive" /\ Archive!Init /\ NoExecution /\ NoSkills /\ NoDiscovery /\ NoPromotion
     \/ scenario = "skills" /\ Store!Init /\ NoExecution /\ NoArchive /\ NoDiscovery /\ NoPromotion
     \/ scenario = "discovery" /\ Discovery!Init /\ NoExecution /\ NoArchive /\ NoSkills /\ NoPromotion
     \/ scenario = "promotion" /\ Promotion!PromotionInit /\ NoExecution /\ NoArchive /\ NoSkills /\ NoDiscovery

InRuns == scenario = "runs"
InExecution == scenario = "execution"
InArchive == scenario = "archive"
InSkills == scenario = "skills"
InDiscovery == scenario = "discovery"
InPromotion == scenario = "promotion"

OnlyRuns == UNCHANGED <<scenario, selectionVars, archiveVars, skillVars, discoveryVars, promotionVars>>
OnlyExecution == UNCHANGED <<scenario, vars, archiveVars, skillVars, discoveryVars, promotionVars>>
OnlyArchive == UNCHANGED <<scenario, vars, selectionVars, skillVars, discoveryVars, promotionVars>>
OnlySkills == UNCHANGED <<scenario, vars, selectionVars, archiveVars, discoveryVars, promotionVars>>
OnlyDiscovery == UNCHANGED <<scenario, vars, selectionVars, archiveVars, skillVars, promotionVars>>
OnlyPromotion == UNCHANGED <<scenario, vars, selectionVars, archiveVars, skillVars, discoveryVars>>

\* The generations beyond MaxShared are for stores of one skill, and for
\* commands that are alone.
Bounded ==
  \/ clock' <= MaxShared
  \/ Cardinality({s \in Runs : skill'[s] # None}) <= 1
  \/ \A k, c \in Calls : k # c => call[k] = None \/ call'[c] = None

AllNext ==
  \/ \E p \in Procs, k \in Keys, h \in Hints, r \in Runs, q \in Runs \cup {None} : InRuns /\ createRun(p, k, h, r, q) /\ OnlyRuns
  \/ \E p \in Procs, k \in Keys, h \in Hints : InRuns /\ replayCreate(p, k, h) /\ OnlyRuns
  \/ \E p \in Procs, r \in Runs, f \in Field, v \in Values : InRuns /\ answerIntake(p, r, f, v) /\ OnlyRuns
  \/ \E p \in Procs, r \in Runs, f \in Field, v \in Values : InRuns /\ replayAnswer(p, r, f, v) /\ OnlyRuns
  \/ \E p \in Procs : InRuns /\ finishes(p) /\ OnlyRuns
  \/ \E p \in Procs : InRuns /\ failOpenCodeTaskRunAfterAbort(p) /\ OnlyRuns
  \/ \E r \in Runs, b \in Batches : InRuns /\ appendBatch(r, b) /\ OnlyRuns
  \/ \E r \in Runs, s \in Outcomes : InRuns /\ updateRunStatus(r, s) /\ OnlyRuns
  \/ \E r \in Runs : InRuns /\ purgeLedgerTarget(r) /\ OnlyRuns
  \/ InRuns /\ planUnfinishedLedgerRunCleanup /\ OnlyRuns
  \/ InRuns /\ declineCleanup /\ OnlyRuns
  \/ InRuns /\ purgeUnfinishedLedgerRuns /\ OnlyRuns
  \/ InExecution /\ Execution!contractStep /\ OnlyExecution
  \/ InExecution /\ Execution!leaseChanges /\ OnlyExecution
  \/ InExecution /\ Execution!checkpoint /\ OnlyExecution
  \/ InExecution /\ Execution!restartPlugin /\ OnlyExecution
  \/ \E op \in Operations, choice \in {"ordinary", "enno", "cancelled"} : InExecution /\ Execution!selectExecution(op, choice) /\ OnlyExecution
  \/ \E c \in Calls : InExecution /\ Execution!runModel(c) /\ OnlyExecution
  \/ \E c \in Calls, prompt \in Prompts, answered \in BOOLEAN : InExecution /\ Execution!beginDispatch(c, prompt, answered) /\ OnlyExecution
  \/ \E c \in Calls, end \in {"completed", "failed"}, reached \in BOOLEAN : InExecution /\ Execution!reportEnd(c, end, reached) /\ OnlyExecution
  \/ InArchive /\ Archive!readRuns /\ OnlyArchive
  \/ InArchive /\ Archive!exportLedgerArchive /\ OnlyArchive
  \/ \E r \in Runs : InArchive /\ Archive!createRun(r) /\ OnlyArchive
  \/ \E r \in Runs : InArchive /\ Archive!appendEvent(r) /\ OnlyArchive
  \/ \E r \in Runs : InArchive /\ Archive!purgeRun(r) /\ OnlyArchive
  \/ InArchive /\ OnlyArchive /\ \E r \in Runs, archive \in archives : Archive!continuedElsewhere(archive, r)
  \/ InArchive /\ OnlyArchive /\ \E i \in Importers, archive \in archives : Archive!compareExisting(i, archive)
  \/ \E i \in Importers : InArchive /\ Archive!insertRecords(i) /\ OnlyArchive
  \/ InSkills /\ Store!publish /\ OnlySkills
  \/ \E k \in Calls, s \in Runs : InSkills /\ Store!importSkill(k, s) /\ Bounded /\ OnlySkills
  \/ \E k \in Calls, s \in Runs : InSkills /\ Store!refreshSkill(k, s) /\ Bounded /\ OnlySkills
  \/ \E k \in Calls, s \in Runs : InSkills /\ Store!discover(k, s) /\ Bounded /\ OnlySkills
  \/ \E k \in Calls, s \in Runs : InSkills /\ Store!fetchSnapshot(k, s) /\ OnlySkills
  \/ \E k \in Calls : InSkills /\ Store!failCall(k) /\ OnlySkills
  \/ \E k \in Calls : InSkills /\ Store!persistNew(k) /\ Bounded /\ OnlySkills
  \/ \E k \in Calls : InSkills /\ Store!reuseImported(k) /\ OnlySkills
  \/ \E k \in Calls : InSkills /\ Store!refreshExternalSkillSnapshot(k) /\ Bounded /\ OnlySkills
  \/ \E k \in Calls : InSkills /\ Store!persistExisting(k) /\ Bounded /\ OnlySkills
  \/ \E k \in Calls, state \in {"stale", "blocked"} : InSkills /\ Store!markRefreshFailure(k, state) /\ Bounded /\ OnlySkills
  \/ \E k \in Calls : InSkills /\ Store!recordStale(k) /\ Bounded /\ OnlySkills
  \/ \E s \in Runs : InSkills /\ Store!disable(s) /\ Bounded /\ OnlySkills
  \/ \E s \in Runs : InSkills /\ Store!enable(s) /\ Bounded /\ OnlySkills
  \/ \E w \in Workers, r \in Requests : InDiscovery /\ Discovery!claimTaskSkillDiscoveryAttempt(w, r) /\ OnlyDiscovery
  \/ \E w \in Workers : InDiscovery /\ Discovery!completeTaskSkillDiscoveryAttempt(w) /\ OnlyDiscovery
  \/ \E w \in Workers : InDiscovery /\ Discovery!failTaskSkillDiscoveryAttempt(w) /\ OnlyDiscovery
  \/ \E w \in Workers : InDiscovery /\ Discovery!crash(w) /\ OnlyDiscovery
  \/ \E w \in Workers : InDiscovery /\ Discovery!searchWithCache(w) /\ OnlyDiscovery
  \/ \E w \in Workers : InDiscovery /\ Discovery!searchCurated(w) /\ OnlyDiscovery
  \/ \E w \in Workers : InDiscovery /\ Discovery!beginCandidates(w) /\ OnlyDiscovery
  \/ \E w \in Workers : InDiscovery /\ Discovery!endCandidates(w) /\ OnlyDiscovery
  \/ \E w \in Workers, outcome \in Discovery!Searches, S \in SUBSET Found :
        InDiscovery /\ Discovery!searchAnswered(w, outcome, S) /\ OnlyDiscovery
  \/ \E w \in Workers, s \in Found : InDiscovery /\ Discovery!audit(w, s) /\ OnlyDiscovery
  \/ \E w \in Workers, outcome \in Discovery!Audits : InDiscovery /\ Discovery!auditAnswered(w, outcome) /\ OnlyDiscovery
  \/ \E w \in Workers, s \in Found : InDiscovery /\ Discovery!fetch(w, s) /\ OnlyDiscovery
  \/ \E w \in Workers, outcome \in Discovery!Fetches : InDiscovery /\ Discovery!fetchAnswered(w, outcome) /\ OnlyDiscovery
  \/ InDiscovery /\ Discovery!recordsExpire(Discovery!CacheKeys, Found) /\ OnlyDiscovery
  \/ InPromotion /\ Promotion!purgeRun /\ OnlyPromotion
  \/ \E event \in Proposals : InPromotion /\ Promotion!propose(event) /\ OnlyPromotion
  \/ \E d \in Deliveries : InPromotion /\ Promotion!deliver(d) /\ OnlyPromotion
  \/ \E d \in Deliveries : InPromotion /\ Promotion!purgeDelivery(d) /\ OnlyPromotion
  \/ InPromotion /\ OnlyPromotion /\ \E l \in links : Promotion!purgeLink(l)
  \/ \E event \in Proposals, d \in Deliveries \cup {None}, e \in Ids :
        InPromotion /\ Promotion!promoteLedgerProposal(event, d, e) /\ OnlyPromotion
  \/ \E e \in Ids, content \in Written : InPromotion /\ Promotion!record(e, content) /\ OnlyPromotion
  \/ \E c \in Clients, e \in Ids : InPromotion /\ Promotion!look(c, e) /\ OnlyPromotion
  \/ \E c \in Clients, content \in Written : InPromotion /\ Promotion!edit(c, content) /\ OnlyPromotion
  \/ \E c \in Clients : InPromotion /\ Promotion!verify(c) /\ OnlyPromotion
  \/ \E c \in Clients, e \in Ids : InPromotion /\ Promotion!supersede(c, e) /\ OnlyPromotion
  \/ \E e \in Ids : InPromotion /\ Promotion!purge(e) /\ OnlyPromotion

LedgerSpec == AllInit /\ [][AllNext]_all

\* A task whose intake asks two questions, and one that asks none.
SomeOrAll == {{"taskType"}, {"taskType", "target", "expected"}}

\* The scenarios share the names of what is symmetric in them.
Symmetry == Permutations(Runs) \cup Permutations(Calls)

-----------------------------------------------------------------------------
(* A model call is made once for a step, and a repeated selection is       *)
(* answered with what it chose.                                            *)
RanOnce == InExecution => Execution!RanOnce

(* Cursor, sequence and hash chain of every run survive every import that  *)
(* does not overlap another one, and a proposal in the ledger becomes one  *)
(* memory entry, to which its link leads.                                  *)
LedgerWhole == (InArchive => Archive!LedgerWhole) /\ (InPromotion => Promotion!PromotedOnce)

(* A skill serves one snapshot, whole, or nothing when it is disabled, and *)
(* a fetch that is late never replaces a newer snapshot.  The discoveries  *)
(* of a run stay within its budget and are silent after a failure.         *)
SkillServesItsSnapshot ==
  /\ [](InSkills => Store!ServesOneSnapshot /\ Store!DisabledServesNothing)
  /\ [](InDiscovery => Discovery!BudgetKept /\ Discovery!SilentAfterFailure)
  /\ [][InSkills => Store!NeverOlder]_all
=============================================================================
