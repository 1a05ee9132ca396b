----------------------------- MODULE MCSessions ------------------------------
(***************************************************************************)
(* What an agent session leaves behind and takes along, for TLC: the trace *)
(* files of recorded runs, and in the OpenCode plugin the recall for the   *)
(* prompts, the record of the Enno run and the meditation of compactions.  *)
(* They share no state here, so each behaviour is one of them.             *)
(***************************************************************************)
EXTENDS TraceIngestion, TLC

CONSTANTS None, Texts, Unusable, MaxPending, MaxAsked,
    MaxEvents, MaxContract, MaxCompactions,
    Runs, MaxChoice, MaxRevision, MaxPhase, MaxResults

VARIABLES scenario,
    request, recalled, summary, operations, asked, running,
    run, repository, hook, started, summaries, saves, pending, accepted, cycles, meditations, judged, overtaken,
    truth, results, choice, entry, retired, seen

\* The workers are interchangeable.
Symmetry == Permutations(Workers)

Learning == INSTANCE OpenCodeLearning
Meditation == INSTANCE CompactionMeditation WITH jobs <- meditations, MaxRevision <- MaxContract
Record == INSTANCE OpenCodeCompaction

Request == [object : Nat, text : Texts \cup {Unusable}, issued : Nat, applied : Nat]
Choice == [revision : Nat, kind : Record!Kinds]
Contract == [revision : Nat, phase : Nat]
RunRow == [choice : Choice, contract : Contract \cup {None}, left : BOOLEAN, ended : BOOLEAN]
ChoiceOfRun == [run : Runs, revision : Nat, kind : Record!Kinds]
ContractOfRun == [run : Runs, revision : Nat, phase : Nat]

\* What is absent is no request, no number and no part of the record of a run.
ASSUME SessionsAssumption ==
  /\ None \notin Request \cup Nat /\ None # "asking"
  /\ None \notin Choice \cup Contract /\ None \notin RunRow
  /\ None \notin ChoiceOfRun \cup ContractOfRun
  /\ MaxCompactions \in Nat

learningVars == <<request, recalled, summary, operations, asked, running>>
meditationVars == <<run, repository, hook, started, summaries, saves, pending, accepted, cycles, meditations, judged, overtaken>>
recordVars == <<truth, results, choice, entry, retired, seen>>
all == <<scenario, vars, learningVars, meditationVars, recordVars>>

AllInit ==
  /\ scenario \in {"trace", "learning", "meditation", "record"}
  /\ Init /\ Learning!Init /\ Meditation!Init /\ Record!Init

InTrace == scenario = "trace" /\ UNCHANGED <<scenario, learningVars, meditationVars, recordVars>>
InLearning == scenario = "learning" /\ UNCHANGED <<scenario, vars, meditationVars, recordVars>>
InMeditation == scenario = "meditation" /\ UNCHANGED <<scenario, vars, learningVars, recordVars>>
InRecord == scenario = "record" /\ UNCHANGED <<scenario, vars, learningVars, meditationVars>>

AllNext ==
  \/ InTrace /\ record
  \/ InTrace /\ rebuild
  \/ \E s \in Scanners : InTrace /\ discover(s)
  \/ \E w \in Workers : InTrace /\ claim(w)
  \/ \E w \in Workers : InTrace /\ readManifest(w)
  \/ \E w \in Workers : InTrace /\ readIdentity(w)
  \/ \E w \in Workers : InTrace /\ readBatch(w)
  \/ \E w \in Workers : InTrace /\ readFails(w)
  \/ \E w \in Workers : InTrace /\ outOfBounds(w)
  \/ \E w \in Workers : InTrace /\ verify(w)
  \/ \E w \in Workers : InTrace /\ verifyFails(w)
  \/ \E w \in Workers : InTrace /\ commit(w)
  \/ \E w \in Workers : InTrace /\ commitConflicts(w)
  \/ \E w \in Workers : InTrace /\ complete(w)
  \/ \E w \in Workers : InTrace /\ interruptVerify(w)
  \/ \E text \in Texts \cup {Unusable} : InLearning /\ Learning!prompt(text)
  \/ InLearning /\ Learning!modelSelected
  \/ InLearning /\ Learning!ended
  \/ InLearning /\ Learning!dispose
  \/ \E o \in operations : InLearning /\ Learning!readMessages(o)
  \/ \E o \in operations : InLearning /\ Learning!recallEnds(o)
  \/ \E o \in operations : InLearning /\ Learning!gives(o)
  \/ InMeditation /\ Meditation!work
  \/ InMeditation /\ Meditation!startCompaction
  \/ InMeditation /\ Meditation!captureCompactionBoundary
  \/ InMeditation /\ Meditation!storePending
  \/ InMeditation /\ Meditation!compactionEnds
  \/ \E s \in saves : InMeditation /\ Meditation!readSummary(s)
  \/ \E s \in saves : InMeditation /\ Meditation!compareBinding(s)
  \/ \E s \in saves : InMeditation /\ Meditation!compactionCommand(s)
  \/ \E s \in saves : InMeditation /\ Meditation!storeAccepted(s)
  \/ \E j \in meditations : InMeditation /\ Meditation!processCompactionMeditationJob(j)
  \/ \E r \in Runs : InRecord /\ Record!begin(r)
  \/ \E r \in Runs : InRecord /\ Record!advance(r)
  \/ \E r \in Runs, kind \in {"ordinary", "enno"} :
        InRecord /\ Record!select(r, kind) /\ truth[r].choice.revision + r <= MaxChoice
  \/ \E r \in Runs, withChoice \in BOOLEAN : InRecord /\ Record!answer(r, withChoice)
  \/ \E s \in results : InRecord /\ Record!observe(s)

SessionsSpec == AllInit /\ [][AllNext]_all

-----------------------------------------------------------------------------
(* What the model is told was recalled for the text of the last prompt.    *)
RecallFollowsPrompt == Learning!RecallFollowsPrompt

(* The claims of a completed cycle come from the one summary it has, and   *)
(* the record a compaction hands on is never older than one held before.   *)
CompactionKeepsTrack == Meditation!MeditatedOnce /\ Record!RecordIsLatest
=============================================================================
