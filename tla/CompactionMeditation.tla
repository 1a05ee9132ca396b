------------------------- MODULE CompactionMeditation -------------------------
(***************************************************************************)
(* The compaction of an OpenCode session and what Kiokuko keeps of it.     *)
(* Before a compaction the plugin has the boundary of the run captured, a  *)
(* cycle with the last event the run had.  When the summary is there, it   *)
(* is attached to the newest cycle, and a job judges its claims by the     *)
(* events up to the boundary.                                              *)
(*                                                                         *)
(* OpenCode waits for the hook before it compacts, but nobody waits for    *)
(* the saving of a summary: several may be under way, and a second         *)
(* compaction may begin meanwhile.  Every step of an activity is one await *)
(* of the plugin; the two calls run as processes, whose answer may be lost *)
(* after their transaction.                                                *)
(*                                                                         *)
(* One session with one run.  The text of a summary is its number; it has  *)
(* claims the events support or claims they contradict.  A post event that *)
(* finds no cycle is left out: the plugin sends none before a boundary was *)
(* accepted, and cycles are not deleted.                                   *)
(***************************************************************************)
EXTENDS Naturals, Sequences, FiniteSets

CONSTANTS
    None,
    MaxEvents,          \* bound: events of the run besides corrections
    MaxRevision,        \* bound: contract revisions
    MaxCompactions      \* bound: compactions of the session

VARIABLES
    run,                \* contract revision, last event, open or ended
    repository,         \* contents of the repository, for its digest
    hook,               \* the hook 'compaction' under way, or None
    started,            \* compactions begun
    summaries,          \* for each summary the last event there was
    saves,              \* the runs of saveCompaction under way
    pending, accepted,  \* storage of the plugin
    cycles, jobs,       \* tables of the database
    judged,             \* cycle -> summary its claims came from
    overtaken           \* a boundary was captured during a saveCompaction

compactionVars == <<run, repository, hook, started, summaries, saves, pending, accepted, cycles, jobs, judged, overtaken>>

Init ==
    /\ run = [revision |-> 1, last |-> 0, open |-> TRUE] /\ repository = 0
    /\ hook = None /\ started = 0 /\ summaries = <<>> /\ saves = {}
    /\ pending = None /\ accepted = {} /\ cycles = <<>> /\ jobs = {}
    /\ judged = [n \in 1..MaxCompactions |-> None] /\ overtaken = FALSE

------------------------------------------------------------------------------
(* The run and the repository.                                             *)

work ==
    /\ run.open
    /\ \/ run.last < MaxEvents /\ run' = [run EXCEPT !.last = @ + 1] /\ UNCHANGED repository
       \/ run.revision < MaxRevision /\ run' = [run EXCEPT !.revision = @ + 1] /\ UNCHANGED repository
       \/ run' = [run EXCEPT !.open = FALSE] /\ UNCHANGED repository
       \/ repository' = 1 - repository /\ UNCHANGED run
    /\ UNCHANGED <<hook, started, summaries, saves, pending, accepted, cycles, jobs, judged, overtaken>>

------------------------------------------------------------------------------
(* The hook 'compaction'.                                                  *)

startCompaction ==
    /\ hook = None /\ started = Len(summaries) /\ started < MaxCompactions
    /\ started' = started + 1
    /\ hook' = IF run.open THEN [pc |-> "capture", revision |-> run.revision] ELSE None
    /\ UNCHANGED <<run, repository, summaries, saves, pending, accepted, cycles, jobs, judged, overtaken>>

boundary == [revision |-> run.revision, last |-> run.last, repository |-> repository]

captured == \E c \in 1..Len(cycles) : cycles[c].boundary = boundary

\* A boundary of another contract revision is refused; the same boundary is
\* the same cycle.
captureCompactionBoundary ==
    /\ hook # None /\ hook.pc = "capture"
    /\ \/ hook' = None /\ UNCHANGED <<cycles, overtaken>>
       \/ /\ hook.revision = run.revision
          /\ cycles' = IF captured THEN cycles ELSE Append(cycles, [boundary |-> boundary, summary |-> None, state |-> "captured"])
          /\ overtaken' = (overtaken \/ saves # {})
          /\ hook' \in {None, [hook EXCEPT !.pc = "store"]}
    /\ UNCHANGED <<run, repository, started, summaries, saves, pending, accepted, jobs, judged>>

storePending ==
    /\ hook # None /\ hook.pc = "store"
    /\ pending' = hook.revision /\ hook' = None
    /\ UNCHANGED <<run, repository, started, summaries, saves, accepted, cycles, jobs, judged, overtaken>>

\* OpenCode has the summary; the event starts saveCompaction, or is lost.
compactionEnds ==
    /\ hook = None /\ started > Len(summaries)
    /\ summaries' = Append(summaries, run.last)
    /\ \/ saves' = saves \cup {[event |-> started, pc |-> "read", summary |-> None]}
       \/ UNCHANGED saves
    /\ UNCHANGED <<run, repository, hook, started, pending, accepted, cycles, jobs, judged, overtaken>>

------------------------------------------------------------------------------
(* saveCompaction.                                                         *)

move(s, pc, summary) == saves' = (saves \ {s}) \cup {[s EXCEPT !.pc = pc, !.summary = summary]}
ends(s) == saves' = saves \ {s}

\* The session shows its latest summary, whichever event asked for it.
extractOpenCodeCompactionSummary == Len(summaries)

readSummary(s) ==
    /\ s \in saves /\ s.pc = "read"
    /\ IF extractOpenCodeCompactionSummary \in accepted THEN ends(s)
       ELSE move(s, "bind", extractOpenCodeCompactionSummary)
    /\ UNCHANGED <<run, repository, hook, started, summaries, pending, accepted, cycles, jobs, judged, overtaken>>

compareBinding(s) ==
    /\ s \in saves /\ s.pc = "bind"
    /\ IF run.open /\ pending = run.revision THEN move(s, "post", s.summary) ELSE ends(s)
    /\ UNCHANGED <<run, repository, hook, started, summaries, pending, accepted, cycles, jobs, judged, overtaken>>

\* Slip: a cycle takes whatever summary comes.
attachableAny(cycle, summary) == TRUE

\* A cycle keeps its first summary.
attachable(cycle, summary) == cycle.summary \in {None, summary}

\* attachCompactionPost, in one transaction with the job.
attachCompactionPost(c, summary) ==
    /\ cycles' = [cycles EXCEPT ![c].summary = summary,
                                ![c].state = IF @ = "completed" THEN @ ELSE "queued"]
    /\ jobs' = IF cycles[c].state = "completed" THEN jobs
               ELSE jobs \cup {[cycle |-> c, summary |-> summary]}

\* The newest cycle of the run gets the summary.
queueCompactionMeditation(summary) ==
    /\ attachable(cycles[Len(cycles)], summary)
    /\ attachCompactionPost(Len(cycles), summary)

\* The answer of the command may be lost.
runKiokukoCompactionHook(s) == ends(s) \/ move(s, "answered", s.summary)

\* The command 'enno compaction' with the summary; an error is a refusal.
compactionCommand(s) ==
    /\ s \in saves /\ s.pc = "post"
    /\ \/ ends(s) /\ UNCHANGED <<cycles, jobs>>
       \/ queueCompactionMeditation(s.summary) /\ runKiokukoCompactionHook(s)
    /\ UNCHANGED <<run, repository, hook, started, summaries, pending, accepted, judged, overtaken>>

storeAccepted(s) ==
    /\ s \in saves /\ s.pc = "answered"
    /\ accepted' = accepted \cup {s.summary} /\ ends(s)
    /\ UNCHANGED <<run, repository, hook, started, summaries, pending, cycles, jobs, judged, overtaken>>

------------------------------------------------------------------------------
(* The job.  It may be delivered again after it was done.  A contradicted  *)
(* claim is recorded as an event of the run, which must still be open.     *)
processCompactionMeditationJob(j) ==
    /\ j \in jobs /\ cycles[j.cycle].state # "completed"
    /\ \/ UNCHANGED run
       \/ run.open /\ run' = [run EXCEPT !.last = @ + 1]
    /\ judged' = [judged EXCEPT ![j.cycle] = j.summary]
    /\ cycles' = [cycles EXCEPT ![j.cycle].state = "completed"]
    /\ UNCHANGED <<repository, hook, started, summaries, saves, pending, accepted, jobs, overtaken>>

Next ==
    \/ work \/ startCompaction \/ captureCompactionBoundary \/ storePending \/ compactionEnds
    \/ \E s \in saves : readSummary(s) \/ compareBinding(s) \/ compactionCommand(s) \/ storeAccepted(s)
    \/ \E j \in jobs : processCompactionMeditationJob(j)

Spec == Init /\ [][Next]_compactionVars

------------------------------------------------------------------------------
(* The claims of a completed cycle come from the one summary the cycle     *)
(* has, however often and in whatever order summaries are posted.  Unless  *)
(* a boundary was captured while a summary was on its way, that summary    *)
(* was made at or after the boundary, so that its claims are judged by no  *)
(* later event, and it is the summary of no other cycle.                   *)
MeditatedOnce ==
    /\ \A c \in 1..Len(cycles) : cycles[c].state = "completed" => judged[c] = cycles[c].summary
    /\ overtaken \/ \A c \in 1..Len(cycles) : cycles[c].summary # None =>
          /\ cycles[c].boundary.last <= summaries[cycles[c].summary]
          /\ \A d \in 1..Len(cycles) : cycles[d].summary = cycles[c].summary => d = c
==============================================================================
