-------------------------- MODULE OpenCodeCompaction --------------------------
(***************************************************************************)
(* What the OpenCode plugin remembers of the Enno run of a session, so     *)
(* that a compaction can hand it on: the execution choice and the state of *)
(* the contract, taken from the results of tools as they pass.  Tools run  *)
(* side by side and their results arrive in any order, also after the run  *)
(* has moved on, has ended or was left for another.                        *)
(*                                                                         *)
(* Revision and route epoch of a contract are one number.  The maps are    *)
(* those of one session; the limits of 512 sessions and 32 retired runs    *)
(* are not reached.                                                        *)
(***************************************************************************)
EXTENDS Naturals, FiniteSets

CONSTANTS
    None,
    Runs,           \* numbers of the runs of the session, in order
    MaxChoice,      \* bound: revisions of an execution choice
    MaxRevision,    \* bound: revisions of a contract
    MaxPhase,       \* length of PHASE_ORDER
    MaxResults      \* bound: results on their way

VARIABLES
    truth,          \* what the database says of each run, None before it
    results,        \* tool results on their way to the plugin
    choice, entry, retired,     \* OpenCodeCompactionState
    seen            \* the latest record held and the end observed, by run

vars == <<truth, results, choice, entry, retired, seen>>

Kinds == {"pending", "ordinary", "enno"}

Init ==
    /\ truth = [r \in Runs |-> None]
    /\ results = {} /\ choice = None /\ entry = None /\ retired = {}
    /\ seen = [r \in Runs |-> [record |-> None, ended |-> FALSE]]

------------------------------------------------------------------------------
(* The runs.                                                               *)

begin(r) ==
    /\ truth[r] = None /\ \A p \in Runs : p < r => truth[p] # None
    /\ truth' = [truth EXCEPT ![r] = [choice |-> [revision |-> 1, kind |-> "pending"], contract |-> None, left |-> FALSE, ended |-> FALSE]]
    /\ UNCHANGED <<results, choice, entry, retired, seen>>

\* Whoever leaves Enno cannot come back to it in the same run.
select(r, kind) ==
    /\ truth[r] # None /\ ~truth[r].ended /\ truth[r].choice.revision < MaxChoice
    /\ kind = "enno" => ~truth[r].left
    /\ truth' = [truth EXCEPT ![r].choice = [revision |-> @.revision + 1, kind |-> kind],
                              ![r].left = @ \/ (kind # "enno" /\ truth[r].contract # None),
                              ![r].contract = IF kind # "enno" THEN None
                                              ELSE IF @ = None THEN [revision |-> 1, phase |-> 1] ELSE @]
    /\ UNCHANGED <<results, choice, entry, retired, seen>>

\* A phase forward, a new revision, or the end.
advance(r) ==
    /\ truth[r] # None /\ ~truth[r].ended
    /\ \/ /\ truth[r].contract # None /\ truth[r].contract.phase < MaxPhase
          /\ truth' = [truth EXCEPT ![r].contract.phase = @ + 1]
       \/ /\ truth[r].contract # None /\ truth[r].contract.revision < MaxRevision
          /\ truth' = [truth EXCEPT ![r].contract = [revision |-> @.revision + 1, phase |-> 1]]
       \/ truth' = [truth EXCEPT ![r].ended = TRUE]
    /\ UNCHANGED <<results, choice, entry, retired, seen>>

\* A tool answers with the state of its run; enno_* tools without the
\* execution choice.
answer(r, withChoice) ==
    /\ truth[r] # None /\ Cardinality(results) < MaxResults
    /\ withChoice \/ truth[r].contract # None
    /\ results' = results \cup {[run |-> r, execution |-> IF withChoice THEN truth[r].choice ELSE None,
                                 contract |-> truth[r].contract, ended |-> truth[r].ended]}
    /\ UNCHANGED <<truth, choice, entry, retired, seen>>

------------------------------------------------------------------------------
(* observe.                                                                *)

older(a, b) == a.revision < b.revision \/ (a.revision = b.revision /\ a.phase < b.phase)

\* Slip: results are taken in the order of their arrival.
staleNever(s) == s.run \in retired

\* A result of a retired run, of an earlier choice, or of an earlier state.
stale(s) ==
    \/ s.run \in retired
    \/ /\ s.execution # None /\ choice # None /\ choice.run = s.run
       /\ \/ s.execution.revision < choice.revision
          \/ s.execution.revision = choice.revision /\ s.execution.kind # choice.kind
    \/ entry # None /\ entry.run = s.run /\ s.contract # None /\ older(s.contract, entry)

\* The runs the session has left with this result.
left(s) == {x.run : x \in {entry, choice} \ {None}} \ {s.run}

observeEnd(s) ==
    /\ retired' = retired \cup {s.run}
    /\ choice' = IF choice # None /\ choice.run = s.run THEN None ELSE choice
    /\ entry' = IF entry # None /\ entry.run = s.run THEN None ELSE entry

\* The contract of the result.
nextRecord(s) == [run |-> s.run, revision |-> s.contract.revision, phase |-> s.contract.phase]

\* A state is taken over if the choice is still Enno.
observeState(s) ==
    LET chosen == IF s.execution = None THEN choice
                  ELSE [run |-> s.run, revision |-> s.execution.revision, kind |-> s.execution.kind]
        kept == IF entry = None \/ entry.run # s.run \/ (s.execution # None /\ s.execution.kind # "enno")
                THEN None ELSE entry
        refused == s.execution = None /\ choice # None /\ choice.run = s.run /\ choice.kind # "enno"
    IN
    /\ retired' = retired \cup left(s)
    /\ choice' = chosen
    /\ entry' = IF refused \/ s.contract = None \/ (s.execution = None /\ kept = None) THEN kept
                ELSE nextRecord(s)

\* The latest of the records held so far.
latest(old, e) == IF e = None \/ (old # None /\ older(e, old)) THEN old ELSE [revision |-> e.revision, phase |-> e.phase]

observe(s) ==
    /\ s \in results /\ results' = results \ {s}
    /\ IF stale(s) THEN UNCHANGED <<choice, entry, retired>>
       ELSE IF s.ended THEN observeEnd(s)
       ELSE observeState(s)
    /\ seen' = [seen EXCEPT ![s.run] = [record |-> IF entry' # None /\ entry'.run = s.run THEN latest(@.record, entry') ELSE @.record,
                                       ended |-> @.ended \/ s.ended]]
    /\ UNCHANGED truth

Next ==
    \/ \E r \in Runs : begin(r) \/ advance(r)
    \/ \E r \in Runs, kind \in Kinds \ {"pending"} : select(r, kind)
    \/ \E r \in Runs, withChoice \in BOOLEAN : answer(r, withChoice)
    \/ \E s \in results : observe(s)

Spec == Init /\ [][Next]_vars

------------------------------------------------------------------------------
(* The record a compaction hands on is never older than one held before    *)
(* for the same run, in whatever order results arrive and even when it was *)
(* dropped in between, and never of a run the session has left or a result *)
(* has shown to be ended.                                                  *)
RecordIsLatest ==
    entry # None =>
        /\ ~seen[entry.run].ended
        /\ entry.run \notin retired
        /\ seen[entry.run].record = [revision |-> entry.revision, phase |-> entry.phase]
==============================================================================
