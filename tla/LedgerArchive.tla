---------------------------- MODULE LedgerArchive ----------------------------
(***************************************************************************)
(* Export and import of ledger archives.                                   *)
(*                                                                         *)
(* A run is a row and its events, and every event commits to the one       *)
(* before it, so that an event stands here for the whole history up to and *)
(* with itself: the sequence of the machines that wrote it.  A row says at *)
(* which history it is (last_sequence, updated_at).  The other tables hang *)
(* off a run in the same way and are left out.                             *)
(*                                                                         *)
(* An export reads table after table and no transaction keeps the tables   *)
(* as they are meanwhile.  An import compares every record with the        *)
(* database first and inserts what is new in a transaction of its own:     *)
(* other processes append and purge in between, and other imports run.     *)
(***************************************************************************)
EXTENDS Naturals, Sequences, FiniteSets

CONSTANTS
    Runs,
    Importers,      \* import commands, in processes of their own
    None,
    MaxEvents,      \* bound on the events of a run
    MaxArchives     \* bound on the archives that are kept

VARIABLES
    row,            \* ledger_runs: None, or the history the row is at
    events,         \* ledger_events: the events of each run
    created,        \* ids that are taken: a run id is a fresh UUID
    reading,        \* an export that has read ledger_runs, or None
    archives,       \* archive files: which runs they hold, at which history
    import,         \* import[i]: None, or the archive and what was found
    overlapped      \* two imports have been under way at once

archiveVars == <<row, events, created, reading, archives, import, overlapped>>

Init ==
    /\ row = [r \in Runs |-> None] /\ events = [r \in Runs |-> {}] /\ created = {}
    /\ reading = None /\ archives = {}
    /\ import = [i \in Importers |-> None] /\ overlapped = FALSE

prefixes(history) == {SubSeq(history, 1, n) : n \in 1..Len(history)}

-------------------------------------------------------------------------------
(* Runs, here and on another machine.                                      *)

\* A run begins with its first events and goes on.
createRun(r) ==
    /\ r \notin created /\ created' = created \cup {r}
    /\ row' = [row EXCEPT ![r] = <<"here">>]
    /\ events' = [events EXCEPT ![r] = {<<"here">>}]
    /\ UNCHANGED <<reading, archives, import, overlapped>>

appendEvent(r) ==
    LET history == Append(row[r], "here") IN
    /\ row[r] # None /\ Len(row[r]) < MaxEvents
    /\ \A e \in events[r] : Len(e) # Len(history)
    /\ row' = [row EXCEPT ![r] = history]
    /\ events' = [events EXCEPT ![r] = @ \cup {history}]
    /\ UNCHANGED <<created, reading, archives, import, overlapped>>

\* executePurge of a run: what hangs off it goes with it.
purgeRun(r) ==
    /\ row[r] # None
    /\ row' = [row EXCEPT ![r] = None] /\ events' = [events EXCEPT ![r] = {}]
    /\ UNCHANGED <<created, reading, archives, import, overlapped>>

kept(archive) == Cardinality(archives \cup {archive}) <= MaxArchives /\ archives' = archives \cup {archive}

\* Another machine has imported an archive, went on with a run and exported.
continuedElsewhere(archive, r) ==
    /\ archive[r] # None /\ Len(archive[r]) < MaxEvents
    /\ kept([archive EXCEPT ![r] = Append(@, "there")])
    /\ UNCHANGED <<row, events, created, reading, import, overlapped>>

-------------------------------------------------------------------------------
(* Export.                                                                 *)

\* validateGraph: the events of every run are the chain its row names, and
\* there is no event without its run.
validateGraph(rows, chains) ==
    \A r \in Runs : chains[r] = IF rows[r] = None THEN {} ELSE prefixes(rows[r])

readRuns ==
    /\ reading = None /\ reading' = row
    /\ UNCHANGED <<row, events, created, archives, import, overlapped>>

\* The events are read last; a graph that was read in two states is refused.
exportLedgerArchive ==
    /\ reading # None /\ reading' = None
    /\ IF validateGraph(reading, events) THEN kept(reading) ELSE archives' = archives
    /\ UNCHANGED <<row, events, created, import, overlapped>>

-------------------------------------------------------------------------------
(* Import.                                                                 *)

\* Slip: a run that is there is a duplicate, whatever its row says.
sameIdentity(archive) == TRUE

\* compareExisting of runs: a row that is there must be the same.
sameRows(archive) == \A r \in Runs : archive[r] # None /\ row[r] # None => row[r] = archive[r]

eventsOf(archive, r) == IF archive[r] = None THEN {} ELSE prefixes(archive[r])

\* hasUniqueConflict: an event of the archive takes the place of another one.
collides(archive) ==
    \E r \in Runs : \E e \in eventsOf(archive, r) \ events[r] : \E f \in events[r] : Len(f) = Len(e)

\* The records found equal, by type; the first difference ends the import.
compareExisting(i, archive) ==
    /\ import[i] = None
    /\ sameRows(archive) /\ ~collides(archive)
    /\ import' = [import EXCEPT ![i] =
          [archive |-> archive,
           duplicates |-> {"runs" : r \in {s \in Runs : archive[s] # None /\ row[s] # None}}
                     \cup {"events" : r \in {s \in Runs : eventsOf(archive, s) \cap events[s] # {}}}]]
    /\ overlapped' = (overlapped \/ \E j \in Importers : import[j] # None)
    /\ UNCHANGED <<row, events, created, reading, archives>>

\* A record that is there is skipped when its type had duplicates, and breaks
\* a unique constraint otherwise.
insertable(i) ==
    LET archive == import[i].archive IN
    /\ "runs" \in import[i].duplicates \/ \A r \in Runs : archive[r] # None => row[r] = None
    /\ "events" \in import[i].duplicates \/ \A r \in Runs : eventsOf(archive, r) \cap events[r] = {}
    /\ ~collides(archive)

\* The transaction: everything that is not there, or nothing.
insertRecords(i) ==
    LET archive == import[i].archive IN
    /\ import[i] # None
    /\ IF insertable(i)
       THEN /\ row' = [r \in Runs |-> IF row[r] = None THEN archive[r] ELSE row[r]]
            /\ events' = [r \in Runs |-> events[r] \cup eventsOf(archive, r)]
       ELSE UNCHANGED <<row, events>>
    /\ import' = [import EXCEPT ![i] = None]
    /\ UNCHANGED <<created, reading, archives, overlapped>>

Next ==
    \/ readRuns \/ exportLedgerArchive
    \/ \E r \in Runs :
        \/ createRun(r) \/ appendEvent(r) \/ purgeRun(r)
        \/ \E archive \in archives : continuedElsewhere(archive, r)
    \/ \E i \in Importers :
        \/ insertRecords(i)
        \/ \E archive \in archives : compareExisting(i, archive)

Spec == Init /\ [][Next]_archiveVars

-------------------------------------------------------------------------------
(* What `doctor` checks of a ledger, contiguous sequences, the cursor of   *)
(* the run and the links of the hashes, survives every import, also of an  *)
(* archive in which a run went on elsewhere, and also when runs go on and  *)
(* are purged between the comparison and the insertion.  It survives one   *)
(* import at a time: of two that overlap, the later one skips by identity  *)
(* what the earlier one has inserted, and may add events to its older row. *)
LedgerWhole == overlapped \/ validateGraph(row, events)
==============================================================================
