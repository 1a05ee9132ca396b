------------------------------ MODULE SetupFiles ------------------------------
(***************************************************************************)
(* Setup of OpenCode: the configuration file and the standard skills are   *)
(* changed together or not at all, under the lock of managed files, while  *)
(* the user may edit, delete and create files and directories at any time. *)
(*                                                                         *)
(* A file is the text of the user beside the region that Kiokuko manages,  *)
(* and a stamp of its identity.  The configuration stands for the files    *)
(* that keep the text of the user, the skill for those that belong to      *)
(* Kiokuko as a whole while they carry its marker.  The conditional file   *)
(* changes of AtomicFile are one step here.  The directory of the skill    *)
(* may be missing.                                                         *)
(***************************************************************************)
EXTENDS Naturals, Sequences, SequencesExt

CONSTANTS
    Setups,     \* commands that run setup, each with its own options
    None, Foreign,  \* Foreign: an MCP entry of another product
    MaxEdits,   \* bound: changes by the user
    MaxFaults   \* bound: failing calls, failed databases and crashes

VARIABLES
    disk,       \* file -> its content, None when absent
    dir,        \* identity of the directory of the skill, 0 when absent, and whether the user keeps something in it
    stamps,     \* identities given out so far
    lock,       \* the setup that has the transaction of the lock database
    task,       \* setup -> what it has planned and done
    bounds,     \* uses of the bounded actions
    text,       \* history: what the user wrote into a file last
    before,     \* history: the files when the setup took the lock
    edited      \* history: files the user changed since then

vars == <<disk, dir, stamps, lock, task, bounds, text, before, edited>>

Order == <<"config", "skill">>
Files == Range(Order)

Idle == [pc |-> "idle", i |-> 1, replace |-> FALSE, plan |-> [f \in Files |-> None], planDir |-> 0, made |-> FALSE,
         latest |-> None, applied |-> <<>>, failures |-> FALSE, error |-> None]

\* A configuration of the user, with or without a region of an earlier
\* setup or of another product, and no skills.
Init ==
    /\ \E managed \in {None, Foreign, "earlier"} :
          disk = [f \in Files |-> IF f = "config" THEN [human |-> 1, managed |-> managed, stamp |-> 1] ELSE None]
    /\ dir = [id |-> 0, kept |-> FALSE] /\ stamps = 1
    /\ lock = None /\ task = [p \in Setups |-> Idle]
    /\ bounds = [edits |-> 0, faults |-> 0]
    /\ text = [f \in Files |-> IF f = "config" THEN 1 ELSE 0]
    /\ before = disk /\ edited = {}

------------------------------------------------------------------------------
(* The user.                                                               *)

userChanges(f, content, d) ==
    /\ bounds.edits < MaxEdits /\ bounds' = [bounds EXCEPT !.edits = @ + 1]
    /\ disk' = [disk EXCEPT ![f] = content] /\ dir' = d
    /\ stamps' = stamps + 1 /\ edited' = edited \cup {f}
    /\ text' = [text EXCEPT ![f] = IF content = None THEN 0 ELSE content.human]
    /\ UNCHANGED <<lock, task, before>>

\* The user writes text, and may touch the managed region too.
edit(f) ==
    /\ disk[f] # None
    /\ \E managed \in {disk[f].managed, IF f = "config" THEN Foreign ELSE None} :
          userChanges(f, [human |-> disk[f].human + 1, managed |-> managed, stamp |-> stamps + 1], dir)

create(f) ==
    /\ disk[f] = None /\ (f = "skill" => dir.id # 0)
    /\ userChanges(f, [human |-> 1, managed |-> None, stamp |-> stamps + 1], dir)

delete(f) == disk[f] # None /\ userChanges(f, None, dir)

\* The directory is made, or replaced by an empty one, or keeps another file.
changeDirectory ==
    \/ userChanges("skill", None, [id |-> stamps + 1, kept |-> FALSE])
    \/ dir.id # 0 /\ ~dir.kept /\ userChanges("skill", disk["skill"], [dir EXCEPT !.kept = TRUE])

------------------------------------------------------------------------------
(* The lock and the plan.                                                  *)

to(p, change) == task' = [task EXCEPT ![p] = change]

acquire(p) ==
    /\ task[p].pc = "idle" /\ lock = None
    /\ lock' = p /\ to(p, [Idle EXCEPT !.pc = "plan", !.replace = task[p].replace])
    /\ before' = disk /\ edited' = {}
    /\ UNCHANGED <<disk, dir, stamps, bounds, text>>

lockTimesOut(p) ==
    /\ task[p].pc = "idle" /\ lock \notin {None, p}
    /\ to(p, [Idle EXCEPT !.pc = "failed", !.error = "busy"])
    /\ UNCHANGED <<disk, dir, stamps, lock, bounds, text, before, edited>>

\* What setup p makes of a content, or None for a refusal: its region beside
\* the text of the user, unless another product has that place ...
renderOpenCodeConfig(p, content) ==
    IF content = None THEN [human |-> 0, managed |-> p]
    ELSE IF content.managed = Foreign /\ ~task[p].replace THEN None
    ELSE [human |-> content.human, managed |-> p]

\* ... and a skill as a whole, while it carries the marker.
renderStandardSkillFile(p, content) ==
    IF content # None /\ content.managed = None THEN None ELSE [human |-> 0, managed |-> p]

render(p, f, content) == IF f = "config" THEN renderOpenCodeConfig(p, content) ELSE renderStandardSkillFile(p, content)

stamped(content) == [human |-> content.human, managed |-> content.managed, stamp |-> stamps + 1]

unchanged(p, f, content) == content # None /\ render(p, f, content) = [human |-> content.human, managed |-> content.managed]

refusal(f) == IF f = "config" THEN "identity" ELSE "conflict"

\* A refusal while planning ends setup before anything is written.
planFile(p) ==
    LET f == Order[task[p].i] IN
    /\ task[p].pc = "plan"
    /\ IF render(p, f, disk[f]) = None THEN to(p, [task[p] EXCEPT !.pc = "release", !.error = refusal(f)])
       ELSE to(p, [task[p] EXCEPT !.plan[f] = disk[f], !.planDir = IF f = "skill" THEN dir.id ELSE @,
                                  !.i = @ + 1, !.pc = IF task[p].i = Len(Order) THEN "database" ELSE @])
    /\ UNCHANGED <<disk, dir, stamps, lock, bounds, text, before, edited>>

fault == bounds.faults < MaxFaults /\ bounds' = [bounds EXCEPT !.faults = @ + 1]

\* Migrations, cleanup of unfinished runs and the workspace; a cleanup that
\* needs an answer ends this attempt.
initializeDatabase(p) ==
    /\ task[p].pc = "database"
    /\ \/ to(p, [task[p] EXCEPT !.pc = "prepare"]) /\ UNCHANGED bounds
       \/ fault /\ \E error \in {"database", "ask"} : to(p, [task[p] EXCEPT !.pc = "release", !.error = error])
    /\ UNCHANGED <<disk, dir, stamps, lock, text, before, edited>>

------------------------------------------------------------------------------
(* The files.                                                              *)

fails(p, error) == to(p, [task[p] EXCEPT !.pc = "restore", !.error = error])

planned(p, f) == ~unchanged(p, f, task[p].plan[f])

\* A missing directory is made; one that has appeared or was replaced since
\* the plan is a conflict.
preparePlannedDirectories(p) ==
    /\ task[p].pc = "prepare"
    /\ IF ~planned(p, "skill") THEN to(p, [task[p] EXCEPT !.pc = "assert"]) /\ UNCHANGED <<dir, stamps>>
       ELSE IF dir.id # task[p].planDir THEN fails(p, "conflict") /\ UNCHANGED <<dir, stamps>>
       ELSE IF dir.id # 0 THEN to(p, [task[p] EXCEPT !.pc = "assert"]) /\ UNCHANGED <<dir, stamps>>
       ELSE /\ dir' = [id |-> stamps + 1, kept |-> FALSE] /\ stamps' = stamps + 1
            /\ to(p, [task[p] EXCEPT !.pc = "assert", !.planDir = stamps + 1, !.made = TRUE])
    /\ UNCHANGED <<disk, lock, bounds, text, before, edited>>

\* A file is written at most once.
installedOf(p, f) ==
    LET written == {m \in Range(task[p].applied) : m.file = f} IN
    IF written = {} THEN task[p].plan[f] ELSE (CHOOSE m \in written : TRUE).installed

asPlanned(p) == dir.id = task[p].planDir /\ \A f \in Files : disk[f] = installedOf(p, f)

assertPlannedFiles(p) ==
    /\ task[p].pc = "assert"
    /\ IF asPlanned(p) THEN to(p, [task[p] EXCEPT !.pc = "write", !.i = 1]) ELSE fails(p, "conflict")
    /\ UNCHANGED <<disk, dir, stamps, lock, bounds, text, before, edited>>

advance(p) == [task[p] EXCEPT !.i = @ + 1, !.pc = IF task[p].i = Len(Order) THEN "check" ELSE "write", !.latest = None]

\* A file is rendered once more from what it holds now.
readLatest(p) ==
    LET f == Order[task[p].i] IN
    /\ task[p].pc = "write"
    /\ IF ~planned(p, f) THEN to(p, advance(p))
       ELSE IF f = "skill" /\ dir.id # task[p].planDir THEN fails(p, "conflict")
       ELSE IF render(p, f, disk[f]) = None THEN fails(p, refusal(f))
       ELSE IF unchanged(p, f, disk[f])
       THEN to(p, [advance(p) EXCEPT !.applied = Append(@, [file |-> f, previous |-> disk[f], installed |-> disk[f], owned |-> FALSE])])
       ELSE to(p, [task[p] EXCEPT !.pc = "replace", !.latest = disk[f]])
    /\ UNCHANGED <<disk, dir, stamps, lock, bounds, text, before, edited>>

\* Slip: a mutation is recorded only when all of it went well.
recordedWhenClean(p, mutation, clean) == IF clean THEN Append(task[p].applied, mutation) ELSE task[p].applied

\* A committed mutation is recorded before its outcome is looked at.
recorded(p, mutation, clean) == Append(task[p].applied, mutation)

\* atomicReplaceTextWithGuard: nothing happens, or the file is replaced,
\* after which an error may follow.
replaceFile(p) ==
    LET f == Order[task[p].i]
        content == stamped(render(p, f, task[p].latest))
        mutation == [file |-> f, previous |-> task[p].latest, installed |-> content, owned |-> TRUE]
    IN
    /\ task[p].pc = "replace"
    /\ \/ /\ disk[f] # task[p].latest \/ (f = "skill" /\ dir.id # task[p].planDir)
          /\ fails(p, "conflict") /\ UNCHANGED <<disk, stamps, bounds>>
       \/ /\ fault /\ fails(p, "io") /\ UNCHANGED <<disk, stamps>>
       \/ /\ disk[f] = task[p].latest /\ (f = "skill" => dir.id = task[p].planDir)
          /\ disk' = [disk EXCEPT ![f] = content] /\ stamps' = stamps + 1
          /\ \/ to(p, [advance(p) EXCEPT !.applied = recorded(p, mutation, TRUE)]) /\ UNCHANGED bounds
             \/ fault /\ to(p, [task[p] EXCEPT !.pc = "restore", !.error = "io", !.applied = recorded(p, mutation, FALSE)])
    /\ UNCHANGED <<dir, lock, text, before, edited>>

checkInstalled(p) ==
    /\ task[p].pc = "check"
    /\ IF asPlanned(p) THEN to(p, [task[p] EXCEPT !.pc = "release"]) /\ edited' = {}
       ELSE fails(p, "conflict") /\ UNCHANGED edited
    /\ UNCHANGED <<disk, dir, stamps, lock, bounds, text, before>>

------------------------------------------------------------------------------
(* The way back.                                                           *)

\* The newest mutation is undone, unless somebody changed the file since.
restoreFile(p) ==
    LET m == Last(task[p].applied)
        f == m.file
        rest == Front(task[p].applied)
    IN
    /\ task[p].pc = "restore" /\ task[p].applied # <<>>
    /\ IF ~m.owned THEN to(p, [task[p] EXCEPT !.applied = rest]) /\ UNCHANGED <<disk, stamps, bounds>>
       ELSE \/ /\ disk[f] = m.installed
               /\ disk' = [disk EXCEPT ![f] = IF m.previous = None THEN None ELSE [m.previous EXCEPT !.stamp = stamps + 1]]
               /\ stamps' = stamps + 1 /\ to(p, [task[p] EXCEPT !.applied = rest]) /\ UNCHANGED bounds
            \/ /\ IF disk[f] = m.installed THEN fault ELSE UNCHANGED bounds
               /\ to(p, [task[p] EXCEPT !.applied = rest, !.failures = TRUE]) /\ UNCHANGED <<disk, stamps>>
    /\ UNCHANGED <<dir, lock, text, before, edited>>

\* The directory is removed if it is still the one that was made, and empty.
removeCreatedDirectories(p) ==
    /\ task[p].pc = "restore" /\ task[p].applied = <<>>
    /\ IF ~task[p].made THEN to(p, [task[p] EXCEPT !.pc = "release"]) /\ UNCHANGED dir
       ELSE IF dir.id = task[p].planDir /\ ~dir.kept /\ disk["skill"] = None
       THEN dir' = [id |-> 0, kept |-> FALSE] /\ to(p, [task[p] EXCEPT !.pc = "release", !.made = FALSE])
       ELSE to(p, [task[p] EXCEPT !.pc = "release", !.failures = TRUE]) /\ UNCHANGED dir
    /\ UNCHANGED <<disk, stamps, lock, bounds, text, before, edited>>

\* withManagedFileLock ends; runSetupFlow asks and tries again, or gives up.
release(p) ==
    /\ task[p].pc = "release" /\ lock' = None
    /\ \/ to(p, [Idle EXCEPT !.pc = IF task[p].error = None THEN "done" ELSE "failed",
                             !.error = task[p].error, !.failures = task[p].failures])
       \/ task[p].error = "ask" /\ to(p, [Idle EXCEPT !.replace = task[p].replace])
       \/ /\ task[p].error = "identity" /\ ~task[p].failures /\ ~task[p].replace
          /\ to(p, [Idle EXCEPT !.replace = TRUE])
    /\ UNCHANGED <<disk, dir, stamps, bounds, text, before, edited>>

\* The process dies; SQLite gives up its lock.
crash(p) ==
    /\ lock = p /\ fault
    /\ lock' = None /\ to(p, [Idle EXCEPT !.pc = "crashed"])
    /\ UNCHANGED <<disk, dir, stamps, text, before, edited>>

Next ==
    \/ \E f \in Files : edit(f) \/ create(f) \/ delete(f)
    \/ changeDirectory
    \/ \E p \in Setups :
        \/ acquire(p) \/ lockTimesOut(p) \/ planFile(p) \/ initializeDatabase(p)
        \/ preparePlannedDirectories(p) \/ assertPlannedFiles(p) \/ readLatest(p) \/ replaceFile(p)
        \/ checkInstalled(p) \/ restoreFile(p) \/ removeCreatedDirectories(p) \/ release(p) \/ crash(p)

Spec == Init /\ [][Next]_vars

------------------------------------------------------------------------------
sameContent(a, b) == IF a = None \/ b = None THEN a = b ELSE a.human = b.human /\ a.managed = b.managed

(* Setup is all or nothing: when it ends well every file is its own unless *)
(* the user changed it after the last look; when it ends with an error and *)
(* without a failed restoration every file the user left alone has the     *)
(* managed region it had before, and no directory of its making is left.   *)
(* The text of the user is in the configuration throughout, whoever fails  *)
(* or dies in between.                                                     *)
SetupIsAllOrNothing ==
    /\ \A p \in Setups : task[p].pc = "release" /\ task[p].error = None =>
          \A f \in Files \ edited : disk[f] # None /\ disk[f].managed = p
    /\ \A p \in Setups : task[p].pc = "release" /\ task[p].error # None /\ ~task[p].failures =>
          /\ \A f \in Files \ edited : sameContent(disk[f], before[f])
          /\ ~task[p].made
    /\ IF disk["config"] = None THEN text["config"] = 0 ELSE disk["config"].human = text["config"]
==============================================================================
