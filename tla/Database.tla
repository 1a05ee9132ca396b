------------------------------- MODULE Database -------------------------------
(***************************************************************************)
(* The database as the program sees it: migrations by binaries of several  *)
(* versions that open it at the same time, write transactions with their   *)
(* bounded retry and uncertain commits, and the backup of the open         *)
(* database into a new file.                                               *)
(*                                                                         *)
(* SQLite is one writer and committed states; a state is how often each    *)
(* migration ran and whose write is in it.  The user moves files and       *)
(* directories about while a backup is made.                               *)
(***************************************************************************)
EXTENDS Naturals, FiniteSets

CONSTANTS
    Processes,
    Binary,         \* process -> the last migration its binary knows
    None,
    Newest,         \* the last migration there is
    AttemptLimit,   \* LOCK_ATTEMPT_LIMIT
    MaxFaults,      \* bound: failing statements, commits, writers and crashes
    MaxMoves        \* bound: changes by the user to the files of a backup

VARIABLES
    committed,  \* [ran |-> migration -> how often it ran, writes |-> whose write is in]
    writer,     \* the process that has begun a transaction, or None
    draft,      \* what its transaction makes of the committed state
    proc,       \* process -> the call it is in
    output,     \* the backup file, None when absent
    folder,     \* identity of the directory of the backup
    backup,     \* the backup command
    bounds,     \* uses of the bounded actions
    seen,       \* history: the committed states since the backup began
    mine        \* history: the user keeps a file at the destination

vars == <<committed, writer, draft, proc, output, folder, backup, bounds, seen, mine>>
backupVars == <<output, folder, backup, mine>>

\* loadMigrationSnapshot: an exact contiguous sequence that starts at 1.
Versions == 1 .. Newest

Call(job, pc) == [job |-> job, pc |-> pc, attempt |-> 1, told |-> None]

UserFile == [of |-> "user", image |-> None, whole |-> TRUE]
NoBackup == [pc |-> "idle", image |-> None, folder |-> 0, told |-> None]

Init ==
    /\ \E version \in 0 .. Newest : committed = [ran |-> [v \in Versions |-> IF v <= version THEN 1 ELSE 0], writes |-> {}]
    /\ writer = None /\ draft = committed
    /\ proc = [p \in Processes |-> Call("migration", "inspect")]
    /\ output \in {None, UserFile} /\ mine = (output = UserFile) /\ folder = 1 /\ backup = NoBackup
    /\ bounds = [faults |-> 0, moves |-> 0] /\ seen = {}

fault == bounds.faults < MaxFaults /\ bounds' = [bounds EXCEPT !.faults = @ + 1]

to(p, call) == proc' = [proc EXCEPT ![p] = call]

ended(p, told) == [proc[p] EXCEPT !.pc = "ended", !.told = told]

------------------------------------------------------------------------------
(* Migrations.                                                             *)

\* migrationPlan: the history is a prefix of the migrations; one that is
\* longer than what the binary knows is an error.
databaseVersion(state) == Cardinality({v \in Versions : state.ran[v] > 0})

supported(p, state) == databaseVersion(state) <= Binary[p]

\* initializeDatabase makes the plan before it has the lock, and writes
\* nothing when the database is current.
inspectMigrationSnapshot(p) ==
    /\ proc[p].pc = "inspect"
    /\ to(p, IF ~supported(p, committed) THEN ended(p, "newer")
             ELSE IF databaseVersion(committed) = Binary[p] THEN Call("write", "begin")
             ELSE Call("migration", "begin"))
    /\ UNCHANGED <<committed, writer, draft, bounds, seen>> /\ UNCHANGED backupVars

\* The plan is made a last time after the migration.
inspectFinalPlan(p) ==
    /\ proc[p].pc = "verify"
    /\ to(p, IF databaseVersion(committed) = Binary[p] THEN Call("write", "begin") ELSE ended(p, "newer"))
    /\ UNCHANGED <<committed, writer, draft, bounds, seen>> /\ UNCHANGED backupVars

------------------------------------------------------------------------------
(* Transactions.                                                           *)

\* withSqliteLockRetry: a busy database is tried again up to the limit.
retried(p) ==
    IF proc[p].attempt >= AttemptLimit THEN ended(p, "backpressure")
    ELSE [proc[p] EXCEPT !.attempt = @ + 1, !.pc = "begin"]

\* BEGIN IMMEDIATE, of the migration or of a write.
begin(p) ==
    /\ proc[p].pc = "begin"
    /\ \/ writer = None /\ writer' = p /\ draft' = committed /\ to(p, [proc[p] EXCEPT !.pc = "run"])
       \/ writer # None /\ to(p, retried(p)) /\ UNCHANGED <<writer, draft>>
    /\ UNCHANGED <<committed, bounds, seen>> /\ UNCHANGED backupVars

rollback == writer' = None /\ draft' = committed

\* Slip: what the plan before the lock found missing is carried out.
dueAsPlanned(p, v) == v <= Binary[p]

\* applyOneInTransaction looks again under the lock.
due(p, v) == v <= Binary[p] /\ draft.ran[v] = 0

\* applyMigrationSetInTransaction runs the missing migrations, in order.
migrateDatabaseSnapshotInTransaction(p) ==
    [draft EXCEPT !.ran = [v \in Versions |-> IF due(p, v) THEN @[v] + 1 ELSE @[v]]]

\* The operation of the transaction; when it throws, ROLLBACK follows, and a
\* lock error is tried again.
operation(p) ==
    LET job == proc[p].job IN
    /\ proc[p].pc = "run"
    /\ \/ /\ job = "migration" => supported(p, draft)
          /\ draft' = IF job = "migration" THEN migrateDatabaseSnapshotInTransaction(p) ELSE [draft EXCEPT !.writes = @ \cup {p}]
          /\ to(p, [proc[p] EXCEPT !.pc = "commit"]) /\ UNCHANGED <<writer, bounds>>
       \/ /\ job = "migration" /\ ~supported(p, draft)
          /\ rollback /\ to(p, ended(p, "newer")) /\ UNCHANGED bounds
       \/ fault /\ rollback /\ \E call \in {ended(p, "failed"), retried(p)} : to(p, call)
    /\ UNCHANGED <<committed, seen>> /\ UNCHANGED backupVars

commits(state) == committed' = state /\ seen' = IF backup.pc = "idle" THEN seen ELSE seen \cup {state}

commit(p) ==
    /\ proc[p].pc = "commit"
    /\ commits(draft) /\ writer' = None
    /\ to(p, IF proc[p].job = "migration" THEN Call("migration", "verify") ELSE ended(p, "ok"))
    /\ UNCHANGED <<draft, bounds>> /\ UNCHANGED backupVars

\* Slip: the caller is told of a failure like any other.
uncertainAsFailure(p) == ended(p, "failed")

\* TransactionCommitUncertainError: COMMIT and ROLLBACK both failed, and no
\* attempt follows.
uncertain(p) == ended(p, "uncertain")

\* commitOrRollback: COMMIT fails and is rolled back, and tried again if the
\* database was only busy; or ROLLBACK fails as well.
commitFails(p) ==
    /\ proc[p].pc = "commit" /\ fault
    /\ \/ /\ rollback /\ UNCHANGED <<committed, seen>>
          /\ \E call \in {ended(p, "failed"), retried(p)} : to(p, call)
       \/ /\ \E state \in {committed, draft} : commits(state) /\ draft' = state
          /\ writer' = None /\ to(p, uncertain(p))
    /\ UNCHANGED backupVars

crash(p) ==
    /\ proc[p].pc # "ended" /\ fault
    /\ to(p, ended(p, "crashed"))
    /\ IF writer = p THEN rollback ELSE UNCHANGED <<writer, draft>>
    /\ UNCHANGED <<committed, seen>> /\ UNCHANGED backupVars

------------------------------------------------------------------------------
(* The backup.                                                             *)

database == <<committed, writer, draft, proc, mine>>

step(change) == backup' = change

stops(told) == step([backup EXCEPT !.pc = "ended", !.told = told])

\* createSerializedBackupArtifact: the destination must be absent.
requireAbsentDestination ==
    /\ backup.pc = "idle"
    /\ IF output # None THEN stops("exists") ELSE step([backup EXCEPT !.pc = "serialize"])
    /\ seen' = {committed}
    /\ UNCHANGED <<output, folder, bounds>> /\ UNCHANGED database

\* normalizedSerializedSnapshot: the committed state, checked in memory.
normalizedSerializedSnapshot ==
    /\ backup.pc = "serialize"
    /\ \/ step([backup EXCEPT !.pc = "bind", !.image = committed]) /\ UNCHANGED bounds
       \/ fault /\ stops("integrity")
    /\ UNCHANGED <<output, folder, seen>> /\ UNCHANGED database

bindExistingOutputDirectory ==
    /\ backup.pc = "bind"
    /\ step([backup EXCEPT !.pc = "write", !.folder = folder])
    /\ UNCHANGED <<output, folder, bounds, seen>> /\ UNCHANGED database

inFolder == folder = backup.folder

\* Slip: the file is opened whatever is there.
creatableAnyway == TRUE

\* O_CREAT with O_EXCL.
creatable == output = None

\* The child creates the file, which must still be absent ...
openArtifact ==
    /\ backup.pc = "write"
    /\ \/ ~inFolder /\ stops("conflict") /\ UNCHANGED output
       \/ inFolder /\ ~creatable /\ stops("exists") /\ UNCHANGED output
       \/ /\ inFolder /\ creatable
          /\ output' = [of |-> "backup", image |-> backup.image, whole |-> FALSE]
          /\ step([backup EXCEPT !.pc = "fill"])
    /\ UNCHANGED <<folder, bounds, seen>> /\ UNCHANGED database

own == output # None /\ output.of = "backup"

\* ... fills it through its descriptor and looks at it by its name in its own
\* working directory, which it keeps when the directory is moved.
fillArtifact ==
    /\ backup.pc = "fill"
    /\ output' = IF own THEN [output EXCEPT !.whole = TRUE] ELSE output
    /\ IF own \/ ~inFolder THEN step([backup EXCEPT !.pc = "verify"]) ELSE stops("conflict")
    /\ UNCHANGED <<folder, bounds, seen>> /\ UNCHANGED database

\* writeBoundArtifact: the child fails or is stopped at its deadline, and
\* leaves what there is.
writerFails ==
    /\ backup.pc \in {"write", "fill"} /\ fault /\ stops("writer")
    /\ UNCHANGED <<output, folder, seen>> /\ UNCHANGED database

\* requireBoundArtifact and requireBackupDirectory, by the parent.
requireBoundArtifact ==
    /\ backup.pc = "verify"
    /\ stops(IF own /\ output.whole /\ output.image = backup.image /\ inFolder THEN "ok" ELSE "conflict")
    /\ UNCHANGED <<output, folder, bounds, seen>> /\ UNCHANGED database

\* The user deletes or replaces the file, or the directory.
userMoves ==
    /\ bounds.moves < MaxMoves /\ bounds' = [bounds EXCEPT !.moves = @ + 1]
    /\ \/ output' \in {None, UserFile} \ {output} /\ UNCHANGED folder
       \/ folder' = folder + 1 /\ output' = None
    /\ mine' = (output' = UserFile)
    /\ UNCHANGED <<committed, writer, draft, proc, backup, seen>>

Next ==
    \/ \E p \in Processes :
        \/ inspectMigrationSnapshot(p) \/ inspectFinalPlan(p) \/ begin(p) \/ operation(p)
        \/ commit(p) \/ commitFails(p) \/ crash(p)
    \/ requireAbsentDestination \/ normalizedSerializedSnapshot \/ bindExistingOutputDirectory
    \/ openArtifact \/ fillArtifact \/ writerFails \/ requireBoundArtifact \/ userMoves

Spec == Init /\ [][Next]_vars

------------------------------------------------------------------------------
(* Nobody is told a falsehood: a write that ended well is in the database, *)
(* one that failed is not, and only the uncertain may be either.  Every    *)
(* migration ran at most once and in order, whoever raced for it.  A       *)
(* backup that was reported is a state that was committed while it was     *)
(* made, and a file of the user is never overwritten.                      *)
DatabaseIsAsTold ==
    /\ \A p \in Processes : proc[p].pc = "ended" =>
          /\ proc[p].told = "ok" => p \in committed.writes
          /\ proc[p].told \in {"failed", "backpressure", "newer", "crashed"} => p \notin committed.writes
    /\ \A v \in Versions : committed.ran[v] <= 1 /\ (v > 1 /\ committed.ran[v] = 1 => committed.ran[v - 1] = 1)
    /\ backup.told = "ok" => backup.image \in seen
    /\ mine => output = UserFile
==============================================================================
