--------------------------- MODULE MCInstallation ----------------------------
(***************************************************************************)
(* What an installation has to keep in order while it is set up and in     *)
(* use, for TLC: the embedding projection, the cache of query vectors, the *)
(* files of `setup`, the identity that `use` gives a repository, and the   *)
(* database.  They share no state here, so each behaviour is one of them.  *)
(***************************************************************************)
EXTENDS EmbeddingProjection

CONSTANTS Foreign, SetupCommands, Uses, Shared, Local, MaxEdits, MaxFaults,
    OldBinary, NewBinary, Newest, AttemptLimit, MaxMoves,
    Queries, QueryRuntimes, QueryCalls, CacheLimit, MaxSwitches

\* A file as setup reads and writes it, and what it makes of one.
SetupFile == [human : Nat, managed : {None, Foreign, "earlier"} \cup SetupCommands, stamp : Nat]
SetupRegion == [human : Nat, managed : {None, Foreign, "earlier"} \cup SetupCommands]

\* There is a profile to search under, a cache that may hold nothing, and None
\* is no process, no answer, no file and no record.
ASSUME InstallationAssumption ==
  /\ Profiles # {} /\ CacheLimit \in Nat /\ Newest \in Nat
  /\ None \notin {OldBinary, NewBinary, "ok"}
  /\ None # [of |-> "user", image |-> None, whole |-> TRUE]
  /\ None \notin SetupFile \cup SetupRegion \cup SetupCommands
  /\ None \notin {"busy", "identity", "conflict", "database", "ask", "io"}
  /\ None \notin [profile : Profiles, generation : Nat, state : {"open", "closing", "closed"}]
  /\ None \notin [runtime : QueryRuntimes, query : Queries, key : Queries, owner : BOOLEAN,
                  result : {None} \cup [vector : {None} \cup Profiles \X Queries]]

VARIABLES scenario,
    disk, dir, project, root, resolver, stamps, lock, task, bounds, text, before, edited, late,
    committed, writer, draft, call, output, folder, backup, seen, mine,
    profile, era, cache, runtime, flights, query, faults

Plain == [id |-> None, force |-> FALSE, agent |-> None, skip |-> FALSE, ignore |-> FALSE,
          must |-> FALSE, refresh |-> FALSE, recreate |-> None]

UseRequests ==
  {Plain, [Plain EXCEPT !.agent = "other", !.force = TRUE, !.id = "new"],
   [Plain EXCEPT !.refresh = TRUE, !.ignore = TRUE, !.must = TRUE, !.skip = TRUE]}

Binaries == [p \in {OldBinary, NewBinary} |-> IF p = OldBinary THEN Newest - 1 ELSE Newest]

\* One set of variables serves both commands, which do not run together here.
Files == INSTANCE SetupFiles WITH Setups <- SetupCommands
Use == INSTANCE UseRepository WITH Requests <- UseRequests
Data == INSTANCE Database WITH Processes <- {OldBinary, NewBinary}, Binary <- Binaries, proc <- call
Cached == INSTANCE QueryCache WITH Runtimes <- QueryRuntimes, Calls <- QueryCalls, MaxGeneration <- MaxSwitches,
    active <- profile, generation <- era, call <- query

projectVars == <<project, root, resolver, late>>
fileVars == <<disk, stamps, lock, task, text, before, edited>>
dataVars == <<committed, writer, draft, call, output, folder, backup, seen, mine>>
queryVars == <<profile, era, cache, runtime, flights, query, faults>>
all == <<scenario, vars, dir, projectVars, fileVars, dataVars, bounds, queryVars>>

NoFiles ==
  /\ disk = None /\ stamps = None /\ lock = None /\ task = None
  /\ text = None /\ before = None /\ edited = None

NoProject == project = None /\ root = None /\ resolver = None /\ late = None

NoData ==
  /\ committed = None /\ writer = None /\ draft = None /\ call = None /\ output = None
  /\ folder = None /\ backup = None /\ seen = None /\ mine = None

NoQueries ==
  /\ profile = None /\ era = None /\ cache = None /\ runtime = None
  /\ flights = None /\ query = None /\ faults = None

\* What does not run has no state, except for the projection.
AllInit ==
  /\ Init
  /\ \/ scenario = "projection" /\ NoFiles /\ NoProject /\ NoData /\ dir = None /\ bounds = None /\ NoQueries
     \/ scenario = "setup" /\ Files!Init /\ NoProject /\ NoData /\ NoQueries
     \/ scenario = "use" /\ Use!Init /\ NoData /\ dir = None /\ NoQueries
     \/ scenario = "database" /\ Data!Init /\ NoFiles /\ NoProject /\ dir = None /\ NoQueries
     \/ scenario = "queries" /\ Cached!Init /\ NoFiles /\ NoProject /\ NoData /\ dir = None /\ bounds = None

InProjection == scenario = "projection"
InSetup == scenario = "setup"
InUse == scenario = "use"
InData == scenario = "database"
InQueries == scenario = "queries"

OnlyProjection == UNCHANGED <<scenario, dir, projectVars, fileVars, dataVars, bounds, queryVars>>
OnlySetup == UNCHANGED <<scenario, vars, projectVars, dataVars, queryVars>>
OnlyUse == UNCHANGED <<scenario, vars, dir, dataVars, queryVars>>
OnlyData == UNCHANGED <<scenario, vars, dir, projectVars, fileVars, queryVars>>
OnlyQueries == UNCHANGED <<scenario, vars, dir, projectVars, fileVars, dataVars, bounds>>

AllNext ==
  \/ \E e \in Entries, d \in Docs : InProjection /\ recordEntry(e, d) /\ OnlyProjection
  \/ \E e \in Entries, d \in Docs : InProjection /\ updateCandidateEntry(e, d) /\ OnlyProjection
  \/ \E e \in Entries : InProjection /\ purgeEntry(e) /\ OnlyProjection
  \/ \E p \in Profiles : InProjection /\ activateLocalEmbeddingProfile(p) /\ OnlyProjection
  \/ InProjection /\ rebuild /\ OnlyProjection
  \/ InProjection /\ Tick /\ OnlyProjection
  \/ \E s \in Setups, p \in Profiles : InProjection /\ runEmbeddingSetup(s, p) /\ OnlyProjection
  \/ \E r \in Procs : InProjection /\ openRuntime(r) /\ OnlyProjection
  \/ \E r \in Procs : InProjection /\ ensureActive(r) /\ OnlyProjection
  \/ \E r \in Procs : InProjection /\ claimEmbeddingJobs(r) /\ OnlyProjection
  \/ \E r \in Procs : InProjection /\ embedBatch(r) /\ OnlyProjection
  \/ \E r \in Procs : InProjection /\ drainEnds(r) /\ OnlyProjection
  \/ \E r \in Runtimes \ Reliable : InProjection /\ deadlinePasses(r) /\ OnlyProjection
  \/ \E r \in Procs : InProjection /\ goesDown(r) /\ OnlyProjection
  \/ \E r \in Procs : \E c \in proc[r].todo : InProjection /\ readJob(r, c) /\ OnlyProjection
  \/ \E r \in Procs : \E c \in proc[r].todo : InProjection /\ finalizeEmbeddingJob(r, c) /\ OnlyProjection
  \/ \E r \in Procs : \E c \in proc[r].todo : InProjection /\ failEmbeddingJob(r, c) /\ OnlyProjection
  \/ \E f \in Files!Files : InSetup /\ Files!edit(f) /\ OnlySetup
  \/ \E f \in Files!Files : InSetup /\ Files!create(f) /\ OnlySetup
  \/ \E f \in Files!Files : InSetup /\ Files!delete(f) /\ OnlySetup
  \/ InSetup /\ Files!changeDirectory /\ OnlySetup
  \/ \E p \in SetupCommands : InSetup /\ Files!acquire(p) /\ OnlySetup
  \/ \E p \in SetupCommands : InSetup /\ Files!lockTimesOut(p) /\ OnlySetup
  \/ \E p \in SetupCommands : InSetup /\ Files!planFile(p) /\ OnlySetup
  \/ \E p \in SetupCommands : InSetup /\ Files!initializeDatabase(p) /\ OnlySetup
  \/ \E p \in SetupCommands : InSetup /\ Files!preparePlannedDirectories(p) /\ OnlySetup
  \/ \E p \in SetupCommands : InSetup /\ Files!assertPlannedFiles(p) /\ OnlySetup
  \/ \E p \in SetupCommands : InSetup /\ Files!readLatest(p) /\ OnlySetup
  \/ \E p \in SetupCommands : InSetup /\ Files!replaceFile(p) /\ OnlySetup
  \/ \E p \in SetupCommands : InSetup /\ Files!checkInstalled(p) /\ OnlySetup
  \/ \E p \in SetupCommands : InSetup /\ Files!restoreFile(p) /\ OnlySetup
  \/ \E p \in SetupCommands : InSetup /\ Files!removeCreatedDirectories(p) /\ OnlySetup
  \/ \E p \in SetupCommands : InSetup /\ Files!release(p) /\ OnlySetup
  \/ \E p \in SetupCommands : InSetup /\ Files!crash(p) /\ OnlySetup
  \/ \E f \in Use!Files : InUse /\ Use!editText(f) /\ OnlyUse
  \/ \E f \in Use!Files : InUse /\ Use!createFile(f) /\ OnlyUse
  \/ \E f \in Use!Files : InUse /\ Use!deleteFile(f) /\ OnlyUse
  \/ InUse /\ Use!bindByHand /\ OnlyUse
  \/ InUse /\ Use!resolveProjectWorkspace /\ OnlyUse
  \/ InUse /\ Use!registerResolved /\ OnlyUse
  \/ \E p \in Uses : InUse /\ Use!useRepository(p) /\ OnlyUse
  \/ \E p \in Uses : InUse /\ Use!refreshRegisteredProject(p) /\ OnlyUse
  \/ \E p \in Uses : InUse /\ Use!planBinding(p) /\ OnlyUse
  \/ \E p \in Uses : InUse /\ Use!planAgent(p) /\ OnlyUse
  \/ \E p \in Uses : InUse /\ Use!planRest(p) /\ OnlyUse
  \/ \E p \in Uses : InUse /\ Use!initializeDatabase(p) /\ OnlyUse
  \/ \E p \in Uses : InUse /\ Use!writeBinding(p) /\ OnlyUse
  \/ \E p \in Uses : InUse /\ Use!writeGitignore(p) /\ OnlyUse
  \/ \E p \in Uses : InUse /\ Use!readAgent(p) /\ OnlyUse
  \/ \E p \in Uses : InUse /\ Use!writeAgent(p) /\ OnlyUse
  \/ \E p \in Uses : InUse /\ Use!readPrevious(p) /\ OnlyUse
  \/ \E p \in Uses : InUse /\ Use!removePreviousBlock(p) /\ OnlyUse
  \/ \E p \in Uses : InUse /\ Use!checkFiles(p) /\ OnlyUse
  \/ \E p \in Uses : InUse /\ Use!registerRepositoryAndLocation(p) /\ OnlyUse
  \/ \E p \in Uses : InUse /\ Use!restoreInstalledWrites(p) /\ OnlyUse
  \/ \E p \in Uses : InUse /\ Use!endRestoration(p) /\ OnlyUse
  \/ \E p \in Uses : InUse /\ Use!release(p) /\ OnlyUse
  \/ \E p \in Uses : InUse /\ Use!crash(p) /\ OnlyUse
  \/ \E p \in {OldBinary, NewBinary} : InData /\ Data!inspectMigrationSnapshot(p) /\ OnlyData
  \/ \E p \in {OldBinary, NewBinary} : InData /\ Data!inspectFinalPlan(p) /\ OnlyData
  \/ \E p \in {OldBinary, NewBinary} : InData /\ Data!begin(p) /\ OnlyData
  \/ \E p \in {OldBinary, NewBinary} : InData /\ Data!operation(p) /\ OnlyData
  \/ \E p \in {OldBinary, NewBinary} : InData /\ Data!commit(p) /\ OnlyData
  \/ \E p \in {OldBinary, NewBinary} : InData /\ Data!commitFails(p) /\ OnlyData
  \/ \E p \in {OldBinary, NewBinary} : InData /\ Data!crash(p) /\ OnlyData
  \/ InData /\ Data!requireAbsentDestination /\ OnlyData
  \/ InData /\ Data!normalizedSerializedSnapshot /\ OnlyData
  \/ InData /\ Data!bindExistingOutputDirectory /\ OnlyData
  \/ InData /\ Data!openArtifact /\ OnlyData
  \/ InData /\ Data!fillArtifact /\ OnlyData
  \/ InData /\ Data!writerFails /\ OnlyData
  \/ InData /\ Data!requireBoundArtifact /\ OnlyData
  \/ InData /\ Data!userMoves /\ OnlyData
  \/ \E p \in Profiles : InQueries /\ Cached!activate(p) /\ OnlyQueries
  \/ \E r \in QueryRuntimes : InQueries /\ Cached!createEnabledRuntime(r) /\ OnlyQueries
  \/ \E r \in QueryRuntimes, c \in QueryCalls, q \in Queries : InQueries /\ Cached!answerCached(c, r, q) /\ OnlyQueries
  \/ \E r \in QueryRuntimes, c \in QueryCalls, q \in Queries : InQueries /\ Cached!prepareQuery(c, r, q) /\ OnlyQueries
  \/ \E r \in QueryRuntimes, k \in Queries, ok \in BOOLEAN : InQueries /\ Cached!providerAnswers(r, k, ok) /\ OnlyQueries
  \/ \E r \in QueryRuntimes, k \in Queries : InQueries /\ Cached!writeQueryEmbedding(r, k) /\ OnlyQueries
  \/ \E c \in QueryCalls : InQueries /\ Cached!afterFlight(c) /\ OnlyQueries
  \/ \E r \in QueryRuntimes : InQueries /\ Cached!close(r) /\ OnlyQueries
  \/ \E r \in QueryRuntimes : InQueries /\ Cached!closeProvider(r) /\ OnlyQueries

InstallationSpec == AllInit /\ [][AllNext]_all

-----------------------------------------------------------------------------
\* No entry drops out of the projection, and what a search is given is the
\* vector of its query under the active profile, whatever runtimes were
\* overtaken (EmbeddingProjection, QueryCache).
EmbeddingsAreCurrent == ProjectionCovered /\ (scenario = "queries" => Cached!QueriesFollowProfile)

\* The files of a setup are changed together or not at all, and the text of
\* the user is kept whatever fails (applyManagedFiles and its rollback).
SetupIsAllOrNothing == scenario = "setup" => Files!SetupIsAllOrNothing

\* The binding, the registry and the agent file name one identity when `use`
\* ends well, and what they named before when it fails.
UseKeepsOneIdentity == scenario = "use" => Use!UseKeepsOneIdentity

\* Writes, migrations and backups are what their callers were told.
DatabaseIsAsTold == scenario = "database" => Data!DatabaseIsAsTold
=============================================================================
