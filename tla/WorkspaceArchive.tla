--------------------------- MODULE WorkspaceArchive ---------------------------
(***************************************************************************)
(* Export of a workspace into a file, and import of the file into the same *)
(* database, while entries are recorded, edited, superseded and purged and *)
(* the user moves or damages the file.                                     *)
(*                                                                         *)
(* The rows of entries are those of MemoryEntries, with the links between  *)
(* entries and the audit events of purges beside them; the other audit     *)
(* events come and go with their entry.  An archive is stamped with the    *)
(* identity of its file; the text of an archive is what it says, or is     *)
(* damaged.                                                                *)
(***************************************************************************)
EXTENDS MemoryEntries

CONSTANTS
    MaxExports      \* bound: archives written

VARIABLES
    links,          \* rows of entry_links, [from, to]
    purges,         \* audit events of purges, [workspace, entry]
    archive,        \* the file, None when absent
    exports,        \* identities given to the file so far
    importer,       \* the import command
    whole           \* history: the last import left all of its archive in the database

vars == <<entryVars, links, purges, archive, exports, importer, whole>>
archiveVars == <<archive, exports, importer, whole>>

Idle == [pc |-> "idle", file |-> None, told |-> None]

ArchiveInit ==
    /\ Init /\ links = {} /\ purges = {}
    /\ archive = None /\ exports = 0 /\ importer = Idle /\ whole = TRUE

------------------------------------------------------------------------------
(* Entries, with their links.                                              *)

\* The operations of MemoryEntries that leave links and archives alone.
besides == UNCHANGED <<links, purges>> /\ UNCHANGED archiveVars

record(e, content) == recordEntry(e, content) /\ besides
look(c, e) == readEntry(c, e) /\ besides
edit(c, content) == updateCandidateEntry(c, content) /\ besides
promote(c) == promoteEntry(c) /\ besides
supersede(c, replacement) == supersedeEntry(c, replacement) /\ besides

linkEntries(from, to) ==
    /\ exists(from) /\ exists(to) /\ from # to /\ entries[from].workspace = entries[to].workspace
    /\ [from |-> from, to |-> to] \notin links
    /\ links' = links \cup {[from |-> from, to |-> to]}
    /\ UNCHANGED <<entryVars, purges>> /\ UNCHANGED archiveVars

\* The links and the audit events of the entry go with it, and the event of
\* the purge stays.
purge(e) ==
    /\ purgeEntry(e)
    /\ links' = {l \in links : e \notin {l.from, l.to}}
    /\ purges' = purges \cup {[workspace |-> entries[e].workspace, entry |-> e]}
    /\ UNCHANGED archiveVars

------------------------------------------------------------------------------
(* Export.                                                                 *)

members(ws) == {e \in Ids : exists(e) /\ entries[e].workspace = ws}

\* validateExportSupersession: the replacements are in the archive.
closed(E) == \A e \in E : entries[e].supersededBy \in E \cup {None}

\* exportWorkspaceInSnapshot: one read transaction.  A second revision cannot
\* be represented.
exportable(ws) == closed(members(ws)) /\ \A e \in members(ws) : revision(e) = 1

snapshot(ws) ==
    [id |-> exports + 1, intact |-> TRUE,
     rows |-> [e \in members(ws) |-> entries[e]],
     links |-> {l \in links : l.from \in members(ws)},
     purges |-> {p \in purges : p.workspace = ws}]

\* writeExport never overwrites a file.
writeExport(ws) ==
    /\ archive = None /\ exportable(ws) /\ exports < MaxExports
    /\ archive' = snapshot(ws) /\ exports' = exports + 1
    /\ UNCHANGED <<entryVars, links, purges, importer, whole>>

\* The user removes the file, or something else writes into it.
changeArchive ==
    /\ archive # None
    /\ \/ archive' = None
       \/ archive' = [archive EXCEPT !.intact = FALSE, !.id = 0]
    /\ UNCHANGED <<entryVars, links, purges, exports, importer, whole>>

------------------------------------------------------------------------------
(* Import.                                                                 *)

ends(told) == importer' = [Idle EXCEPT !.told = told]

\* readBoundedArchive binds the file and reads it ...
readBoundedArchive ==
    /\ importer.pc = "idle" /\ archive # None
    /\ importer' = [pc |-> "reading", file |-> archive, told |-> None]
    /\ UNCHANGED <<entryVars, links, purges, archive, exports, whole>>

isSameArchiveFileState == archive # None /\ archive.id = importer.file.id

\* ... and looks whether it is still the same; parseImport compares the
\* checksum and takes the records apart.
parseImport ==
    /\ importer.pc = "reading"
    /\ IF ~isSameArchiveFileState THEN ends("changed")
       ELSE IF ~importer.file.intact THEN ends("invalid")
       ELSE importer' = [importer EXCEPT !.pc = "parsed"]
    /\ UNCHANGED <<entryVars, links, purges, archive, exports, whole>>

\* importedEntry: what a row of the archive is in the workspace it goes to.
importedEntry(e, ws) == [importer.file.rows[e] EXCEPT !.workspace = ws]

\* Slip: a row with the id and the content is taken for the archived one.
sameContentOnly(e, row) == entries[e].workspace = row.workspace /\ current(e) = row.history[1]

\* The row that has the id already is the archived one in everything.
entryMatchesArchive(e, row) == entries[e] = row

\* planEntryImport: an entry is there as archived, or its id and its content
\* are new to the workspace.
plannedEntry(e, ws) ==
    LET row == importedEntry(e, ws) IN
    IF exists(e) THEN entryMatchesArchive(e, row) ELSE semanticRevision(ws, row.history[1]) = {}

\* planRelatedImport: an audit event that exists belongs to the workspace.
\* A link made again by somebody else, a conflict too, is left out.
plannedAudit(event, ws) == event \in purges => event.workspace = ws

plan(ws) ==
    /\ \A e \in DOMAIN importer.file.rows : plannedEntry(e, ws)
    /\ \A p \in importer.file.purges : plannedAudit(p, ws)

\* importWorkspace: planned and written in one transaction, or only planned.
importWorkspace(ws) ==
    LET new == {e \in DOMAIN importer.file.rows : ~exists(e)} IN
    /\ importer.pc = "parsed" /\ plan(ws)
    /\ entries' = [e \in Ids |-> IF e \in new THEN importedEntry(e, ws) ELSE entries[e]]
    /\ links' = links \cup importer.file.links
    /\ purges' = purges \cup {[p EXCEPT !.workspace = ws] : p \in importer.file.purges}
    /\ whole' = \A e \in DOMAIN importer.file.rows : entries'[e] = importedEntry(e, ws)
    /\ ends("imported")
    /\ UNCHANGED <<referenced, read, archive, exports>>

dryRun(ws) ==
    /\ importer.pc = "parsed" /\ ends(IF plan(ws) THEN "planned" ELSE "conflict")
    /\ UNCHANGED <<entryVars, links, purges, archive, exports, whole>>

Workspaces == {"project", "other"}

ArchiveNext ==
    \/ \E e \in Ids : purge(e) \/ (\E content \in Contents : record(e, content)) \/ (\E to \in Ids : linkEntries(e, to))
    \/ \E c \in Clients :
        \/ promote(c)
        \/ \E e \in Ids : look(c, e) \/ supersede(c, e)
        \/ \E content \in Contents : edit(c, content)
    \/ \E ws \in Workspaces : writeExport(ws) \/ importWorkspace(ws) \/ dryRun(ws)
    \/ changeArchive \/ readBoundedArchive \/ parseImport

ArchiveSpec == ArchiveInit /\ [][ArchiveNext]_vars

------------------------------------------------------------------------------
(* Whatever was recorded, edited, superseded and purged between an export  *)
(* and an import: an import that succeeded left every entry of its archive *)
(* as archived, a content has one owner in its workspace, links join       *)
(* entries of one workspace, and chains of replacements still end at a     *)
(* current entry of the workspace they began in.                           *)
ImportKeepsOrder ==
    /\ importer.told = "imported" => whole
    /\ \A e \in Ids : exists(e) =>
          \A i \in 1..revision(e) : semanticRevision(entries[e].workspace, entries[e].history[i]) = {e}
    /\ \A l \in links : exists(l.from) /\ exists(l.to) /\ entries[l.from].workspace = entries[l.to].workspace
    /\ \A e \in Ids : superseded(e) =>
          exists(entries[e].supersededBy) /\ entries[entries[e].supersededBy].workspace = entries[e].workspace
    /\ ChainsEndLive
==============================================================================
