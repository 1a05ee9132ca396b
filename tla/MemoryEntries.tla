---------------------------- MODULE MemoryEntries ----------------------------
(***************************************************************************)
(* Memory entries of a project and of the global workspace: recording,     *)
(* editing, promotion, supersession, links to deliveries, purge, and the   *)
(* curator that copies a project entry into the global workspace.          *)
(*                                                                         *)
(* Every operation is one transaction.  A client acts on what it has read  *)
(* earlier: the expected revision is the one it read.  Ids are never       *)
(* reused.  A content stands for everything the content hash covers.  A    *)
(* global copy of an entry has the content <<id, revision>> of its source; *)
(* the time in its provenance is the id of the copy.  Managed entries of   *)
(* external skills are in SkillStore.                                      *)
(***************************************************************************)
EXTENDS Naturals, Sequences

CONSTANTS
    Ids,            \* identities of entries
    Contents,       \* contents a client can write
    Clients,
    None, Purged,
    MaxRevision     \* bound on the revisions of an entry

VARIABLES
    entries,        \* entries[e]: the row with its revisions, None or Purged
    referenced,     \* entries a delivery, a feedback or a ledger link names
    read            \* read[c]: the entry client c has read, as it was then

entryVars == <<entries, referenced, read>>

Init ==
    /\ entries = [e \in Ids |-> None]
    /\ referenced = {}
    /\ read = [c \in Clients |-> None]

------------------------------------------------------------------------------

exists(e) == entries[e] \notin {None, Purged}
revision(e) == Len(entries[e].history)
current(e) == entries[e].history[revision(e)]

\* semanticRevision: an entry of the workspace that has or had this content.
semanticRevision(ws, content) ==
    {e \in Ids : exists(e) /\ entries[e].workspace = ws /\ \E i \in 1..revision(e) : entries[e].history[i] = content}

\* A content that is current in the entry is answered with the entry, one
\* that is only historical, or current with other metadata, is a conflict.
inserted(e, ws, content, status, source) ==
    [entries EXCEPT ![e] = [workspace |-> ws, status |-> status, history |-> <<content>>,
                            supersededBy |-> None, source |-> source, promotedAs |-> None]]

recordEntry(e, content) ==
    /\ entries[e] = None /\ semanticRevision("project", content) = {}
    /\ entries' = inserted(e, "project", content, "candidate", None)
    /\ UNCHANGED <<referenced, read>>

readEntry(c, e) ==
    /\ exists(e)
    /\ read' = [read EXCEPT ![c] = [id |-> e, revision |-> revision(e), content |-> current(e)]]
    /\ UNCHANGED <<entries, referenced>>

\* The entry the client has read still has the revision it read.
expected(c) == read[c] # None /\ exists(read[c].id) /\ revision(read[c].id) = read[c].revision

\* Slip: only superseded entries are refused.
editableUnlessSuperseded(e) == entries[e].status # "superseded"

\* Only a candidate may be edited.
editable(e) == entries[e].status = "candidate"

updateCandidateEntry(c, content) ==
    /\ expected(c)
    /\ LET e == read[c].id IN
        /\ editable(e) /\ revision(e) < MaxRevision
        /\ semanticRevision(entries[e].workspace, content) = {}
        /\ entries' = [entries EXCEPT ![e].history = Append(@, content)]
    /\ UNCHANGED <<referenced, read>>

promoteEntry(c) ==
    /\ expected(c)
    /\ LET e == read[c].id IN
        /\ entries[e].status = "candidate"
        /\ entries' = [entries EXCEPT ![e].status = "verified", ![e].promotedAs = read[c].content]
    /\ UNCHANGED <<referenced, read>>

\* Slip: any other entry may be a replacement.
replacesAny(e, replacement) ==
    /\ exists(replacement) /\ replacement # e
    /\ entries[replacement].workspace = entries[e].workspace

\* A replacement is another entry of the workspace that is not superseded.
replaces(e, replacement) ==
    /\ exists(replacement) /\ replacement # e
    /\ entries[replacement].workspace = entries[e].workspace
    /\ entries[replacement].status # "superseded"

supersedeEntry(c, replacement) ==
    /\ expected(c)
    /\ LET e == read[c].id IN
        /\ entries[e].status # "superseded" /\ replaces(e, replacement)
        /\ entries' = [entries EXCEPT ![e].status = "superseded", ![e].supersededBy = replacement]
    /\ UNCHANGED <<referenced, read>>

\* A delivery, a feedback record or a ledger link names the entry.
reference(e) ==
    /\ exists(e) /\ e \notin referenced
    /\ referenced' = referenced \cup {e}
    /\ UNCHANGED <<entries, read>>

\* Purge removes links and audit rows first; the foreign keys of deliveries,
\* feedback and supersession refuse the rest.
purgeEntry(e) ==
    /\ exists(e) /\ e \notin referenced
    /\ \A d \in Ids : exists(d) => entries[d].supersededBy # e
    /\ entries' = [entries EXCEPT ![e] = Purged]
    /\ UNCHANGED <<referenced, read>>

------------------------------------------------------------------------------
(* The curator.                                                            *)

\* Slip: the curator does not look for an earlier copy.
claimsNothing(e, rev) == {}

\* claimsGlobalization: global copies of this revision; the scan leaves out
\* superseded entries.
claims(e, rev) ==
    {g \in Ids : exists(g) /\ entries[g].workspace = "global" /\ entries[g].status # "superseded"
                 /\ entries[g].source = <<e, rev>>}

\* A copy that exists is answered; else it is recorded as verified.
globalizeCuratorCandidate(c, g) ==
    /\ expected(c) /\ entries[g] = None
    /\ LET e == read[c].id IN
        /\ entries[e].workspace # "global" /\ entries[e].status = "candidate"
        /\ claims(e, revision(e)) = {}
        /\ entries' = inserted(g, "global", <<e, revision(e), g>>, "verified", <<e, revision(e)>>)
    /\ UNCHANGED <<referenced, read>>

Next ==
    \/ \E e \in Ids : reference(e) \/ purgeEntry(e) \/ \E content \in Contents : recordEntry(e, content)
    \/ \E c \in Clients :
        \/ promoteEntry(c)
        \/ \E e \in Ids : readEntry(c, e) \/ supersedeEntry(c, e) \/ globalizeCuratorCandidate(c, e)
        \/ \E content \in Contents : updateCandidateEntry(c, content)

Spec == Init /\ [][Next]_entryVars

------------------------------------------------------------------------------

superseded(e) == exists(e) /\ entries[e].status = "superseded"

(* Following superseded_by from any entry ends at an entry that exists and *)
(* is not superseded: none ends in a purged row, and no chain is a cycle   *)
(* (from some entry of a set of superseded ones the chain leaves the set), *)
(* so advice that was replaced always has a current replacement.           *)
ChainsEndLive ==
    /\ \A e \in Ids : superseded(e) => exists(entries[e].supersededBy)
    /\ \A S \in (SUBSET Ids) \ {{}} : (\A e \in S : superseded(e)) =>
          \E e \in S : entries[e].supersededBy \notin S

(* A verified entry says what its reviewer had read, although clients act  *)
(* on entries they read earlier and others edit them in between.           *)
VerifiedAsRead ==
    \A e \in Ids : exists(e) /\ entries[e].promotedAs # None => current(e) = entries[e].promotedAs

(* A revision of a project entry has at most one current global copy.      *)
GlobalizedOnce ==
    \A g, h \in Ids : exists(g) /\ exists(h) /\ entries[g].source # None /\ entries[g].source = entries[h].source
        /\ entries[g].status # "superseded" /\ entries[h].status # "superseded" => g = h
==============================================================================
