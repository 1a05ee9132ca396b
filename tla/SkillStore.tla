------------------------------ MODULE SkillStore ------------------------------
(***************************************************************************)
(* External skills: rows with a generation, the documents of the snapshot  *)
(* that was imported, and the commands that import, refresh, discover,     *)
(* disable and enable them.                                                *)
(*                                                                         *)
(* A command reads the row, audits the candidate, fetches a snapshot from  *)
(* the network and persists it in one transaction, long after its read.    *)
(* Every change of a row takes a new generation from one clock, so the     *)
(* transaction can tell whether the row is still the one that was read.    *)
(*                                                                         *)
(* The skills are those of one source repository and one requirement.  The *)
(* slug that a snapshot declares may differ from the one that was asked    *)
(* for: the asked one is then an alias of the declared, canonical one.     *)
(* Snapshots are numbered in the order in which their author published     *)
(* them; the content of a document is the snapshot it is from.  Each call  *)
(* fetches for itself: a discovery that joins the fetch of another one in  *)
(* its process is not modelled.                                            *)
(***************************************************************************)
EXTENDS Naturals, FiniteSets

CONSTANTS
    Skills,         \* identities of skills in one source repository
    Calls,          \* commands and discoveries under way
    Docs,           \* documents (source path and chunk)
    DocumentsOf,    \* DocumentsOf[v]: the documents of snapshot v
    None,
    MaxGeneration   \* bound on the generation clock

VARIABLES
    published,      \* the snapshot that a fetch returns now
    clock,          \* external_skill_generation_clock
    skill,          \* external_skills, by id
    mapping,        \* external_skill_entries, by id and document
    call,           \* call[k]: what command k has read and fetched
    withheld        \* skills the user has disabled and not enabled since

skillVars == <<published, clock, skill, mapping, call, withheld>>

Versions == DOMAIN DocumentsOf

Init ==
    /\ published = 1 /\ clock = 0
    /\ skill = [s \in Skills |-> None]
    /\ mapping = [s \in Skills |-> [d \in Docs |-> None]]
    /\ call = [k \in Calls |-> None]
    /\ withheld = {}

rows == {s \in Skills : skill[s] # None}
materialized(row) == row.snapshot # None

\* allocateExternalSkillGeneration, n times.
allocated(n) == clock + n <= MaxGeneration /\ clock' = clock + n

\* The author publishes the next snapshot.
publish ==
    /\ published + 1 \in Versions /\ published' = published + 1
    /\ UNCHANGED <<clock, skill, mapping, call, withheld>>

-------------------------------------------------------------------------------
(* Reading, auditing and fetching.                                         *)

\* suppressAutomaticImport: what the user or a check has taken out of use.
suppressed(row) == row # None /\ (row.disabled \/ row.state \in {"disabled", "blocked"})

\* existingIdentityOwners: rows that a discovery of s, or of t under the
\* name s, could mean.
owners(s, t) ==
    {o \in rows : o \in {s, t} \/ materialized(skill[o]) \/ (skill[o].state = "stale" /\ ~skill[o].disabled)}

\* The row a discovery of s works on: its own, else the only other owner.
selected(s) == IF s \in rows THEN s ELSE IF owners(s, s) = {} THEN None ELSE CHOOSE o \in owners(s, s) : TRUE

rowOf(s) == IF s = None THEN None ELSE skill[s]

begun(kind, s, existing) ==
    [kind |-> kind, skill |-> s, existing |-> existing, seen |-> rowOf(existing), all |-> [t \in Skills |-> IF kind = "discover" THEN skill[t] ELSE None],
     version |-> None, canonical |-> None]

\* skills import: a new skill of the reviewed catalog.
importSkill(k, s) ==
    /\ call[k] = None
    /\ call' = [call EXCEPT ![k] = begun("import", s, None)]
    /\ UNCHANGED <<published, clock, skill, mapping, withheld>>

\* skills refresh, of one or of every skill, in the CLI or the server.
refreshSkill(k, s) ==
    /\ call[k] = None /\ s \in rows
    /\ call' = [call EXCEPT ![k] = begun("refresh", s, s)]
    /\ UNCHANGED <<published, clock, skill, mapping, withheld>>

\* discover: several owners are a conflict, suppressed ones are left alone.
discover(k, s) ==
    /\ call[k] = None
    /\ s \in rows \/ Cardinality(owners(s, s)) <= 1
    /\ ~suppressed(rowOf(selected(s)))
    /\ call' = [call EXCEPT ![k] = begun("discover", s, selected(s))]
    /\ UNCHANGED <<published, clock, skill, mapping, withheld>>

\* The candidate passes its audit and a snapshot is fetched; the validator
\* reads its canonical slug t.
fetchSnapshot(k, t) ==
    /\ call[k] # None /\ call[k].version = None
    /\ call' = [call EXCEPT ![k].version = published, ![k].canonical = t]
    /\ UNCHANGED <<published, clock, skill, mapping, withheld>>

done(k) == call' = [call EXCEPT ![k] = None]

\* The audit, the fetch, the validation or the transaction of k fails and
\* leaves the store as it is.
failCall(k) ==
    /\ call[k] # None /\ done(k)
    /\ UNCHANGED <<published, clock, skill, mapping, withheld>>

-------------------------------------------------------------------------------
(* The store.                                                              *)

\* Slip: a row in the same state is the same.
unchangedState(s, seen) == skill[s] # None /\ seen # None /\ skill[s].state = seen.state

\* ExternalSkillRefreshExpectation: the row is the one that was read.
unchanged(s, seen) ==
    /\ skill[s] # None /\ seen # None
    /\ skill[s].generation = seen.generation
    /\ skill[s].state = seen.state /\ skill[s].snapshot = seen.snapshot

inactive(documents) == [d \in Docs |-> IF documents[d] = None THEN None ELSE [documents[d] EXCEPT !.active = FALSE]]

\* Slip: the state says whether the user disabled the skill.
preserveDisabledState(row) == row # None /\ row.state = "disabled"

\* disabled_at is the durable intent of the user, whatever the state is.
preserveDisabled(row) == row # None /\ row.disabled

\* Slip: documents that the new snapshot lacks stay active.
mappingsKept(documents, v, disabled) ==
    [d \in Docs |-> IF d \in DocumentsOf[v] THEN [version |-> v, active |-> ~disabled] ELSE documents[d]]

\* The mappings after an import: those of the snapshot, and earlier ones.
mappingsAfter(documents, v, disabled) ==
    [d \in Docs |-> IF d \in DocumentsOf[v] THEN [version |-> v, active |-> ~disabled] ELSE inactive(documents)[d]]

\* persistSkillImportInTransaction, for a row and documents that the caller
\* has moved to s: an exact replay only takes a generation.
persistImport(s, v, row, documents, taken, others) ==
    IF row # None /\ row.snapshot = v /\ row.state = "imported"
    THEN /\ allocated(taken + 1)
         /\ skill' = [others EXCEPT ![s] = [row EXCEPT !.generation = clock + taken + 1]]
         /\ mapping' = [mapping EXCEPT ![s] = documents]
    ELSE LET disabled == preserveDisabled(row) IN
         /\ allocated(taken + 2)
         /\ skill' = [others EXCEPT ![s] =
                [generation |-> clock + taken + 2, snapshot |-> v, disabled |-> disabled,
                 state |-> IF disabled THEN "disabled" ELSE "imported"]]
         /\ mapping' = [m \in Skills |-> IF m = s THEN mappingsAfter(documents, v, disabled)
                                         ELSE IF others[m] = None THEN [d \in Docs |-> None] ELSE mapping[m]]

persistAt(s, v) == persistImport(s, v, skill[s], mapping[s], 0, skill)

\* A row in a failure state serves nothing.
marked(s, state) ==
    /\ allocated(1)
    /\ skill' = [skill EXCEPT ![s].generation = clock + 1, ![s].state = state]
    /\ mapping' = [mapping EXCEPT ![s] = inactive(mapping[s])]

\* persistNewSkillImportInTransaction
persistNew(k) ==
    LET c == call[k] IN
    /\ c # None /\ c.version # None /\ skill[c.canonical] = None
    /\ \/ c.kind = "import"
       \/ c.kind = "discover" /\ c.existing = None /\ c.all[c.canonical] = None /\ owners(c.skill, c.canonical) = {}
    /\ persistAt(c.canonical, c.version) /\ done(k)
    /\ UNCHANGED <<published, withheld>>

\* A discovery that found nothing meets the skill that another one imported
\* meanwhile from the same snapshot: it is reused.
reuseImported(k) ==
    LET c == call[k] IN
    /\ c # None /\ c.kind = "discover" /\ c.version # None
    /\ c.existing = None /\ c.all[c.canonical] = None
    /\ owners(c.skill, c.canonical) = {c.canonical}
    /\ skill[c.canonical].state = "imported" /\ skill[c.canonical].snapshot = c.version
    /\ done(k) /\ UNCHANGED <<published, clock, skill, mapping, withheld>>

\* What a discovery works on: the selected row, else the canonical one as it
\* was when the discovery began.
observed(c) ==
    IF c.kind = "refresh" \/ c.existing # None THEN [id |-> c.existing, row |-> c.seen]
    ELSE [id |-> c.canonical, row |-> c.all[c.canonical]]

\* The rows a discovery may touch are the ones it has seen.
ownersAsSeen(c) ==
    c.kind = "refresh" \/ owners(c.skill, c.canonical) \subseteq ({c.existing} \cup {t \in {c.canonical} : c.all[t] # None})

\* refreshExternalSkillSnapshotInTransaction: a snapshot of another identity
\* marks the row stale, one of the same identity replaces what is stored.
refreshExternalSkillSnapshot(k) ==
    LET c == call[k]
        o == observed(c)
    IN
    /\ c # None /\ c.kind # "import" /\ c.version # None
    /\ o.row # None /\ unchanged(o.id, o.row)
    /\ c.kind = "discover" => materialized(o.row) /\ ownersAsSeen(c) /\ ~suppressed(skill[o.id])
    /\ ~materialized(o.row) => skill[o.id].state \in {"discovered", "stale"}
    /\ IF c.canonical = o.id THEN persistAt(o.id, c.version) ELSE marked(o.id, "stale")
    /\ done(k) /\ UNCHANGED <<published, withheld>>

\* persistExistingSkillImportInTransaction: an alias without a snapshot gives
\* way to the canonical row, or becomes it.
persistExisting(k) ==
    LET c == call[k]
        o == observed(c)
        t == c.canonical
        rest == IF t = o.id THEN skill ELSE [skill EXCEPT ![o.id] = None]
    IN
    /\ c # None /\ c.kind = "discover" /\ c.version # None
    /\ o.row # None /\ ~materialized(o.row) /\ unchanged(o.id, o.row) /\ ownersAsSeen(c)
    /\ skill[o.id].state \in {"discovered", "stale"} /\ ~skill[o.id].disabled
    /\ IF t = o.id THEN persistAt(t, c.version)
       ELSE /\ skill[t] # None => unchanged(t, c.all[t]) /\ ~suppressed(skill[t])
            /\ skill[t] = None => c.all[t] = None
            /\ persistImport(t, c.version, IF skill[t] = None THEN skill[o.id] ELSE skill[t],
                             IF skill[t] = None THEN mapping[o.id] ELSE mapping[t], 1, rest)
    /\ done(k) /\ UNCHANGED <<published, withheld>>

\* markExternalSkillRefreshFailureInTransaction: the source is gone, or what
\* it holds now is refused.
markRefreshFailure(k, state) ==
    LET c == call[k] IN
    /\ c # None /\ c.version = None /\ c.seen # None /\ unchanged(c.existing, c.seen)
    /\ c.kind = "discover" => c.existing = c.skill
    /\ ~(skill[c.existing].state = "blocked" /\ state = "stale")
    /\ marked(c.existing, state) /\ done(k)
    /\ UNCHANGED <<published, withheld>>

\* A discovered candidate that is not at its source is remembered as stale.
recordStale(k) ==
    LET c == call[k] IN
    /\ c # None /\ c.kind = "discover" /\ c.version = None /\ c.all[c.skill] = None /\ skill[c.skill] = None
    /\ allocated(2)
    /\ skill' = [skill EXCEPT ![c.skill] = [generation |-> clock + 2, snapshot |-> None, disabled |-> FALSE, state |-> "stale"]]
    /\ done(k) /\ UNCHANGED <<published, mapping, withheld>>

\* setExternalSkillState
disable(s) ==
    /\ s \in rows /\ skill[s].state = "imported" /\ allocated(1)
    /\ skill' = [skill EXCEPT ![s].generation = clock + 1, ![s].state = "disabled", ![s].disabled = TRUE]
    /\ mapping' = [mapping EXCEPT ![s] = inactive(mapping[s])]
    /\ withheld' = withheld \cup {s}
    /\ UNCHANGED <<published, call>>

enable(s) ==
    /\ s \in rows /\ skill[s].state = "disabled" /\ materialized(skill[s]) /\ allocated(1)
    /\ skill' = [skill EXCEPT ![s].generation = clock + 1, ![s].state = "imported", ![s].disabled = FALSE]
    /\ mapping' = [mapping EXCEPT ![s] = [d \in Docs |->
            IF d \in DocumentsOf[skill[s].snapshot] THEN [mapping[s][d] EXCEPT !.active = TRUE] ELSE inactive(mapping[s])[d]]]
    /\ withheld' = withheld \ {s}
    /\ UNCHANGED <<published, call>>

Next ==
    \/ publish
    \/ \E s \in Skills : disable(s) \/ enable(s)
    \/ \E k \in Calls :
        \/ failCall(k) \/ persistNew(k) \/ reuseImported(k) \/ refreshExternalSkillSnapshot(k)
        \/ persistExisting(k) \/ recordStale(k)
        \/ \E s \in Skills : importSkill(k, s) \/ refreshSkill(k, s) \/ discover(k, s) \/ fetchSnapshot(k, s)
        \/ \E state \in {"stale", "blocked"} : markRefreshFailure(k, state)

Spec == Init /\ [][Next]_skillVars

-------------------------------------------------------------------------------
activeDocs(s) == {d \in Docs : mapping[s][d] # None /\ mapping[s][d].active}

(* What a skill serves is one snapshot, whole: the active documents of an  *)
(* imported skill are those of the snapshot its row names, each with the   *)
(* content of that snapshot, and no other skill has an active document.    *)
(* That is what assertCurrentManagedSnapshot demands before and after      *)
(* every change, so no sequence of commands ends in its integrity error.   *)
ServesOneSnapshot ==
    \A s \in Skills :
        /\ activeDocs(s) = IF skill[s] # None /\ skill[s].state = "imported" THEN DocumentsOf[skill[s].snapshot] ELSE {}
        /\ skill[s] # None /\ materialized(skill[s]) =>
              \A d \in DocumentsOf[skill[s].snapshot] : mapping[s][d] # None /\ mapping[s][d].version = skill[s].snapshot

(* A skill the user has disabled serves nothing until the user enables it, *)
(* although refreshes fail and succeed meanwhile and discoveries that had  *)
(* read the row before finish after.                                       *)
DisabledServesNothing == \A s \in withheld : activeDocs(s) = {}

(* A fetch that is late never replaces a newer snapshot: the snapshot of a *)
(* row only moves forward in the order of publication, as the row that a   *)
(* command read before its fetch is still the row it writes.               *)
NeverOlder ==
    \A s \in Skills : skill[s] # None /\ materialized(skill[s]) /\ skill'[s] # None
        => skill'[s].snapshot >= skill[s].snapshot
===============================================================================
