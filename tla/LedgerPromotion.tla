---------------------------- MODULE LedgerPromotion ----------------------------
(***************************************************************************)
(* Promotion of what an agent has proposed in the ledger of a run into a   *)
(* memory entry, while clients edit, review, supersede and purge entries   *)
(* and the user purges deliveries, links and the run.                      *)
(*                                                                         *)
(* A promotion loads everything again in its transaction, so it is one     *)
(* step.  The content of a promoted entry is its text with the reference   *)
(* to its source, <<text, <<event, delivery>>>>; a client writes           *)
(* <<text, None>>.                                                         *)
(***************************************************************************)
EXTENDS MemoryEntries

CONSTANTS
    Proposals, TextOf,  \* memory.proposed events, and what they propose
    Deliveries

VARIABLES
    ledger,         \* the proposals of the run in their order, or Purged
    deliveries,     \* deliveries[d]: how far d had read the ledger, None or Purged
    links,          \* ledger_memory_links, [event, delivery, entry]
    released        \* proposals whose link the user purged (history)

promotionVars == <<entryVars, ledger, deliveries, links, released>>
ledgerVars == <<ledger, deliveries, links, released>>

PromotionInit ==
    /\ Init /\ ledger = <<>> /\ deliveries = [d \in Deliveries |-> None]
    /\ links = {} /\ released = {}

inLedger(event) == ledger # Purged /\ \E i \in DOMAIN ledger : ledger[i] = event
sequence(event) == CHOOSE i \in DOMAIN ledger : ledger[i] = event

propose(event) ==
    /\ ledger # Purged /\ ~inLedger(event) /\ ledger' = Append(ledger, event)
    /\ UNCHANGED <<entryVars, deliveries, links, released>>

deliver(d) ==
    /\ ledger # Purged /\ deliveries[d] = None /\ deliveries' = [deliveries EXCEPT ![d] = Len(ledger)]
    /\ UNCHANGED <<entryVars, ledger, links, released>>

--------------------------------------------------------------------------------

\* loadSource: the proposal is there, and a delivery that is named has read
\* the ledger as far as the proposal.
loadSource(event, d) ==
    /\ inLedger(event)
    /\ d # None => deliveries[d] \notin {None, Purged} /\ deliveries[d] >= sequence(event)

\* parseProposalPayload with buildReference
proposed(event, d) == <<TextOf[event], <<event, d>>>>

\* findSameContentEntry looks at the text alone; an entry with the very
\* content is one with the text.  The status is not asked for.
findSameContentEntry(text) == {e \in Ids : exists(e) /\ entries[e].workspace = "project" /\ current(e)[1] = text}

\* Slip: only an entry with the same hash is looked for.
findSameHash(event, d) == {e \in Ids : exists(e) /\ entries[e].workspace = "project" /\ current(e) = proposed(event, d)}

\* promotePreparedInTransaction, the entry that is there already.
existing(event, d) == findSameContentEntry(TextOf[event])

\* Slip: a proposal is promoted although it was promoted before.
sourceLinkIgnored(event) == {}

sourceLink(event) == {l \in links : l.event = event}

\* promotePreparedInTransaction.  A proposal that has its link is answered
\* with the entry or refused, and one whose text is in an entry is refused:
\* neither changes anything.
promoteLedgerProposal(event, d, e) ==
    /\ loadSource(event, d) /\ existing(event, d) = {} /\ sourceLink(event) = {}
    /\ recordEntry(e, proposed(event, d))
    /\ links' = links \cup {[event |-> event, delivery |-> d, entry |-> e]}
    /\ UNCHANGED <<ledger, deliveries, released>>

--------------------------------------------------------------------------------
(* What else happens to entries, and purges.                               *)

record(e, content) == recordEntry(e, content) /\ UNCHANGED ledgerVars
look(c, e) == readEntry(c, e) /\ UNCHANGED ledgerVars
edit(c, content) == updateCandidateEntry(c, content) /\ UNCHANGED ledgerVars
verify(c) == promoteEntry(c) /\ UNCHANGED ledgerVars
supersede(c, e) == supersedeEntry(c, e) /\ UNCHANGED ledgerVars

\* A link refuses the purge of its entry.
purge(e) == (\A l \in links : l.entry # e) /\ purgeEntry(e) /\ UNCHANGED ledgerVars

\* executePurge of a link, of a delivery with its links, and of the run with
\* everything that belongs to it.  An event is never purged alone.
purgeLink(l) ==
    /\ l \in links /\ links' = links \ {l} /\ released' = released \cup {l.event}
    /\ UNCHANGED <<entryVars, ledger, deliveries>>

\* Slip: the links of the delivery are left to its foreign key.
purgeDeliveryAlone(d) ==
    /\ deliveries[d] \notin {None, Purged} /\ deliveries' = [deliveries EXCEPT ![d] = Purged]
    /\ links' = {[l EXCEPT !.delivery = IF @ = d THEN None ELSE @] : l \in links}
    /\ UNCHANGED <<entryVars, ledger, released>>

purgeDelivery(d) ==
    /\ deliveries[d] \notin {None, Purged} /\ deliveries' = [deliveries EXCEPT ![d] = Purged]
    /\ links' = {l \in links : l.delivery # d}
    /\ released' = released \cup {l.event : l \in links \ links'}
    /\ UNCHANGED <<entryVars, ledger>>

purgeRun ==
    /\ ledger # Purged /\ ledger' = Purged /\ links' = {}
    /\ deliveries' = [d \in Deliveries |-> IF deliveries[d] = None THEN None ELSE Purged]
    /\ UNCHANGED <<entryVars, released>>

PromotionNext ==
    \/ purgeRun
    \/ \E event \in Proposals : propose(event)
    \/ \E d \in Deliveries : deliver(d) \/ purgeDelivery(d)
    \/ \E l \in links : purgeLink(l)
    \/ \E event \in Proposals, d \in Deliveries \cup {None}, e \in Ids : promoteLedgerProposal(event, d, e)
    \/ \E e \in Ids : purge(e) \/ \E content \in Contents : record(e, content)
    \/ \E c \in Clients :
        \/ verify(c)
        \/ \E e \in Ids : look(c, e) \/ supersede(c, e)
        \/ \E content \in Contents : edit(c, content)

PromotionSpec == PromotionInit /\ [][PromotionNext]_promotionVars

--------------------------------------------------------------------------------
origin(e) == entries[e].history[1]
promoted(e) == exists(e) /\ entries[e].workspace = "project" /\ origin(e)[2] # None

(* Every link leads from a proposal of the run, over a delivery that still *)
(* exists, to the entry that was made from just that proposal.  A proposal *)
(* makes one entry, although its entry is edited, verified or superseded   *)
(* and the promotion is repeated with another delivery, unless the user    *)
(* purged its link; and the text of a promoted entry that nobody has       *)
(* edited is promoted once, whoever proposes it again.                     *)
PromotedOnce ==
    /\ \A l \in links :
        /\ exists(l.entry) /\ origin(l.entry) = proposed(l.event, l.delivery) /\ inLedger(l.event)
        /\ l.delivery # None => deliveries[l.delivery] \notin {None, Purged}
    /\ \A e, f \in Ids : promoted(e) /\ promoted(f) /\ e # f =>
        /\ origin(e)[2][1] = origin(f)[2][1] => origin(e)[2][1] \in released
        /\ revision(e) = 1 /\ revision(f) = 1 => origin(e)[1] # origin(f)[1]
================================================================================
