---------------------------- MODULE SkillDiscovery ----------------------------
(***************************************************************************)
(* The discovery of external skills for one run: the attempts that are     *)
(* recorded for it, each with a share of the queries and of the skills the *)
(* run may use, and the searches, audits and fetches of an attempt, whose  *)
(* answers and failures are kept in tables that other attempts read.       *)
(*                                                                         *)
(* A record is kept for a lifetime that the registry may choose, so here   *)
(* it expires at any time after it was written.  Every skill stands for a  *)
(* requirement of its own and needs an audit; the queries of an attempt    *)
(* are numbered in their order, and one owner is searched for each.  Calls *)
(* of two attempts of one process for the same answer are not joined.      *)
(***************************************************************************)
EXTENDS Naturals, FiniteSets

CONSTANTS
    Requests, PhaseOf,      \* requests of the run, by digest, with their phases
    Workers, Skills, None,
    MaxQueries, MaxSkills,  \* ENNO_MAX_TOTAL_SKILL_QUERIES, ENNO_MAX_EXTERNAL_SKILLS
    Wanted,                 \* what one attempt asks for of either
    MaxAudits               \* MAX_COMMUNITY_AUDITS

VARIABLES
    searchCache,    \* skill_discovery_cache, by provider, query and scope
    auditFailure,   \* skill_audit_failure_cache
    sourceFailure,  \* skill_source_failure_cache
    attempt,        \* task_skill_discovery_attempts, by request
    work,           \* work[w]: the discovery that worker w executes
    executed,       \* how often a request was executed (history)
    issued,         \* queries issued for a request (history)
    taken           \* skills taken for a request (history)

discoveryVars == <<searchCache, auditFailure, sourceFailure, attempt, work, executed, issued, taken>>
tables == <<searchCache, auditFailure, sourceFailure>>
history == <<executed, issued, taken>>

\* How a search, an audit and a fetch may end.
Searches == {"success", "empty", "unavailable", "auth", "invalid"}
Audits == {"passed", "failed", "unavailable", "invalid"}
Fetches == {"fetched", "rate_limited", "unavailable", "refused"}

Scopes == {"owner", "general"}
CacheKeys == {"primary", "fallback"} \X (0..MaxQueries) \X Scopes   \* query 0: the curated list

Init ==
    /\ searchCache = [k \in CacheKeys |-> None]
    /\ auditFailure = {} /\ sourceFailure = {}
    /\ attempt = [r \in Requests |-> None] /\ work = [w \in Workers |-> None]
    /\ executed = [r \in Requests |-> 0] /\ issued = {} /\ taken = {}

-------------------------------------------------------------------------------
(* The attempts.                                                           *)

\* usedDiscoveryBudget: what is reserved while an attempt is under way, what
\* it consumed afterwards.
usedDiscoveryBudget(kind) ==
    LET n(r) == IF attempt[r] = None THEN 0
                ELSE IF attempt[r].state = "started" THEN attempt[r].reserved[kind] ELSE attempt[r].used[kind]
    IN Cardinality(UNION {{<<r, i>> : i \in 1..n(r)} : r \in Requests})

least(a, b) == IF a < b THEN a ELSE b

\* Neither budget is granted without the other.
granted ==
    LET queries == least(Wanted, MaxQueries - usedDiscoveryBudget("queries"))
        skills == least(Wanted, MaxSkills - usedDiscoveryBudget("skills"))
    IN IF queries = 0 \/ skills = 0 THEN [queries |-> 0, skills |-> 0] ELSE [queries |-> queries, skills |-> skills]

activeAttempt(phase) == \E r \in Requests : PhaseOf[r] = phase /\ attempt[r] # None /\ attempt[r].state = "started"

\* claimTaskSkillDiscoveryAttempt for a request without a record.  One with a
\* record is answered from it, or refused when it never ended.  An attempt
\* without a budget has nothing to search.
claimTaskSkillDiscoveryAttempt(w, r) ==
    /\ work[w] = None /\ attempt[r] = None /\ ~activeAttempt(PhaseOf[r])
    /\ attempt' = [attempt EXCEPT ![r] = [state |-> "started", reserved |-> granted,
                                          used |-> [queries |-> 0, skills |-> 0]]]
    /\ work' = [work EXCEPT ![w] =
            [request |-> r, queries |-> granted.queries, limit |-> granted.skills,
             scope |-> "owner", asked |-> 0, curated |-> FALSE, flight |-> None,
             latched |-> FALSE, authFailed |-> FALSE, sourceLatched |-> FALSE,
             found |-> {}, audits |-> 0, allowed |-> {}, denied |-> {}, tried |-> {}, selected |-> {},
             phase |-> IF granted.queries = 0 THEN "persist" ELSE "search"]]
    /\ executed' = [executed EXCEPT ![r] = @ + 1]
    /\ UNCHANGED <<tables, issued, taken>>

ended(w, state, used) ==
    /\ attempt' = [attempt EXCEPT ![work[w].request].state = state, ![work[w].request].used = used]
    /\ work' = [work EXCEPT ![w] = None]
    /\ UNCHANGED <<tables, history>>

started(w) == work[w] # None /\ attempt[work[w].request].state = "started"

summary(d) == [queries |-> d.queries, skills |-> Cardinality(d.selected)]

\* A summary fits what was reserved.
validateSummary(used, reserved) == used.queries <= reserved.queries /\ used.skills <= reserved.skills

completeTaskSkillDiscoveryAttempt(w) ==
    /\ started(w) /\ work[w].phase = "persist"
    /\ validateSummary(summary(work[w]), attempt[work[w].request].reserved)
    /\ ended(w, "completed", summary(work[w]))

\* Slip: a failed attempt has used nothing.
failForFree(w) == started(w) /\ ended(w, "failed", [queries |-> 0, skills |-> 0])

\* failTaskSkillDiscoveryAttempt: it has used all that was reserved for it.
failTaskSkillDiscoveryAttempt(w) ==
    started(w) /\ ended(w, "failed", attempt[work[w].request].reserved)

\* The process stops; the record stays as it is.
crash(w) ==
    /\ work[w] # None /\ work' = [work EXCEPT ![w] = None]
    /\ UNCHANGED <<tables, attempt, history>>

-------------------------------------------------------------------------------
(* Searching.                                                              *)

key(d, provider) == <<provider, IF d.curated THEN 0 ELSE d.asked, d.scope>>

\* readPersistentSkillSearchCache
live(d, provider) == searchCache[key(d, provider)] # None

withOutcome(d, row) ==
    IF row.outcome \in {"success", "empty"} THEN [d EXCEPT !.found = @ \cup row.skills, !.flight = None]
    ELSE [d EXCEPT !.latched = TRUE, !.flight = None]

\* searchWithCache at the fallback of a provider that refused the key.
searchFallback(d) ==
    IF live(d, "fallback") THEN withOutcome(d, searchCache[key(d, "fallback")]) ELSE [d EXCEPT !.flight = "fallback"]

\* The curated list has no fallback.
searchPrimary(d) ==
    IF ~live(d, "primary") THEN [d EXCEPT !.flight = "primary"]
    ELSE LET row == searchCache[key(d, "primary")] IN
         IF row.outcome = "auth" /\ ~d.curated THEN searchFallback([d EXCEPT !.authFailed = TRUE]) ELSE withOutcome(d, row)

becomes(w, d) == work' = [work EXCEPT ![w] = d]

\* The next query of the scope; a latched attempt sends no more of them.
searchWithCache(w) ==
    /\ work[w] # None /\ work[w].phase = "search" /\ work[w].flight = None /\ work[w].asked < work[w].queries
    /\ LET d == [work[w] EXCEPT !.asked = @ + 1] IN becomes(w, IF d.latched THEN d ELSE searchPrimary(d))
    /\ issued' = issued \cup {<<work[w].request, work[w].asked + 1>>}
    /\ UNCHANGED <<tables, attempt, executed, taken>>

\* The curated list, after the owners, unless the key was refused.
searchCurated(w) ==
    /\ work[w] # None /\ work[w].phase = "search" /\ work[w].flight = None /\ work[w].asked = work[w].queries
    /\ work[w].scope = "owner" /\ ~work[w].curated /\ ~work[w].authFailed /\ ~work[w].latched
    /\ becomes(w, searchPrimary([work[w] EXCEPT !.curated = TRUE]))
    /\ UNCHANGED <<tables, attempt, history>>

\* writePersistentSkillSearchCache; an invalid response is not kept.
searchRecords(k, row) == IF row.outcome = "invalid" THEN searchCache ELSE [searchCache EXCEPT ![k] = row]

searchAnswered(w, outcome, S) ==
    /\ work[w] # None /\ work[w].phase = "search" /\ work[w].flight # None
    /\ (outcome = "success") <=> (S # {})
    /\ LET d == work[w]
           row == [outcome |-> outcome, skills |-> S]
       IN /\ searchCache' = searchRecords(key(d, d.flight), row)
          /\ becomes(w, IF outcome = "auth" /\ d.flight = "primary" /\ ~d.curated
                        THEN searchFallback([d EXCEPT !.authFailed = TRUE]) ELSE withOutcome(d, row))
    /\ UNCHANGED <<auditFailure, sourceFailure, attempt, history>>

-------------------------------------------------------------------------------
(* Auditing and fetching what was found.                                   *)

beginCandidates(w) ==
    /\ work[w] # None /\ work[w].phase = "search" /\ work[w].flight = None /\ work[w].asked = work[w].queries
    /\ work[w].scope = "owner" => work[w].curated \/ work[w].authFailed \/ work[w].latched
    /\ becomes(w, [work[w] EXCEPT !.phase = "audit"])
    /\ UNCHANGED <<tables, attempt, history>>

unaudited(d) == d.found \ (d.allowed \cup d.denied)

\* Slip: an audit is asked for although the registry has failed.
auditWithoutLatch(d, s) ==
    IF d.audits < MaxAudits THEN [d EXCEPT !.flight = s, !.audits = @ + 1] ELSE [d EXCEPT !.denied = @ \cup {s}]

\* communityAllowed: nothing is asked for after a failure, or while one is
\* on record for the skill.
communityAllowed(d, s) ==
    IF d.latched \/ d.authFailed \/ s \in auditFailure THEN [d EXCEPT !.latched = TRUE, !.denied = @ \cup {s}]
    ELSE IF d.audits < MaxAudits THEN [d EXCEPT !.flight = s, !.audits = @ + 1]
    ELSE [d EXCEPT !.denied = @ \cup {s}]

audit(w, s) ==
    /\ work[w] # None /\ work[w].phase = "audit" /\ work[w].flight = None /\ s \in unaudited(work[w])
    /\ becomes(w, communityAllowed(work[w], s))
    /\ UNCHANGED <<tables, attempt, history>>

\* The record of a failure; any other answer but an invalid one clears it.
auditRecords(s, outcome) ==
    CASE outcome = "unavailable" -> auditFailure \cup {s}
      [] outcome = "invalid" -> auditFailure
      [] OTHER -> auditFailure \ {s}

auditAnswered(w, outcome) ==
    /\ work[w] # None /\ work[w].phase = "audit" /\ work[w].flight # None
    /\ LET s == work[w].flight
           d == [work[w] EXCEPT !.flight = None] IN
       /\ becomes(w, IF outcome = "passed" THEN [d EXCEPT !.allowed = @ \cup {s}]
                     ELSE [d EXCEPT !.denied = @ \cup {s}, !.latched = outcome \in {"unavailable", "invalid"}])
       /\ auditFailure' = auditRecords(s, outcome)
    /\ UNCHANGED <<searchCache, sourceFailure, attempt, history>>

toFetch(d) == d.allowed \ (d.tried \cup d.selected)
full(d) == Cardinality(d.selected) >= d.limit

\* The loop over the allowed candidates; a recorded failure skips one.
fetch(w, s) ==
    /\ work[w] # None /\ work[w].phase \in {"audit", "fetch"} /\ work[w].flight = None
    /\ unaudited(work[w]) = {} /\ s \in toFetch(work[w]) /\ ~work[w].sourceLatched /\ ~full(work[w])
    /\ LET d == [work[w] EXCEPT !.phase = "fetch", !.tried = @ \cup {s}]
       IN becomes(w, IF s \in sourceFailure THEN d ELSE [d EXCEPT !.flight = s])
    /\ UNCHANGED <<tables, attempt, history>>

\* A source that could not be reached is recorded, and one that answers is
\* cleared.
sourceRecords(s, outcome) ==
    CASE outcome = "fetched" -> sourceFailure \ {s}
      [] outcome \in {"rate_limited", "unavailable"} -> sourceFailure \cup {s}
      [] OTHER -> sourceFailure

fetchAnswered(w, outcome) ==
    /\ work[w] # None /\ work[w].phase = "fetch" /\ work[w].flight # None
    /\ LET s == work[w].flight
           d == [work[w] EXCEPT !.flight = None, !.sourceLatched = outcome = "rate_limited"] IN
       /\ becomes(w, IF outcome = "fetched" THEN [d EXCEPT !.selected = @ \cup {s}] ELSE d)
       /\ taken' = IF outcome = "fetched" THEN taken \cup {<<d.request, s>>} ELSE taken
       /\ sourceFailure' = sourceRecords(s, outcome)
    /\ UNCHANGED <<searchCache, auditFailure, attempt, executed, issued>>

\* After the owners, the general search of what is still missing; then the
\* selection is persisted.
endCandidates(w) ==
    /\ work[w] # None /\ work[w].phase \in {"audit", "fetch"} /\ work[w].flight = None
    /\ unaudited(work[w]) = {} /\ (toFetch(work[w]) = {} \/ work[w].sourceLatched \/ full(work[w]))
    /\ becomes(w, IF work[w].scope = "owner" /\ ~full(work[w])
                  THEN [work[w] EXCEPT !.phase = "search", !.scope = "general", !.asked = 0, !.curated = FALSE]
                  ELSE [work[w] EXCEPT !.phase = "persist"])
    /\ UNCHANGED <<tables, attempt, history>>

\* Records of the keys K and the skills S expire: they are read as absent and
\* pruneExternalSkillCaches deletes them.
recordsExpire(K, S) ==
    /\ searchCache' = [k \in CacheKeys |-> IF k \in K THEN None ELSE searchCache[k]]
    /\ auditFailure' = auditFailure \ S /\ sourceFailure' = sourceFailure \ S
    /\ UNCHANGED <<attempt, work, history>>

Next ==
    \/ \E K \in SUBSET CacheKeys, S \in SUBSET Skills : recordsExpire(K, S)
    \/ \E w \in Workers :
        \/ \E r \in Requests : claimTaskSkillDiscoveryAttempt(w, r)
        \/ completeTaskSkillDiscoveryAttempt(w) \/ failTaskSkillDiscoveryAttempt(w) \/ crash(w)
        \/ searchWithCache(w) \/ searchCurated(w) \/ beginCandidates(w) \/ endCandidates(w)
        \/ \E outcome \in Searches, S \in SUBSET Skills : searchAnswered(w, outcome, S)
        \/ \E s \in Skills : audit(w, s) \/ fetch(w, s)
        \/ \E outcome \in Audits : auditAnswered(w, outcome)
        \/ \E outcome \in Fetches : fetchAnswered(w, outcome)

Spec == Init /\ [][Next]_discoveryVars

-------------------------------------------------------------------------------
(* The run never issues more queries and takes more skills than it may,    *)
(* whatever attempts overlap, fail or never end, and no request is         *)
(* executed twice: its retries are answered from its record.               *)
BudgetKept ==
    /\ Cardinality(issued) <= MaxQueries /\ Cardinality(taken) <= MaxSkills
    /\ \A r \in Requests : executed[r] <= 1

(* An attempt that has met a failure of the registry has nothing more      *)
(* under way there, in any of its later phases.                            *)
SilentAfterFailure ==
    \A w \in Workers : work[w] # None /\ work[w].latched /\ work[w].phase \in {"search", "audit"} => work[w].flight = None
===============================================================================
