------------------------------ MODULE RunAdvice ------------------------------
(***************************************************************************)
(* What the ledger of a run says about it: the projection of its events,   *)
(* the recommendations derived from the projection, and the nudges chosen  *)
(* from the recommendations under the rate limit of a run.                 *)
(*                                                                         *)
(* Event types are the classes the projection tells apart.  An event that  *)
(* revises the task profile is a mutation like a changed file.  The caller *)
(* that turns a candidate into a stored nudge is outside the repository;   *)
(* it reads the history and inserts the row in one transaction, which is   *)
(* what the functions named ...InTransaction ask for.                      *)
(***************************************************************************)
EXTENDS Naturals, Sequences, FiniteSets

CONSTANTS
    Checkpoints,   \* identities of the checkpoints that may carry a nudge
    MaxPerRun,     \* DEFAULT_NUDGE_RATE_LIMIT.maxPerRun
    MinDistance,   \* DEFAULT_NUDGE_RATE_LIMIT.minSequenceDistancePerCode
    MaxLog,        \* bound on the events of the run
    None

VARIABLES
    log,      \* events in the order of their sequence: kind and resolvesEventIds
    nudges    \* nudge_deliveries of the run, in the order of insertion

adviceVars == <<log, nudges>>

Kinds == {"mutation", "failure", "unknown", "passed", "failed"}
NudgeCodes == <<"SIDE_EFFECT_OUTCOME_UNKNOWN", "UNRESOLVED_FAILURE", "VERIFY_AFTER_MUTATION">>

Init == log = <<>> /\ nudges = <<>>

\* An event may name events that it resolves, an unknown id among them.
appendEvent(kind, resolves) ==
    /\ Len(log) < MaxLog
    /\ log' = Append(log, [kind |-> kind, resolves |-> resolves])
    /\ UNCHANGED nudges

------------------------------------------------------------------------------
(* projectLedger: one pass over the events.                                *)

FailureKinds == {"failure", "failed"}

emptyProjection == [mutation |-> 0, passing |-> 0, evidence |-> "none", evidenceAt |-> 0, failures |-> {}, unknown |-> {}]

\* Resolved ids are removed before the event itself is looked at.
removeIds(ids, toRemove) == ids \ toRemove

project(p, event, n) ==
    [mutation   |-> IF event.kind = "mutation" THEN n ELSE p.mutation,
     passing    |-> IF event.kind = "passed" THEN n ELSE p.passing,
     evidence   |-> IF event.kind \in {"passed", "failed"} THEN event.kind ELSE p.evidence,
     evidenceAt |-> IF event.kind \in {"passed", "failed"} THEN n ELSE p.evidenceAt,
     failures   |-> removeIds(p.failures, event.resolves) \cup (IF event.kind \in FailureKinds THEN {n} ELSE {}),
     unknown    |-> removeIds(p.unknown, event.resolves) \cup (IF event.kind = "unknown" THEN {n} ELSE {})]

folded[n \in 0..MaxLog] == IF n = 0 THEN emptyProjection ELSE project(folded[n - 1], log[n], n)
projectLedger == folded[Len(log)]

\* Slip: a failed check after a passing one does not count.
evidenceStateOfPass(p) ==
    IF p.passing = 0 THEN p.evidence ELSE IF p.mutation > p.passing THEN "stale" ELSE "fresh"

evidenceState(p) ==
    CASE p.evidence = "none"   -> "none"
      [] p.evidence = "failed" -> "failed"
      [] p.evidence = "passed" -> IF p.mutation > p.evidenceAt THEN "stale" ELSE "fresh"

------------------------------------------------------------------------------
(* Recommendations and nudges.                                             *)

\* buildRecommendations: what a projection recommends, with the events.
buildRecommendations(p) ==
    (IF evidenceState(p) = "stale" THEN {[code |-> "VERIFY_AFTER_MUTATION", events |-> {p.mutation, p.passing}]} ELSE {})
    \cup (IF p.unknown # {} THEN {[code |-> "SIDE_EFFECT_OUTCOME_UNKNOWN", events |-> p.unknown]} ELSE {})
    \cup (IF p.failures # {} THEN {[code |-> "UNRESOLVED_FAILURE", events |-> p.failures]} ELSE {})

\* deriveNudgeCandidates: the occurrence is what the nudge is about.
occurrenceId(p, code) ==
    CASE code = "SIDE_EFFECT_OUTCOME_UNKNOWN" -> <<code, p.unknown>>
      [] code = "UNRESOLVED_FAILURE"          -> <<code, p.failures>>
      [] code = "VERIFY_AFTER_MUTATION"       -> <<code, {p.mutation}>>
deriveNudgeCandidates(p) ==
    {i \in DOMAIN NudgeCodes : \E r \in buildRecommendations(p) : r.code = NudgeCodes[i]}

\* The newest sequence at which a code was nudged; None if it never was.
lastSequenceByCode(code) ==
    LET S == {nudges[i].through : i \in {j \in DOMAIN nudges : nudges[j].code = code}}
    IN IF S = {} THEN None ELSE CHOOSE s \in S : \A t \in S : t <= s

\* Slip: the distance may be one shorter.
nearlyFarEnough(code) == lastSequenceByCode(code) = None \/ Len(log) - lastSequenceByCode(code) >= MinDistance - 1

farEnough(code) == lastSequenceByCode(code) = None \/ Len(log) - lastSequenceByCode(code) >= MinDistance

\* selectNudge: within the limit of the run, an occurrence that was not yet
\* delivered, far enough from the last nudge of its code, the most urgent.
eligible(p) ==
    {i \in deriveNudgeCandidates(p) :
        /\ \A j \in DOMAIN nudges : nudges[j].occurrence # occurrenceId(p, NudgeCodes[i])
        /\ farEnough(NudgeCodes[i])}
selectNudge(p) ==
    IF Len(nudges) >= MaxPerRun \/ eligible(p) = {} THEN 0 ELSE CHOOSE i \in eligible(p) : \A j \in eligible(p) : i <= j

\* A checkpoint that has its nudge is answered with the stored one.
recordNudgeDelivery(c) ==
    /\ \A j \in DOMAIN nudges : nudges[j].checkpoint # c
    /\ selectNudge(projectLedger) # 0
    /\ LET code == NudgeCodes[selectNudge(projectLedger)] IN
       nudges' = Append(nudges, [checkpoint |-> c, code |-> code, through |-> Len(log),
                                 occurrence |-> occurrenceId(projectLedger, code)])
    /\ UNCHANGED log

Next ==
    \/ \E kind \in Kinds, resolves \in {{}} \cup {{n} : n \in 1..MaxLog} : appendEvent(kind, resolves)
    \/ \E c \in Checkpoints : recordNudgeDelivery(c)

Spec == Init /\ [][Next]_adviceVars

------------------------------------------------------------------------------
(* The one pass of projectLedger agrees with what its fields mean: the     *)
(* newest check decides, a mutation after a passing check makes it stale,  *)
(* and a failure or unknown outcome stays open until a later event         *)
(* resolves it.                                                            *)
ProjectionMeansIt ==
    LET Checks == {n \in DOMAIN log : log[n].kind \in {"passed", "failed"}}
        newest == CHOOSE n \in Checks : \A m \in Checks : m <= n
        Open(K) == {n \in DOMAIN log : log[n].kind \in K /\ \A m \in n + 1..Len(log) : n \notin log[m].resolves}
    IN /\ projectLedger.failures = Open(FailureKinds)
       /\ projectLedger.unknown = Open({"unknown"})
       /\ evidenceState(projectLedger) =
            CASE Checks = {} -> "none"
              [] Checks # {} /\ log[newest].kind = "failed" -> "failed"
              [] Checks # {} /\ log[newest].kind = "passed" ->
                    IF \E m \in newest + 1..Len(log) : log[m].kind = "mutation" THEN "stale" ELSE "fresh"

(* Every history that selectNudge lets happen is one that readNudgeHistory *)
(* accepts: validateStoredNudgeHistory sorts the rows by sequence and code *)
(* and refuses too many rows, a repeated occurrence or checkpoint, and two *)
(* nudges of a code that are too close.  A history it refuses would make   *)
(* every later nudge of the run fail.                                      *)
NudgeHistoryReadable ==
    /\ Len(nudges) <= MaxPerRun
    /\ \A i, j \in DOMAIN nudges : i # j =>
         /\ nudges[i].occurrence # nudges[j].occurrence /\ nudges[i].checkpoint # nudges[j].checkpoint
         /\ nudges[i].code = nudges[j].code /\ nudges[i].through <= nudges[j].through =>
              nudges[j].through - nudges[i].through >= MinDistance
==============================================================================
