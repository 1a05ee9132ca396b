------------------------------ MODULE QueryCache ------------------------------
(***************************************************************************)
(* Vectors of search queries: the cache table, the runtimes of the         *)
(* processes that fill it, each made for the profile and the generation    *)
(* that it found, and their closing, while setup switches the profile.     *)
(*                                                                         *)
(* The vector of a query under a profile is <<profile, query>>.  Times of  *)
(* use increase from one use to the next, so the rows of a profile are     *)
(* kept in the order of their use, the last one first.                     *)
(***************************************************************************)
EXTENDS Naturals, Sequences

CONSTANTS
    Profiles, Queries, Runtimes, Calls, None,
    CacheLimit,     \* QUERY_EMBEDDING_CACHE_LIMIT
    MaxGeneration   \* bound on the switches of the profile

VARIABLES
    active, generation,     \* the row of embedding_runtime
    cache,      \* cache[p]: rows of query_embeddings, [query, vector]
    runtime,    \* runtime[r]: [profile, generation, state], or None
    flights,    \* flights[r][q]: a flight of QueryEmbeddingSingleFlight, or None
    call,       \* call[c]: the prepareQuery that c executes, or None
    faults      \* what has gone wrong (history): an answer with another vector
                \* than was asked for, a row written by an overtaken runtime

queryVars == <<active, generation, cache, runtime, flights, call, faults>>

Init ==
    /\ active = (CHOOSE p \in Profiles : TRUE) /\ generation = 1
    /\ cache = [p \in Profiles |-> <<>>]
    /\ runtime = [r \in Runtimes |-> None] /\ flights = [r \in Runtimes |-> [q \in Queries |-> None]]
    /\ call = [c \in Calls |-> None] /\ faults = {}

\* Setup switches the profile, as in EmbeddingProjection.
activate(p) ==
    /\ p # active /\ generation < MaxGeneration
    /\ active' = p /\ generation' = generation + 1
    /\ UNCHANGED <<cache, runtime, flights, call, faults>>

createEnabledRuntime(r) ==
    /\ runtime[r] = None
    /\ runtime' = [runtime EXCEPT ![r] = [profile |-> active, generation |-> generation, state |-> "open"]]
    /\ UNCHANGED <<active, generation, cache, flights, call, faults>>

-------------------------------------------------------------------------------

ensureActive(r) == active = runtime[r].profile /\ generation = runtime[r].generation

\* Slip: the transaction does not look at the generation.
expectedAnyGeneration(r) == TRUE

\* assertExpectedGeneration, in the transaction of a read or a write.
assertExpectedGeneration(r) == ensureActive(r)

\* The places of the rows of a query: the key of the table is profile and query.
rowsFor(p, q) == {i \in DOMAIN cache[p] : cache[p][i].query = q}
without(rows, i) == [j \in 1..(Len(rows) - 1) |-> rows[IF j < i THEN j ELSE j + 1]]
others(p, q) == IF rowsFor(p, q) = {} THEN cache[p]
                ELSE without(cache[p], CHOOSE i \in rowsFor(p, q) : TRUE)

ended(c) == [call EXCEPT ![c] = None]
answers(q, vector) == faults' = IF vector = <<active, q>> THEN faults ELSE faults \cup {"answer"}
writes(r) == faults' = IF runtime[r].generation = generation THEN faults ELSE faults \cup {"row"}

\* prepareQuery that finds its row, up to its answer: nothing interrupts it.
answerCached(c, r, q) ==
    /\ call[c] = None /\ runtime[r] # None /\ runtime[r].state = "open" /\ assertExpectedGeneration(r)
    /\ LET p == runtime[r].profile IN
        \E i \in rowsFor(p, q) :
          /\ cache' = [cache EXCEPT ![p] = <<cache[p][i]>> \o without(cache[p], i)]
          /\ answers(q, cache[p][i].vector)
    /\ UNCHANGED <<active, generation, runtime, flights, call>>

\* Slip: every miss of the runtime joins the flight that is under way.
flightOfRuntime(r, q) == IF \E k \in Queries : flights[r][k] # None THEN CHOOSE k \in Queries : flights[r][k] # None ELSE q

\* queryEmbeddingCacheKey, within a runtime.
queryEmbeddingCacheKey(r, q) == q

\* prepareQuery that misses: getOrLoad starts a flight or joins one.
prepareQuery(c, r, q) ==
    LET k == queryEmbeddingCacheKey(r, q) IN
    /\ call[c] = None /\ runtime[r] # None /\ runtime[r].state = "open" /\ assertExpectedGeneration(r)
    /\ rowsFor(runtime[r].profile, q) = {}
    /\ call' = [call EXCEPT ![c] = [runtime |-> r, query |-> q, key |-> k, owner |-> flights[r][k] = None,
                                    result |-> IF flights[r][k] = None THEN None ELSE flights[r][k].result]]
    /\ flights' = IF flights[r][k] # None THEN flights
                  ELSE [flights EXCEPT ![r][k] = [query |-> q, state |-> "embedding", result |-> None]]
    /\ UNCHANGED <<active, generation, cache, runtime, faults>>

callersOf(r, k) == {c \in Calls : call[c] # None /\ call[c].runtime = r /\ call[c].key = k}

\* The promise of the flight is settled for everyone who holds it.
settled(r, k, vector) ==
    LET result == [vector |-> vector] IN
    /\ flights' = [flights EXCEPT ![r][k].state = "settled", ![r][k].result = result]
    /\ call' = [c \in Calls |-> IF c \in callersOf(r, k) /\ call[c].result = None
                                THEN [call[c] EXCEPT !.result = result] ELSE call[c]]

\* The provider answers, fails or is aborted; a vector is handed to the write
\* queue if the runtime is still the active one.
providerAnswers(r, k, ok) ==
    /\ flights[r][k] # None /\ flights[r][k].state = "embedding"
    /\ IF ok /\ ensureActive(r)
       THEN flights' = [flights EXCEPT ![r][k].state = "queued"] /\ UNCHANGED call
       ELSE settled(r, k, None)
    /\ UNCHANGED <<active, generation, cache, runtime, faults>>

\* Slip: the rows are not pruned.
pruneNothing(rows) == rows

pruneProfileCache(rows) == SubSeq(rows, 1, IF Len(rows) < CacheLimit THEN Len(rows) ELSE CacheLimit)

\* The queue reaches the write.
writeQueryEmbedding(r, k) ==
    LET p == runtime[r].profile
        q == flights[r][k].query
        row == [query |-> q, vector |-> <<p, q>>] IN
    /\ flights[r][k] # None /\ flights[r][k].state = "queued"
    /\ IF assertExpectedGeneration(r)
       THEN /\ settled(r, k, row.vector) /\ writes(r)
            /\ cache' = [cache EXCEPT ![p] = pruneProfileCache(<<row>> \o others(p, q))]
       ELSE settled(r, k, None) /\ UNCHANGED <<cache, faults>>
    /\ UNCHANGED <<active, generation, runtime>>

\* A caller goes on after its flight; the one that started it forgets it.
afterFlight(c) ==
    /\ call[c] # None /\ call[c].result # None
    /\ flights' = IF call[c].owner THEN [flights EXCEPT ![call[c].runtime][call[c].key] = None] ELSE flights
    /\ IF call[c].result.vector # None /\ ensureActive(call[c].runtime)
       THEN answers(call[c].query, call[c].result.vector) ELSE UNCHANGED faults
    /\ call' = ended(c)
    /\ UNCHANGED <<active, generation, cache, runtime>>

\* close(): what is under way is aborted and waited for.
close(r) ==
    /\ runtime[r] # None /\ runtime[r].state = "open" /\ runtime' = [runtime EXCEPT ![r].state = "closing"]
    /\ UNCHANGED <<active, generation, cache, flights, call, faults>>

\* Slip: the provider is closed at once.
nothingAwaited(r) == {}

activeOperations(r) == {c \in Calls : call[c] # None /\ call[c].runtime = r}

closeProvider(r) ==
    /\ runtime[r] # None /\ runtime[r].state = "closing" /\ activeOperations(r) = {}
    /\ runtime' = [runtime EXCEPT ![r].state = "closed"]
    /\ UNCHANGED <<active, generation, cache, flights, call, faults>>

Next ==
    \/ \E p \in Profiles : activate(p)
    \/ \E r \in Runtimes :
        \/ createEnabledRuntime(r) \/ close(r) \/ closeProvider(r)
        \/ \E c \in Calls, q \in Queries : answerCached(c, r, q) \/ prepareQuery(c, r, q)
        \/ \E k \in Queries : writeQueryEmbedding(r, k) \/ \E ok \in BOOLEAN : providerAnswers(r, k, ok)
    \/ \E c \in Calls : afterFlight(c)

Spec == Init /\ [][Next]_queryVars

-------------------------------------------------------------------------------
(* An answer is the vector of the query that was asked, under the profile  *)
(* that was active when it was given, although callers share flights and   *)
(* the profile is switched and switched back meanwhile.  The cache is      *)
(* filled by runtimes of the generation that was current, holds a query    *)
(* once and stays within its limit; and when a runtime has closed its      *)
(* provider, nothing of it is under way.                                   *)
QueriesFollowProfile ==
    /\ faults = {}
    /\ \A p \in Profiles :
        /\ Len(cache[p]) <= CacheLimit
        /\ \A i, j \in DOMAIN cache[p] : cache[p][i].query = cache[p][j].query => i = j
    /\ \A r \in Runtimes : runtime[r] # None /\ runtime[r].state = "closed" =>
        \A q \in Queries : flights[r][q] = None
===============================================================================
