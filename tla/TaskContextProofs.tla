-------------------------- MODULE TaskContextProofs --------------------------
(***************************************************************************)
(* Proofs about TaskContext, for any number of entries, requests, calls    *)
(* and changes of the world: what the run is told about its memory is      *)
(* true, and the record of a run that has ended is frozen.                 *)
(*                                                                         *)
(* ContextInv is inductive: a delivery holds what its query selects, and   *)
(* so does a ranking that is under way; a request that made a context      *)
(* revision has its receipt; a verification that is under way is the only  *)
(* one of its request, its evidence is unknown, and the verifier ran on no *)
(* content before the reserved one; and once the run has ended its report  *)
(* agrees with reviews and evidence, which change no more.                 *)
(*                                                                         *)
(* The other scenarios of the memory have inductive invariants of their    *)
(* own: MemoryInv and WorkspaceInv the chains, histories and owners of     *)
(* entries, ReviewInv what a review told and stored, BrokerInv what a      *)
(* delivery was ranked against, AdviceInv the nudges and what the one pass *)
(* over the ledger computes.                                               *)
(***************************************************************************)
EXTENDS MCKnowledge, FiniteSetTheorems, SequenceTheorems, NaturalsInduction, WellFoundedInduction, TLAPS

Row == [rev : Nat, status : {"candidate", "verified", "superseded"}]
Query == [by : Requests \cup {None}, catalog : [Entries -> Row], seq : Nat, manifest : Nat]
Items == UNION {[S -> Nat] : S \in SUBSET Entries}
Prepared == [query : Query, items : Items, replay : Nat]
Call == [kind : {"prepared"}, delivery : Nat]
        \cup [kind : {"refresh"}, request : Requests, expected : Nat, prepared : Prepared]
        \cup [kind : {"verify"}, request : Requests, result : {"none", "passed", "failed"}]
ReviewRow == [entryRevision : Nat, adopt : BOOLEAN, evidence : SUBSET Requests, revision : Nat]

TypeOK ==
    /\ entry \in [Entries -> Row]
    /\ run \in [status : {"active", "ended"}, seq : Nat]
    /\ repo \in [content : Nat, manifest : Nat]
    /\ deliveries \in Seq([query : Query, items : Items])
    /\ revisions \in Seq([by : Requests \cup {None}, delivery : Nat])
    /\ call \in [Calls -> Call \cup {None}]
    /\ operations \in [Requests -> Operation \cup {None}]
    /\ evidence \in [Requests -> Evidence \cup {None}]
    /\ ran \in [Requests -> Seq(Nat)]
    /\ reviews \in [(1..MaxContexts) \X Entries -> ReviewRow \cup {None}]

\* The items a query selects.
selected(query) ==
    LET cat == query.catalog
        S == fitScopedItems({e \in Entries : cat[e].status # "superseded"})
    IN [e \in S |-> cat[e].rev]

refreshing(k) == call[k] # None /\ call[k].kind = "refresh"
verifying(k) == call[k] # None /\ call[k].kind = "verify"

DeliveryInv ==
    /\ Len(deliveries) <= MaxContexts
    /\ \A d \in 1..Len(deliveries) : deliveries[d].items = selected(deliveries[d].query)
    /\ \A c, d \in 1..Len(deliveries) : deliveries[c].query = deliveries[d].query => c = d
    /\ \A k \in Calls : refreshing(k) =>
          /\ call[k].prepared.items = selected(call[k].prepared.query)
          /\ call[k].prepared.replay # 0 =>
               /\ call[k].prepared.replay \in 1..Len(deliveries)
               /\ deliveries[call[k].prepared.replay].query = call[k].prepared.query

RefreshInv ==
    /\ \A n \in 1..Len(revisions) : revisions[n].by # None => operations[revisions[n].by] # None
    /\ \A q \in Requests : operations[q] # None /\ operations[q].kind = "refresh" =>
          /\ operations[q].revision = operations[q].expected + 1
          /\ operations[q].revision \in 1..Len(revisions)
          /\ revisions[operations[q].revision].by = q

\* A verification under way.
reserved(k) ==
    LET q == call[k].request IN
    /\ operations[q] # None /\ evidence[q] # None
    /\ evidence[q].host /\ evidence[q].outcome = "unknown"
    /\ call[k].result = "none" => ran[q] = <<>>
    /\ call[k].result # "none" => \E c \in evidence[q].content..repo.content : ran[q] = <<c>>

VerifyInv ==
    /\ \A k \in Calls : verifying(k) => reserved(k)
    /\ \A k, c \in Calls : verifying(k) /\ verifying(c) /\ call[k].request = call[c].request => k = c
    /\ \A q \in Requests : operations[q] = None => evidence[q] = None /\ ran[q] = <<>>
    /\ \A q \in Requests : evidence[q] # None =>
          /\ evidence[q].content <= repo.content
          /\ evidence[q].host /\ evidence[q].outcome = "passed" => ran[q] = <<evidence[q].content>>
    /\ \A x \in (1..MaxContexts) \X Entries : reviews[x] # None =>
          \A q \in reviews[x].evidence : evidence[q] # None

\* What the report of a run with its memory applied rests on.
ReportInv ==
    report # None =>
        /\ run.status = "ended"
        /\ report.complete /\ report.delivery # 0 =>
             /\ report.delivery \in 1..Len(deliveries)
             /\ \A e \in DOMAIN deliveries[report.delivery].items :
                  LET judged == reviews[<<report.delivery, e>>] IN
                  /\ judged # None /\ judged.entryRevision = report.entry[e].rev
                  /\ judged.adopt => \A q \in judged.evidence :
                       evidence[q] # None /\ evidence[q].outcome = "passed"
                       /\ evidence[q].content = report.content

ContextInv == TypeOK /\ DeliveryInv /\ RefreshInv /\ VerifyInv /\ ReportInv
-----------------------------------------------------------------------------
(* What is selected                                                        *)

\* What fits into the limit is part of what was selected.
LEMMA FitSubset ==
  ASSUME NEW S, IsFiniteSet(S)
  PROVE  fitScopedItems(S) \subseteq S
<1>1. CASE Cardinality(S) <= Limit
  BY <1>1 DEF fitScopedItems
<1>2. CASE ~(Cardinality(S) <= Limit)
  <2>1. Cardinality(S) \in Nat /\ Limit \in Nat /\ ExistsBijection(1..Cardinality(S), S)
    BY FS_CardinalityType, TaskContextAssumption DEF TaskContextAssumption
  <2>2. PICK f \in Bijection(1..Cardinality(S), S) : TRUE
    BY <2>1 DEF ExistsBijection
  <2> DEFINE g == [i \in 1..Limit |-> f[i]]
             T == {f[i] : i \in 1..Limit}
  <2>3. 1..Limit \subseteq 1..Cardinality(S)
    BY <1>2, <2>1
  <2>4. T \in SUBSET S
    BY <2>2, <2>3 DEF Bijection, Injection, IsInjective
  <2>5. g \in Bijection(1..Limit, T)
    <3>1. \A i, j \in 1..Limit : f[i] = f[j] => i = j
      <4>1. f \in Injection(1..Cardinality(S), S)
        BY <2>2 DEF Bijection
      <4>2. \A i, j \in 1..Cardinality(S) : f[i] = f[j] => i = j
        BY <4>1 DEF Injection, IsInjective
      <4> QED
        BY <2>3, <4>2
    <3>2. g \in [1..Limit -> T] /\ \A i \in 1..Limit : g[i] = f[i]
      OBVIOUS
    <3>3. \A t \in T : \E i \in 1..Limit : f[i] = t
      OBVIOUS
    <3> HIDE DEF g, T
    <3>4. g \in Injection(1..Limit, T)
      BY <3>1, <3>2 DEF Injection, IsInjective
    <3>5. g \in Surjection(1..Limit, T)
      BY <3>2, <3>3 DEF Surjection
    <3> QED
      BY <3>4, <3>5 DEF Bijection
  <2>6. IsFiniteSet(1..Limit) /\ Cardinality(1..Limit) = Limit
    BY <2>1, FS_Interval
  <2>7. ExistsBijection(1..Limit, T)
    BY <2>5 DEF ExistsBijection
  <2> HIDE DEF T, g
  <2>8. Cardinality(T) = Limit
    BY <2>6, <2>7, FS_Bijection
  <2>9. \E U \in SUBSET S : Cardinality(U) = Limit
    BY <2>4, <2>8
  <2> QED
    BY <1>2, <2>9 DEF fitScopedItems
<1> QED
  BY <1>1, <1>2

\* What a query selects is a set of entries with their revisions.
LEMMA SelectedType ==
  ASSUME NEW query \in Query
  PROVE  selected(query) \in Items
<1> DEFINE A == {e \in Entries : query.catalog[e].status # "superseded"}
           S == fitScopedItems(A)
<1>1. IsFiniteSet(A) /\ A \subseteq Entries
  BY FS_Subset, TaskContextAssumption DEF TaskContextAssumption
<1>2. S \subseteq Entries
  BY <1>1, FitSubset
<1>3. query.catalog \in [Entries -> Row]
  BY DEF Query
<1> HIDE DEF S
<1>4. [e \in S |-> query.catalog[e].rev] \in [S -> Nat]
  BY <1>2, <1>3 DEF Row
<1>5. selected(query) = [e \in S |-> query.catalog[e].rev]
  BY DEF selected, S
<1> QED
  BY <1>2, <1>4, <1>5 DEF Items

\* What prepareScopedContextSnapshot makes of the present state.
LEMMA Snapshot ==
  ASSUME TypeOK, DeliveryInv, NEW by \in Requests \cup {None}
  PROVE  LET prepared == prepareScopedContextSnapshot(by)
         IN  /\ prepared \in Prepared
             /\ prepared.items = selected(prepared.query)
             /\ prepared.replay # 0 => /\ prepared.replay \in 1..Len(deliveries)
                                       /\ deliveries[prepared.replay].query = prepared.query
<1> DEFINE query == queryHash(by)
<1>1. query \in Query /\ query.catalog = entry
  BY DEF TypeOK, queryHash, Query
<1>2. select = selected(query)
  BY <1>1 DEF select, selected, retrievable
<1>3. DOMAIN deliveries = 1..Len(deliveries) /\ Len(deliveries) \in Nat
  BY DEF TypeOK
<1>4. CASE replayable(query) # {}
  <2> DEFINE d == CHOOSE d \in replayable(query) : TRUE
  <2>1. d \in 1..Len(deliveries) /\ deliveries[d].query = query
    BY <1>3, <1>4 DEF replayable
  <2>2. deliveries[d].items = selected(query)
    BY <2>1 DEF DeliveryInv
  <2>3. prepareScopedContextSnapshot(by) = [query |-> query, items |-> deliveries[d].items, replay |-> d]
    BY <1>4 DEF prepareScopedContextSnapshot
  <2> HIDE DEF d, query
  <2>4. selected(query) \in Items
    BY <1>1, SelectedType
  <2> QED
    BY <1>1, <1>3, <2>1, <2>2, <2>3, <2>4 DEF Prepared
<1>5. CASE ~(replayable(query) # {})
  <2>1. prepareScopedContextSnapshot(by) = [query |-> query, items |-> select, replay |-> 0]
    BY <1>5 DEF prepareScopedContextSnapshot
  <2> HIDE DEF query
  <2>2. selected(query) \in Items
    BY <1>1, SelectedType
  <2> QED
    BY <1>1, <1>2, <2>1, <2>2 DEF Prepared
<1> QED
  BY <1>4, <1>5
\* What is selected from is stored once.
LEMMA Written ==
  ASSUME TypeOK, DeliveryInv, NEW prepared \in Prepared, prepared.items = selected(prepared.query),
         prepared.replay # 0 => /\ prepared.replay \in 1..Len(deliveries)
                                /\ deliveries[prepared.replay].query = prepared.query,
         writeContextDelivery(prepared)
  PROVE  /\ deliveries' \in Seq([query : Query, items : Items])
         /\ Len(deliveries') <= MaxContexts
         /\ Len(deliveries) <= Len(deliveries') /\ writtenAt(prepared) \in 1..Len(deliveries')
         /\ \A d \in 1..Len(deliveries) : deliveries'[d] = deliveries[d]
         /\ \A d \in 1..Len(deliveries') : deliveries'[d].items = selected(deliveries'[d].query)
         /\ \A c, d \in 1..Len(deliveries') : deliveries'[c].query = deliveries'[d].query => c = d
<1> DEFINE new == [query |-> prepared.query, items |-> prepared.items]
           at == writtenAt(prepared)
<1>1. /\ deliveries \in Seq([query : Query, items : Items]) /\ new \in [query : Query, items : Items]
      /\ new.query = prepared.query /\ new.items = prepared.items
      /\ DOMAIN deliveries = 1..Len(deliveries) /\ Len(deliveries) \in Nat
  BY DEF TypeOK, Prepared
<1>2. deliveries' = IF at \in 1..Len(deliveries) THEN deliveries ELSE Append(deliveries, new)
  BY <1>1 DEF writeContextDelivery
<1>3. \A d \in 1..Len(deliveries) : deliveries[d].query = new.query => deliveries[d] = new
  <2> SUFFICES ASSUME NEW d \in 1..Len(deliveries), deliveries[d].query = new.query
               PROVE  deliveries[d] = new
    OBVIOUS
  <2>1. deliveries[d].items = new.items
    <3>1. deliveries[d].query = prepared.query
      BY <1>1
    <3>2. deliveries[d].items = selected(deliveries[d].query)
      BY DEF DeliveryInv
    <3>3. deliveries[d].items = prepared.items
      BY <3>1, <3>2
    <3> QED
      BY <1>1, <3>3
  <2>2. deliveries[d] \in [query : Query, items : Items]
    BY <1>1, ElementOfSeq
  <2> QED
    BY <1>1, <2>1, <2>2
<1>4. storedAs(prepared.query, prepared.items) = {d \in 1..Len(deliveries) : deliveries[d] = new}
  BY <1>1 DEF storedAs
<1>5. \/ at \in 1..Len(deliveries)
      \/ at = Len(deliveries) + 1 /\ \A d \in 1..Len(deliveries) : deliveries[d].query # new.query
  <2>1. CASE prepared.replay # 0
    BY <2>1 DEF writtenAt
  <2>2. CASE prepared.replay = 0 /\ storedAs(prepared.query, prepared.items) # {}
    <3>1. at = CHOOSE d \in storedAs(prepared.query, prepared.items) : TRUE
      BY <2>2 DEF writtenAt
    <3>2. at \in storedAs(prepared.query, prepared.items)
      BY <2>2, <3>1
    <3> QED
      BY <1>4, <3>2
  <2>3. CASE prepared.replay = 0 /\ storedAs(prepared.query, prepared.items) = {}
    <3>1. at = Len(deliveries) + 1
      BY <2>3 DEF writtenAt
    <3> QED
      BY <1>3, <1>4, <2>3, <3>1
  <2> QED
    BY <2>1, <2>2, <2>3
<1> HIDE DEF new, at
<1>6. CASE at \in 1..Len(deliveries)
  BY <1>1, <1>2, <1>6 DEF DeliveryInv, at
<1>7. CASE at = Len(deliveries) + 1 /\ \A d \in 1..Len(deliveries) : deliveries[d].query # new.query
  <2>1. /\ deliveries' \in Seq([query : Query, items : Items]) /\ Len(deliveries') = Len(deliveries) + 1
        /\ \A d \in 1..Len(deliveries) : deliveries'[d] = deliveries[d]
        /\ deliveries'[Len(deliveries) + 1] = new
    <3>1. deliveries' = Append(deliveries, new)
      <4>1. at \notin 1..Len(deliveries)
        BY <1>1, <1>7
      <4> QED
        BY <1>2, <4>1
    <3> QED
      BY <1>1, <3>1, AppendProperties
  <2>2. \A d \in 1..Len(deliveries') : d \in 1..Len(deliveries) \/ d = Len(deliveries) + 1
    BY <1>1, <2>1
  <2>3. Len(deliveries') <= MaxContexts
    BY <1>7, <2>1 DEF writeContextDelivery, at
  <2> QED
    BY <1>1, <1>7, <2>1, <2>2, <2>3 DEF DeliveryInv, at
<1> QED
  BY <1>5, <1>6, <1>7

\* A context is numbered once.
LEMMA Recorded ==
  ASSUME TypeOK, NEW context \in [by : Requests \cup {None}, delivery : Nat],
         recordTaskContextRevision(context)
  PROVE  /\ revisions' \in Seq([by : Requests \cup {None}, delivery : Nat])
         /\ Len(revisions) <= Len(revisions')
         /\ \A n \in 1..Len(revisions) : revisions'[n] = revisions[n]
         /\ \A n \in 1..Len(revisions') : n \in 1..Len(revisions) \/ revisions'[n] = context
         /\ (\A n \in 1..Len(revisions) : revisions[n].by # context.by) =>
              contextRevision(context) = Len(revisions) + 1 /\ Len(revisions') = Len(revisions) + 1
<1>1. /\ revisions \in Seq([by : Requests \cup {None}, delivery : Nat])
      /\ DOMAIN revisions = 1..Len(revisions) /\ Len(revisions) \in Nat
  BY DEF TypeOK
<1>2. CASE numbered(context) # {}
  BY <1>1, <1>2 DEF recordTaskContextRevision, numbered
<1>3. CASE numbered(context) = {}
  <2>1. revisions' = Append(revisions, context) /\ contextRevision(context) = Len(revisions) + 1
    BY <1>3 DEF recordTaskContextRevision, contextRevision
  <2> QED
    BY <1>1, <2>1, AppendProperties
<1> QED
  BY <1>2, <1>3
-----------------------------------------------------------------------------
(* Types                                                                   *)

\* What each kind of call carries.
LEMMA CallKinds ==
  ASSUME NEW c \in Call
  PROVE  /\ c.kind = "prepared" => c.delivery \in Nat
         /\ c.kind = "refresh" => /\ c.request \in Requests /\ c.expected \in Nat /\ c.prepared \in Prepared
         /\ c.kind = "verify" => /\ c.request \in Requests /\ c.result \in {"none", "passed", "failed"}
                                 /\ \A result \in {"passed", "failed"} :
                                      /\ [c EXCEPT !.result = result] \in Call
                                      /\ [c EXCEPT !.result = result].kind = "verify"
                                      /\ [c EXCEPT !.result = result].request = c.request
                                      /\ [c EXCEPT !.result = result].result = result
BY DEF Call

\* A run begins without deliveries, calls and evidence.
LEMMA ContextInit ==
  ASSUME Init
  PROVE  ContextInv
<1>1. TypeOK
  BY DEF Init, TypeOK, Row
<1>2. DeliveryInv /\ RefreshInv /\ VerifyInv /\ ReportInv
  BY TaskContextAssumption
  DEF Init, DeliveryInv, RefreshInv, VerifyInv, ReportInv, refreshing, verifying, TaskContextAssumption
<1> QED
  BY <1>1, <1>2 DEF ContextInv

\* The types are kept.
LEMMA TypeStep ==
  ASSUME ContextInv, [Next]_vars
  PROVE  TypeOK'
<1> USE DEF world, memory
<1>0. TypeOK /\ DeliveryInv
  BY DEF ContextInv
<1>1. ASSUME NEW e \in Entries, updateCandidateEntry(e) \/ changeStatus(e)
      PROVE  TypeOK'
  <2>1. entry' \in [Entries -> Row]
    BY <1>0, <1>1 DEF TypeOK, updateCandidateEntry, changeStatus, Row
  <2> QED
    BY <1>0, <1>1, <2>1 DEF TypeOK, updateCandidateEntry, changeStatus
<1>2. CASE appendEvent
  <2>1. run' \in [status : {"active", "ended"}, seq : Nat]
    <3>1. run \in [status : {"active", "ended"}, seq : Nat] /\ run' = [run EXCEPT !.seq = @ + 1]
      BY <1>0, <1>2 DEF TypeOK, appendEvent
    <3> QED
      BY <3>1
  <2> QED
    BY <1>0, <1>2, <2>1 DEF TypeOK, appendEvent
<1>3. CASE editRepository
  <2>1. repo' \in [content : Nat, manifest : Nat]
    BY <1>0, <1>3 DEF TypeOK, editRepository
  <2> QED
    BY <1>0, <1>3, <2>1 DEF TypeOK, editRepository
<1>4. CASE checkpointScopedMemory
  <2>1. run' \in [status : {"active", "ended"}, seq : Nat]
    BY <1>0, <1>4 DEF TypeOK, checkpointScopedMemory
  <2> QED
    BY <1>0, <1>4, <2>1 DEF TypeOK, checkpointScopedMemory
<1>5. ASSUME NEW k \in Calls, selectFinalTaskContext(k)
      PROVE  TypeOK'
  <2> DEFINE prepared == prepareScopedContextSnapshot(None)
  <2>1. /\ prepared \in Prepared /\ prepared.items = selected(prepared.query)
        /\ prepared.replay # 0 => /\ prepared.replay \in 1..Len(deliveries)
                                  /\ deliveries[prepared.replay].query = prepared.query
    BY <1>0, Snapshot
  <2>2. /\ writeContextDelivery(prepared)
        /\ call' = [call EXCEPT ![k] = [kind |-> "prepared", delivery |-> writtenAt(prepared)]]
        /\ UNCHANGED <<world, run, revisions, memory>>
    BY <1>5 DEF selectFinalTaskContext
  <2> HIDE DEF prepared
  <2>3. deliveries' \in Seq([query : Query, items : Items]) /\ writtenAt(prepared) \in 1..Len(deliveries')
    BY <1>0, <2>1, <2>2, Written
  <2>4. [kind |-> "prepared", delivery |-> writtenAt(prepared)] \in Call
    BY <2>3 DEF Call
  <2> QED
    BY <1>0, <2>2, <2>3, <2>4 DEF TypeOK
<1>6. ASSUME NEW k \in Calls, withPreparedEnno(k)
      PROVE  TypeOK'
  <2>1. call[k].delivery \in Nat
    <3>1. call[k] \in Call /\ call[k].kind = "prepared"
      BY <1>0, <1>6 DEF TypeOK, withPreparedEnno
    <3> QED
      BY <3>1, CallKinds
  <2>2. [by |-> None, delivery |-> call[k].delivery] \in [by : Requests \cup {None}, delivery : Nat]
    BY <2>1
  <2>3. revisions' \in Seq([by : Requests \cup {None}, delivery : Nat])
    BY <1>0, <1>6, <2>2, Recorded DEF withPreparedEnno
  <2> QED
    BY <1>0, <1>6, <2>3 DEF TypeOK, withPreparedEnno
<1>7. ASSUME NEW k \in Calls, queryScopedContextTransaction(k)
      PROVE  TypeOK'
  <2> DEFINE q == call[k].request
             prepared == call[k].prepared
             context == [by |-> q, delivery |-> writtenAt(prepared)]
  <2>1. /\ refreshing(k) /\ q \in Requests /\ call[k].expected \in Nat /\ prepared \in Prepared
    <3>1. call[k] \in Call /\ call[k].kind = "refresh" /\ refreshing(k)
      BY <1>0, <1>7 DEF TypeOK, queryScopedContextTransaction, refreshing
    <3> QED
      BY <3>1, CallKinds
  <2>2. /\ deliveries' \in Seq([query : Query, items : Items]) /\ writtenAt(prepared) \in 1..Len(deliveries')
    BY <1>0, <1>7, <2>1, Written DEF DeliveryInv, queryScopedContextTransaction
  <2>3. context \in [by : Requests \cup {None}, delivery : Nat]
    BY <2>1, <2>2
  <2>4. /\ recordTaskContextRevision(context)
        /\ operations' = [operations EXCEPT ![q] =
              [kind |-> "refresh", expected |-> call[k].expected, revision |-> contextRevision(context)]]
        /\ call' = [call EXCEPT ![k] = None]
        /\ UNCHANGED <<world, run, evidence, ran, reviews, report>>
    BY <1>7 DEF queryScopedContextTransaction
  <2> HIDE DEF context
  <2>5. revisions' \in Seq([by : Requests \cup {None}, delivery : Nat]) /\ contextRevision(context) \in Nat
    <3>1. revisions' \in Seq([by : Requests \cup {None}, delivery : Nat])
      BY <1>0, <2>3, <2>4, Recorded
    <3>2. contextRevision(context) \in Nat
      BY <1>0 DEF TypeOK, contextRevision, numbered
    <3> QED
      BY <3>1, <3>2
  <2>6. operations' \in [Requests -> Operation \cup {None}]
    BY <1>0, <2>1, <2>4, <2>5 DEF TypeOK, Operation
  <2> QED
    BY <1>0, <2>2, <2>4, <2>5, <2>6 DEF TypeOK
<1>8. ASSUME NEW k \in Calls, abandonCall(k)
      PROVE  TypeOK'
  BY <1>0, <1>8 DEF TypeOK, abandonCall
<1>9. ASSUME NEW k \in Calls, NEW q \in Requests, refreshTaskContext(k, q)
      PROVE  TypeOK'
  <2>1. prepareScopedContextSnapshot(q) \in Prepared /\ Len(revisions) \in Nat
    BY <1>0, Snapshot DEF TypeOK
  <2>2. [kind |-> "refresh", request |-> q, expected |-> Len(revisions),
         prepared |-> prepareScopedContextSnapshot(q)] \in Call
    BY <2>1 DEF Call
  <2> QED
    BY <1>0, <1>9, <2>2 DEF TypeOK, refreshTaskContext
<1>10. ASSUME NEW q \in Requests, NEW outcome \in {"passed", "failed"}, recordMemoryEvidence(q, outcome)
       PROVE  TypeOK'
  <2>1. [delivery |-> Len(deliveries), host |-> FALSE, content |-> repo.content, state |-> "finished",
         outcome |-> outcome] \in Evidence
    BY <1>0 DEF TypeOK, Evidence
  <2>2. [kind |-> "evidence"] \in Operation
    BY DEF Operation
  <2> QED
    BY <1>0, <1>10, <2>1, <2>2 DEF TypeOK, recordMemoryEvidence
<1>11. ASSUME NEW k \in Calls, NEW q \in Requests, reserveVerification(k, q)
       PROVE  TypeOK'
  <2>1. [delivery |-> Len(deliveries), host |-> TRUE, content |-> repo.content, state |-> "running",
         outcome |-> "unknown"] \in Evidence
    BY <1>0 DEF TypeOK, Evidence
  <2>2. [kind |-> "verify"] \in Operation /\ [kind |-> "verify", request |-> q, result |-> "none"] \in Call
    BY DEF Operation, Call
  <2> QED
    BY <1>0, <1>11, <2>1, <2>2 DEF TypeOK, reserveVerification
<1>12. ASSUME NEW k \in Calls, NEW result \in {"passed", "failed"}, runVerifiers(k, result)
       PROVE  TypeOK'
  <2>1. /\ call[k] \in Call /\ call[k].kind = "verify" /\ repo.content \in Nat
    BY <1>0, <1>12 DEF TypeOK, runVerifiers
  <2>2. call[k].request \in Requests /\ [call[k] EXCEPT !.result = result] \in Call
    BY <2>1, CallKinds
  <2>3. call' = [call EXCEPT ![k] = [call[k] EXCEPT !.result = result]]
    BY <1>12 DEF runVerifiers
  <2>4. ran' \in [Requests -> Seq(Nat)]
    BY <1>0, <1>12, <2>1, <2>2, AppendProperties DEF TypeOK, runVerifiers
  <2> QED
    BY <1>0, <1>12, <2>2, <2>3, <2>4 DEF TypeOK, runVerifiers
<1>13. ASSUME NEW k \in Calls, finishVerification(k)
       PROVE  TypeOK'
  <2> DEFINE q == call[k].request
  <2>1. /\ verifying(k) /\ call[k] \in Call /\ call[k].kind = "verify"
    BY <1>0, <1>13 DEF TypeOK, finishVerification, verifying
  <2>2. /\ q \in Requests /\ call[k].result \in {"passed", "failed"} /\ evidence[q] \in Evidence
    <3>1. q \in Requests /\ call[k].result \in {"none", "passed", "failed"}
      BY <2>1, CallKinds
    <3>2. evidence[q] # None
      BY <2>1 DEF ContextInv, VerifyInv, reserved
    <3>3. evidence[q] \in Evidence
      BY <1>0, <3>1, <3>2 DEF TypeOK
    <3>4. call[k].result # "none"
      BY <1>13 DEF finishVerification
    <3> QED
      BY <3>1, <3>3, <3>4
  <2>3. outcomeOf(call[k].result, evidence[q].content) \in {"unknown", "passed", "failed"}
    BY <2>2 DEF outcomeOf
  <2>4. evidence' \in [Requests -> Evidence \cup {None}]
    BY <1>0, <1>13, <2>2, <2>3 DEF TypeOK, finishVerification, Evidence
  <2> QED
    BY <1>0, <1>13, <2>4 DEF TypeOK, finishVerification
<1>14. ASSUME NEW q \in Requests, NEW e \in Entries, NEW adopt \in BOOLEAN, NEW E \in SUBSET Requests,
              reviewTaskMemory(q, e, adopt, E)
       PROVE  TypeOK'
  <2> DEFINE x == <<Len(deliveries), e>>
             judged == [entryRevision |-> entry[e].rev, adopt |-> adopt, evidence |-> E,
                        revision |-> (IF reviews[x] = None THEN 0 ELSE reviews[x].revision) + 1]
  <2>1. /\ reviews' = [reviews EXCEPT ![x] = judged]
        /\ operations' = [operations EXCEPT ![q] = [kind |-> "review"]]
        /\ UNCHANGED <<world, run, deliveries, revisions, call, evidence, ran, report>>
    BY <1>14 DEF reviewTaskMemory
  <2>2. reviews \in [(1..MaxContexts) \X Entries -> ReviewRow \cup {None}] /\ entry[e].rev \in Nat
    BY <1>0 DEF TypeOK, Row
  <2>3. [kind |-> "review"] \in Operation
    BY DEF Operation
  <2>4. ASSUME x \in (1..MaxContexts) \X Entries
        PROVE  judged \in ReviewRow
    <3>1. reviews[x] \in ReviewRow \cup {None}
      BY <2>2, <2>4
    <3> QED
      BY <2>2, <3>1 DEF ReviewRow
  <2> HIDE DEF judged, x
  <2>5. reviews' \in [(1..MaxContexts) \X Entries -> ReviewRow \cup {None}]
    BY <2>1, <2>2, <2>4
  <2> QED
    BY <1>0, <2>1, <2>3, <2>5 DEF TypeOK
<1>15. CASE UNCHANGED vars
  BY <1>0, <1>15 DEF TypeOK, vars
<1> QED
  BY <1>1, <1>2, <1>3, <1>4, <1>5, <1>6, <1>7, <1>8, <1>9, <1>10, <1>11, <1>12, <1>13, <1>14, <1>15 DEF Next
-----------------------------------------------------------------------------
(* Deliveries and refreshes                                                *)

\* Deliveries are only added, and what other calls prepared stays good.
LEMMA DeliveryKept ==
  ASSUME TypeOK, DeliveryInv, Len(deliveries) <= Len(deliveries'), Len(deliveries') \in Nat,
         Len(deliveries') <= MaxContexts,
         \A d \in 1..Len(deliveries) : deliveries'[d] = deliveries[d],
         \A d \in 1..Len(deliveries') : deliveries'[d].items = selected(deliveries'[d].query),
         \A c, d \in 1..Len(deliveries') : deliveries'[c].query = deliveries'[d].query => c = d,
         \A k \in Calls : call'[k] = call[k] \/ call'[k] = None \/ call'[k].kind # "refresh"
  PROVE  DeliveryInv'
<1>1. Len(deliveries) \in Nat
  BY DEF TypeOK
<1>2. ASSUME NEW k \in Calls, call'[k] # None, call'[k].kind = "refresh"
      PROVE  /\ call'[k].prepared.items = selected(call'[k].prepared.query)
             /\ call'[k].prepared.replay # 0 =>
                  /\ call'[k].prepared.replay \in 1..Len(deliveries')
                  /\ deliveries'[call'[k].prepared.replay].query = call'[k].prepared.query
  <2>1. call'[k] = call[k] /\ refreshing(k)
    BY <1>2 DEF refreshing
  <2>2. /\ call[k].prepared.items = selected(call[k].prepared.query)
        /\ call[k].prepared.replay # 0 =>
             /\ call[k].prepared.replay \in 1..Len(deliveries)
             /\ deliveries[call[k].prepared.replay].query = call[k].prepared.query
    BY <2>1 DEF DeliveryInv
  <2> QED
    BY <1>1, <2>1, <2>2
<1> QED
  BY <1>2 DEF DeliveryInv, refreshing, selected

\* DeliveryInv is kept: deliveries are added as they were ranked and never change.
LEMMA DeliveryStep ==
  ASSUME ContextInv, [Next]_vars
  PROVE  DeliveryInv'
<1>0. TypeOK /\ DeliveryInv /\ Len(deliveries) \in Nat /\ TypeOK'
  BY TypeStep DEF ContextInv, TypeOK
<1>1. ASSUME UNCHANGED deliveries,
             \A k \in Calls : call'[k] = call[k] \/ call'[k] = None \/ call'[k].kind # "refresh"
      PROVE  DeliveryInv'
  <2>1. /\ Len(deliveries') <= MaxContexts
        /\ \A d \in 1..Len(deliveries') : deliveries'[d].items = selected(deliveries'[d].query)
        /\ \A c, d \in 1..Len(deliveries') : deliveries'[c].query = deliveries'[d].query => c = d
    BY <1>0, <1>1 DEF DeliveryInv
  <2> QED
    BY <1>0, <1>1, <2>1, DeliveryKept
<1>2. ASSUME NEW k \in Calls, NEW new, call' = [call EXCEPT ![k] = new],
             new = None \/ new.kind # "refresh"
      PROVE  \A c \in Calls : call'[c] = call[c] \/ call'[c] = None \/ call'[c].kind # "refresh"
  BY <1>0, <1>2 DEF TypeOK
<1>3. ASSUME NEW k \in Calls, selectFinalTaskContext(k)
      PROVE  DeliveryInv'
  <2> DEFINE prepared == prepareScopedContextSnapshot(None)
             new == [kind |-> "prepared", delivery |-> writtenAt(prepared)]
  <2>1. /\ prepared \in Prepared /\ prepared.items = selected(prepared.query)
        /\ prepared.replay # 0 => /\ prepared.replay \in 1..Len(deliveries)
                                  /\ deliveries[prepared.replay].query = prepared.query
    BY <1>0, Snapshot
  <2>2. writeContextDelivery(prepared) /\ call' = [call EXCEPT ![k] = new]
    BY <1>3 DEF selectFinalTaskContext
  <2>3. \A c \in Calls : call'[c] = call[c] \/ call'[c] = None \/ call'[c].kind # "refresh"
    BY <1>2, <2>2
  <2>4. Len(deliveries') \in Nat
    BY <1>0 DEF TypeOK
  <2> HIDE DEF prepared
  <2> QED
    BY <1>0, <2>1, <2>2, <2>3, <2>4, Written, DeliveryKept
<1>4. ASSUME NEW k \in Calls, queryScopedContextTransaction(k)
      PROVE  DeliveryInv'
  <2> DEFINE prepared == call[k].prepared
  <2>1. /\ refreshing(k) /\ writeContextDelivery(prepared) /\ call' = [call EXCEPT ![k] = None]
    BY <1>4 DEF queryScopedContextTransaction, refreshing
  <2>2. prepared \in Prepared
    <3>1. call[k] \in Call /\ call[k].kind = "refresh"
      BY <1>0, <2>1 DEF TypeOK, refreshing
    <3> QED
      BY <3>1, CallKinds
  <2>3. /\ prepared.items = selected(prepared.query)
        /\ prepared.replay # 0 => /\ prepared.replay \in 1..Len(deliveries)
                                  /\ deliveries[prepared.replay].query = prepared.query
    BY <1>0, <2>1 DEF DeliveryInv
  <2>4. \A c \in Calls : call'[c] = call[c] \/ call'[c] = None \/ call'[c].kind # "refresh"
    BY <1>2, <2>1
  <2>5. Len(deliveries') \in Nat
    BY <1>0 DEF TypeOK
  <2> HIDE DEF prepared
  <2> QED
    BY <1>0, <2>1, <2>2, <2>3, <2>4, <2>5, Written, DeliveryKept
<1>5. ASSUME NEW k \in Calls, NEW q \in Requests, refreshTaskContext(k, q)
      PROVE  DeliveryInv'
  <2> DEFINE prepared == prepareScopedContextSnapshot(q)
             new == [kind |-> "refresh", request |-> q, expected |-> Len(revisions), prepared |-> prepared]
  <2>1. /\ prepared.items = selected(prepared.query)
        /\ prepared.replay # 0 => /\ prepared.replay \in 1..Len(deliveries)
                                  /\ deliveries[prepared.replay].query = prepared.query
    BY <1>0, Snapshot
  <2>2. UNCHANGED deliveries /\ call' = [call EXCEPT ![k] = new]
    BY <1>5 DEF refreshTaskContext
  <2> HIDE DEF prepared
  <2>3. call'[k] = new /\ new.prepared = prepared /\ \A c \in Calls \ {k} : call'[c] = call[c]
    BY <1>0, <2>2 DEF TypeOK
  <2> HIDE DEF new
  <2>4. ASSUME NEW c \in Calls, call'[c] # None, call'[c].kind = "refresh"
        PROVE  /\ call'[c].prepared.items = selected(call'[c].prepared.query)
               /\ call'[c].prepared.replay # 0 =>
                    /\ call'[c].prepared.replay \in 1..Len(deliveries)
                    /\ deliveries[call'[c].prepared.replay].query = call'[c].prepared.query
    <3>1. CASE c = k
      BY <2>1, <2>3, <3>1
    <3>2. CASE c # k
      <4>1. call'[c] = call[c] /\ refreshing(c)
        BY <2>3, <2>4, <3>2 DEF refreshing
      <4> QED
        BY <1>0, <4>1 DEF DeliveryInv
    <3> QED
      BY <3>1, <3>2
  <2>5. /\ Len(deliveries') <= MaxContexts
        /\ \A d \in 1..Len(deliveries') : deliveries'[d].items = selected(deliveries'[d].query)
        /\ \A c, d \in 1..Len(deliveries') : deliveries'[c].query = deliveries'[d].query => c = d
    BY <1>0, <2>2 DEF DeliveryInv
  <2> QED
    BY <2>2, <2>4, <2>5 DEF DeliveryInv, refreshing, selected
<1>6. ASSUME NEW k \in Calls, withPreparedEnno(k) \/ abandonCall(k) \/ finishVerification(k)
      PROVE  DeliveryInv'
  <2>1. UNCHANGED deliveries /\ call' = [call EXCEPT ![k] = None]
    BY <1>6 DEF withPreparedEnno, abandonCall, finishVerification
  <2> QED
    BY <1>1, <1>2, <2>1
<1>7. ASSUME NEW k \in Calls, NEW q \in Requests, reserveVerification(k, q)
      PROVE  DeliveryInv'
  <2> DEFINE new == [kind |-> "verify", request |-> q, result |-> "none"]
  <2>1. UNCHANGED deliveries /\ call' = [call EXCEPT ![k] = new] /\ new.kind # "refresh"
    BY <1>7 DEF reserveVerification
  <2> HIDE DEF new
  <2> QED
    BY <1>1, <1>2, <2>1
<1>8. ASSUME NEW k \in Calls, NEW result \in {"passed", "failed"}, runVerifiers(k, result)
      PROVE  DeliveryInv'
  <2> DEFINE new == [call[k] EXCEPT !.result = result]
  <2>1. UNCHANGED deliveries /\ call' = [call EXCEPT ![k] = new] /\ call[k] \in Call /\ call[k].kind = "verify"
    BY <1>0, <1>8 DEF runVerifiers, TypeOK
  <2>2. new.kind # "refresh"
    BY <2>1, CallKinds
  <2> HIDE DEF new
  <2> QED
    BY <1>1, <1>2, <2>1, <2>2
<1>9. CASE UNCHANGED <<deliveries, call>>
  BY <1>1, <1>9
<1> QED
  BY <1>3, <1>4, <1>5, <1>6, <1>7, <1>8, <1>9
  DEF Next, updateCandidateEntry, changeStatus, appendEvent, editRepository, checkpointScopedMemory,
      recordMemoryEvidence, reviewTaskMemory, vars
\* RefreshInv is kept: a revision and the receipt of its request come together.
LEMMA RefreshStep ==
  ASSUME ContextInv, [Next]_vars
  PROVE  RefreshInv'
<1>0. /\ TypeOK /\ DeliveryInv /\ RefreshInv /\ TypeOK'
      /\ revisions \in Seq([by : Requests \cup {None}, delivery : Nat]) /\ Len(revisions) \in Nat
      /\ operations \in [Requests -> Operation \cup {None}]
      /\ None \notin Requests /\ None \notin Operation
  BY TypeStep, TaskContextAssumption DEF ContextInv, TypeOK, TaskContextAssumption
<1>b. \A n \in 1..Len(revisions) : revisions[n].by \in Requests \cup {None}
  <2>1. \A n \in 1..Len(revisions) : revisions[n] \in [by : Requests \cup {None}, delivery : Nat]
    BY <1>0, ElementOfSeq
  <2> QED
    BY <2>1
\* Receipts of other operations, and contexts nobody asked for.
<1>1. ASSUME /\ revisions' \in Seq([by : Requests \cup {None}, delivery : Nat])
             /\ Len(revisions) <= Len(revisions')
             /\ \A n \in 1..Len(revisions) : revisions'[n] = revisions[n]
             /\ \A n \in 1..Len(revisions') : n \in 1..Len(revisions) \/ revisions'[n].by = None,
             \A q \in Requests : operations'[q] = operations[q]
                \/ (operations'[q] # None /\ operations'[q].kind # "refresh")
      PROVE  RefreshInv'
  <2>1. Len(revisions') \in Nat
    BY <1>1
  <2>2. ASSUME NEW n \in 1..Len(revisions'), revisions'[n].by # None
        PROVE  operations'[revisions'[n].by] # None
    <3>1. n \in 1..Len(revisions) /\ revisions'[n] = revisions[n]
      BY <1>1, <2>2
    <3>2. revisions[n].by \in Requests
      BY <1>b, <2>2, <3>1
    <3>3. operations[revisions[n].by] # None
      BY <1>0, <2>2, <3>1 DEF RefreshInv
    <3> QED
      BY <1>1, <3>1, <3>2, <3>3
  <2>3. ASSUME NEW q \in Requests, operations'[q] # None, operations'[q].kind = "refresh"
        PROVE  /\ operations'[q].revision = operations'[q].expected + 1
               /\ operations'[q].revision \in 1..Len(revisions')
               /\ revisions'[operations'[q].revision].by = q
    <3>1. operations'[q] = operations[q]
      BY <1>1, <2>3
    <3>2. /\ operations[q].revision = operations[q].expected + 1
          /\ operations[q].revision \in 1..Len(revisions)
          /\ revisions[operations[q].revision].by = q
      BY <1>0, <2>3, <3>1 DEF RefreshInv
    <3> QED
      BY <1>0, <1>1, <2>1, <3>1, <3>2
  <2> QED
    BY <2>2, <2>3 DEF RefreshInv
<1>2. ASSUME UNCHANGED revisions,
             \A q \in Requests : operations'[q] = operations[q]
                \/ (operations'[q] # None /\ operations'[q].kind # "refresh")
      PROVE  RefreshInv'
  BY <1>0, <1>1, <1>2
<1>3. ASSUME NEW k \in Calls, withPreparedEnno(k)
      PROVE  RefreshInv'
  <2> DEFINE context == [by |-> None, delivery |-> call[k].delivery]
  <2>1. call[k].delivery \in Nat
    <3>1. call[k] \in Call /\ call[k].kind = "prepared"
      BY <1>0, <1>3 DEF TypeOK, withPreparedEnno
    <3> QED
      BY <3>1, CallKinds
  <2>2. /\ context \in [by : Requests \cup {None}, delivery : Nat] /\ context.by = None
        /\ recordTaskContextRevision(context) /\ operations' = operations
    BY <1>3, <2>1 DEF withPreparedEnno, memory
  <2> HIDE DEF context
  <2>3. /\ revisions' \in Seq([by : Requests \cup {None}, delivery : Nat])
        /\ Len(revisions) <= Len(revisions')
        /\ \A n \in 1..Len(revisions) : revisions'[n] = revisions[n]
        /\ \A n \in 1..Len(revisions') : n \in 1..Len(revisions) \/ revisions'[n] = context
    BY <1>0, <2>2, Recorded
  <2> QED
    BY <1>1, <2>2, <2>3
<1>4. ASSUME NEW k \in Calls, queryScopedContextTransaction(k)
      PROVE  RefreshInv'
  <2> DEFINE q == call[k].request
             context == [by |-> q, delivery |-> writtenAt(call[k].prepared)]
             done == [kind |-> "refresh", expected |-> call[k].expected, revision |-> contextRevision(context)]
  <2>1. /\ call[k] \in Call /\ call[k].kind = "refresh" /\ refreshing(k)
        /\ writeContextDelivery(call[k].prepared) /\ recordTaskContextRevision(context)
        /\ Len(revisions) = call[k].expected /\ operations[q] = None
        /\ operations' = [operations EXCEPT ![q] = done]
    BY <1>0, <1>4 DEF TypeOK, queryScopedContextTransaction, refreshing, assertCurrent
  <2>2. q \in Requests /\ call[k].prepared \in Prepared
    BY <2>1, CallKinds
  <2>3. writtenAt(call[k].prepared) \in Nat
    <3>1. writtenAt(call[k].prepared) \in 1..Len(deliveries')
      BY <1>0, <2>1, <2>2, Written DEF DeliveryInv
    <3> QED
      BY <3>1
  <2>4. /\ context \in [by : Requests \cup {None}, delivery : Nat] /\ context.by = q
        /\ \A n \in 1..Len(revisions) : revisions[n].by # q
    BY <1>0, <2>1, <2>2, <2>3 DEF RefreshInv
  <2>5. done.kind = "refresh" /\ done.expected = Len(revisions) /\ done.revision = contextRevision(context)
    BY <2>1
  <2> HIDE DEF context, done, q
  <2>6. /\ revisions' \in Seq([by : Requests \cup {None}, delivery : Nat])
        /\ \A n \in 1..Len(revisions) : revisions'[n] = revisions[n]
        /\ \A n \in 1..Len(revisions') : n \in 1..Len(revisions) \/ revisions'[n] = context
        /\ contextRevision(context) = Len(revisions) + 1 /\ Len(revisions') = Len(revisions) + 1
    BY <1>0, <2>1, <2>4, Recorded
  <2>7. /\ operations'[q] = done /\ \A p \in Requests \ {q} : operations'[p] = operations[p]
        /\ operations'[q] # None
    <3>1. operations'[q] = done /\ \A p \in Requests \ {q} : operations'[p] = operations[p]
      BY <1>0, <2>1, <2>2
    <3>2. done \in Operation
      <4>1. Len(revisions) + 1 \in Nat
        BY <1>0
      <4> QED
        BY <1>0, <2>1, <2>6, <4>1 DEF done, Operation
    <3> QED
      BY <1>0, <3>1, <3>2
  <2>8. ASSUME NEW n \in 1..Len(revisions'), revisions'[n].by # None
        PROVE  operations'[revisions'[n].by] # None
    <3>1. CASE n \in 1..Len(revisions)
      <4>1. revisions'[n] = revisions[n] /\ revisions[n].by \in Requests
        BY <1>b, <2>6, <2>8, <3>1
      <4>2. operations[revisions[n].by] # None
        BY <1>0, <2>8, <3>1, <4>1 DEF RefreshInv
      <4> QED
        BY <2>7, <4>1, <4>2
    <3>2. CASE revisions'[n] = context
      BY <2>4, <2>7, <3>2
    <3> QED
      BY <2>6, <3>1, <3>2
  <2>9. ASSUME NEW p \in Requests, operations'[p] # None, operations'[p].kind = "refresh"
        PROVE  /\ operations'[p].revision = operations'[p].expected + 1
               /\ operations'[p].revision \in 1..Len(revisions')
               /\ revisions'[operations'[p].revision].by = p
    <3>1. CASE p = q
      <4>1. revisions'[Len(revisions) + 1] = context /\ Len(revisions) + 1 \in 1..Len(revisions')
        BY <1>0, <2>6
      <4> QED
        BY <2>4, <2>5, <2>6, <2>7, <3>1, <4>1
    <3>2. CASE p # q
      <4>1. operations'[p] = operations[p]
        BY <2>7, <3>2
      <4>2. /\ operations[p].revision = operations[p].expected + 1
            /\ operations[p].revision \in 1..Len(revisions)
            /\ revisions[operations[p].revision].by = p
        BY <1>0, <2>9, <4>1 DEF RefreshInv
      <4> QED
        BY <1>0, <2>6, <4>1, <4>2
    <3> QED
      BY <3>1, <3>2
  <2> QED
    BY <2>8, <2>9 DEF RefreshInv
<1>5. ASSUME NEW q \in Requests, NEW kind \in {"evidence", "verify", "review"}, UNCHANGED revisions,
             operations' = [operations EXCEPT ![q] = [kind |-> kind]]
      PROVE  RefreshInv'
  <2> DEFINE done == [kind |-> kind]
  <2>1. done \in Operation /\ done.kind # "refresh"
    BY DEF Operation
  <2>2. operations' = [operations EXCEPT ![q] = done]
    BY <1>5
  <2> HIDE DEF done
  <2>3. \A p \in Requests : operations'[p] = operations[p]
          \/ (operations'[p] # None /\ operations'[p].kind # "refresh")
    BY <1>0, <2>1, <2>2
  <2> QED
    BY <1>2, <1>5, <2>3
<1>6. ASSUME NEW q \in Requests, NEW outcome \in {"passed", "failed"}, recordMemoryEvidence(q, outcome)
      PROVE  RefreshInv'
  BY <1>5, <1>6 DEF recordMemoryEvidence
<1>7. ASSUME NEW k \in Calls, NEW q \in Requests, reserveVerification(k, q)
      PROVE  RefreshInv'
  BY <1>5, <1>7 DEF reserveVerification
<1>8. ASSUME NEW q \in Requests, NEW e \in Entries, NEW adopt \in BOOLEAN, NEW E \in SUBSET Requests,
             reviewTaskMemory(q, e, adopt, E)
      PROVE  RefreshInv'
  BY <1>5, <1>8 DEF reviewTaskMemory
<1>9. CASE UNCHANGED <<revisions, operations>>
  BY <1>2, <1>9
<1> QED
  BY <1>3, <1>4, <1>6, <1>7, <1>8, <1>9
  DEF Next, updateCandidateEntry, changeStatus, appendEvent, editRepository, checkpointScopedMemory,
      selectFinalTaskContext, refreshTaskContext, abandonCall, runVerifiers, finishVerification, memory, vars
-----------------------------------------------------------------------------
(* Verifications and reviews                                               *)

\* Steps that verify and review nothing.
LEMMA VerifyKept ==
  ASSUME TypeOK, TypeOK', VerifyInv, UNCHANGED <<evidence, ran, reviews>>,
         repo.content <= repo'.content,
         \A q \in Requests : operations[q] # None => operations'[q] # None,
         \A k \in Calls : call'[k] = call[k] \/ call'[k] = None \/ call'[k].kind # "verify"
  PROVE  VerifyInv'
<1>0. repo.content \in Nat /\ repo'.content \in Nat
  BY DEF TypeOK
<1>1. \A k \in Calls : verifying(k)' => verifying(k) /\ call'[k] = call[k] /\ call[k].request \in Requests
  <2> SUFFICES ASSUME NEW k \in Calls, call'[k] # None, call'[k].kind = "verify"
               PROVE  verifying(k) /\ call'[k] = call[k] /\ call[k].request \in Requests
    BY DEF verifying
  <2>1. verifying(k) /\ call'[k] = call[k] /\ call[k] \in Call /\ call[k].kind = "verify"
    BY DEF TypeOK, verifying
  <2> QED
    BY <2>1, CallKinds
<1>2. \A q \in Requests : evidence[q] # None => evidence[q] \in Evidence
  BY DEF TypeOK
<1>3. ASSUME NEW k \in Calls, verifying(k)'
      PROVE  reserved(k)'
  <2>1. reserved(k) /\ call'[k] = call[k] /\ call[k].request \in Requests
    BY <1>1, <1>3 DEF VerifyInv
  <2>2. evidence[call[k].request].content \in Nat
    BY <1>2, <2>1 DEF reserved, Evidence
  <2> QED
    BY <1>0, <2>1, <2>2 DEF reserved
<1>4. \A k, c \in Calls : (verifying(k) /\ verifying(c) /\ call[k].request = call[c].request)' => k = c
  BY <1>1 DEF VerifyInv
<1>5. \A q \in Requests : operations'[q] = None => evidence'[q] = None /\ ran'[q] = <<>>
  BY DEF VerifyInv
<1>6. \A q \in Requests : evidence'[q] # None =>
        /\ evidence'[q].content <= repo'.content
        /\ evidence'[q].host /\ evidence'[q].outcome = "passed" => ran'[q] = <<evidence'[q].content>>
  BY <1>0, <1>2 DEF VerifyInv, Evidence
<1>7. \A x \in (1..MaxContexts) \X Entries : reviews'[x] # None =>
        \A q \in reviews'[x].evidence : evidence'[q] # None
  BY DEF VerifyInv
<1> QED
  BY <1>3, <1>4, <1>5, <1>6, <1>7 DEF VerifyInv

\* A step that stores or finishes the evidence of one request, and leaves the
\* verifications of the others alone.
LEMMA VerifyOne ==
  ASSUME TypeOK, TypeOK', VerifyInv, NEW q \in Requests, UNCHANGED <<repo, reviews>>,
         evidence'[q] # None, evidence'[q].content <= repo.content,
         evidence'[q].host /\ evidence'[q].outcome = "passed" => ran'[q] = <<evidence'[q].content>>,
         \A p \in Requests \ {q} : /\ evidence'[p] = evidence[p] /\ ran'[p] = ran[p]
                                   /\ operations'[p] = operations[p],
         operations'[q] # None,
         \A k \in Calls : verifying(k)' =>
            \/ verifying(k) /\ call'[k] = call[k] /\ call[k].request # q
            \/ call'[k].request = q /\ reserved(k)',
         \A k, c \in Calls : (verifying(k) /\ verifying(c) /\ call[k].request = q /\ call[c].request = q)' => k = c
  PROVE  VerifyInv'
<1>0. \A k \in Calls : verifying(k) => call[k].request \in Requests
  <2>1. \A k \in Calls : verifying(k) => call[k] \in Call /\ call[k].kind = "verify"
    BY DEF TypeOK, verifying
  <2> QED
    BY <2>1, CallKinds
<1>1. ASSUME NEW k \in Calls, verifying(k)'
      PROVE  reserved(k)'
  <2>1. CASE verifying(k) /\ call'[k] = call[k] /\ call[k].request # q
    <3>1. reserved(k) /\ call[k].request \in Requests \ {q}
      BY <1>0, <2>1 DEF VerifyInv
    <3> QED
      BY <2>1, <3>1 DEF reserved
  <2>2. CASE call'[k].request = q /\ reserved(k)'
    BY <2>2
  <2> QED
    BY <1>1, <2>1, <2>2
<1>2. \A k, c \in Calls : (verifying(k) /\ verifying(c) /\ call[k].request = call[c].request)' => k = c
  <2> SUFFICES ASSUME NEW k \in Calls, NEW c \in Calls, verifying(k)', verifying(c)',
                      call'[k].request = call'[c].request
               PROVE  k = c
    OBVIOUS
  <2>1. CASE call'[k].request = q
    BY <2>1
  <2>2. CASE call'[k].request # q
    BY <2>2 DEF VerifyInv
  <2> QED
    BY <2>1, <2>2
<1>3. \A p \in Requests : operations'[p] = None => evidence'[p] = None /\ ran'[p] = <<>>
  BY DEF VerifyInv
<1>4. \A p \in Requests : evidence'[p] # None =>
        /\ evidence'[p].content <= repo'.content
        /\ evidence'[p].host /\ evidence'[p].outcome = "passed" => ran'[p] = <<evidence'[p].content>>
  BY DEF VerifyInv
<1>5. \A x \in (1..MaxContexts) \X Entries : reviews'[x] # None =>
        \A p \in reviews'[x].evidence : evidence'[p] # None
  <2>1. \A x \in (1..MaxContexts) \X Entries : reviews[x] # None => reviews[x].evidence \subseteq Requests
    BY DEF TypeOK, ReviewRow
  <2> QED
    BY <2>1 DEF VerifyInv
<1> QED
  BY <1>1, <1>2, <1>3, <1>4, <1>5 DEF VerifyInv
\* VerifyInv is kept: one verification of a request at a time, on what it reserved.
LEMMA VerifyStep ==
  ASSUME ContextInv, [Next]_vars
  PROVE  VerifyInv'
<1>0. TypeOK /\ TypeOK' /\ VerifyInv /\ repo.content \in Nat /\ None \notin Operation /\ None \notin Evidence
  BY TypeStep, TaskContextAssumption DEF ContextInv, TypeOK, TaskContextAssumption
<1>1. ASSUME NEW k \in Calls, NEW new, call' = [call EXCEPT ![k] = new], new = None \/ new.kind # "verify"
      PROVE  \A c \in Calls : call'[c] = call[c] \/ call'[c] = None \/ call'[c].kind # "verify"
  BY <1>0, <1>1 DEF TypeOK
<1>2. ASSUME NEW k \in Calls, verifying(k)
      PROVE  /\ call[k] \in Call /\ call[k].kind = "verify" /\ call[k].request \in Requests
             /\ call[k].result \in {"none", "passed", "failed"} /\ reserved(k)
             /\ evidence[call[k].request] \in Evidence
  <2>1. call[k] \in Call /\ call[k].kind = "verify" /\ reserved(k)
    BY <1>0, <1>2 DEF TypeOK, verifying, VerifyInv
  <2>2. call[k].request \in Requests /\ call[k].result \in {"none", "passed", "failed"}
    BY <2>1, CallKinds
  <2>3. evidence[call[k].request] \in Evidence
    BY <1>0, <2>1, <2>2 DEF TypeOK, reserved
  <2> QED
    BY <2>1, <2>2, <2>3
<1>3. ASSUME UNCHANGED <<call, operations, evidence, ran, reviews>>, repo.content <= repo'.content
      PROVE  VerifyInv'
  BY <1>0, <1>3, VerifyKept
<1>4. CASE editRepository
  <2>1. repo'.content = repo.content + 1
    BY <1>4 DEF editRepository
  <2> QED
    BY <1>0, <1>3, <1>4, <2>1 DEF editRepository, memory
<1>5. CASE UNCHANGED <<call, operations, evidence, ran, reviews, repo>>
  BY <1>0, <1>3, <1>5
<1>6. ASSUME NEW k \in Calls, selectFinalTaskContext(k)
      PROVE  VerifyInv'
  <2> DEFINE new == [kind |-> "prepared", delivery |-> writtenAt(prepareScopedContextSnapshot(None))]
  <2>1. /\ UNCHANGED <<evidence, ran, reviews, operations, repo>> /\ call' = [call EXCEPT ![k] = new]
        /\ new.kind # "verify"
    BY <1>6 DEF selectFinalTaskContext, world, memory
  <2> HIDE DEF new
  <2> QED
    BY <1>0, <1>1, <2>1, VerifyKept
<1>7. ASSUME NEW k \in Calls, NEW q \in Requests, refreshTaskContext(k, q)
      PROVE  VerifyInv'
  <2> DEFINE new == [kind |-> "refresh", request |-> q, expected |-> Len(revisions),
                     prepared |-> prepareScopedContextSnapshot(q)]
  <2>1. /\ UNCHANGED <<evidence, ran, reviews, operations, repo>> /\ call' = [call EXCEPT ![k] = new]
        /\ new.kind # "verify"
    BY <1>7 DEF refreshTaskContext, world, memory
  <2> HIDE DEF new
  <2> QED
    BY <1>0, <1>1, <2>1, VerifyKept
<1>8. ASSUME NEW k \in Calls, withPreparedEnno(k) \/ abandonCall(k)
      PROVE  VerifyInv'
  <2>1. UNCHANGED <<evidence, ran, reviews, operations, repo>> /\ call' = [call EXCEPT ![k] = None]
    BY <1>8 DEF withPreparedEnno, abandonCall, world, memory
  <2> QED
    BY <1>0, <1>1, <2>1, VerifyKept
<1>9. ASSUME NEW k \in Calls, queryScopedContextTransaction(k)
      PROVE  VerifyInv'
  <2> DEFINE q == call[k].request
             done == [kind |-> "refresh", expected |-> call[k].expected,
                      revision |-> contextRevision([by |-> q, delivery |-> writtenAt(call[k].prepared)])]
  <2>1. /\ UNCHANGED <<evidence, ran, reviews, repo>> /\ call' = [call EXCEPT ![k] = None]
        /\ operations[q] = None /\ operations' = [operations EXCEPT ![q] = done]
    BY <1>9 DEF queryScopedContextTransaction, world
  <2> HIDE DEF q, done
  <2>2. \A p \in Requests : operations[p] # None => operations'[p] # None
    BY <1>0, <2>1 DEF TypeOK
  <2>3. \A c \in Calls : call'[c] = call[c] \/ call'[c] = None \/ call'[c].kind # "verify"
    BY <1>1, <2>1
  <2> QED
    BY <1>0, <2>1, <2>2, <2>3, VerifyKept
<1>10. ASSUME NEW q \in Requests, NEW outcome \in {"passed", "failed"}, recordMemoryEvidence(q, outcome)
       PROVE  VerifyInv'
  <2> DEFINE new == [delivery |-> Len(deliveries), host |-> FALSE, content |-> repo.content,
                     state |-> "finished", outcome |-> outcome]
             done == [kind |-> "evidence"]
  <2>1. /\ UNCHANGED <<call, ran, reviews, repo>> /\ operations[q] = None
        /\ evidence' = [evidence EXCEPT ![q] = new] /\ operations' = [operations EXCEPT ![q] = done]
    BY <1>10 DEF recordMemoryEvidence, world
  <2>2. new \in Evidence /\ done \in Operation /\ ~new.host /\ new.content = repo.content
    BY <1>0 DEF TypeOK, Evidence, Operation
  <2> HIDE DEF new, done
  <2>3. /\ evidence'[q] = new /\ operations'[q] = done
        /\ \A p \in Requests \ {q} : evidence'[p] = evidence[p] /\ operations'[p] = operations[p]
    BY <1>0, <2>1 DEF TypeOK
  <2>4. evidence'[q] # None /\ operations'[q] # None
    BY <1>0, <2>2, <2>3
  <2>5. \A k \in Calls : verifying(k)' => verifying(k) /\ call'[k] = call[k] /\ call'[k].request # q
    BY <1>2, <2>1 DEF verifying, reserved
  <2> QED
    BY <1>0, <2>1, <2>2, <2>3, <2>4, <2>5, VerifyOne
<1>11. ASSUME NEW k \in Calls, NEW q \in Requests, reserveVerification(k, q)
       PROVE  VerifyInv'
  <2> DEFINE new == [delivery |-> Len(deliveries), host |-> TRUE, content |-> repo.content,
                     state |-> "running", outcome |-> "unknown"]
             done == [kind |-> "verify"]
             waiting == [kind |-> "verify", request |-> q, result |-> "none"]
  <2>1. /\ UNCHANGED <<ran, reviews, repo>> /\ operations[q] = None
        /\ evidence' = [evidence EXCEPT ![q] = new] /\ operations' = [operations EXCEPT ![q] = done]
        /\ call' = [call EXCEPT ![k] = waiting]
    BY <1>11 DEF reserveVerification, world
  <2>2. /\ new \in Evidence /\ done \in Operation /\ new.host /\ new.outcome = "unknown"
        /\ new.content = repo.content /\ waiting.request = q /\ waiting.result = "none"
    BY <1>0 DEF TypeOK, Evidence, Operation
  <2> HIDE DEF new, done, waiting
  <2>3. /\ evidence'[q] = new /\ operations'[q] = done /\ call'[k] = waiting
        /\ \A p \in Requests \ {q} : evidence'[p] = evidence[p] /\ operations'[p] = operations[p]
        /\ \A c \in Calls \ {k} : call'[c] = call[c]
    BY <1>0, <2>1 DEF TypeOK
  <2>4. evidence'[q] # None /\ operations'[q] # None /\ ran'[q] = <<>>
    BY <1>0, <2>1, <2>2, <2>3 DEF VerifyInv
  <2>5. \A c \in Calls \ {k} : verifying(c)' => verifying(c) /\ call'[c] = call[c] /\ call'[c].request # q
    BY <1>2, <2>1, <2>3 DEF verifying, reserved
  <2>6. call'[k].request = q /\ reserved(k)'
    BY <2>2, <2>3, <2>4 DEF reserved
  <2> QED
    BY <1>0, <2>1, <2>2, <2>3, <2>4, <2>5, <2>6, VerifyOne
<1>12. ASSUME NEW k \in Calls, NEW result \in {"passed", "failed"}, runVerifiers(k, result)
       PROVE  VerifyInv'
  <2> DEFINE q == call[k].request
             new == [call[k] EXCEPT !.result = result]
  <2>1. /\ verifying(k) /\ call[k].result = "none"
        /\ ran' = [ran EXCEPT ![q] = Append(@, repo.content)] /\ call' = [call EXCEPT ![k] = new]
        /\ UNCHANGED <<operations, evidence, reviews, repo>>
    BY <1>12 DEF runVerifiers, verifying, world
  <2>2. /\ q \in Requests /\ reserved(k) /\ call[k] \in Call /\ call[k].kind = "verify" /\ evidence[q] \in Evidence
    BY <1>2, <2>1
  <2>3. new.request = q /\ new.result = result
    BY <2>2, CallKinds
  <2>4. \A c \in Calls \ {k} : verifying(c) => call[c].request # q
    BY <1>0, <2>1 DEF VerifyInv
  <2> HIDE DEF q, new
  <2>5. /\ ran'[q] = Append(ran[q], repo.content) /\ call'[k] = new
        /\ \A p \in Requests \ {q} : ran'[p] = ran[p]
        /\ \A c \in Calls \ {k} : call'[c] = call[c]
    BY <1>0, <2>1, <2>2 DEF TypeOK
  <2>6. /\ operations[q] # None /\ evidence[q] # None /\ evidence[q].host
        /\ evidence[q].outcome = "unknown" /\ ran[q] = <<>> /\ evidence[q].content <= repo.content
        /\ evidence[q].content \in Nat
    BY <1>0, <2>1, <2>2 DEF reserved, VerifyInv, q, Evidence
  <2>7. ran'[q] = <<repo.content>>
    BY <2>5, <2>6
  <2>8. reserved(k)'
    BY <1>0, <2>1, <2>3, <2>5, <2>6, <2>7 DEF reserved
  <2>9. \A c \in Calls \ {k} : verifying(c)' => verifying(c) /\ call'[c] = call[c] /\ call'[c].request # q
    BY <2>4, <2>5 DEF verifying
  <2> QED
    BY <1>0, <2>1, <2>2, <2>3, <2>5, <2>6, <2>8, <2>9, VerifyOne
<1>13. ASSUME NEW k \in Calls, finishVerification(k)
       PROVE  VerifyInv'
  <2> DEFINE q == call[k].request
             new == [evidence[q] EXCEPT !.state = "finished",
                                        !.outcome = outcomeOf(call[k].result, evidence[q].content)]
  <2>1. /\ verifying(k) /\ call[k].result # "none"
        /\ evidence' = [evidence EXCEPT ![q] = new] /\ call' = [call EXCEPT ![k] = None]
        /\ UNCHANGED <<operations, ran, reviews, repo>>
    BY <1>13 DEF finishVerification, verifying, world
  <2>2. /\ q \in Requests /\ reserved(k) /\ call[k].result \in {"passed", "failed"} /\ evidence[q] \in Evidence
    BY <1>2, <2>1
  <2>3. /\ new \in Evidence /\ new.content = evidence[q].content
        /\ new.outcome = outcomeOf(call[k].result, evidence[q].content)
    <3>1. outcomeOf(call[k].result, evidence[q].content) \in {"unknown", "passed", "failed"}
      BY <2>2 DEF outcomeOf
    <3> QED
      BY <2>2, <3>1 DEF Evidence
  <2>4. \A c \in Calls \ {k} : verifying(c) => call[c].request # q
    BY <1>0, <2>1 DEF VerifyInv
  <2>5. /\ operations[q] # None /\ evidence[q].content <= repo.content /\ evidence[q].content \in Nat
        /\ \E c \in evidence[q].content..repo.content : ran[q] = <<c>>
    BY <1>0, <2>1, <2>2 DEF reserved, VerifyInv, Evidence
  <2>6. new.outcome = "passed" => ran[q] = <<new.content>>
    <3> SUFFICES ASSUME new.outcome = "passed"
                 PROVE  repo.content = evidence[q].content
      BY <1>0, <2>3, <2>5
    <3> QED
      BY <2>2, <2>3 DEF outcomeOf
  <2> HIDE DEF q, new
  <2>7. /\ evidence'[q] = new /\ call'[k] = None
        /\ \A p \in Requests \ {q} : evidence'[p] = evidence[p]
        /\ \A c \in Calls \ {k} : call'[c] = call[c]
    BY <1>0, <2>1, <2>2 DEF TypeOK
  <2>8. evidence'[q] # None
    BY <1>0, <2>3, <2>7
  <2>9. \A c \in Calls : verifying(c)' => verifying(c) /\ call'[c] = call[c] /\ call'[c].request # q
    BY <2>4, <2>7 DEF verifying
  <2> QED
    BY <1>0, <2>1, <2>2, <2>3, <2>5, <2>6, <2>7, <2>8, <2>9, VerifyOne
<1>14. ASSUME NEW q \in Requests, NEW e \in Entries, NEW adopt \in BOOLEAN, NEW E \in SUBSET Requests,
              reviewTaskMemory(q, e, adopt, E)
       PROVE  VerifyInv'
  <2> DEFINE x == <<Len(deliveries), e>>
             judged == [entryRevision |-> entry[e].rev, adopt |-> adopt, evidence |-> E,
                        revision |-> (IF reviews[x] = None THEN 0 ELSE reviews[x].revision) + 1]
             done == [kind |-> "review"]
  <2>1. /\ operations[q] = None /\ E \subseteq evidenceOf(Len(deliveries))
        /\ reviews' = [reviews EXCEPT ![x] = judged] /\ operations' = [operations EXCEPT ![q] = done]
        /\ UNCHANGED <<call, evidence, ran, repo>>
    BY <1>14 DEF reviewTaskMemory, world
  <2>2. \A p \in E : evidence[p] # None
    BY <2>1 DEF evidenceOf
  <2>3. done \in Operation /\ judged.evidence = E
    BY DEF Operation
  <2> HIDE DEF x, judged, done
  <2>4. \A p \in Requests : operations'[p] = None => operations[p] = None
    BY <1>0, <2>1, <2>3 DEF TypeOK
  <2>5. \A y \in (1..MaxContexts) \X Entries : reviews'[y] # None =>
          \A p \in reviews'[y].evidence : evidence'[p] # None
    <3> SUFFICES ASSUME NEW y \in (1..MaxContexts) \X Entries, reviews'[y] # None,
                        NEW p \in reviews'[y].evidence
                 PROVE  evidence[p] # None
      BY <2>1
    <3>1. CASE reviews'[y] = reviews[y]
      BY <1>0, <3>1 DEF VerifyInv
    <3>2. CASE reviews'[y] = judged
      BY <2>2, <2>3, <3>2
    <3> QED
      BY <1>0, <2>1, <3>1, <3>2 DEF TypeOK
  <2>6. \A k \in Calls : verifying(k)' => reserved(k)'
    <3> SUFFICES ASSUME NEW k \in Calls, verifying(k)
                 PROVE  reserved(k)'
      BY <2>1 DEF verifying
    <3> QED
      BY <1>2, <2>1, <2>4 DEF reserved
  <2>7. \A k, c \in Calls : (verifying(k) /\ verifying(c) /\ call[k].request = call[c].request)' => k = c
    BY <1>0, <2>1 DEF VerifyInv, verifying
  <2> QED
    BY <1>0, <2>1, <2>4, <2>5, <2>6, <2>7 DEF VerifyInv
<1> QED
  BY <1>4, <1>5, <1>6, <1>7, <1>8, <1>9, <1>10, <1>11, <1>12, <1>13, <1>14
  DEF Next, updateCandidateEntry, changeStatus, appendEvent, checkpointScopedMemory, world, memory, vars
-----------------------------------------------------------------------------
(* The end of the run                                                      *)

\* No operation changes a run that has ended.
LEMMA Frozen ==
  ASSUME [Next]_vars, run.status = "ended"
  PROVE  UNCHANGED <<run, deliveries, operations, evidence, reviews, report>>
<1> USE DEF world, memory, assertDelivery
<1>1. ASSUME NEW e \in Entries, updateCandidateEntry(e) \/ changeStatus(e)
      PROVE  UNCHANGED <<run, deliveries, operations, evidence, reviews, report>>
  BY <1>1 DEF updateCandidateEntry, changeStatus
<1>2. CASE appendEvent \/ editRepository \/ checkpointScopedMemory \/ UNCHANGED vars
  BY <1>2 DEF appendEvent, editRepository, checkpointScopedMemory, vars
<1>3. ASSUME NEW k \in Calls, selectFinalTaskContext(k) \/ withPreparedEnno(k) \/ abandonCall(k)
      PROVE  UNCHANGED <<run, deliveries, operations, evidence, reviews, report>>
  BY <1>3 DEF selectFinalTaskContext, withPreparedEnno, abandonCall
<1>4. ASSUME NEW k \in Calls, queryScopedContextTransaction(k) \/ finishVerification(k)
      PROVE  UNCHANGED <<run, deliveries, operations, evidence, reviews, report>>
  BY <1>4 DEF queryScopedContextTransaction, finishVerification, assertPreparedScopedState, assertPreparedScopedRun
<1>5. ASSUME NEW k \in Calls, NEW q \in Requests, refreshTaskContext(k, q) \/ reserveVerification(k, q)
      PROVE  UNCHANGED <<run, deliveries, operations, evidence, reviews, report>>
  BY <1>5 DEF refreshTaskContext, reserveVerification
<1>6. ASSUME NEW k \in Calls, NEW result \in {"passed", "failed"}, runVerifiers(k, result)
      PROVE  UNCHANGED <<run, deliveries, operations, evidence, reviews, report>>
  BY <1>6 DEF runVerifiers
<1>7. ASSUME NEW q \in Requests, NEW outcome \in {"passed", "failed"}, recordMemoryEvidence(q, outcome)
      PROVE  UNCHANGED <<run, deliveries, operations, evidence, reviews, report>>
  BY <1>7 DEF recordMemoryEvidence
<1>8. ASSUME NEW q \in Requests, NEW e \in Entries, NEW adopt \in BOOLEAN, NEW E \in SUBSET Requests,
             reviewTaskMemory(q, e, adopt, E)
      PROVE  UNCHANGED <<run, deliveries, operations, evidence, reviews, report>>
  BY <1>8 DEF reviewTaskMemory
<1> QED
  BY <1>1, <1>2, <1>3, <1>4, <1>5, <1>6, <1>7, <1>8 DEF Next

\* ReportInv is kept: what the report rests on is frozen with the run.
LEMMA ReportStep ==
  ASSUME ContextInv, [Next]_vars
  PROVE  ReportInv'
<1>0. TypeOK /\ DeliveryInv /\ ReportInv /\ VerifyInv
  BY DEF ContextInv
<1>1. CASE run.status = "ended"
  BY <1>0, <1>1, Frozen DEF ReportInv
<1>2. CASE run.status # "ended" /\ ~checkpointScopedMemory
  <2>1. report = None
    BY <1>0, <1>2 DEF ReportInv
  <2>2. report' = report
    BY <1>2
    DEF Next, vars, world, memory, updateCandidateEntry, changeStatus, appendEvent, editRepository,
        selectFinalTaskContext, withPreparedEnno, queryScopedContextTransaction, abandonCall,
        finishVerification, refreshTaskContext, reserveVerification, runVerifiers, recordMemoryEvidence,
        reviewTaskMemory
  <2> QED
    BY <2>1, <2>2 DEF ReportInv
<1>3. CASE checkpointScopedMemory
  <2> DEFINE last == Len(deliveries)
  <2>1. /\ report' = [complete |-> memoryApplicationStatus, delivery |-> last,
                      entry |-> entry, content |-> repo.content]
        /\ run'.status = "ended"
        /\ UNCHANGED <<deliveries, reviews, evidence>>
    BY <1>0, <1>3 DEF checkpointScopedMemory, TypeOK
  <2>2. /\ report'.complete <=> memoryApplicationStatus
        /\ report'.delivery = last /\ report'.entry = entry /\ report'.content = repo.content
    BY <2>1
  <2>3. last \in Nat
    BY <1>0 DEF TypeOK
  <2>4. ASSUME memoryApplicationStatus, last # 0
        PROVE  \A e \in DOMAIN deliveries[last].items :
                 LET judged == reviews[<<last, e>>] IN
                 /\ judged # None /\ judged.entryRevision = entry[e].rev
                 /\ judged.adopt => \A q \in judged.evidence :
                      evidence[q] # None /\ evidence[q].outcome = "passed" /\ evidence[q].content = repo.content
    <3>1. last \in 1..Len(deliveries) /\ deliveries \in Seq([query : Query, items : Items])
      BY <1>0, <2>3, <2>4 DEF TypeOK
    <3>2. deliveries[last] \in [query : Query, items : Items]
      BY <3>1, ElementOfSeq
    <3>3. DOMAIN deliveries[last].items \subseteq Entries
      BY <3>2 DEF Items
    <3>4. last \in 1..MaxContexts
      BY <1>0, <3>1, TaskContextAssumption DEF DeliveryInv, TaskContextAssumption
    <3> SUFFICES ASSUME NEW e \in DOMAIN deliveries[last].items
                 PROVE  LET judged == reviews[<<last, e>>] IN
                        /\ judged # None /\ judged.entryRevision = entry[e].rev
                        /\ judged.adopt => \A q \in judged.evidence :
                             evidence[q] # None /\ evidence[q].outcome = "passed"
                             /\ evidence[q].content = repo.content
      OBVIOUS
    <3> DEFINE x == <<last, e>>
    <3>5. itemComplete(last, e)
      BY <2>4 DEF memoryApplicationStatus, latestMemoryDeliveryId
    <3>6. x \in (1..MaxContexts) \X Entries
      BY <3>3, <3>4
    <3>7. reviews[x] # None /\ \A q \in reviews[x].evidence : evidence[q] # None
      BY <1>0, <3>5, <3>6 DEF VerifyInv, itemComplete
    <3> QED
      BY <3>5, <3>7 DEF itemComplete, evidenceInvalid
  <2> QED
    BY <2>1, <2>2, <2>3, <2>4 DEF ReportInv
<1> QED
  BY <1>1, <1>2, <1>3

\* ContextInv is inductive.
LEMMA ContextStep ==
  ASSUME ContextInv, [Next]_vars
  PROVE  ContextInv'
BY TypeStep, DeliveryStep, RefreshStep, VerifyStep, ReportStep DEF ContextInv

(* ContextInv holds at every point of every run: what the proofs of the    *)
(* results below rest on.                                                  *)
LEMMA ContextCorrect == Spec => []ContextInv
<1>1. Init => ContextInv
  BY ContextInit
<1>2. ContextInv /\ [Next]_vars => ContextInv'
  BY ContextStep
<1> QED
  BY <1>1, <1>2, PTL DEF Spec
-----------------------------------------------------------------------------
(* The results                                                             *)

(* Rows and variables have their types throughout: a delivery holds        *)
(* revisions of entries, a receipt is one of the operations, and a review  *)
(* names evidence of its run.                                              *)
THEOREM ContextTypeCorrect == Spec => []TypeOK
<1>1. ContextInv => TypeOK
  BY DEF ContextInv
<1> QED
  BY <1>1, ContextCorrect, PTL

(* task_prepare, context_refresh, memory_verify and the checkpoint         *)
(* together are honest about memory: a query has one delivery however many *)
(* calls rank at once, a refresh that was answered made the revision right *)
(* after the one it expected, and a checkpoint that reports memory applied *)
(* does so on reviews of current revisions and on verifiers that ran, each *)
(* once, on the repository the run ended with.                             *)
THEOREM DeliveriesHonest == Spec => []DeliveriesAreHonest
<1> SUFFICES ASSUME ContextInv
             PROVE  DeliveriesAreHonest
  BY ContextCorrect, PTL
<1>1. OneDeliveryPerQuery
  <2>1. DOMAIN deliveries = 1..Len(deliveries)
    BY DEF ContextInv, TypeOK
  <2> QED
    BY <2>1 DEF ContextInv, DeliveryInv, OneDeliveryPerQuery
<1>2. RefreshesAreSerial
  BY DEF ContextInv, RefreshInv, RefreshesAreSerial
<1>3. ReportIsHonest
  <2> SUFFICES ASSUME report # None, report.complete, report.delivery # 0,
                      NEW e \in DOMAIN deliveries[report.delivery].items
               PROVE  LET judged == reviews[<<report.delivery, e>>] IN
                      /\ judged # None /\ judged.entryRevision = report.entry[e].rev
                      /\ judged.adopt => \A q \in judged.evidence :
                           evidence[q].host => ran[q] = <<report.content>>
    BY DEF ReportIsHonest
  <2> DEFINE d == report.delivery
             x == <<d, e>>
  <2>1. /\ d \in 1..Len(deliveries) /\ deliveries \in Seq([query : Query, items : Items])
        /\ Len(deliveries) <= MaxContexts
    BY DEF ContextInv, TypeOK, DeliveryInv, ReportInv
  <2>2. deliveries[d] \in [query : Query, items : Items]
    BY <2>1, ElementOfSeq
  <2>3. x \in (1..MaxContexts) \X Entries
    <3>1. e \in Entries
      BY <2>2 DEF Items
    <3>2. d \in 1..MaxContexts
      BY <2>1, TaskContextAssumption DEF TaskContextAssumption
    <3> QED
      BY <3>1, <3>2
  <2>4. /\ reviews[x] # None /\ reviews[x].entryRevision = report.entry[e].rev
        /\ reviews[x].adopt => \A q \in reviews[x].evidence :
             evidence[q] # None /\ evidence[q].outcome = "passed" /\ evidence[q].content = report.content
    BY DEF ContextInv, ReportInv
  <2>5. reviews[x] \in ReviewRow
    BY <2>3, <2>4 DEF ContextInv, TypeOK
  <2>6. \A q \in reviews[x].evidence : q \in Requests
    BY <2>5 DEF ReviewRow
  <2>7. \A q \in Requests : evidence[q] # None /\ evidence[q].host /\ evidence[q].outcome = "passed" =>
          ran[q] = <<evidence[q].content>>
    BY DEF ContextInv, VerifyInv
  <2> QED
    BY <2>4, <2>6, <2>7
<1> QED
  BY <1>1, <1>2, <1>3 DEF DeliveriesAreHonest

(* Once the checkpoint has ended the run, no refresh, verification or      *)
(* review that is still under way writes into its record.                  *)
THEOREM EndedFrozen == Spec => EndedIsFrozen
<1>1. [Next]_vars => [run.status = "ended" =>
                        UNCHANGED <<run, deliveries, operations, evidence, reviews, report>>]_vars
  BY Frozen
<1> QED
  BY <1>1, PTL DEF Spec, EndedIsFrozen
-----------------------------------------------------------------------------
(* Memory entries, of a store and of the workspaces of an archive          *)

\* Rows of a table of entries, whatever instance they belong to.
Exists(row) == row \notin {None, Purged}
Replaced(row) == Exists(row) /\ row.status = "superseded"

Table(E, I) ==
  /\ E \in [I -> EntryRow(I) \cup {None, Purged}]
  /\ \A e \in I : Exists(E[e]) => E[e].history # <<>>
Readings(R, C, I) == R \in [C -> [id : I, revision : Nat, content : Content(I)] \cup {None}]

\* A replacement exists in the workspace, and no set of replaced rows is closed.
Chains(E, I) ==
  /\ \A e \in I : Replaced(E[e]) =>
       E[e].supersededBy \in I /\ Exists(E[E[e].supersededBy]) /\ E[E[e].supersededBy].workspace = E[e].workspace
  /\ \A S \in SUBSET I : S # {} /\ (\A e \in S : Replaced(E[e])) => \E e \in S : E[e].supersededBy \notin S

\* What the operations on a row leave: a candidate that is new ...
NewRow(E, row) == Exists(row) /\ row.history # <<>> /\ row.status # "superseded"
\* ... one that is edited, verified or superseded by another, which is current ...
SameRow(old, row) == Exists(old) /\ Exists(row) /\ row.workspace = old.workspace /\ row.history # <<>>
KeptStatus(old, row) == row.status # "superseded" /\ old.status # "superseded"
Supersession(E, I, e, row) ==
  /\ E[e].status # "superseded" /\ row.status = "superseded" /\ row.supersededBy \in I \ {e}
  /\ Exists(E[row.supersededBy]) /\ E[row.supersededBy].status # "superseded"
  /\ E[row.supersededBy].workspace = row.workspace
\* ... or nothing, where nobody names the entry.
Unnamed(E, I, e) == \A d \in I : Exists(E[d]) => E[d].supersededBy # e

Change(E, F, I, e) ==
  \E row \in EntryRow(I) \cup {Purged} :
    /\ F = [E EXCEPT ![e] = row]
    /\ \/ E[e] = None /\ NewRow(E, row)
       \/ SameRow(E[e], row) /\ KeptStatus(E[e], row)
       \/ SameRow(E[e], row) /\ Supersession(E, I, e, row)
       \/ row = Purged /\ Unnamed(E, I, e)

\* A row is neither absent nor purged.
LEMMA RowExists ==
  ASSUME NEW I \in {Ids, ArchiveIds}, NEW row \in EntryRow(I)
  PROVE  Exists(row)
BY KnowledgeAssumption DEF KnowledgeAssumption, Exists

\* Whatever is done to one row, chains of replacements end at a row that is current.
LEMMA ChainsKept ==
  ASSUME NEW I, NEW E, NEW F, Table(E, I), Chains(E, I), NEW e \in I, Change(E, F, I, e)
  PROVE  Table(F, I) /\ Chains(F, I)
<1>1. PICK row \in EntryRow(I) \cup {Purged} :
        /\ F = [E EXCEPT ![e] = row]
        /\ \/ E[e] = None /\ NewRow(E, row)
           \/ SameRow(E[e], row) /\ KeptStatus(E[e], row)
           \/ SameRow(E[e], row) /\ Supersession(E, I, e, row)
           \/ row = Purged /\ Unnamed(E, I, e)
  BY DEF Change
<1>2. F[e] = row /\ \A d \in I : d # e => F[d] = E[d]
  BY <1>1 DEF Table
<1>3. ~Exists(Purged) /\ ~Exists(None)
  BY DEF Exists
<1>4. Table(F, I)
  BY <1>1, <1>2, <1>3 DEF Table, NewRow, SameRow
<1>5. CASE E[e] = None /\ NewRow(E, row)
  <2>1. ~Replaced(row) /\ ~Exists(E[e]) /\ Exists(row)
    BY <1>3, <1>5 DEF NewRow, Replaced
  <2>2. \A d \in I : Replaced(F[d]) => d # e /\ Replaced(E[d])
    BY <1>2, <2>1
  <2>3. \A d \in I : Replaced(E[d]) => E[d].supersededBy # e
    BY <2>1 DEF Chains
  <2> QED
    BY <1>2, <1>4, <2>2, <2>3 DEF Chains
<1>6. CASE SameRow(E[e], row) /\ KeptStatus(E[e], row)
  <2>1. ~Replaced(row) /\ Exists(row) /\ row.workspace = E[e].workspace
    BY <1>6 DEF SameRow, KeptStatus, Replaced
  <2>2. \A d \in I : Replaced(F[d]) => d # e /\ Replaced(E[d])
    BY <1>2, <2>1
  <2>3. \A d \in I : Exists(E[d]) => Exists(F[d]) /\ F[d].workspace = E[d].workspace
    BY <1>2, <2>1
  <2> QED
    BY <1>2, <1>4, <2>2, <2>3 DEF Chains
<1>7. CASE SameRow(E[e], row) /\ Supersession(E, I, e, row)
  <2>1. /\ Exists(row) /\ row.workspace = E[e].workspace /\ row.supersededBy \in I \ {e}
        /\ Exists(E[row.supersededBy]) /\ ~Replaced(E[row.supersededBy])
        /\ E[row.supersededBy].workspace = row.workspace
    BY <1>7 DEF SameRow, Supersession, Replaced
  <2>2. \A d \in I : Exists(E[d]) => Exists(F[d]) /\ F[d].workspace = E[d].workspace
    BY <1>2, <2>1
  <2>3. \A d \in I : Replaced(F[d]) => d = e \/ Replaced(E[d])
    BY <1>2
  <2>4. ASSUME NEW d \in I, Replaced(F[d])
        PROVE  /\ F[d].supersededBy \in I /\ Exists(F[F[d].supersededBy])
               /\ F[F[d].supersededBy].workspace = F[d].workspace
    BY <1>2, <2>1, <2>2, <2>3, <2>4 DEF Chains
  <2>5. ASSUME NEW S \in SUBSET I, S # {}, \A d \in S : Replaced(F[d])
        PROVE  \E d \in S : F[d].supersededBy \notin S
    <3>1. CASE e \in S
      <4>1. row.supersededBy \notin S
        BY <1>2, <2>1, <2>5
      <4> QED
        BY <1>2, <3>1, <4>1
    <3>2. CASE e \notin S
      <4>1. \A d \in S : d \in I /\ d # e /\ F[d] = E[d] /\ Replaced(E[d])
        BY <1>2, <2>5, <3>2
      <4>2. PICK d \in S : E[d].supersededBy \notin S
        BY <2>5, <4>1 DEF Chains
      <4> QED
        BY <4>1, <4>2
    <3> QED
      BY <3>1, <3>2
  <2> QED
    BY <1>4, <2>4, <2>5 DEF Chains
<1>8. CASE row = Purged /\ Unnamed(E, I, e)
  <2>1. ~Exists(row) /\ ~Replaced(row)
    BY <1>3, <1>8 DEF Replaced
  <2>2. \A d \in I : Replaced(F[d]) => d # e /\ Replaced(E[d]) /\ F[d] = E[d] /\ E[d].supersededBy # e
    BY <1>2, <1>8, <2>1 DEF Unnamed, Replaced
  <2> QED
    BY <1>2, <1>4, <2>2 DEF Chains
<1> QED
  BY <1>1, <1>5, <1>6, <1>7, <1>8

\* What was purged does not come back, and a new row comes where nothing was.
LEMMA NoReturn ==
  ASSUME NEW E, NEW F, NEW I, NEW e \in I, Table(E, I), Change(E, F, I, e), E[e] # None, Exists(F[e])
  PROVE  Exists(E[e])
BY DEF Change, Table, SameRow, Exists

\* What was read is still the entry of that revision, unless it was purged.
ReadTrue(E, reading) ==
  /\ E[reading.id] # None
  /\ Exists(E[reading.id]) =>
       /\ reading.revision \in 1..Len(E[reading.id].history)
       /\ E[reading.id].history[reading.revision] = reading.content
\* A verified row says what was read of it, and a copy is global.
VerifiedTrue(row) == row.promotedAs # None =>
  row.status # "candidate" /\ row.history[Len(row.history)] = row.promotedAs
CopyGlobal(row) == row.source # None => row.workspace = "global"
SameCopy(row, other) == Exists(other) /\ other.source = row.source /\ other.status # "superseded"

MemoryInv ==
  /\ Table(entries, Ids) /\ Readings(read, Clients, Ids) /\ Chains(entries, Ids)
  /\ \A c \in Clients : read[c] # None => ReadTrue(entries, read[c])
  /\ \A e \in Ids : Exists(entries[e]) => VerifiedTrue(entries[e]) /\ CopyGlobal(entries[e])
  /\ \A e, d \in Ids : Exists(entries[e]) /\ entries[e].source # None /\ entries[e].status # "superseded"
                       /\ SameCopy(entries[e], entries[d]) => e = d

\* The store is empty at first.
LEMMA MemoryStarts == Memory!Init => MemoryInv
BY KnowledgeAssumption DEF KnowledgeAssumption, Memory!Init, MemoryInv, Table, Readings, Chains, Exists, Replaced

\* A row that goes on as it was, is a copy of its own and says what was read keeps the store in order.
LEMMA RowKeepsMemory ==
  ASSUME MemoryInv, NEW e \in Ids, NEW row \in EntryRow(Ids) \cup {Purged}, UNCHANGED read,
         entries' = [entries EXCEPT ![e] = row], Change(entries, entries', Ids, e),
         Exists(entries[e]) /\ Exists(row) =>
           /\ Len(row.history) >= Len(entries[e].history)
           /\ \A i \in 1..Len(entries[e].history) : row.history[i] = entries[e].history[i],
         Exists(row) => VerifiedTrue(row) /\ CopyGlobal(row),
         Exists(row) /\ row.source # None /\ row.status # "superseded" =>
           \A d \in Ids \ {e} : ~SameCopy(row, entries[d])
  PROVE  MemoryInv'
<1>1. /\ Table(entries, Ids) /\ Readings(read, Clients, Ids) /\ Chains(entries, Ids)
      /\ \A c \in Clients : read[c] # None => ReadTrue(entries, read[c])
  BY DEF MemoryInv
<1>2. entries'[e] = row /\ \A d \in Ids : d # e => entries'[d] = entries[d]
  BY <1>1 DEF Table
<1>3. Table(entries', Ids) /\ Chains(entries', Ids) /\ Readings(read', Clients, Ids)
  BY <1>1, ChainsKept
<1>4. ASSUME NEW c \in Clients, read[c] # None
      PROVE  ReadTrue(entries', read'[c])
  <2>1. ReadTrue(entries, read[c]) /\ read[c] \in [id : Ids, revision : Nat, content : Content(Ids)]
    BY <1>1, <1>4 DEF Readings
  <2>2. read[c].id \in Ids /\ read'[c] = read[c]
    BY <2>1
  <2>3. CASE read[c].id # e
    BY <1>2, <2>1, <2>2, <2>3 DEF ReadTrue
  <2>4. CASE read[c].id = e
    <3>1. entries[e] # None /\ row # None
      BY <2>1, <2>4, RowExists, KnowledgeAssumption DEF ReadTrue, KnowledgeAssumption, Exists
    <3>2. CASE Exists(row)
      <4>1. Exists(entries[e])
        BY <3>1, <3>2, <1>2, <1>1, NoReturn
      <4>2. entries[e].history \in Seq(Content(Ids)) /\ row.history \in Seq(Content(Ids))
        BY <1>1, <1>3, <1>2, <3>2, <4>1 DEF Table, EntryRow, Exists
      <4>3. Len(entries[e].history) \in Nat /\ Len(row.history) \in Nat
        BY <4>2
      <4> QED
        BY <1>2, <2>1, <2>2, <2>4, <3>1, <3>2, <4>1, <4>3 DEF ReadTrue
    <3>3. CASE ~Exists(row)
      BY <1>2, <2>2, <2>4, <3>1, <3>3 DEF ReadTrue
    <3> QED
      BY <3>2, <3>3
  <2> QED
    BY <2>3, <2>4
<1>5. \A d \in Ids : Exists(entries'[d]) => VerifiedTrue(entries'[d]) /\ CopyGlobal(entries'[d])
  BY <1>2 DEF MemoryInv
<1>6. ASSUME NEW f \in Ids, NEW d \in Ids, Exists(entries'[f]), entries'[f].source # None,
             entries'[f].status # "superseded", SameCopy(entries'[f], entries'[d])
      PROVE  f = d
  <2>1. CASE f # e /\ d # e
    BY <1>2, <1>6, <2>1 DEF MemoryInv
  <2>2. CASE f = e /\ d # e
    BY <1>2, <1>6, <2>2
  <2>3. CASE d = e /\ f # e
    BY <1>2, <1>6, <2>3 DEF SameCopy
  <2> QED
    BY <2>1, <2>2, <2>3
<1> QED
  BY <1>3, <1>4, <1>5, <1>6 DEF MemoryInv

\* What an edit, a promotion and a supersession write.
edited(E, e, text) == [E EXCEPT ![e].history = Append(@, text)]
verified(E, e, text) == [E EXCEPT ![e].status = "verified", ![e].promotedAs = text]
superseding(E, e, d) == [E EXCEPT ![e].status = "superseded", ![e].supersededBy = d]

\* An edit appends to the history of a candidate ...
LEMMA EditedRow ==
  ASSUME NEW I \in {Ids, ArchiveIds}, NEW E, Table(E, I), NEW e \in I, Exists(E[e]), E[e].status = "candidate",
         NEW text \in Texts, NEW F, F = edited(E, e, text)
  PROVE  \E row \in EntryRow(I) :
           /\ F = [E EXCEPT ![e] = row] /\ SameRow(E[e], row) /\ KeptStatus(E[e], row)
           /\ row.history = Append(E[e].history, text)
           /\ row.status = "candidate" /\ row.source = E[e].source /\ row.promotedAs = E[e].promotedAs
<1> DEFINE new == Append(E[e].history, text)
           row == [E[e] EXCEPT !.history = new]
<1>1. E[e] \in EntryRow(I) /\ E[e].history \in Seq(Content(I)) /\ text \in Content(I)
  BY DEF Table, Exists, EntryRow, Content
<1>2. new \in Seq(Content(I)) /\ new # <<>>
  BY <1>1
<1>3. F = [E EXCEPT ![e] = row]
  BY DEF edited
<1> HIDE DEF new
<1>4. /\ row \in EntryRow(I) /\ row.history = new /\ row.status = "candidate" /\ row.source = E[e].source
      /\ row.promotedAs = E[e].promotedAs /\ row.workspace = E[e].workspace
  BY <1>1, <1>2 DEF EntryRow
<1> HIDE DEF row
<1>5. SameRow(E[e], row) /\ KeptStatus(E[e], row)
  BY <1>2, <1>4, RowExists DEF SameRow, KeptStatus
<1>6. row.history = Append(E[e].history, text)
  BY <1>4 DEF new
<1> QED
  BY <1>3, <1>4, <1>5, <1>6

\* ... a promotion notes what was read of one ...
LEMMA PromotedRow ==
  ASSUME NEW I \in {Ids, ArchiveIds}, NEW E, Table(E, I), NEW e \in I, Exists(E[e]), E[e].status = "candidate",
         NEW text \in Content(I), NEW F, F = verified(E, e, text)
  PROVE  \E row \in EntryRow(I) :
           /\ F = [E EXCEPT ![e] = row] /\ SameRow(E[e], row) /\ KeptStatus(E[e], row)
           /\ row.history = E[e].history
           /\ row.status = "verified" /\ row.source = E[e].source /\ row.promotedAs = text
<1> DEFINE row == [E[e] EXCEPT !.status = "verified", !.promotedAs = text]
<1>1. E[e] \in EntryRow(I) /\ E[e].history # <<>>
  BY DEF Table, Exists
<1>2. F = [E EXCEPT ![e] = row]
  BY DEF Table, verified, superseding
<1>3. /\ row \in EntryRow(I) /\ row.history = E[e].history /\ row.status = "verified"
      /\ row.source = E[e].source /\ row.promotedAs = text /\ row.workspace = E[e].workspace
  BY <1>1 DEF EntryRow
<1> HIDE DEF row
<1>4. SameRow(E[e], row) /\ KeptStatus(E[e], row)
  BY <1>1, <1>3, RowExists DEF SameRow, KeptStatus
<1> QED
  BY <1>2, <1>3, <1>4

\* ... and a supersession leads to a current entry.
LEMMA SupersededRow ==
  ASSUME NEW I \in {Ids, ArchiveIds}, NEW E, Table(E, I), NEW e \in I, Exists(E[e]), E[e].status # "superseded",
         NEW d \in I \ {e}, Exists(E[d]), E[d].status # "superseded", E[d].workspace = E[e].workspace,
         NEW F, F = superseding(E, e, d)
  PROVE  \E row \in EntryRow(I) :
           /\ F = [E EXCEPT ![e] = row] /\ SameRow(E[e], row) /\ Supersession(E, I, e, row)
           /\ row.history = E[e].history
           /\ row.status = "superseded" /\ row.source = E[e].source /\ row.promotedAs = E[e].promotedAs
<1> DEFINE row == [E[e] EXCEPT !.status = "superseded", !.supersededBy = d]
<1>1. E[e] \in EntryRow(I) /\ E[e].history # <<>>
  BY DEF Table, Exists
<1>2. F = [E EXCEPT ![e] = row]
  BY DEF Table, verified, superseding
<1>3. /\ row \in EntryRow(I) /\ row.history = E[e].history /\ row.status = "superseded" /\ row.supersededBy = d
      /\ row.source = E[e].source /\ row.promotedAs = E[e].promotedAs /\ row.workspace = E[e].workspace
  BY <1>1 DEF EntryRow
<1> HIDE DEF row
<1>4. SameRow(E[e], row) /\ Supersession(E, I, e, row)
  BY <1>1, <1>3, RowExists DEF SameRow, Supersession
<1> QED
  BY <1>2, <1>3, <1>4

\* A client that expects a revision has read an entry that is still there.
LEMMA ExpectedEntry ==
  ASSUME NEW E, NEW I, NEW C, NEW R, Table(E, I), Readings(R, C, I), NEW c \in C, R[c] # None, Exists(E[R[c].id])
  PROVE  /\ R[c].id \in I /\ R[c].revision \in Nat /\ R[c].content \in Content(I)
         /\ E[R[c].id] \in EntryRow(I) /\ E[R[c].id].history \in Seq(Content(I))
         /\ Len(E[R[c].id].history) \in Nat /\ E[R[c].id].history # <<>>
<1>1. R[c] \in [id : I, revision : Nat, content : Content(I)]
  BY DEF Readings
<1>2. E[R[c].id] \in EntryRow(I)
  BY <1>1 DEF Table, Exists
<1> QED
  BY <1>1, <1>2 DEF Table, EntryRow

\* Memory keeps its order whatever clients do.
LEMMA MemoryOperations ==
  ASSUME MemoryInv, Memory!Next
  PROVE  MemoryInv'
<1>1. Table(entries, Ids) /\ Readings(read, Clients, Ids) /\ Chains(entries, Ids)
  BY DEF MemoryInv
<1>2. ASSUME NEW c \in Clients, Memory!expected(c)
      PROVE  /\ read[c] # None /\ Exists(entries[read[c].id])
             /\ Len(entries[read[c].id].history) = read[c].revision
             /\ read[c].id \in Ids /\ read[c].revision \in Nat /\ read[c].content \in Content(Ids)
             /\ entries[read[c].id] \in EntryRow(Ids) /\ entries[read[c].id].history \in Seq(Content(Ids))
             /\ entries[read[c].id].history # <<>> /\ ReadTrue(entries, read[c])
             /\ VerifiedTrue(entries[read[c].id]) /\ CopyGlobal(entries[read[c].id])
  BY <1>1, <1>2, ExpectedEntry DEF MemoryInv, Memory!expected, Memory!exists, Memory!revision, Exists
<1>3. ASSUME NEW e \in Ids, NEW row \in EntryRow(Ids), UNCHANGED read,
             entries' = [entries EXCEPT ![e] = row], SameRow(entries[e], row), row.source = entries[e].source,
             KeptStatus(entries[e], row) \/ Supersession(entries, Ids, e, row),
             Len(row.history) >= Len(entries[e].history),
             \A i \in 1..Len(entries[e].history) : row.history[i] = entries[e].history[i],
             VerifiedTrue(row)
      PROVE  MemoryInv'
  <2>1. Change(entries, entries', Ids, e)
    BY <1>3 DEF Change
  <2>2. Exists(entries[e]) /\ Exists(row) /\ row.workspace = entries[e].workspace
    BY <1>3 DEF SameRow
  <2>3. CopyGlobal(row)
    BY <1>3, <2>2 DEF CopyGlobal, MemoryInv
  <2>4. row.status # "superseded" => entries[e].status # "superseded"
    BY <1>3 DEF KeptStatus, Supersession
  <2>5. row.source # None /\ row.status # "superseded" => \A d \in Ids \ {e} : ~SameCopy(row, entries[d])
    BY <1>3, <2>2, <2>4 DEF MemoryInv, SameCopy
  <2> QED
    BY <1>3, <2>1, <2>3, <2>5, RowKeepsMemory
<1>4. ASSUME NEW e \in Ids, NEW row \in EntryRow(Ids), UNCHANGED read, entries[e] = None,
             entries' = [entries EXCEPT ![e] = row], NewRow(entries, row), VerifiedTrue(row), CopyGlobal(row),
             row.source # None => \A d \in Ids : ~SameCopy(row, entries[d])
      PROVE  MemoryInv'
  <2>1. Change(entries, entries', Ids, e) /\ ~Exists(entries[e])
    BY <1>4 DEF Change, Exists
  <2> QED
    BY <1>4, <2>1, RowKeepsMemory
<1>5. ASSUME NEW e \in Ids, NEW text \in Texts, Memory!recordEntry(e, text)
      PROVE  MemoryInv'
  <2> DEFINE row == [workspace |-> "project", status |-> "candidate", history |-> <<text>>,
                     supersededBy |-> None, source |-> None, promotedAs |-> None]
  <2>1. entries[e] = None /\ entries' = [entries EXCEPT ![e] = row] /\ UNCHANGED read
    BY <1>5 DEF Memory!recordEntry, Memory!inserted
  <2>2. row \in EntryRow(Ids) /\ row.history # <<>>
    BY DEF EntryRow, Content
  <2>3. row.status # "superseded" /\ row.source = None /\ row.promotedAs = None
    OBVIOUS
  <2> HIDE DEF row
  <2>4. NewRow(entries, row) /\ VerifiedTrue(row) /\ CopyGlobal(row)
    BY <2>2, <2>3, RowExists DEF NewRow, VerifiedTrue, CopyGlobal
  <2> QED
    BY <1>4, <2>1, <2>2, <2>3, <2>4
<1>6. ASSUME NEW c \in Clients, NEW e \in Ids, Memory!readEntry(c, e)
      PROVE  MemoryInv'
  <2> DEFINE reading == [id |-> e, revision |-> Memory!revision(e), content |-> Memory!current(e)]
  <2>1. Exists(entries[e]) /\ read' = [read EXCEPT ![c] = reading] /\ UNCHANGED entries
    BY <1>6 DEF Memory!readEntry, Memory!exists, Exists
  <2>2. /\ entries[e].history \in Seq(Content(Ids)) /\ entries[e].history # <<>>
        /\ Len(entries[e].history) \in Nat \ {0} /\ entries[e] # None
    BY <1>1, <2>1, EmptySeq DEF Table, EntryRow, Exists
  <2>3. /\ reading.id = e /\ reading.revision = Len(entries[e].history)
        /\ reading.content = entries[e].history[Len(entries[e].history)]
    BY DEF Memory!revision, Memory!current
  <2>4. entries[e].history[Len(entries[e].history)] \in Content(Ids)
    BY <2>2
  <2>5. reading \in [id : Ids, revision : Nat, content : Content(Ids)]
    BY <2>2, <2>3, <2>4
  <2> HIDE DEF reading
  <2>6. ReadTrue(entries, reading)
    BY <2>1, <2>2, <2>3 DEF ReadTrue
  <2>7. Readings(read', Clients, Ids)
    BY <1>1, <2>1, <2>5 DEF Readings
  <2>8. \A d \in Clients : read'[d] = IF d = c THEN reading ELSE read[d]
    BY <1>1, <2>1 DEF Readings
  <2> QED
    BY <1>1, <2>1, <2>6, <2>7, <2>8 DEF MemoryInv
<1>7. ASSUME NEW c \in Clients, NEW text \in Texts, Memory!updateCandidateEntry(c, text)
      PROVE  MemoryInv'
  <2> DEFINE e == read[c].id
  <2>1. /\ Memory!expected(c) /\ entries[e].status = "candidate" /\ UNCHANGED read
        /\ entries' = edited(entries, e, text)
    BY <1>7 DEF Memory!updateCandidateEntry, edited, Memory!editable
  <2>2. /\ Exists(entries[e]) /\ e \in Ids /\ entries[e].history \in Seq(Content(Ids))
        /\ VerifiedTrue(entries[e]) /\ text \in Content(Ids)
    BY <1>2, <2>1 DEF Content
  <2> HIDE DEF e
  <2>3. PICK row \in EntryRow(Ids) :
          /\ entries' = [entries EXCEPT ![e] = row] /\ SameRow(entries[e], row) /\ KeptStatus(entries[e], row)
          /\ row.history = Append(entries[e].history, text)
          /\ row.status = "candidate" /\ row.source = entries[e].source /\ row.promotedAs = entries[e].promotedAs
    BY <1>1, <2>1, <2>2, EditedRow
  <2>4. /\ Len(row.history) >= Len(entries[e].history)
        /\ \A i \in 1..Len(entries[e].history) : row.history[i] = entries[e].history[i]
    BY <2>2, <2>3
  <2>5. VerifiedTrue(row)
    BY <2>1, <2>2, <2>3 DEF VerifiedTrue
  <2> QED
    BY <1>3, <2>1, <2>2, <2>3, <2>4, <2>5
<1>8. ASSUME NEW c \in Clients, Memory!promoteEntry(c)
      PROVE  MemoryInv'
  <2> DEFINE e == read[c].id
             text == read[c].content
  <2>1. /\ Memory!expected(c) /\ entries[e].status = "candidate" /\ UNCHANGED read
        /\ entries' = verified(entries, e, text)
    BY <1>8 DEF verified, Memory!promoteEntry
  <2>2. /\ Exists(entries[e]) /\ e \in Ids /\ entries[e].history \in Seq(Content(Ids))
        /\ text \in Content(Ids) /\ Len(entries[e].history) = read[c].revision
        /\ entries[e].history[read[c].revision] = text
    BY <1>2, <2>1 DEF ReadTrue
  <2> HIDE DEF e, text
  <2>3. PICK row \in EntryRow(Ids) :
          /\ entries' = [entries EXCEPT ![e] = row] /\ SameRow(entries[e], row) /\ KeptStatus(entries[e], row)
          /\ row.history = entries[e].history
          /\ row.status = "verified" /\ row.source = entries[e].source /\ row.promotedAs = text
    BY <1>1, <2>1, <2>2, PromotedRow
  <2>4. /\ Len(row.history) >= Len(entries[e].history)
        /\ \A i \in 1..Len(entries[e].history) : row.history[i] = entries[e].history[i]
    BY <2>2, <2>3
  <2>5. VerifiedTrue(row)
    BY <2>2, <2>3 DEF VerifiedTrue
  <2> QED
    BY <1>3, <2>1, <2>2, <2>3, <2>4, <2>5
<1>9. ASSUME NEW c \in Clients, NEW d \in Ids, Memory!supersedeEntry(c, d)
      PROVE  MemoryInv'
  <2> DEFINE e == read[c].id
  <2>1. /\ Memory!expected(c) /\ entries[e].status # "superseded" /\ UNCHANGED read
        /\ Exists(entries[d]) /\ d # e /\ entries[d].workspace = entries[e].workspace
        /\ entries[d].status # "superseded"
        /\ entries' = superseding(entries, e, d)
    BY <1>9 DEF superseding, Memory!supersedeEntry, Memory!replaces, Memory!exists, Exists
  <2>2. /\ Exists(entries[e]) /\ e \in Ids /\ entries[e].history \in Seq(Content(Ids)) /\ VerifiedTrue(entries[e])
    BY <1>2, <2>1
  <2> HIDE DEF e
  <2>3. PICK row \in EntryRow(Ids) :
          /\ entries' = [entries EXCEPT ![e] = row] /\ SameRow(entries[e], row)
          /\ Supersession(entries, Ids, e, row) /\ row.history = entries[e].history
          /\ row.status = "superseded" /\ row.source = entries[e].source /\ row.promotedAs = entries[e].promotedAs
    BY <1>1, <2>1, <2>2, SupersededRow
  <2>4. /\ Len(row.history) >= Len(entries[e].history)
        /\ \A i \in 1..Len(entries[e].history) : row.history[i] = entries[e].history[i]
    BY <2>2, <2>3
  <2>5. VerifiedTrue(row)
    BY <2>2, <2>3 DEF VerifiedTrue
  <2> QED
    BY <1>3, <2>1, <2>2, <2>3, <2>4, <2>5
<1>10. ASSUME NEW e \in Ids, Memory!reference(e)
       PROVE  MemoryInv'
  BY <1>10 DEF Memory!reference, MemoryInv
<1>11. ASSUME NEW e \in Ids, Memory!purgeEntry(e)
       PROVE  MemoryInv'
  <2>1. entries' = [entries EXCEPT ![e] = Purged] /\ UNCHANGED read /\ Unnamed(entries, Ids, e)
    BY <1>11 DEF Memory!purgeEntry, Memory!exists, Exists, Unnamed
  <2>2. Change(entries, entries', Ids, e) /\ ~Exists(Purged)
    BY <2>1 DEF Change, Exists
  <2>3. Purged \in EntryRow(Ids) \cup {Purged}
    OBVIOUS
  <2> QED
    BY <2>1, <2>2, <2>3, RowKeepsMemory
<1>12. ASSUME NEW c \in Clients, NEW g \in Ids, Memory!globalizeCuratorCandidate(c, g)
       PROVE  MemoryInv'
  <2> DEFINE e == read[c].id
             rev == Len(entries[e].history)
             row == [workspace |-> "global", status |-> "verified", history |-> <<<<e, rev, g>>>>,
                     supersededBy |-> None, source |-> <<e, rev>>, promotedAs |-> None]
  <2>1. /\ Memory!expected(c) /\ entries[g] = None /\ UNCHANGED read
        /\ entries' = [entries EXCEPT ![g] = row]
        /\ \A d \in Ids : ~(/\ Exists(entries[d]) /\ entries[d].workspace = "global"
                            /\ entries[d].status # "superseded" /\ entries[d].source = <<e, rev>>)
    BY <1>12 DEF Memory!globalizeCuratorCandidate, Memory!inserted, Memory!claims, Memory!exists, Memory!revision, Exists
  <2>2. e \in Ids /\ rev \in Nat
    BY <1>2, <2>1
  <2>3. <<e, rev, g>> \in Content(Ids) /\ <<e, rev>> \in Ids \X Nat
    BY <2>2 DEF Content
  <2> HIDE DEF e, rev
  <2>4. row \in EntryRow(Ids) /\ row.history # <<>>
    BY <2>3 DEF EntryRow
  <2>5. /\ row.status # "superseded" /\ row.source = <<e, rev>> /\ row.promotedAs = None
        /\ row.workspace = "global"
    OBVIOUS
  <2> HIDE DEF row
  <2>6. NewRow(entries, row) /\ VerifiedTrue(row) /\ CopyGlobal(row)
    BY <2>4, <2>5, RowExists DEF NewRow, VerifiedTrue, CopyGlobal
  <2>7. ASSUME NEW d \in Ids, row.source # None, SameCopy(row, entries[d])
        PROVE  FALSE
    BY <2>1, <2>5, <2>7 DEF SameCopy, MemoryInv, CopyGlobal
  <2> QED
    BY <1>4, <2>1, <2>4, <2>6, <2>7
<1> QED
  BY <1>5, <1>6, <1>7, <1>8, <1>9, <1>10, <1>11, <1>12 DEF Memory!Next

\* A row that replaces none keeps the order of the workspaces ...
OneOwner(E, I) ==
  \A e, d \in I : Exists(E[e]) /\ Exists(E[d]) /\ E[e].workspace = E[d].workspace =>
    \A i \in 1..Len(E[e].history), j \in 1..Len(E[d].history) : E[e].history[i] = E[d].history[j] => e = d
LinksJoin(E, I, L) ==
  \A l \in L : /\ l.from \in I /\ l.to \in I /\ Exists(E[l.from]) /\ Exists(E[l.to])
               /\ E[l.from].workspace = E[l.to].workspace

\* ... and what an archive holds is such a table by itself, each row in its first revision.
ArchivedRows(R, L) ==
  \E S \in SUBSET ArchiveIds, ws \in {"project", "other", "global"} :
    /\ R \in [S -> EntryRow(ArchiveIds)]
    /\ \A e \in S : R[e].workspace = ws /\ Len(R[e].history) = 1
    /\ \A e \in S : R[e].status = "superseded" => R[e].supersededBy \in S
    /\ \A T \in SUBSET S : T # {} /\ (\A e \in T : R[e].status = "superseded") => \E e \in T : R[e].supersededBy \notin T
    /\ \A e, d \in S : R[e].history[1] = R[d].history[1] => e = d
    /\ \A l \in L : l.from \in S /\ l.to \in S
Archived(file) ==
  /\ \E id, intact, gone :
       file = [id |-> id, intact |-> intact, rows |-> file.rows, links |-> file.links, purges |-> gone]
  /\ ArchivedRows(file.rows, file.links)

WorkspaceInv ==
  /\ Table(entries, ArchiveIds) /\ Readings(read, ArchiveClients, ArchiveIds) /\ Chains(entries, ArchiveIds)
  /\ OneOwner(entries, ArchiveIds) /\ LinksJoin(entries, ArchiveIds, links)
  /\ archive # None => Archived(archive)
  /\ importer = [pc |-> importer.pc, file |-> importer.file, told |-> importer.told]
  /\ importer.pc # "idle" => Archived(importer.file)
  /\ importer.told = "imported" => whole

\* There is no archive at first.
LEMMA ArchiveStarts == Archive!ArchiveInit => WorkspaceInv
<1> SUFFICES ASSUME Archive!ArchiveInit PROVE WorkspaceInv
  OBVIOUS
<1>1. /\ entries = [e \in ArchiveIds |-> None] /\ read = [c \in ArchiveClients |-> None]
      /\ links = {} /\ archive = None /\ whole = TRUE
  BY DEF Archive!ArchiveInit, Archive!Init
<1>2. /\ importer.pc = "idle" /\ whole
      /\ importer = [pc |-> importer.pc, file |-> importer.file, told |-> importer.told]
  BY <1>1 DEF Archive!ArchiveInit, Archive!Idle
<1>3. \A e \in ArchiveIds : ~Exists(entries[e]) /\ ~Replaced(entries[e])
  BY <1>1 DEF Exists, Replaced
<1>4. Table(entries, ArchiveIds) /\ Readings(read, ArchiveClients, ArchiveIds)
  BY <1>1, <1>3 DEF Table, Readings
<1>5. Chains(entries, ArchiveIds) /\ OneOwner(entries, ArchiveIds) /\ LinksJoin(entries, ArchiveIds, links)
  BY <1>1, <1>3 DEF Chains, OneOwner, LinksJoin
<1> QED
  BY <1>1, <1>2, <1>4, <1>5 DEF WorkspaceInv

\* A row that takes no content of another and stays in its workspace keeps the archive's order.
LEMMA RowKeepsWorkspace ==
  ASSUME WorkspaceInv, NEW e \in ArchiveIds, NEW row \in EntryRow(ArchiveIds) \cup {Purged},
         entries' = [entries EXCEPT ![e] = row], Change(entries, entries', ArchiveIds, e),
         UNCHANGED <<read, archive, exports, importer, whole>>,
         Exists(row) => /\ \A d \in ArchiveIds \ {e} : Exists(entries[d]) /\ entries[d].workspace = row.workspace =>
                             \A i \in 1..Len(row.history), j \in 1..Len(entries[d].history) :
                               row.history[i] # entries[d].history[j]
                        /\ Exists(entries[e]) => row.workspace = entries[e].workspace,
         links' \subseteq links,
         ~Exists(row) => \A l \in links' : e \notin {l.from, l.to}
  PROVE  WorkspaceInv'
<1>1. /\ Table(entries, ArchiveIds) /\ Readings(read, ArchiveClients, ArchiveIds) /\ Chains(entries, ArchiveIds)
      /\ OneOwner(entries, ArchiveIds) /\ LinksJoin(entries, ArchiveIds, links)
  BY DEF WorkspaceInv
<1>2. entries'[e] = row /\ \A d \in ArchiveIds : d # e => entries'[d] = entries[d]
  BY <1>1 DEF Table
<1>3. Table(entries', ArchiveIds) /\ Chains(entries', ArchiveIds) /\ Readings(read', ArchiveClients, ArchiveIds)
  BY <1>1, ChainsKept
<1>4. OneOwner(entries', ArchiveIds)
  <2> SUFFICES ASSUME NEW f \in ArchiveIds, NEW d \in ArchiveIds, Exists(entries'[f]), Exists(entries'[d]),
                      entries'[f].workspace = entries'[d].workspace,
                      NEW i \in 1..Len(entries'[f].history), NEW j \in 1..Len(entries'[d].history),
                      entries'[f].history[i] = entries'[d].history[j]
               PROVE  f = d
    BY DEF OneOwner
  <2>1. CASE f # e /\ d # e
    BY <1>1, <1>2, <2>1 DEF OneOwner
  <2>2. CASE f = e /\ d # e
    BY <1>2, <2>2
  <2>3. CASE d = e /\ f # e
    BY <1>2, <2>3
  <2> QED
    BY <2>1, <2>2, <2>3
<1>5. LinksJoin(entries', ArchiveIds, links')
  <2> SUFFICES ASSUME NEW l \in links'
               PROVE  /\ l.from \in ArchiveIds /\ l.to \in ArchiveIds
                      /\ Exists(entries'[l.from]) /\ Exists(entries'[l.to])
                      /\ entries'[l.from].workspace = entries'[l.to].workspace
    BY DEF LinksJoin
  <2>1. /\ l.from \in ArchiveIds /\ l.to \in ArchiveIds /\ Exists(entries[l.from]) /\ Exists(entries[l.to])
        /\ entries[l.from].workspace = entries[l.to].workspace
    BY <1>1 DEF LinksJoin
  <2>2. CASE Exists(row)
    BY <1>2, <2>1, <2>2
  <2>3. CASE ~Exists(row)
    BY <1>2, <2>1, <2>3
  <2> QED
    BY <2>2, <2>3
<1>6. /\ archive' # None => Archived(archive')
      /\ importer' = [pc |-> importer'.pc, file |-> importer'.file, told |-> importer'.told]
      /\ importer'.pc # "idle" => Archived(importer'.file)
      /\ importer'.told = "imported" => whole'
  BY DEF WorkspaceInv
<1> QED
  BY <1>3, <1>4, <1>5, <1>6 DEF WorkspaceInv

\* An export is a table by itself.
LEMMA ExportArchived ==
  ASSUME WorkspaceInv, NEW ws \in {"project", "other"}, Archive!exportable(ws)
  PROVE  Archived(Archive!snapshot(ws))
<1> DEFINE S == Archive!members(ws)
           file == Archive!snapshot(ws)
           gone == {p \in purges : p.workspace = ws}
<1>1. Table(entries, ArchiveIds) /\ Chains(entries, ArchiveIds) /\ OneOwner(entries, ArchiveIds)
      /\ LinksJoin(entries, ArchiveIds, links)
  BY DEF WorkspaceInv
<1>2. /\ S \in SUBSET ArchiveIds
      /\ \A e \in ArchiveIds : e \in S <=> Exists(entries[e]) /\ entries[e].workspace = ws
      /\ \A e \in S : Len(entries[e].history) = 1
  BY DEF Archive!members, Archive!exists, Exists, Archive!exportable, Archive!revision
<1>3. /\ file = [id |-> exports + 1, intact |-> TRUE, rows |-> file.rows, links |-> file.links, purges |-> gone]
      /\ file.rows = [e \in S |-> entries[e]] /\ file.links = {l \in links : l.from \in S}
  BY DEF Archive!snapshot
<1> HIDE DEF S, file, gone
<1>4. file.rows \in [S -> EntryRow(ArchiveIds)] /\ \A e \in S : file.rows[e] = entries[e]
  BY <1>1, <1>2, <1>3 DEF Table, Exists
<1>5. \A e \in S : file.rows[e].status = "superseded" => Replaced(entries[e]) /\ file.rows[e].supersededBy \in S
  BY <1>1, <1>2, <1>4 DEF Chains, Replaced
<1>6. ASSUME NEW T \in SUBSET S, T # {}, \A e \in T : file.rows[e].status = "superseded"
      PROVE  \E e \in T : file.rows[e].supersededBy \notin T
  <2>1. T \in SUBSET ArchiveIds /\ \A e \in T : Replaced(entries[e]) /\ file.rows[e] = entries[e]
    BY <1>2, <1>4, <1>5, <1>6
  <2> QED
    BY <1>1, <1>6, <2>1 DEF Chains
<1>7. \A e, d \in S : file.rows[e].history[1] = file.rows[d].history[1] => e = d
  BY <1>1, <1>2, <1>4 DEF OneOwner
<1>8. \A l \in file.links : l.from \in S /\ l.to \in S
  BY <1>1, <1>2, <1>3 DEF LinksJoin
<1>9. ws \in {"project", "other", "global"}
  OBVIOUS
<1>10. /\ file.rows \in [S -> EntryRow(ArchiveIds)]
       /\ \A e \in S : file.rows[e].workspace = ws /\ Len(file.rows[e].history) = 1
       /\ \A e \in S : file.rows[e].status = "superseded" => file.rows[e].supersededBy \in S
       /\ \A T \in SUBSET S : T # {} /\ (\A e \in T : file.rows[e].status = "superseded") =>
            \E e \in T : file.rows[e].supersededBy \notin T
       /\ \A e, d \in S : file.rows[e].history[1] = file.rows[d].history[1] => e = d
       /\ \A l \in file.links : l.from \in S /\ l.to \in S
  BY <1>2, <1>4, <1>5, <1>6, <1>7, <1>8
<1>11. S \in SUBSET ArchiveIds
  BY <1>2
<1>12. ArchivedRows(file.rows, file.links)
  BY <1>9, <1>10, <1>11 DEF ArchivedRows
<1>13. Archived(file)
  BY <1>3, <1>12 DEF Archived
<1> QED
  BY <1>13 DEF file

\* What an import joins: rows of one workspace with the links between them, that
\* are there as archived or new to it.
Joins(E, F, I, S, R, ws, K) ==
  /\ S \in SUBSET I
  /\ \A e \in S : R[e] \in EntryRow(I) /\ Exists(R[e]) /\ R[e].workspace = ws /\ Len(R[e].history) = 1
  /\ \A e \in S : R[e].status = "superseded" => R[e].supersededBy \in S
  /\ \A T \in SUBSET S : T # {} /\ (\A e \in T : R[e].status = "superseded") =>
       \E e \in T : R[e].supersededBy \notin T
  /\ \A e, d \in S : R[e].history[1] = R[d].history[1] => e = d
  /\ \A l \in K : l.from \in S /\ l.to \in S
  /\ \A e \in S : IF Exists(E[e]) THEN E[e] = R[e]
                   ELSE \A d \in I : Exists(E[d]) /\ E[d].workspace = ws =>
                          \A j \in 1..Len(E[d].history) : E[d].history[j] # R[e].history[1]
  /\ F = [e \in I |-> F[e]] /\ \A e \in I : F[e] = IF e \in S THEN R[e] ELSE E[e]

\* The rows of an archive and those that were there, of other contents, make one table.
LEMMA JoinedTable ==
  ASSUME NEW I, NEW E, Table(E, I), Chains(E, I), OneOwner(E, I), NEW L, LinksJoin(E, I, L),
         NEW S, NEW R, NEW ws, NEW K, NEW F, Joins(E, F, I, S, R, ws, K)
  PROVE  Table(F, I) /\ Chains(F, I) /\ OneOwner(F, I) /\ LinksJoin(F, I, L \cup K)
<1> USE DEF Joins
<1>1. \A e \in S : F[e] = R[e] /\ R[e].history # <<>>
  BY EmptySeq DEF EntryRow
<1>2. \A e \in I : Exists(E[e]) => F[e] = E[e]
  OBVIOUS
<1>3. \A e \in I : e \notin S => F[e] = E[e]
  OBVIOUS
<1>4. Table(F, I)
  BY <1>1, <1>3 DEF Table
<1>5. ASSUME NEW e \in I, Replaced(F[e])
      PROVE  F[e].supersededBy \in I /\ Exists(F[F[e].supersededBy]) /\ F[F[e].supersededBy].workspace = F[e].workspace
  <2>1. CASE e \in S
    BY <1>1, <1>5, <2>1 DEF Replaced
  <2>2. CASE e \notin S
    BY <1>2, <1>3, <1>5, <2>2 DEF Chains, Replaced
  <2> QED
    BY <2>1, <2>2
<1>6. ASSUME NEW T \in SUBSET I, T # {}, \A e \in T : Replaced(F[e])
      PROVE  \E e \in T : F[e].supersededBy \notin T
  <2> DEFINE M == T \cap S
  <2>1. CASE M = {}
    <3>1. \A e \in T : F[e] = E[e] /\ Replaced(E[e])
      BY <1>3, <1>6, <2>1
    <3> QED
      BY <1>6, <3>1 DEF Chains
  <2>2. CASE M # {}
    <3>1. M \in SUBSET S /\ \A e \in M : R[e].status = "superseded" /\ F[e] = R[e]
      BY <1>1, <1>6 DEF Replaced
    <3> HIDE DEF M
    <3>2. PICK e \in M : R[e].supersededBy \notin M
      BY <2>2, <3>1
    <3>3. R[e].supersededBy \in S
      BY <3>1, <3>2
    <3>4. R[e].supersededBy \notin T /\ e \in T
      BY <3>2, <3>3 DEF M
    <3> QED
      BY <3>1, <3>2, <3>4
  <2> QED
    BY <2>1, <2>2
<1>7. OneOwner(F, I)
  <2>1. ASSUME NEW e \in I, NEW d \in I, Exists(F[e]), Exists(F[d]), F[e].workspace = F[d].workspace,
               NEW i \in 1..Len(F[e].history), NEW j \in 1..Len(F[d].history),
               F[e].history[i] = F[d].history[j], e \in S
        PROVE  e = d
    <3>1. i = 1 /\ F[e] = R[e] /\ F[e].workspace = ws
      BY <1>1, <2>1
    <3>2. CASE d \in S
      BY <1>1, <2>1, <3>1, <3>2
    <3>3. CASE d \notin S /\ Exists(E[e])
      BY <1>2, <1>3, <2>1, <3>3 DEF OneOwner
    <3>4. CASE d \notin S /\ ~Exists(E[e])
      <4>1. F[d] = E[d]
        BY <1>3, <3>4
      <4> QED
        BY <2>1, <3>1, <3>4, <4>1
    <3> QED
      BY <3>2, <3>3, <3>4
  <2>2. ASSUME NEW e \in I, NEW d \in I, Exists(F[e]), Exists(F[d]), F[e].workspace = F[d].workspace,
               NEW i \in 1..Len(F[e].history), NEW j \in 1..Len(F[d].history),
               F[e].history[i] = F[d].history[j]
        PROVE  e = d
    <3>1. CASE e \in S
      BY <2>1, <2>2, <3>1
    <3>2. CASE d \in S
      BY <2>1, <2>2, <3>2
    <3>3. CASE e \notin S /\ d \notin S
      BY <1>3, <2>2, <3>3 DEF OneOwner
    <3> QED
      BY <3>1, <3>2, <3>3
  <2> QED
    BY <2>2 DEF OneOwner
<1>8. LinksJoin(F, I, L \cup K)
  <2>1. \A l \in L : /\ l.from \in I /\ l.to \in I /\ Exists(F[l.from]) /\ Exists(F[l.to])
                     /\ F[l.from].workspace = F[l.to].workspace
    BY <1>2 DEF LinksJoin
  <2>2. \A l \in K : /\ l.from \in I /\ l.to \in I /\ Exists(F[l.from]) /\ Exists(F[l.to])
                     /\ F[l.from].workspace = F[l.to].workspace
    BY <1>1
  <2> QED
    BY <2>1, <2>2 DEF LinksJoin
<1> QED
  BY <1>4, <1>5, <1>6, <1>7, <1>8 DEF Chains

\* An import that is written leaves its archive in the workspace, and the order of the table.
LEMMA WorkspaceImported ==
  ASSUME WorkspaceInv, NEW ws \in {"project", "other"}, Archive!importWorkspace(ws)
  PROVE  WorkspaceInv'
<1> DEFINE file == importer.file
           R == [e \in DOMAIN file.rows |-> Archive!importedEntry(e, ws)]
<1>1. /\ Table(entries, ArchiveIds) /\ Readings(read, ArchiveClients, ArchiveIds) /\ Chains(entries, ArchiveIds)
      /\ OneOwner(entries, ArchiveIds) /\ LinksJoin(entries, ArchiveIds, links)
      /\ archive # None => Archived(archive)
  BY DEF WorkspaceInv
<1>2. Archived(file)
  BY DEF WorkspaceInv, Archive!importWorkspace
<1>3. PICK S \in SUBSET ArchiveIds, was \in {"project", "other", "global"} :
       /\ file.rows \in [S -> EntryRow(ArchiveIds)]
       /\ \A e \in S : file.rows[e].workspace = was /\ Len(file.rows[e].history) = 1
       /\ \A e \in S : file.rows[e].status = "superseded" => file.rows[e].supersededBy \in S
       /\ \A T \in SUBSET S : T # {} /\ (\A e \in T : file.rows[e].status = "superseded") =>
            \E e \in T : file.rows[e].supersededBy \notin T
       /\ \A e, d \in S : file.rows[e].history[1] = file.rows[d].history[1] => e = d
       /\ \A l \in file.links : l.from \in S /\ l.to \in S
  BY <1>2 DEF Archived, ArchivedRows
<1>4. /\ Archive!plan(ws)
      /\ entries' = [e \in ArchiveIds |-> IF e \in {d \in DOMAIN file.rows : ~Archive!exists(d)}
                                           THEN Archive!importedEntry(e, ws) ELSE entries[e]]
      /\ links' = links \cup file.links
      /\ whole' = \A e \in DOMAIN file.rows : entries'[e] = Archive!importedEntry(e, ws)
      /\ Archive!ends("imported") /\ UNCHANGED <<read, archive>>
  BY DEF Archive!importWorkspace
<1>5. DOMAIN file.rows = S
  BY <1>3
<1>6. ASSUME NEW e \in S
      PROVE  /\ R[e] = Archive!importedEntry(e, ws)
             /\ R[e] \in EntryRow(ArchiveIds) /\ Exists(R[e]) /\ R[e].workspace = ws
             /\ R[e].history = file.rows[e].history /\ R[e].status = file.rows[e].status
             /\ R[e].supersededBy = file.rows[e].supersededBy
  <2> DEFINE row == [file.rows[e] EXCEPT !.workspace = ws]
  <2>1. file.rows[e] \in EntryRow(ArchiveIds)
    BY <1>3
  <2> HIDE DEF file
  <2>2. /\ row \in EntryRow(ArchiveIds) /\ row.workspace = ws /\ row.history = file.rows[e].history
        /\ row.status = file.rows[e].status /\ row.supersededBy = file.rows[e].supersededBy
    BY <2>1 DEF EntryRow
  <2>3. R[e] = Archive!importedEntry(e, ws)
    BY <1>5
  <2>4. Archive!importedEntry(e, ws) = row
    BY DEF Archive!importedEntry, file
  <2> HIDE DEF row, R
  <2> QED
    BY <2>2, <2>3, <2>4, RowExists
<1>7. \A e \in S : IF Exists(entries[e]) THEN entries[e] = R[e]
                   ELSE \A d \in ArchiveIds : Exists(entries[d]) /\ entries[d].workspace = ws =>
                          \A j \in 1..Len(entries[d].history) : entries[d].history[j] # R[e].history[1]
  <2> SUFFICES ASSUME NEW e \in S
               PROVE  IF Exists(entries[e]) THEN entries[e] = R[e]
                      ELSE \A d \in ArchiveIds : Exists(entries[d]) /\ entries[d].workspace = ws =>
                             \A j \in 1..Len(entries[d].history) : entries[d].history[j] # R[e].history[1]
    OBVIOUS
  <2>1. Archive!plannedEntry(e, ws)
    BY <1>4, <1>5 DEF Archive!plan
  <2>2. R[e] = Archive!importedEntry(e, ws)
    BY <1>6
  <2> HIDE DEF R, file
  <2>3. IF Exists(entries[e]) THEN entries[e] = R[e] ELSE Archive!semanticRevision(ws, R[e].history[1]) = {}
    BY <2>1, <2>2 DEF Archive!plannedEntry, Archive!exists, Exists, Archive!entryMatchesArchive
  <2> QED
    BY <2>3 DEF Archive!semanticRevision, Archive!exists, Exists, Archive!revision
<1>8. \A e \in ArchiveIds : entries'[e] = IF e \in S THEN R[e] ELSE entries[e]
  BY <1>4, <1>5, <1>6, <1>7 DEF Archive!exists, Exists
<1>9. entries' = [e \in ArchiveIds |-> entries'[e]]
  BY <1>4
<1>10. /\ \A e \in S : R[e] \in EntryRow(ArchiveIds) /\ Exists(R[e]) /\ R[e].workspace = ws /\ Len(R[e].history) = 1
       /\ \A e \in S : R[e].status = "superseded" => R[e].supersededBy \in S
       /\ \A e, d \in S : R[e].history[1] = R[d].history[1] => e = d
  <2> HIDE DEF R, file
  <2>1. \A e \in S : R[e] \in EntryRow(ArchiveIds) /\ Exists(R[e]) /\ R[e].workspace = ws /\ Len(R[e].history) = 1
    BY <1>3, <1>6
  <2>2. \A e \in S : R[e].status = "superseded" => R[e].supersededBy \in S
    BY <1>3, <1>6
  <2>3. \A e, d \in S : R[e].history[1] = R[d].history[1] => e = d
    BY <1>3, <1>6
  <2> QED
    BY <2>1, <2>2, <2>3
<1>11. \A T \in SUBSET S : T # {} /\ (\A e \in T : R[e].status = "superseded") =>
         \E e \in T : R[e].supersededBy \notin T
  <2> SUFFICES ASSUME NEW T \in SUBSET S, T # {}, \A e \in T : R[e].status = "superseded"
               PROVE  \E e \in T : R[e].supersededBy \notin T
    OBVIOUS
  <2>1. \A e \in T : file.rows[e].status = "superseded"
    BY <1>6
  <2>2. PICK e \in T : file.rows[e].supersededBy \notin T
    BY <1>3, <2>1
  <2> QED
    BY <1>6, <2>2
<1>12. \A l \in file.links : l.from \in S /\ l.to \in S
  BY <1>3
<1>13. whole'
  BY <1>4, <1>5, <1>6, <1>8
<1> HIDE DEF R
<1> DEFINE K == file.links
<1>14. \A l \in K : l.from \in S /\ l.to \in S
  BY <1>12
<1>15. links' = links \cup K
  BY <1>4
<1> HIDE DEF K
<1>16. /\ Table(entries', ArchiveIds) /\ Chains(entries', ArchiveIds) /\ OneOwner(entries', ArchiveIds)
       /\ LinksJoin(entries', ArchiveIds, links \cup K)
  <2>1. S \in SUBSET ArchiveIds
    OBVIOUS
  <2>2. Joins(entries, entries', ArchiveIds, S, R, ws, K)
    BY <2>1, <1>7, <1>8, <1>9, <1>10, <1>11, <1>14 DEF Joins
  <2> QED
    BY <1>1, <2>2, JoinedTable
<1>17. /\ importer'.pc = "idle" /\ importer' = [pc |-> importer'.pc, file |-> importer'.file, told |-> importer'.told]
  BY <1>4 DEF Archive!ends, Archive!Idle
<1> QED
  BY <1>1, <1>4, <1>13, <1>15, <1>16, <1>17 DEF WorkspaceInv

\* What is new to a workspace is in no row of it.
LEMMA NewContent ==
  ASSUME NEW ws, NEW text, Archive!semanticRevision(ws, text) = {}, NEW d \in ArchiveIds,
         Exists(entries[d]), entries[d].workspace = ws
  PROVE  \A j \in 1..Len(entries[d].history) : entries[d].history[j] # text
BY DEF Archive!semanticRevision, Archive!exists, Archive!revision, Exists

\* Records, edits, verdicts and purges keep the workspaces in order.
LEMMA WorkspaceOperations ==
  ASSUME WorkspaceInv,
         \/ \E e \in ArchiveIds : Archive!purge(e) \/ \E text \in Texts : Archive!record(e, text)
         \/ \E c \in ArchiveClients :
              \/ Archive!promote(c) \/ \E e \in ArchiveIds : Archive!supersede(c, e)
              \/ \E text \in Texts : Archive!edit(c, text)
  PROVE  WorkspaceInv'
<1> USE DEF Archive!besides, Archive!archiveVars
<1>1. /\ Table(entries, ArchiveIds) /\ Readings(read, ArchiveClients, ArchiveIds) /\ Chains(entries, ArchiveIds)
      /\ OneOwner(entries, ArchiveIds)
  BY DEF WorkspaceInv
<1>2. ASSUME NEW c \in ArchiveClients, Archive!expected(c)
      PROVE  /\ read[c] # None /\ Exists(entries[read[c].id])
             /\ read[c].id \in ArchiveIds /\ read[c].content \in Content(ArchiveIds)
             /\ entries[read[c].id] \in EntryRow(ArchiveIds)
             /\ entries[read[c].id].history \in Seq(Content(ArchiveIds))
  BY <1>1, <1>2, ExpectedEntry DEF Archive!expected, Archive!exists, Exists
<1>3. ASSUME NEW e \in ArchiveIds, NEW row \in EntryRow(ArchiveIds),
             entries' = [entries EXCEPT ![e] = row], SameRow(entries[e], row),
             KeptStatus(entries[e], row) \/ Supersession(entries, ArchiveIds, e, row),
             row.history = entries[e].history,
             UNCHANGED <<read, links, archive, exports, importer, whole>>
      PROVE  WorkspaceInv'
  <2>1. Change(entries, entries', ArchiveIds, e)
    BY <1>3 DEF Change
  <2>2. Exists(entries[e]) /\ Exists(row) /\ row.workspace = entries[e].workspace
    BY <1>3 DEF SameRow
  <2>3. \A d \in ArchiveIds \ {e} : Exists(entries[d]) /\ entries[d].workspace = row.workspace =>
          \A i \in 1..Len(row.history), j \in 1..Len(entries[d].history) : row.history[i] # entries[d].history[j]
    BY <1>1, <1>3, <2>2 DEF OneOwner
  <2> QED
    BY <1>3, <2>1, <2>2, <2>3, RowKeepsWorkspace
<1>4. ASSUME NEW e \in ArchiveIds, NEW text \in Texts, Archive!record(e, text)
      PROVE  WorkspaceInv'
  <2> DEFINE row == [workspace |-> "project", status |-> "candidate", history |-> <<text>>,
                     supersededBy |-> None, source |-> None, promotedAs |-> None]
  <2>1. /\ entries[e] = None /\ entries' = [entries EXCEPT ![e] = row]
        /\ UNCHANGED <<read, links, archive, exports, importer, whole>>
        /\ Archive!semanticRevision("project", text) = {}
    BY <1>4 DEF Archive!record, Archive!recordEntry, Archive!inserted
  <2>2. row \in EntryRow(ArchiveIds) /\ row.history # <<>>
    BY DEF EntryRow, Content
  <2>3. row.status # "superseded" /\ row.workspace = "project" /\ row.history = <<text>>
    OBVIOUS
  <2> HIDE DEF row
  <2>4. Exists(row) /\ NewRow(entries, row) /\ ~Exists(entries[e])
    BY <2>1, <2>2, <2>3, RowExists DEF NewRow, Exists
  <2>5. Change(entries, entries', ArchiveIds, e)
    BY <2>1, <2>2, <2>4 DEF Change
  <2>6. \A d \in ArchiveIds \ {e} : Exists(entries[d]) /\ entries[d].workspace = row.workspace =>
          \A i \in 1..Len(row.history), j \in 1..Len(entries[d].history) : row.history[i] # entries[d].history[j]
    BY <2>1, <2>3, NewContent
  <2> QED
    BY <2>1, <2>2, <2>4, <2>5, <2>6, RowKeepsWorkspace
<1>5. ASSUME NEW c \in ArchiveClients, NEW text \in Texts, Archive!edit(c, text)
      PROVE  WorkspaceInv'
  <2> DEFINE e == read[c].id
  <2>1. /\ Archive!expected(c) /\ entries[e].status = "candidate"
        /\ UNCHANGED <<read, links, archive, exports, importer, whole>>
        /\ entries' = edited(entries, e, text) /\ Archive!semanticRevision(entries[e].workspace, text) = {}
    BY <1>5 DEF edited, Archive!edit, Archive!updateCandidateEntry, Archive!editable
  <2>2. Exists(entries[e]) /\ e \in ArchiveIds /\ entries[e].history \in Seq(Content(ArchiveIds)) /\ text \in Content(ArchiveIds)
    BY <1>2, <2>1 DEF Content
  <2> HIDE DEF e
  <2>3. PICK row \in EntryRow(ArchiveIds) :
          /\ entries' = [entries EXCEPT ![e] = row] /\ SameRow(entries[e], row) /\ KeptStatus(entries[e], row)
          /\ row.history = Append(entries[e].history, text)
    BY <1>1, <2>1, <2>2, EditedRow
  <2>4. Change(entries, entries', ArchiveIds, e)
    BY <2>3 DEF Change
  <2>5. Exists(row) /\ row.workspace = entries[e].workspace
    BY <2>3 DEF SameRow
  <2>6. ASSUME NEW d \in ArchiveIds \ {e}, Exists(entries[d]), entries[d].workspace = row.workspace,
               NEW i \in 1..Len(row.history), NEW j \in 1..Len(entries[d].history)
        PROVE  row.history[i] # entries[d].history[j]
    <3>1. \/ i \in 1..Len(entries[e].history) /\ row.history[i] = entries[e].history[i]
          \/ row.history[i] = text
      BY <2>2, <2>3
    <3> QED
      BY <1>1, <2>1, <2>2, <2>5, <2>6, <3>1, NewContent DEF OneOwner
  <2> QED
    BY <2>1, <2>2, <2>3, <2>4, <2>5, <2>6, RowKeepsWorkspace
<1>6. ASSUME NEW c \in ArchiveClients, Archive!promote(c)
      PROVE  WorkspaceInv'
  <2> DEFINE e == read[c].id
             text == read[c].content
  <2>1. /\ Archive!expected(c) /\ entries[e].status = "candidate"
        /\ UNCHANGED <<read, links, archive, exports, importer, whole>>
        /\ entries' = verified(entries, e, text)
    BY <1>6 DEF verified, Archive!promote, Archive!promoteEntry
  <2>2. Exists(entries[e]) /\ e \in ArchiveIds /\ text \in Content(ArchiveIds)
    BY <1>2, <2>1
  <2> HIDE DEF e, text
  <2>3. PICK row \in EntryRow(ArchiveIds) :
          /\ entries' = [entries EXCEPT ![e] = row] /\ SameRow(entries[e], row) /\ KeptStatus(entries[e], row)
          /\ row.history = entries[e].history
    BY <1>1, <2>1, <2>2, PromotedRow
  <2> QED
    BY <1>3, <2>1, <2>2, <2>3
<1>7. ASSUME NEW c \in ArchiveClients, NEW d \in ArchiveIds, Archive!supersede(c, d)
      PROVE  WorkspaceInv'
  <2> DEFINE e == read[c].id
  <2>1. /\ Archive!expected(c) /\ entries[e].status # "superseded"
        /\ UNCHANGED <<read, links, archive, exports, importer, whole>>
        /\ Exists(entries[d]) /\ d # e /\ entries[d].workspace = entries[e].workspace
        /\ entries[d].status # "superseded"
        /\ entries' = superseding(entries, e, d)
    BY <1>7 DEF superseding, Archive!supersede, Archive!supersedeEntry, Archive!replaces, Archive!exists, Exists
  <2>2. Exists(entries[e]) /\ e \in ArchiveIds
    BY <1>2, <2>1
  <2> HIDE DEF e
  <2>3. PICK row \in EntryRow(ArchiveIds) :
          /\ entries' = [entries EXCEPT ![e] = row] /\ SameRow(entries[e], row)
          /\ Supersession(entries, ArchiveIds, e, row) /\ row.history = entries[e].history
    BY <1>1, <2>1, <2>2, SupersededRow
  <2> QED
    BY <1>3, <2>1, <2>2, <2>3
<1>8. ASSUME NEW e \in ArchiveIds, Archive!purge(e)
      PROVE  WorkspaceInv'
  <2>1. /\ entries' = [entries EXCEPT ![e] = Purged] /\ Unnamed(entries, ArchiveIds, e)
        /\ UNCHANGED <<read, archive, exports, importer, whole>>
        /\ links' = {l \in links : e \notin {l.from, l.to}}
    BY <1>8 DEF Archive!purge, Archive!purgeEntry, Archive!exists, Exists, Unnamed
  <2>2. Change(entries, entries', ArchiveIds, e) /\ ~Exists(Purged) /\ Purged \in EntryRow(ArchiveIds) \cup {Purged}
    BY <2>1 DEF Change, Exists
  <2>3. links' \subseteq links /\ \A l \in links' : e \notin {l.from, l.to}
    BY <2>1
  <2> QED
    BY <2>1, <2>2, <2>3, RowKeepsWorkspace
<1> QED
  BY <1>4, <1>5, <1>6, <1>7, <1>8

\* What is read, linked, exported and looked at changes no entry.
LEMMA WorkspaceBesides ==
  ASSUME WorkspaceInv,
         \/ \E from, to \in ArchiveIds : Archive!linkEntries(from, to)
         \/ \E c \in ArchiveClients, e \in ArchiveIds : Archive!look(c, e)
         \/ \E ws \in Archive!Workspaces : Archive!writeExport(ws) \/ Archive!dryRun(ws)
         \/ Archive!changeArchive \/ Archive!readBoundedArchive \/ Archive!parseImport
  PROVE  WorkspaceInv'
<1> USE DEF Archive!besides, Archive!archiveVars, Archive!entryVars
<1>1. /\ Table(entries, ArchiveIds) /\ Readings(read, ArchiveClients, ArchiveIds) /\ Chains(entries, ArchiveIds)
      /\ OneOwner(entries, ArchiveIds) /\ LinksJoin(entries, ArchiveIds, links)
      /\ archive # None => Archived(archive)
      /\ importer = [pc |-> importer.pc, file |-> importer.file, told |-> importer.told]
      /\ importer.pc # "idle" => Archived(importer.file)
      /\ importer.told = "imported" => whole
  BY DEF WorkspaceInv
<1>2. ASSUME NEW from \in ArchiveIds, NEW to \in ArchiveIds, Archive!linkEntries(from, to)
      PROVE  WorkspaceInv'
  <2> DEFINE new == [from |-> from, to |-> to]
  <2>1. /\ Exists(entries[from]) /\ Exists(entries[to]) /\ entries[from].workspace = entries[to].workspace
        /\ links' = links \cup {new} /\ UNCHANGED <<entries, read, archive, exports, importer, whole>>
    BY <1>2 DEF Archive!linkEntries, Archive!exists, Exists
  <2>2. new.from = from /\ new.to = to
    OBVIOUS
  <2> HIDE DEF new
  <2>3. LinksJoin(entries, ArchiveIds, links')
    BY <1>1, <2>1, <2>2 DEF LinksJoin
  <2> QED
    BY <1>1, <2>1, <2>3 DEF WorkspaceInv
<1>3. ASSUME NEW c \in ArchiveClients, NEW e \in ArchiveIds, Archive!look(c, e)
      PROVE  WorkspaceInv'
  <2> DEFINE reading == [id |-> e, revision |-> Archive!revision(e), content |-> Archive!current(e)]
  <2>1. /\ Exists(entries[e]) /\ read' = [read EXCEPT ![c] = reading]
        /\ UNCHANGED <<entries, links, archive, exports, importer, whole>>
    BY <1>3 DEF Archive!look, Archive!readEntry, Archive!exists, Exists
  <2>2. /\ entries[e].history \in Seq(Content(ArchiveIds)) /\ entries[e].history # <<>>
        /\ Len(entries[e].history) \in Nat \ {0}
    BY <1>1, <2>1, EmptySeq DEF Table, EntryRow, Exists
  <2>3. entries[e].history[Len(entries[e].history)] \in Content(ArchiveIds)
    BY <2>2
  <2>4. reading \in [id : ArchiveIds, revision : Nat, content : Content(ArchiveIds)]
    BY <2>2, <2>3 DEF Archive!revision, Archive!current
  <2> HIDE DEF reading
  <2>5. Readings(read', ArchiveClients, ArchiveIds)
    BY <1>1, <2>1, <2>4 DEF Readings
  <2> QED
    BY <1>1, <2>1, <2>5 DEF WorkspaceInv
<1>4. ASSUME NEW ws \in Archive!Workspaces, Archive!writeExport(ws)
      PROVE  WorkspaceInv'
  <2>1. ws \in {"project", "other"} /\ Archive!exportable(ws)
    BY <1>4 DEF Archive!Workspaces, Archive!writeExport
  <2>2. Archived(archive')
    BY <1>4, <2>1, ExportArchived DEF Archive!writeExport
  <2>3. UNCHANGED <<entries, read, links, importer, whole>>
    BY <1>4 DEF Archive!writeExport
  <2> QED
    BY <1>1, <2>2, <2>3 DEF WorkspaceInv
<1>5. ASSUME NEW told, told # "imported", Archive!ends(told), UNCHANGED <<entries, read, links, archive, whole>>
      PROVE  WorkspaceInv'
  <2>1. /\ importer'.pc = "idle" /\ importer'.told = told
        /\ importer' = [pc |-> importer'.pc, file |-> importer'.file, told |-> importer'.told]
    BY <1>5 DEF Archive!ends, Archive!Idle
  <2> QED
    BY <1>1, <1>5, <2>1 DEF WorkspaceInv
<1>6. ASSUME NEW ws, Archive!dryRun(ws)
      PROVE  WorkspaceInv'
  <2>1. UNCHANGED <<entries, read, links, archive, whole>>
    BY <1>6 DEF Archive!dryRun
  <2>2. Archive!ends("planned") \/ Archive!ends("conflict")
    BY <1>6 DEF Archive!dryRun
  <2> QED
    BY <1>5, <2>1, <2>2
<1>7. CASE Archive!changeArchive
  <2> DEFINE damaged == [archive EXCEPT !.intact = FALSE, !.id = 0]
  <2>1. /\ archive # None /\ (archive' = None \/ archive' = damaged)
        /\ UNCHANGED <<entries, read, links, importer, whole>>
    BY <1>7 DEF Archive!changeArchive
  <2>2. PICK id, intact, gone :
          archive = [id |-> id, intact |-> intact, rows |-> archive.rows, links |-> archive.links, purges |-> gone]
    BY <1>1, <2>1 DEF Archived
  <2>3. damaged = [id |-> 0, intact |-> FALSE, rows |-> archive.rows, links |-> archive.links, purges |-> gone]
    <3>1. PICK no : no = FALSE
      OBVIOUS
    <3> DEFINE r == archive.rows
               l == archive.links
               like == [id |-> id, intact |-> intact, rows |-> r, links |-> l, purges |-> gone]
               torn == [id |-> id, intact |-> no, rows |-> r, links |-> l, purges |-> gone]
               left == [id |-> 0, intact |-> no, rows |-> r, links |-> l, purges |-> gone]
    <3>2. archive = like /\ damaged = [[archive EXCEPT !.intact = no] EXCEPT !.id = 0]
      BY <2>2, <3>1
    <3> HIDE DEF r, l, damaged
    <3>3. [like EXCEPT !.intact = no] = torn
      OBVIOUS
    <3>4. [torn EXCEPT !.id = 0] = left
      OBVIOUS
    <3> HIDE DEF like, torn, left
    <3>5. damaged = left
      BY <3>2, <3>3, <3>4
    <3> QED
      BY <3>1, <3>5 DEF r, l, left
  <2>4. damaged.rows = archive.rows /\ damaged.links = archive.links
    BY <2>3
  <2> HIDE DEF damaged
  <2>5. Archived(damaged)
    BY <1>1, <2>1, <2>3, <2>4 DEF Archived
  <2> QED
    BY <1>1, <2>1, <2>5 DEF WorkspaceInv
<1>8. CASE Archive!readBoundedArchive
  <2>1. /\ Archived(archive) /\ importer' = [pc |-> "reading", file |-> archive, told |-> None]
        /\ UNCHANGED <<entries, read, links, archive, whole>>
    BY <1>1, <1>8 DEF Archive!readBoundedArchive
  <2>2. /\ importer'.file = archive /\ importer'.told = None
        /\ importer' = [pc |-> importer'.pc, file |-> importer'.file, told |-> importer'.told]
    BY <2>1
  <2>3. None # "imported"
    BY KnowledgeAssumption DEF KnowledgeAssumption
  <2> QED
    BY <1>1, <2>1, <2>2, <2>3 DEF WorkspaceInv
<1>9. CASE Archive!parseImport
  <2>1. UNCHANGED <<entries, read, links, archive, whole>> /\ importer.pc = "reading"
    BY <1>9 DEF Archive!parseImport
  <2>2. CASE Archive!ends("changed") \/ Archive!ends("invalid")
    BY <1>5, <2>1, <2>2
  <2>3. CASE importer' = [importer EXCEPT !.pc = "parsed"]
    <3>1. /\ importer'.file = importer.file /\ importer'.told = importer.told
          /\ importer' = [pc |-> importer'.pc, file |-> importer'.file, told |-> importer'.told]
      BY <1>1, <2>3
    <3> QED
      BY <1>1, <2>1, <3>1 DEF WorkspaceInv
  <2> QED
    BY <1>9, <2>2, <2>3 DEF Archive!parseImport
<1> QED
  BY <1>2, <1>3, <1>4, <1>6, <1>7, <1>8, <1>9

\* WorkspaceInv is inductive.
LEMMA WorkspaceStep == WorkspaceInv /\ [Archive!ArchiveNext]_<<entryVars, archiveVars>> => WorkspaceInv'
<1> SUFFICES ASSUME WorkspaceInv, [Archive!ArchiveNext]_<<entryVars, archiveVars>> PROVE WorkspaceInv'
  OBVIOUS
<1>1. CASE UNCHANGED <<entryVars, archiveVars>>
  BY <1>1 DEF entryVars, archiveVars, WorkspaceInv
<1>2. ASSUME NEW ws \in Archive!Workspaces, Archive!importWorkspace(ws)
      PROVE  WorkspaceInv'
  BY <1>2, WorkspaceImported DEF Archive!Workspaces
<1>3. CASE Archive!ArchiveNext
  BY <1>2, <1>3, WorkspaceOperations, WorkspaceBesides DEF Archive!ArchiveNext
<1> QED
  BY <1>1, <1>3

\* The steps of a store and of an archive are steps of theirs alone.
LEMMA OnlyEntrySteps ==
  [AllNext]_all => /\ InEntries' => InEntries /\ [Memory!Next]_entryVars
                   /\ InArchive' => InArchive /\ [Archive!ArchiveNext]_<<entryVars, archiveVars>>
<1> USE DEF AllNext, all, InTask, InBroker, InAdvice, InReview, InEntries, InArchive,
            OnlyTask, OnlyBroker, OnlyAdvice, OnlyReview, OnlyEntries, OnlyArchive
<1>1. [AllNext]_all => (InEntries' => InEntries /\ [Memory!Next]_entryVars)
  BY DEF Memory!Next
<1>2. [AllNext]_all => (InArchive' => InArchive /\ [Archive!ArchiveNext]_<<entryVars, archiveVars>>)
  BY DEF Archive!ArchiveNext
<1> QED
  BY <1>1, <1>2

\* Superseded advice has a current replacement, a verified entry says what its
\* reviewer had read, a revision has one current global copy, and an import
\* leaves its archive whole in the workspace with one owner of each content,
\* whatever clients, the curator and the user do in between (entries.ts,
\* curator.ts and importWorkspace).
THEOREM EntriesTrusted == KnowledgeSpec => []EntriesCanBeTrusted
<1> DEFINE Inv == (InEntries => MemoryInv) /\ (InArchive => WorkspaceInv)
<1>1. AllInit => Inv
  <2>1. AllInit /\ InEntries => MemoryInv
    BY MemoryStarts DEF AllInit, InEntries
  <2>2. AllInit /\ InArchive => WorkspaceInv
    BY ArchiveStarts DEF AllInit, InArchive
  <2> QED
    BY <2>1, <2>2
<1>2. Inv /\ [AllNext]_all => Inv'
  <2>1. MemoryInv /\ [Memory!Next]_entryVars => MemoryInv'
    BY MemoryOperations DEF entryVars, MemoryInv
  <2> QED
    BY <2>1, OnlyEntrySteps, WorkspaceStep
<1>3. Inv => EntriesCanBeTrusted
  <2>1. MemoryInv => Memory!ChainsEndLive
    <3> SUFFICES ASSUME MemoryInv PROVE Memory!ChainsEndLive
      OBVIOUS
    <3>1. Chains(entries, Ids)
      BY DEF MemoryInv
    <3>2. \A e \in Ids : (Memory!superseded(e) <=> Replaced(entries[e])) /\ (Memory!exists(e) <=> Exists(entries[e]))
      BY DEF Memory!superseded, Memory!exists, Replaced, Exists
    <3>3. \A e \in Ids : Memory!superseded(e) => Memory!exists(entries[e].supersededBy)
      BY <3>1, <3>2 DEF Chains
    <3>4. ASSUME NEW S \in (SUBSET Ids) \ {{}}, \A e \in S : Memory!superseded(e)
          PROVE  \E e \in S : entries[e].supersededBy \notin S
      <4>1. S \in SUBSET Ids /\ S # {} /\ \A e \in S : Replaced(entries[e])
        BY <3>2, <3>4
      <4> QED
        BY <3>1, <4>1 DEF Chains
    <3> QED
      BY <3>3, <3>4 DEF Memory!ChainsEndLive
  <2>2. MemoryInv => Memory!VerifiedAsRead
    BY DEF MemoryInv, VerifiedTrue, Exists, Memory!VerifiedAsRead, Memory!exists, Memory!current, Memory!revision
  <2>3. MemoryInv => Memory!GlobalizedOnce
    BY DEF MemoryInv, SameCopy, Exists, Memory!GlobalizedOnce, Memory!exists
  <2>4. WorkspaceInv => Archive!ImportKeepsOrder
    <3> SUFFICES ASSUME WorkspaceInv PROVE Archive!ImportKeepsOrder
      OBVIOUS
    <3>1. Archive!ChainsEndLive
      <4>1. Chains(entries, ArchiveIds)
        BY DEF WorkspaceInv
      <4>2. \A e \in ArchiveIds : (Archive!superseded(e) <=> Replaced(entries[e])) /\ (Archive!exists(e) <=> Exists(entries[e]))
        BY DEF Archive!superseded, Archive!exists, Replaced, Exists
      <4>3. \A e \in ArchiveIds : Archive!superseded(e) => Archive!exists(entries[e].supersededBy)
        BY <4>1, <4>2 DEF Chains
      <4>4. ASSUME NEW S \in (SUBSET ArchiveIds) \ {{}}, \A e \in S : Archive!superseded(e)
            PROVE  \E e \in S : entries[e].supersededBy \notin S
        <5>1. S \in SUBSET ArchiveIds /\ S # {} /\ \A e \in S : Replaced(entries[e])
          BY <4>2, <4>4
        <5> QED
          BY <4>1, <5>1 DEF Chains
      <4> QED
        BY <4>3, <4>4 DEF Archive!ChainsEndLive
    <3> USE DEF WorkspaceInv, Exists, Replaced, Archive!exists, Archive!superseded
    <3>2. \A e \in ArchiveIds : Archive!exists(e) =>
            \A i \in 1..Archive!revision(e) :
              Archive!semanticRevision(entries[e].workspace, entries[e].history[i]) = {e}
      BY DEF OneOwner, Archive!revision, Archive!semanticRevision
    <3>3. \A l \in links : Archive!exists(l.from) /\ Archive!exists(l.to)
                           /\ entries[l.from].workspace = entries[l.to].workspace
      BY DEF LinksJoin
    <3>4. \A e \in ArchiveIds : Archive!superseded(e) =>
            Archive!exists(entries[e].supersededBy) /\ entries[entries[e].supersededBy].workspace = entries[e].workspace
      BY DEF Chains
    <3> QED
      BY <3>1, <3>2, <3>3, <3>4 DEF Archive!ImportKeepsOrder
  <2> QED
    BY <2>1, <2>2, <2>3, <2>4 DEF EntriesCanBeTrusted
<1> QED
  BY <1>1, <1>2, <1>3, PTL DEF KnowledgeSpec

-----------------------------------------------------------------------------
(* The review of a finished task.                                         *)

\* The dialogs of the processes: what is shown is a proposal, and what is about
\* to be saved, or may have been, is one that a person pressed to approve.
Dialogs ==
  /\ DOMAIN review = Processes /\ DOMAIN approved = Processes /\ proposals \in Nat
  /\ \A p \in Processes : review[p] # None =>
       /\ review[p] = [phase |-> review[p].phase, id |-> review[p].id, revision |-> review[p].revision, text |-> review[p].text]
       /\ review[p].id \in Nat /\ review[p].revision \in Nat
       /\ review[p].phase \in {"organize", "review", "save"}
       /\ review[p].phase # "organize" => review[p].text \in Texts
       /\ review[p].phase = "save" => approved[p] # None
  /\ \A p \in Processes : approved[p] # None => approved[p] \in pressed

\* The tables lead to each other: a text to the memory that has it, a receipt
\* to a memory of its text, and a retired key nowhere.
Store ==
  /\ pressed \subseteq Proposal /\ memories \cup DOMAIN receipts \subseteq pressed
  /\ \A k \in DOMAIN receipts : receipts[k] \in memories /\ receipts[k].text = k.text
  /\ \A t \in DOMAIN content : content[t] \in memories /\ content[t].text = t
  /\ \A m \in memories : m.text \in DOMAIN content /\ content[m.text] = m
  /\ DOMAIN entryOf = memories /\ retired \cap DOMAIN receipts = {}

\* What a process remembers to have saved is saved, or was purged since.
Remembered ==
  /\ DOMAIN finished = Processes
  /\ \A p \in Processes : finished[p] # None /\ finished[p].status = "saved" => finished[p].key \in DOMAIN receipts \cup retired

ReviewInv == Dialogs /\ Store /\ Remembered

\* What is approved is something.
LEMMA NoProposalAbsent == \A x \in Proposal : x # None
  BY KnowledgeAssumption

\* A save stores an approved proposal, or refers it to the memory of its text.
LEMMA SaveStores ==
  ASSUME NEW key \in pressed, Store, Review!saveTransaction(key), UNCHANGED pressed
  PROVE  Store' /\ key \in DOMAIN receipts' /\ DOMAIN receipts \subseteq DOMAIN receipts' /\ retired' = retired
<1>1. key \notin retired /\ key # None
  BY NoProposalAbsent DEF Store, Review!saveTransaction
<1>2. CASE key \in DOMAIN receipts
  BY <1>2 DEF Store, Review!saveTransaction, Review!store
<1>3. CASE key \notin DOMAIN receipts /\ key.text \in DOMAIN content
  <2>1. Review!at(content, key.text) = content[key.text] /\ content[key.text] \in memories /\ content[key.text] # None
        /\ content[key.text].text = key.text
    BY <1>3, NoProposalAbsent DEF Store, Review!at
  <2>2. /\ receipts' = Review!with(receipts, key, content[key.text])
        /\ UNCHANGED <<memories, content, entryOf, retired>>
    BY <1>3, <2>1 DEF Review!saveTransaction
  <2>3. /\ DOMAIN receipts' = DOMAIN receipts \cup {key}
        /\ \A k \in DOMAIN receipts' : receipts'[k] = IF k = key THEN content[key.text] ELSE receipts[k]
    BY <2>2 DEF Review!with
  <2> QED
    BY <1>1, <2>1, <2>2, <2>3 DEF Store
<1>4. CASE key \notin DOMAIN receipts /\ key.text \notin DOMAIN content
  <2>1. /\ receipts' = Review!with(receipts, key, key) /\ content' = Review!with(content, key.text, key)
        /\ memories' = memories \cup {key} /\ entryOf' = Review!with(entryOf, key, "current") /\ UNCHANGED retired
    BY <1>4 DEF Review!saveTransaction, Review!at
  <2>2. /\ DOMAIN receipts' = DOMAIN receipts \cup {key} /\ DOMAIN content' = DOMAIN content \cup {key.text}
        /\ DOMAIN entryOf' = DOMAIN entryOf \cup {key}
        /\ \A k \in DOMAIN receipts' : receipts'[k] = IF k = key THEN key ELSE receipts[k]
        /\ \A t \in DOMAIN content' : content'[t] = IF t = key.text THEN key ELSE content[t]
    BY <2>1 DEF Review!with
  <2> QED
    BY <1>1, <1>4, <2>1, <2>2 DEF Store
<1> QED
  BY <1>2, <1>3, <1>4

\* A purge removes the memory with what led to it.
LEMMA PurgeRemoves ==
  ASSUME NEW key, Store, Review!purge(key)
  PROVE  Store' /\ DOMAIN receipts \cup retired \subseteq DOMAIN receipts' \cup retired'
<1>1. /\ retired' = retired \cup {x \in DOMAIN receipts : receipts[x] = key}
      /\ receipts' = [x \in DOMAIN receipts \ {y \in DOMAIN receipts : receipts[y] = key} |-> receipts[x]]
      /\ content' = [x \in DOMAIN content \ {y \in DOMAIN content : content[y] = key} |-> content[x]]
      /\ entryOf' = [x \in DOMAIN entryOf \ {key} |-> entryOf[x]]
      /\ memories' = memories \ {key} /\ UNCHANGED pressed
  BY DEF Review!purge, Review!without, Review!referring, Review!purgedContent
<1>2. /\ DOMAIN receipts' = {x \in DOMAIN receipts : receipts[x] # key} /\ \A x \in DOMAIN receipts' : receipts'[x] = receipts[x]
      /\ DOMAIN content' = {x \in DOMAIN content : content[x] # key} /\ \A x \in DOMAIN content' : content'[x] = content[x]
      /\ DOMAIN entryOf' = DOMAIN entryOf \ {key}
  BY <1>1
<1> QED
  BY <1>1, <1>2 DEF Store

\* The operations of a dialog ...
LEMMA DialogOperations ==
  ASSUME ReviewInv, NEW p \in Processes,
         \/ Review!begin(p) \/ Review!extractionFails(p) \/ Review!decline(p)
         \/ \E text \in Texts : Review!organize(p, text) \/ Review!revise(p, text)
         \/ \E n \in 1..MaxRevision : Review!approve(p, n)
  PROVE  ReviewInv'
<1> USE DEF ReviewInv, Review!store
<1>1. CASE Review!begin(p)
  BY <1>1 DEF Review!begin, Dialogs, Store, Remembered
<1>2. CASE Review!extractionFails(p)
  BY <1>2 DEF Review!extractionFails, Review!in, Dialogs, Store, Remembered
<1>3. CASE Review!decline(p)
  BY <1>3 DEF Review!decline, Review!declined, Dialogs, Store, Remembered
<1>4. ASSUME NEW text \in Texts, Review!organize(p, text) PROVE ReviewInv'
  BY <1>4 DEF Review!organize, Review!in, Dialogs, Store, Remembered
<1>5. ASSUME NEW text \in Texts, Review!revise(p, text) PROVE ReviewInv'
  <2> DEFINE new == [review[p] EXCEPT !.revision = @ + 1, !.text = text]
  <2>1. /\ review[p] # None /\ review[p].phase = "review" /\ review' = [review EXCEPT ![p] = new]
        /\ UNCHANGED <<proposals, restarts, approved, finished, pressed, memories, receipts, content, entryOf, retired>>
    BY <1>5 DEF Review!revise, Review!in, Dialogs
  <2>2. /\ review[p] = [phase |-> review[p].phase, id |-> review[p].id, revision |-> review[p].revision, text |-> review[p].text]
        /\ review[p].id \in Nat /\ review[p].revision \in Nat
    BY <2>1 DEF Dialogs
  <2>3. new = [phase |-> "review", id |-> review[p].id, revision |-> review[p].revision + 1, text |-> text]
    <3>1. PICK i, n, t : /\ review[p] = [phase |-> "review", id |-> i, revision |-> n, text |-> t]
                         /\ i = review[p].id /\ n = review[p].revision
      BY <2>1, <2>2
    <3> DEFINE old == [phase |-> "review", id |-> i, revision |-> n, text |-> t]
               later == [phase |-> "review", id |-> i, revision |-> n + 1, text |-> t]
    <3>2. new = [[old EXCEPT !.revision = n + 1] EXCEPT !.text = text]
      BY <3>1
    <3>3. [old EXCEPT !.revision = n + 1] = later
      OBVIOUS
    <3>4. [later EXCEPT !.text = text] = [phase |-> "review", id |-> i, revision |-> n + 1, text |-> text]
      OBVIOUS
    <3> QED
      BY <3>1, <3>2, <3>3, <3>4
  <2> HIDE DEF new
  <2>4. Dialogs'
    BY <2>1, <2>2, <2>3 DEF Dialogs
  <2> QED
    BY <2>1, <2>4 DEF Store, Remembered
<1>6. ASSUME NEW n \in 1..MaxRevision, Review!approve(p, n) PROVE ReviewInv'
  <2> DEFINE new == [review[p] EXCEPT !.phase = "save"]
             shown == [id |-> review[p].id, revision |-> review[p].revision, text |-> review[p].text]
  <2>1. /\ review[p] # None /\ review[p].phase = "review"
        /\ review[p] = [phase |-> review[p].phase, id |-> review[p].id, revision |-> review[p].revision, text |-> review[p].text]
        /\ review[p].id \in Nat /\ review[p].revision \in Nat /\ review[p].text \in Texts
        /\ UNCHANGED <<proposals, restarts, memories, receipts, content, entryOf, retired>>
    BY <1>6 DEF Review!approve, Review!in, Dialogs
  <2>2. shown \in Proposal
    BY <2>1 DEF Proposal
  <2>3. new = [phase |-> "save", id |-> review[p].id, revision |-> review[p].revision, text |-> review[p].text]
    BY <2>1
  <2>4. CASE n = review[p].revision
    <3>1. /\ review' = [review EXCEPT ![p] = new] /\ approved' = [approved EXCEPT ![p] = shown]
          /\ finished' = finished /\ pressed' = pressed \cup {shown}
      BY <1>6, <2>4 DEF Review!approve, Review!answersShown, Review!proposal, Dialogs
    <3>2. shown # None
      BY <2>2, NoProposalAbsent
    <3> HIDE DEF new, shown
    <3>3. Dialogs'
      BY <2>1, <2>3, <3>1, <3>2 DEF Dialogs
    <3> QED
      BY <2>1, <2>2, <3>1, <3>3 DEF Store, Remembered
  <2>5. CASE n # review[p].revision
    <3>1. /\ review' = [review EXCEPT ![p] = None] /\ finished' = [finished EXCEPT ![p] = [status |-> "declined"]]
          /\ approved' = approved /\ pressed' = pressed
      BY <1>6, <2>5 DEF Review!approve, Review!answersShown, Review!declined
    <3> QED
      BY <2>1, <3>1 DEF Dialogs, Store, Remembered
  <2> QED
    BY <2>4, <2>5
<1> QED
  BY <1>1, <1>2, <1>3, <1>4, <1>5, <1>6

\* A save ends with the answer that its receipt allows.
LEMMA AnswerIsTrue ==
  ASSUME ReviewInv, NEW p \in Processes, approved[p] # None, Store', UNCHANGED <<proposals, pressed>>,
         DOMAIN receipts \subseteq DOMAIN receipts', retired' = retired,
         NEW saved, saved => approved[p] \in DOMAIN receipts', Review!answered(p, saved)
  PROVE  ReviewInv'
<1>1. CASE saved
  <2>1. /\ review' = [review EXCEPT ![p] = None] /\ approved' = [approved EXCEPT ![p] = None]
        /\ finished' = [finished EXCEPT ![p] = [status |-> "saved", key |-> approved[p]]]
    BY <1>1 DEF Review!answered
  <2>2. Dialogs'
    BY <2>1 DEF ReviewInv, Dialogs
  <2>3. Remembered'
    BY <1>1, <2>1 DEF ReviewInv, Remembered
  <2> QED
    BY <2>2, <2>3 DEF ReviewInv
<1>2. CASE ~saved
  <2>1. review' = [review EXCEPT ![p] = None] /\ approved' = approved /\ finished' = finished
    BY <1>2 DEF Review!answered
  <2> QED
    BY <2>1 DEF ReviewInv, Dialogs, Remembered
<1> QED
  BY <1>1, <1>2

\* ... of a save ...
LEMMA SaveOperations ==
  ASSUME ReviewInv, NEW p \in Processes,
         Review!save(p) \/ Review!saveFails(p) \/ Review!commitUncertain(p) \/ Review!reconcile(p) \/ Review!restart(p)
  PROVE  ReviewInv'
<1>1. ASSUME Review!in(p, "save")
      PROVE  /\ approved[p] # None /\ approved[p] \in pressed
             /\ (Review!saveTransaction(approved[p]) /\ pressed' = pressed) =>
                  Store' /\ approved[p] \in DOMAIN receipts' /\ DOMAIN receipts \subseteq DOMAIN receipts' /\ retired' = retired
  BY <1>1, SaveStores DEF ReviewInv, Dialogs, Review!in
<1>2. UNCHANGED Review!store /\ pressed' = pressed =>
        Store' /\ DOMAIN receipts \subseteq DOMAIN receipts' /\ retired' = retired
  BY DEF ReviewInv, Store, Review!store
<1>3. CASE Review!save(p)
  BY <1>1, <1>3, AnswerIsTrue DEF Review!save
<1>4. CASE Review!saveFails(p)
  BY <1>1, <1>2, <1>4, AnswerIsTrue DEF Review!saveFails
<1>5. CASE Review!commitUncertain(p)
  <2>1. Review!in(p, "save") /\ UNCHANGED <<proposals, pressed>>
        /\ (Review!saveTransaction(approved[p]) \/ UNCHANGED Review!store)
        /\ Review!answered(p, approved[p] \in DOMAIN receipts')
    BY <1>5 DEF Review!commitUncertain, Review!reconciled
  <2> QED
    BY <1>1, <1>2, <2>1, AnswerIsTrue
<1>6. CASE Review!reconcile(p)
  <2>1. /\ approved[p] # None /\ UNCHANGED Review!store /\ UNCHANGED <<proposals, pressed>>
        /\ Review!answered(p, approved[p] \in DOMAIN receipts')
    BY <1>6 DEF Review!reconcile, Review!reconciled, Review!store
  <2> QED
    BY <1>2, <2>1, AnswerIsTrue
<1>7. CASE Review!restart(p)
  <2>1. /\ review' = [review EXCEPT ![p] = None] /\ approved' = [approved EXCEPT ![p] = None]
        /\ finished' = [finished EXCEPT ![p] = None] /\ UNCHANGED <<proposals, pressed>>
        /\ (Review!in(p, "save") /\ Review!saveTransaction(approved[p])) \/ UNCHANGED Review!store
    BY <1>7 DEF Review!restart
  <2>2. Store' /\ DOMAIN receipts \subseteq DOMAIN receipts' /\ retired' = retired
    BY <1>1, <1>2, <2>1
  <2>3. Dialogs' /\ Remembered'
    BY <2>1, <2>2 DEF ReviewInv, Dialogs, Remembered
  <2> QED
    BY <2>2, <2>3 DEF ReviewInv
<1> QED
  BY <1>3, <1>4, <1>5, <1>6, <1>7

\* ... and of the memories keep the invariant.
LEMMA ReviewStep == ReviewInv /\ [Review!Next]_reviewVars => ReviewInv'
<1> SUFFICES ASSUME ReviewInv, [Review!Next]_reviewVars PROVE ReviewInv'
  OBVIOUS
<1>1. CASE UNCHANGED reviewVars
  BY <1>1 DEF reviewVars, ReviewInv, Dialogs, Store, Remembered
<1>2. ASSUME NEW key \in memories, Review!entryChanges(key) PROVE ReviewInv'
  BY <1>2 DEF Review!entryChanges, ReviewInv, Dialogs, Store, Remembered
<1>3. ASSUME NEW key \in memories, Review!purge(key) PROVE ReviewInv'
  <2>1. Store' /\ DOMAIN receipts \cup retired \subseteq DOMAIN receipts' \cup retired'
    BY <1>3, PurgeRemoves DEF ReviewInv
  <2>2. UNCHANGED <<proposals, restarts, review, approved, finished, pressed>>
    BY <1>3 DEF Review!purge
  <2> QED
    BY <2>1, <2>2 DEF ReviewInv, Dialogs, Remembered
<1>4. CASE Review!Next
  BY <1>2, <1>3, <1>4, DialogOperations, SaveOperations DEF Review!Next
<1> QED
  BY <1>1, <1>4

\* The steps of a review are steps of the review alone.
LEMMA OnlyReviewSteps == [AllNext]_all => (InReview' => InReview /\ [Review!Next]_reviewVars)
  BY DEF AllNext, all, InTask, InBroker, InAdvice, InReview, InEntries, InArchive,
         OnlyTask, OnlyBroker, OnlyAdvice, OnlyReview, OnlyEntries, OnlyArchive, Review!Next

\* A review that answered "saved" told the truth, what is stored was approved
\* word for word, and receipts and texts lead to stored memories alone,
\* whatever dialogs, lost acknowledgments, restarts and purges there are.
THEOREM ReviewsKeepTheirWord == KnowledgeSpec => []ReviewKeepsItsWord
<1> DEFINE Inv == InReview => ReviewInv
<1>1. AllInit => Inv
  <2> SUFFICES ASSUME AllInit, InReview PROVE ReviewInv
    OBVIOUS
  <2>1. Review!Init
    BY DEF AllInit, InReview
  <2>2. DOMAIN receipts = {} /\ DOMAIN content = {} /\ DOMAIN entryOf = {}
    BY <2>1 DEF Review!Init
  <2> QED
    BY <2>1, <2>2 DEF Review!Init, ReviewInv, Dialogs, Store, Remembered
<1>2. Inv /\ [AllNext]_all => Inv'
  BY OnlyReviewSteps, ReviewStep
<1>3. Inv => ReviewKeepsItsWord
  <2> SUFFICES ASSUME ReviewInv
               PROVE  Review!SavedIsStored /\ Review!StoredWasApproved /\ Review!ReceiptsReachMemory
    BY DEF ReviewKeepsItsWord
  <2>1. Review!SavedIsStored
    BY DEF ReviewInv, Remembered, Review!SavedIsStored
  <2>2. Review!StoredWasApproved /\ Review!ReceiptsReachMemory
    BY DEF ReviewInv, Store, Review!StoredWasApproved, Review!ReceiptsReachMemory
  <2> QED
    BY <2>1, <2>2
<1> QED
  BY <1>1, <1>2, <1>3, PTL DEF KnowledgeSpec

-----------------------------------------------------------------------------
(* The generic context broker.                                             *)

\* The history that a delivery is ranked against: the first n of the run, as
\* the entries and the feedback on them are.
HistoryOf(R, n, exclude, retrieval) ==
  [rows |-> 1..n, exclude |-> exclude,
   delivered |-> {i \in UNION {Broker!itemsOf(R[d]) : d \in {x \in 1..n : R[x].query # exclude}} : "helpful" \notin retrieval[i[1]][2]},
   stale |-> {i \in UNION {Broker!itemsOf(R[d]) : d \in 1..n} : retrieval[i[1]][1] > i[2]}]

\* What is left out of it: the query, if it was delivered for before.
ExcludedOf(R, n, query) == IF \A d \in 1..n : R[d].query # query THEN None ELSE query

\* A delivery attests the deliveries before it.
Attests(R, d) ==
  /\ R[d].id = [query |-> R[d].query, history |-> HistoryOf(R, d - 1, ExcludedOf(R, d - 1, R[d].query), R[d].query.retrieval)]
  /\ DOMAIN R[d].items \subseteq Entries
  /\ \A e \in DOMAIN R[d].items : R[d].query.retrieval[e][1] = R[d].items[e]

\* A call knows which deliveries it was ranked against.
Ranked(R, p) ==
  /\ p = [query |-> p.query, history |-> p.history, phase |-> p.phase, committed |-> p.committed,
          after |-> p.after, replay |-> p.replay, items |-> p.items]
  /\ p.phase = "ranked" /\ p.replay = 0 =>
       /\ DOMAIN p.items \subseteq Entries
       /\ \E n \in 0..Len(R) : p.history.rows = 1..n /\ p.history.exclude = ExcludedOf(R, n, p.query)

BrokerInv ==
  /\ (\E S : rows \in Seq(S)) /\ DOMAIN pending = Calls
  /\ \A d \in 1..Len(rows) : Attests(rows, d)
  /\ \A c \in Calls : pending[c] # None => Ranked(rows, pending[c])

\* Without the last of n numbers there are n - 1, and without no other.
LEMMA OnlyLast == \A n \in Nat \ {0} : \A k \in 1..n : (1..n) \ {k} = 1..(k - 1) => k = n
<1> SUFFICES ASSUME NEW n \in Nat \ {0}, NEW k \in 1..n, k # n
             PROVE  n \in (1..n) \ {k} /\ n \notin 1..(k - 1)
  OBVIOUS
<1> QED
  OBVIOUS

\* Earlier deliveries are all but the one that is left out.
LEMMA PriorRows == \A x, exclude : Broker!priorData(x, exclude).rows = DOMAIN rows \ {x}
  BY DEF Broker!priorData, Broker!priorOf

\* The earlier deliveries, as they are now, are the history of the first n.
LEMMA PriorIsHistory ==
  ASSUME BrokerInv, NEW x, NEW n \in Nat, n <= Len(rows), DOMAIN rows \ {x} = 1..n, NEW exclude
  PROVE  Broker!priorOf(rows, x, exclude) = HistoryOf(rows, n, exclude, Broker!retrievalState)
<1>1. \A d \in 1..n : DOMAIN rows[d].items \subseteq Entries
  <2>1. Len(rows) \in Nat
    BY DEF BrokerInv
  <2>2. \A d \in 1..n : Attests(rows, d)
    BY <2>1 DEF BrokerInv
  <2> QED
    BY <2>2 DEF Attests
<1>2. \A d \in 1..n : \A i \in Broker!itemsOf(rows[d]) :
        i[1] \in Entries /\ Broker!retrievalState[i[1]] = <<revision[i[1]], Broker!contextFeedbackSignals(i[1])>>
  BY <1>1 DEF Broker!itemsOf, Broker!retrievalState
<1> DEFINE items(d) == Broker!itemsOf(rows[d])
           retrieval == Broker!retrievalState
           signals(e) == Broker!contextFeedbackSignals(e)
<1>3. \A d \in 1..n : \A i \in items(d) : retrieval[i[1]][1] = revision[i[1]] /\ retrieval[i[1]][2] = signals(i[1])
  <2> SUFFICES ASSUME NEW d \in 1..n, NEW i \in items(d)
               PROVE  retrieval[i[1]][1] = revision[i[1]] /\ retrieval[i[1]][2] = signals(i[1])
    OBVIOUS
  <2>1. retrieval[i[1]] = <<revision[i[1]], signals(i[1])>>
    BY <1>2
  <2> QED
    BY <2>1
<1> DEFINE others == {d \in 1..n : rows[d].query # exclude}
<1>4. Broker!priorOf(rows, x, exclude) =
        [rows |-> 1..n, exclude |-> exclude,
         delivered |-> {i \in UNION {items(d) : d \in others} : "helpful" \notin signals(i[1])},
         stale |-> {i \in UNION {items(d) : d \in 1..n} : revision[i[1]] > i[2]}]
  BY DEF Broker!priorOf
<1> HIDE DEF items, retrieval, signals, others
<1>5. {i \in UNION {items(d) : d \in others} : "helpful" \notin signals(i[1])} =
      {i \in UNION {items(d) : d \in others} : "helpful" \notin retrieval[i[1]][2]}
  BY <1>3 DEF others
<1>6. {i \in UNION {items(d) : d \in 1..n} : revision[i[1]] > i[2]} =
      {i \in UNION {items(d) : d \in 1..n} : retrieval[i[1]][1] > i[2]}
  BY <1>3
<1> QED
  BY <1>4, <1>5, <1>6 DEF HistoryOf, items, retrieval, others

\* The history of the first n is theirs alone.
LEMMA HistoryKept ==
  ASSUME NEW R, NEW Q, NEW n \in Nat, \A d \in 1..n : Q[d] = R[d]
  PROVE  /\ \A exclude, retrieval : HistoryOf(Q, n, exclude, retrieval) = HistoryOf(R, n, exclude, retrieval)
         /\ \A query : ExcludedOf(Q, n, query) = ExcludedOf(R, n, query)
<1>1. \A query : ExcludedOf(Q, n, query) = ExcludedOf(R, n, query)
  BY DEF ExcludedOf
<1>2. ASSUME NEW exclude, NEW retrieval
      PROVE  HistoryOf(Q, n, exclude, retrieval) = HistoryOf(R, n, exclude, retrieval)
  <2> DEFINE others == {x \in 1..n : R[x].query # exclude}
  <2>1. {x \in 1..n : Q[x].query # exclude} = others
    OBVIOUS
  <2>2. {Broker!itemsOf(Q[d]) : d \in 1..n} = {Broker!itemsOf(R[d]) : d \in 1..n}
    OBVIOUS
  <2>3. {Broker!itemsOf(Q[d]) : d \in others} = {Broker!itemsOf(R[d]) : d \in others}
    OBVIOUS
  <2> HIDE DEF others
  <2> QED
    BY <2>1, <2>2, <2>3 DEF HistoryOf, others
<1> QED
  BY <1>1, <1>2

\* Preparing notes the deliveries that were there.
LEMMA BrokerPrepares ==
  ASSUME BrokerInv, NEW c \in Calls, NEW q \in Queries, Broker!prepareResult(c, q)
  PROVE  BrokerInv'
<1> DEFINE query == Broker!preparedQuery(q)
           replay == Broker!replayableDelivery(query)
           exclude == IF replay = {} /\ Broker!sameQuery(query) # {} THEN query ELSE None
           history == Broker!priorData(0, exclude)
           answers == IF replay = {} THEN {[replay |-> 0, items |-> Broker!rank(q, history)]}
                      ELSE {[replay |-> d, items |-> rows[d].items] : d \in replay}
<1>1. PICK answer \in answers :
        pending' = [pending EXCEPT ![c] = [query |-> query, history |-> history, phase |-> "ranked", committed |-> None,
                                           after |-> None, replay |-> answer.replay, items |-> answer.items]]
  BY DEF Broker!prepareResult
<1>2. UNCHANGED <<revision, seq, rows, feedback>>
  BY DEF Broker!prepareResult
<1>3. Len(rows) \in Nat /\ DOMAIN rows = 1..Len(rows)
  BY DEF BrokerInv
<1>4. answer.replay = 0 => replay = {}
  <2>1. replay \subseteq 1..Len(rows)
    BY <1>3 DEF Broker!replayableDelivery, Broker!sameQuery
  <2> HIDE DEF replay
  <2> QED
    BY <1>1, <1>3, <2>1
<1>5. replay = {} => DOMAIN answer.items \subseteq Entries
  <2>1. DOMAIN Broker!rank(q, history) \subseteq Entries
    <3>1. Broker!fresh(history) \subseteq Entries
      BY DEF Broker!fresh
    <3>2. \A pool \in SUBSET Entries : Best[q][pool] \subseteq Entries
      BY KnowledgeAssumption
    <3>3. Best[q][IF Broker!fresh(history) = {} THEN Entries ELSE Broker!fresh(history)] \subseteq Entries
      BY <3>1, <3>2
    <3> QED
      BY <3>3 DEF Broker!rank
  <2> HIDE DEF replay, history
  <2> QED
    BY <1>1, <2>1
<1>6. history.rows = 1..Len(rows) /\ history.exclude = exclude
  BY <1>3 DEF Broker!priorData, Broker!priorOf
<1>7. replay = {} => exclude = ExcludedOf(rows, Len(rows), query)
  BY <1>3 DEF ExcludedOf, Broker!sameQuery
<1> HIDE DEF query, replay, exclude, history, answers
<1> DEFINE new == [query |-> query, history |-> history, phase |-> "ranked", committed |-> None,
                   after |-> None, replay |-> answer.replay, items |-> answer.items]
<1>8. Ranked(rows, new)
  BY <1>3, <1>4, <1>5, <1>6, <1>7 DEF Ranked
<1>9. pending' = [pending EXCEPT ![c] = new]
  BY <1>1
<1> HIDE DEF new
<1> QED
  BY <1>2, <1>8, <1>9 DEF BrokerInv

\* A new delivery attests all deliveries before it.
LEMMA BrokerPersists ==
  ASSUME BrokerInv, NEW c \in Calls, Broker!persistPrepared(c)
  PROVE  BrokerInv'
<1> DEFINE p == pending[c]
           row == [id |-> [query |-> p.query, history |-> p.history], query |-> p.query, items |-> p.items]
           N == Len(rows)
<1>1. /\ p # None /\ p.replay = 0 /\ p.phase = "ranked" /\ Ranked(rows, p)
      /\ rows' = Append(rows, row) /\ UNCHANGED <<revision, seq, feedback>>
  BY DEF Broker!persistPrepared, Broker!historyAttestedDeliveryId, BrokerInv
<1>2. /\ Broker!preparedQuery(p.query.input) = p.query /\ Broker!currentItem(p.items)
      /\ Broker!priorData(0, p.history.exclude) = p.history
  BY DEF Broker!persistPrepared, Broker!assertPreparedBrokerState
<1>3. PICK S : rows \in Seq(S)
  BY DEF BrokerInv
<1>4. N \in Nat /\ DOMAIN rows = 1..N
  BY <1>3
<1>5. /\ rows' \in Seq(S \cup {row}) /\ Len(rows') = N + 1 /\ rows'[N + 1] = row
      /\ \A d \in 1..N : rows'[d] = rows[d]
  <2> HIDE DEF row
  <2>1. rows \in Seq(S \cup {row})
    BY <1>3
  <2> QED
    BY <1>1, <2>1
<1>6. p.query.retrieval = Broker!retrievalState
  <2>1. Broker!preparedQuery(p.query.input).retrieval = Broker!retrievalState
    BY DEF Broker!preparedQuery
  <2> QED
    BY <1>2, <2>1
<1>7. p.history = HistoryOf(rows, N, p.history.exclude, p.query.retrieval)
  <2>1. N \in Nat /\ N <= Len(rows) /\ DOMAIN rows \ {0} = 1..N
    BY <1>4
  <2>2. Broker!priorOf(rows, 0, p.history.exclude) = HistoryOf(rows, N, p.history.exclude, Broker!retrievalState)
    BY <2>1, PriorIsHistory
  <2> QED
    BY <1>2, <1>6, <2>2 DEF Broker!priorData
<1>8. p.history.exclude = ExcludedOf(rows, N, p.query)
  <2>1. p.history.rows = 1..N
    <3>1. DOMAIN rows \ {0} = 1..N
      BY <1>4
    <3>2. Broker!priorData(0, p.history.exclude).rows = 1..N
      BY <3>1, PriorRows
    <3> QED
      BY <1>2, <3>2
  <2>2. PICK n \in 0..N : p.history.rows = 1..n /\ p.history.exclude = ExcludedOf(rows, n, p.query)
    BY <1>1 DEF Ranked
  <2> HIDE DEF N, p, row
  <2>3. n \in Nat /\ n <= N /\ 1..n = 1..N
    <3>1. 1..n = 1..N
      BY <2>1, <2>2
    <3>2. N \in Nat
      BY <1>4
    <3> QED
      BY <3>1, <3>2
  <2>4. n = N
    <3>1. ~(n < N)
      <4> SUFFICES ASSUME n < N PROVE FALSE
        OBVIOUS
      <4>1. N \in 1..N /\ N \notin 1..n
        BY <1>4, <2>3
      <4> QED
        BY <2>3, <4>1
    <3> QED
      BY <1>4, <2>3, <3>1
  <2> QED
    BY <2>2, <2>4
<1>9. \A e \in DOMAIN p.items : e \in Entries /\ p.query.retrieval[e][1] = p.items[e]
  <2>1. DOMAIN p.items \subseteq Entries
    BY <1>1 DEF Ranked
  <2>2. \A e \in Entries : p.query.retrieval[e][1] = revision[e]
    BY <1>6 DEF Broker!retrievalState
  <2> QED
    BY <1>2, <2>1, <2>2 DEF Broker!currentItem
<1> DEFINE query == p.query
           history == p.history
           items == p.items
<1>10. /\ row.id = [query |-> query, history |-> history] /\ row.query = query /\ row.items = items
  OBVIOUS
<1> HIDE DEF row, N
<1>11. Attests(rows', N + 1)
  <2>1. (N + 1) - 1 = N
    BY <1>4
  <2>2. /\ HistoryOf(rows', N, ExcludedOf(rows', N, query), query.retrieval) = HistoryOf(rows, N, ExcludedOf(rows, N, query), query.retrieval)
    BY <1>4, <1>5, HistoryKept
  <2>3. history = HistoryOf(rows, N, ExcludedOf(rows, N, query), query.retrieval)
    BY <1>7, <1>8
  <2>4. \A e \in DOMAIN items : e \in Entries /\ query.retrieval[e][1] = items[e]
    BY <1>9
  <2> HIDE DEF query, history, items
  <2>5. rows'[N + 1].id = [query |-> query, history |-> history] /\ rows'[N + 1].query = query /\ rows'[N + 1].items = items
    BY <1>5, <1>10
  <2>6. DOMAIN items \subseteq Entries
    BY <2>4
  <2> DEFINE m == N + 1
  <2>7. m - 1 = N /\ m = N + 1
    BY <2>1
  <2> HIDE DEF m
  <2> DEFINE before == HistoryOf(rows', N, ExcludedOf(rows', N, query), query.retrieval)
  <2>8. before = HistoryOf(rows', m - 1, ExcludedOf(rows', m - 1, rows'[m].query), rows'[m].query.retrieval)
    BY <2>5, <2>7
  <2>9. rows'[m].id = [query |-> rows'[m].query, history |-> before]
    BY <2>2, <2>3, <2>5, <2>7
  <2> HIDE DEF before
  <2>10. Attests(rows', m)
    BY <2>4, <2>5, <2>6, <2>7, <2>8, <2>9 DEF Attests
  <2> QED
    BY <2>7, <2>10
<1>12. \A d \in 1..N : Attests(rows', d)
  <2> SUFFICES ASSUME NEW d \in 1..N PROVE Attests(rows', d)
    OBVIOUS
  <2>1. Attests(rows, d) /\ rows'[d] = rows[d]
    BY <1>5 DEF BrokerInv, N
  <2>2. d - 1 \in Nat /\ \A x \in 1..(d - 1) : rows'[x] = rows[x]
    BY <1>4, <1>5
  <2>3. /\ HistoryOf(rows', d - 1, ExcludedOf(rows', d - 1, rows[d].query), rows[d].query.retrieval)
           = HistoryOf(rows, d - 1, ExcludedOf(rows, d - 1, rows[d].query), rows[d].query.retrieval)
    <3>1. \A exclude, retrieval : HistoryOf(rows', d - 1, exclude, retrieval) = HistoryOf(rows, d - 1, exclude, retrieval)
      BY <2>2, HistoryKept
    <3>2. \A x : ExcludedOf(rows', d - 1, x) = ExcludedOf(rows, d - 1, x)
      BY <2>2, HistoryKept
    <3> QED
      BY <3>1, <3>2
  <2> QED
    BY <2>1, <2>3 DEF Attests
<1>13. ASSUME NEW k \in Calls, pending'[k] # None
       PROVE  Ranked(rows', pending'[k])
  <2>1. CASE k = c
    <3>1. PICK after, place : pending' = [pending EXCEPT ![c].phase = "stored", ![c].committed = place, ![c].after = after]
      BY DEF Broker!persistPrepared
    <3> DEFINE held(phase, committed, last) == [query |-> query, history |-> history, phase |-> phase,
                   committed |-> committed, after |-> last, replay |-> p.replay, items |-> items]
    <3>2. pending'[c] = [[[p EXCEPT !.phase = "stored"] EXCEPT !.committed = place] EXCEPT !.after = after]
      BY <3>1 DEF BrokerInv
    <3>3. PICK x, y, z, w : p = held(x, y, z) /\ w = p.replay
      BY <1>1 DEF Ranked
    <3> HIDE DEF p, query, history, items
    <3>4. [held(x, y, z) EXCEPT !.phase = "stored"] = held("stored", y, z)
      OBVIOUS
    <3>5. [held("stored", y, z) EXCEPT !.committed = place] = held("stored", place, z)
      OBVIOUS
    <3>6. [held("stored", place, z) EXCEPT !.after = after] = held("stored", place, after)
      OBVIOUS
    <3>7. pending'[c] = held("stored", place, after)
      BY <3>2, <3>3, <3>4, <3>5, <3>6
    <3> QED
      BY <2>1, <3>7 DEF Ranked
  <2>2. CASE k # c
    <3>1. pending'[k] = pending[k] /\ Ranked(rows, pending[k])
      BY <1>13, <2>2 DEF Broker!persistPrepared, BrokerInv
    <3>2. \A n \in 0..N : \A x : ExcludedOf(rows', n, x) = ExcludedOf(rows, n, x)
      BY <1>4, <1>5, HistoryKept
    <3> QED
      BY <1>4, <1>5, <3>1, <3>2 DEF Ranked, N
  <2> QED
    BY <2>1, <2>2
<1>14. DOMAIN pending' = Calls
  BY DEF Broker!persistPrepared, BrokerInv
<1> QED
  BY <1>4, <1>5, <1>11, <1>12, <1>13, <1>14 DEF BrokerInv

\* Every operation of the broker keeps the invariant.
LEMMA BrokerStep == BrokerInv /\ [Broker!Next]_brokerVars => BrokerInv'
<1> SUFFICES ASSUME BrokerInv, [Broker!Next]_brokerVars PROVE BrokerInv'
  OBVIOUS
<1>1. CASE UNCHANGED <<rows, pending>>
  BY <1>1 DEF BrokerInv
<1>2. ASSUME NEW c \in Calls, rows' = rows, pending' = [pending EXCEPT ![c] = None]
      PROVE  BrokerInv'
  BY <1>2 DEF BrokerInv
<1>3. CASE Broker!Next
  BY <1>1, <1>2, <1>3, BrokerPrepares, BrokerPersists
     DEF Broker!Next, Broker!appendEvent, Broker!editEntry, Broker!recordContextFeedback, Broker!answerReplay, Broker!answerStored, Broker!failCall
<1> QED
  BY <1>1, <1>3 DEF brokerVars

\* The newest delivery of an unchanged query is the one given again.
LEMMA NewestIsReplayed == BrokerInv => Broker!NewestReplays
<1> SUFFICES ASSUME BrokerInv, rows # <<>>, rows[Len(rows)].query = Broker!preparedQuery(rows[Len(rows)].query.input)
             PROVE  Broker!replayableDelivery(rows[Len(rows)].query) = {Len(rows)}
  BY DEF Broker!NewestReplays
<1> DEFINE d == Len(rows)
           query == rows[d].query
<1>1. d \in Nat \ {0} /\ DOMAIN rows = 1..d
  BY EmptySeq DEF BrokerInv
<1>2. Attests(rows, d)
  BY <1>1 DEF BrokerInv
<1>3. query.retrieval = Broker!retrievalState
  <2>1. Broker!preparedQuery(query.input).retrieval = Broker!retrievalState
    BY DEF Broker!preparedQuery
  <2> QED
    BY <2>1
<1>4. Broker!currentItem(rows[d].items)
  <2>1. \A e \in Entries : Broker!retrievalState[e][1] = revision[e]
    BY DEF Broker!retrievalState
  <2> QED
    BY <1>2, <1>3, <2>1 DEF Attests, Broker!currentItem
<1>5. DOMAIN rows \ {d} = 1..(d - 1) /\ d - 1 \in Nat
  BY <1>1
<1>6. Broker!deliveryHistoryExclusionForReplay(query, d) = ExcludedOf(rows, d - 1, query)
  BY <1>1, <1>5 DEF Broker!deliveryHistoryExclusionForReplay, Broker!sameQuery, ExcludedOf
<1>7. Broker!priorData(d, ExcludedOf(rows, d - 1, query)) = HistoryOf(rows, d - 1, ExcludedOf(rows, d - 1, query), Broker!retrievalState)
  BY <1>1, <1>5, PriorIsHistory DEF Broker!priorData
<1>8. Broker!deliveryHistoryIsAttested(query, d)
  BY <1>2, <1>3, <1>6, <1>7 DEF Attests, Broker!deliveryHistoryIsAttested, Broker!historyAttestedDeliveryId
<1>9. d \in Broker!replayableDelivery(query)
  BY <1>1, <1>4, <1>8 DEF Broker!replayableDelivery, Broker!sameQuery
<1>10. ASSUME NEW e \in Broker!replayableDelivery(query)
       PROVE  e = d
  <2>1. e \in 1..d /\ Broker!deliveryHistoryIsAttested(query, e)
    BY <1>1 DEF Broker!replayableDelivery, Broker!sameQuery
  <2>2. rows[e].id.history.rows = 1..d \ {e}
    <3>1. PICK exclude : rows[e].id = [query |-> query, history |-> Broker!priorData(e, exclude)]
      BY <2>1 DEF Broker!deliveryHistoryIsAttested, Broker!historyAttestedDeliveryId
    <3>2. rows[e].id.history = Broker!priorData(e, exclude)
      BY <3>1
    <3> QED
      BY <1>1, <3>2, PriorRows
  <2>3. rows[e].id.history.rows = 1..(e - 1)
    <3>1. PICK exclude, retrieval : rows[e].id.history = HistoryOf(rows, e - 1, exclude, retrieval)
      <4>1. Attests(rows, e)
        BY <2>1 DEF BrokerInv
      <4>2. rows[e].id.history = HistoryOf(rows, e - 1, ExcludedOf(rows, e - 1, rows[e].query), rows[e].query.retrieval)
        BY <4>1 DEF Attests
      <4> QED
        BY <4>2
    <3> QED
      BY <3>1 DEF HistoryOf
  <2> HIDE DEF d
  <2> QED
    BY <1>1, <2>1, <2>2, <2>3, OnlyLast
<1> QED
  BY <1>9, <1>10

\* The steps of the broker are steps of the broker alone.
LEMMA OnlyBrokerSteps == [AllNext]_all => (InBroker' => InBroker /\ [Broker!Next]_brokerVars)
  BY DEF AllNext, all, InTask, InBroker, InAdvice, InReview, InEntries, InArchive,
         OnlyTask, OnlyBroker, OnlyAdvice, OnlyReview, OnlyEntries, OnlyArchive, Broker!Next

\* Every delivery was ranked against all deliveries stored before it, and while
\* nothing changes the newest delivery, and no other, answers its query again,
\* although calls overlap, fail and never answer (ContextBroker).
THEOREM BrokerKnows == KnowledgeSpec => []BrokerKnowsItsHistory
<1> DEFINE Inv == InBroker => BrokerInv
<1>1. AllInit => Inv
  <2> SUFFICES ASSUME AllInit, InBroker PROVE BrokerInv
    OBVIOUS
  <2>1. rows = <<>> /\ pending = [c \in Calls |-> None]
    BY DEF AllInit, InBroker, Broker!Init
  <2>2. rows \in Seq({}) /\ Len(rows) = 0
    BY <2>1
  <2> QED
    BY <2>1, <2>2 DEF BrokerInv
<1>2. Inv /\ [AllNext]_all => Inv'
  BY OnlyBrokerSteps, BrokerStep
<1>3. Inv => BrokerKnowsItsHistory
  <2>1. BrokerInv => Broker!RankedAgainstAllBefore
    <3> SUFFICES ASSUME BrokerInv, NEW d \in DOMAIN rows PROVE rows[d].id.history.rows = 1..(d - 1)
      BY DEF Broker!RankedAgainstAllBefore
    <3>1. Attests(rows, d)
      BY DEF BrokerInv
    <3>2. rows[d].id.history = HistoryOf(rows, d - 1, ExcludedOf(rows, d - 1, rows[d].query), rows[d].query.retrieval)
      BY <3>1 DEF Attests
    <3> QED
      BY <3>2 DEF HistoryOf
  <2> QED
    BY <2>1, NewestIsReplayed DEF BrokerKnowsItsHistory
<1> QED
  BY <1>1, <1>2, <1>3, PTL DEF KnowledgeSpec

-----------------------------------------------------------------------------
(* The projection of the ledger and the nudges.                            *)

\* A set of numbers has a least one ...
LEMMA Least ==
  ASSUME NEW S \in SUBSET Nat, S # {}
  PROVE  \E n \in S : \A m \in S : n <= m
<1> DEFINE less == OpToRel(<, Nat)
<1>1. IsWellFoundedOn(less, Nat)
  BY NatLessThanWellFounded
<1>2. \A m, n \in Nat : <<m, n>> \in less <=> m < n
  BY DEF OpToRel
<1> HIDE DEF less
<1>3. \E n \in S : \A m \in S : <<m, n>> \notin less
  BY <1>1, WFMin
<1>4. PICK n \in S : \A m \in S : <<m, n>> \notin less
  BY <1>3
<1>5. \A m \in S : m \in Nat /\ n \in Nat /\ ~(m < n)
  BY <1>2, <1>4
<1> QED
  BY <1>5

\* ... and a greatest one if it has a bound.
LEMMA Greatest ==
  ASSUME NEW N \in Nat, NEW S \in SUBSET (0..N), S # {}
  PROVE  \E n \in S : \A m \in S : m <= n
<1> DEFINE below == {N - n : n \in S}
<1>1. below \in SUBSET Nat /\ below # {}
  <2>1. \A n \in 0..N : N - n \in Nat
    OBVIOUS
  <2>2. \A n \in S : N - n \in Nat
    BY <2>1
  <2> QED
    BY <2>2
<1>2. PICK k \in below : \A j \in below : k <= j
  <2> HIDE DEF below
  <2> QED
    BY <1>1, Least
<1>3. PICK n \in S : k = N - n
  OBVIOUS
<1>4. \A m \in S : N - m \in below
  OBVIOUS
<1>5. ASSUME NEW m \in S
      PROVE  m <= n
  <2>1. N - n <= N - m
    BY <1>2, <1>3, <1>4
  <2> HIDE DEF below
  <2> QED
    BY <2>1
<1> QED
  BY <1>5

\* The fold of a log exists: it is defined from the first event on.
LEMMA FoldExists ==
  \A n \in 0..MaxLog : Advice!folded[n] = IF n = 0 THEN Advice!emptyProjection ELSE Advice!project(Advice!folded[n - 1], log[n], n)
<1> DEFINE next(p, k) == Advice!project(p, log[k], k)
           Fold(g, m) == g = [k \in 0..m |-> IF k = 0 THEN Advice!emptyProjection ELSE next(g[k - 1], k)]
           bad == {m \in Nat : ~\E g : Fold(g, m)}
<1>1. MaxLog \in Nat
  BY KnowledgeAssumption
<1>2. bad = {}
  <2> SUFFICES ASSUME bad # {} PROVE FALSE
    OBVIOUS
  <2>1. bad \in SUBSET Nat
    OBVIOUS
  <2>2. PICK n \in bad : \A m \in bad : n <= m
    <3> HIDE DEF bad
    <3> QED
      BY <2>1, Least
  <2>3. n \in Nat /\ ~\E g : Fold(g, n)
    OBVIOUS
  <2>4. CASE n = 0
    <3> DEFINE g == [k \in 0..0 |-> Advice!emptyProjection]
    <3> HIDE DEF next
    <3>1. g = [k \in 0..0 |-> IF k = 0 THEN Advice!emptyProjection ELSE next(g[k - 1], k)]
      OBVIOUS
    <3> QED
      BY <2>3, <2>4, <3>1
  <2>5. CASE n > 0
    <3>1. n - 1 \in Nat /\ n - 1 \notin bad
      <4>1. n - 1 \in Nat /\ ~(n <= n - 1)
        BY <2>3, <2>5
      <4> HIDE DEF bad
      <4> QED
        BY <2>2, <4>1
    <3>2. PICK h : Fold(h, n - 1)
      BY <3>1
    <3> HIDE DEF next
    <3>3. \A k \in 0..(n - 1) : h[k] = IF k = 0 THEN Advice!emptyProjection ELSE next(h[k - 1], k)
      BY <3>2
    <3> DEFINE g == [k \in 0..n |-> IF k = n THEN next(h[n - 1], n) ELSE h[k]]
    <3>4. \A k \in 0..n : g[k] = IF k = 0 THEN Advice!emptyProjection ELSE next(g[k - 1], k)
      <4> SUFFICES ASSUME NEW k \in 0..n
                   PROVE  g[k] = IF k = 0 THEN Advice!emptyProjection ELSE next(g[k - 1], k)
        OBVIOUS
      <4>1. CASE k = 0
        BY <2>3, <2>5, <3>3, <4>1
      <4>2. CASE k > 0
        <5>1. k - 1 \in 0..n /\ k - 1 # n /\ g[k - 1] = h[k - 1]
          BY <2>3, <4>2
        <5>2. CASE k = n
          <6>1. g[k] = next(h[k - 1], k)
            BY <5>2
          <6> QED
            BY <4>2, <5>1, <6>1
        <5>3. CASE k # n
          <6>1. k \in 0..(n - 1) /\ g[k] = h[k]
            BY <2>3, <5>3
          <6> HIDE DEF g
          <6> QED
            BY <3>3, <4>2, <5>1, <6>1
        <5> QED
          BY <5>2, <5>3
      <4> QED
        BY <4>1, <4>2
    <3>5. g = [k \in 0..n |-> g[k]]
      OBVIOUS
    <3> HIDE DEF g
    <3>6. Fold(g, n)
      BY <3>4, <3>5
    <3> QED
      BY <2>3, <3>6
  <2> QED
    BY <2>3, <2>4, <2>5
<1>3. PICK f : Fold(f, MaxLog)
  BY <1>1, <1>2
<1>4. Fold(Advice!folded, MaxLog)
  BY <1>3 DEF Advice!folded
<1> QED
  BY <1>4

\* What is open among the first n events.
OpenOf(K, n) == {k \in 1..n : log[k].kind \in K /\ \A m \in (k + 1)..n : k \notin log[m].resolves}

\* What a projection of the first n events says of them.
Says(p, n) ==
  /\ p.failures = OpenOf(Advice!FailureKinds, n) /\ p.unknown = OpenOf({"unknown"}, n)
  /\ p.mutation \in 0..n /\ (p.mutation = 0 \/ log[p.mutation].kind = "mutation")
  /\ \A m \in 1..n : log[m].kind = "mutation" => m <= p.mutation
  /\ p.evidenceAt \in 0..n /\ (p.evidenceAt = 0 => p.evidence = "none")
  /\ p.evidenceAt # 0 => p.evidence \in {"passed", "failed"} /\ p.evidence = log[p.evidenceAt].kind
  /\ \A m \in 1..n : log[m].kind \in {"passed", "failed"} => m <= p.evidenceAt

\* An event leaves open what it does not resolve.
LEMMA OpenNext ==
  ASSUME NEW K, NEW n \in Nat \ {0}
  PROVE  OpenOf(K, n) = (OpenOf(K, n - 1) \ log[n].resolves) \cup (IF log[n].kind \in K THEN {n} ELSE {})
<1>1. \A k \in 1..(n - 1) : k \in OpenOf(K, n) <=> (k \in OpenOf(K, n - 1) /\ k \notin log[n].resolves)
  <2> SUFFICES ASSUME NEW k \in 1..(n - 1)
               PROVE  (\A m \in (k + 1)..n : k \notin log[m].resolves) <=>
                        (k \notin log[n].resolves /\ \A m \in (k + 1)..(n - 1) : k \notin log[m].resolves)
    BY DEF OpenOf
  <2>1. (k + 1)..n = ((k + 1)..(n - 1)) \cup {n}
    OBVIOUS
  <2> QED
    BY <2>1
<1>2. n \in OpenOf(K, n) <=> log[n].kind \in K
  <2>1. n \in 1..n /\ (n + 1)..n = {}
    OBVIOUS
  <2> QED
    BY <2>1 DEF OpenOf
<1>3. OpenOf(K, n) \subseteq 1..(n - 1) \cup {n} /\ OpenOf(K, n - 1) \subseteq 1..(n - 1) /\ n \notin 1..(n - 1)
  BY DEF OpenOf
<1> QED
  BY <1>1, <1>2, <1>3

\* One more event: the projection says what there is to say.
LEMMA ProjectSays ==
  ASSUME NEW n \in Nat \ {0}, NEW p, Says(p, n - 1)
  PROVE  Says(Advice!project(p, log[n], n), n)
<1> DEFINE q == Advice!project(p, log[n], n)
           kind == log[n].kind
<1>1. /\ q.failures = (p.failures \ log[n].resolves) \cup (IF kind \in Advice!FailureKinds THEN {n} ELSE {})
      /\ q.unknown = (p.unknown \ log[n].resolves) \cup (IF kind = "unknown" THEN {n} ELSE {})
      /\ q.mutation = (IF kind = "mutation" THEN n ELSE p.mutation)
      /\ q.evidence = (IF kind \in {"passed", "failed"} THEN kind ELSE p.evidence)
      /\ q.evidenceAt = (IF kind \in {"passed", "failed"} THEN n ELSE p.evidenceAt)
  BY DEF Advice!project, Advice!removeIds
<1> HIDE DEF q, kind
<1>2. q.failures = OpenOf(Advice!FailureKinds, n)
  BY <1>1, OpenNext DEF Says, kind
<1>3. q.unknown = OpenOf({"unknown"}, n)
  <2>1. kind = "unknown" <=> kind \in {"unknown"}
    OBVIOUS
  <2> QED
    BY <1>1, <2>1, OpenNext DEF Says, kind
<1>4. \A m \in 1..n : m = n \/ m \in 1..(n - 1)
  OBVIOUS
<1>5. /\ q.mutation \in 0..n /\ (q.mutation = 0 \/ log[q.mutation].kind = "mutation")
      /\ \A m \in 1..n : log[m].kind = "mutation" => m <= q.mutation
  BY <1>1, <1>4 DEF Says, kind
<1>6. /\ q.evidenceAt \in 0..n /\ (q.evidenceAt = 0 => q.evidence = "none")
      /\ q.evidenceAt # 0 => q.evidence \in {"passed", "failed"} /\ q.evidence = log[q.evidenceAt].kind
      /\ \A m \in 1..n : log[m].kind \in {"passed", "failed"} => m <= q.evidenceAt
  BY <1>1, <1>4 DEF Says, kind
<1> QED
  BY <1>2, <1>3, <1>5, <1>6 DEF Says, q

\* The one pass over the events says what there is to say of all of them.
LEMMA LedgerSays ==
  ASSUME NEW N \in 0..MaxLog
  PROVE  Says(Advice!folded[N], N)
<1> DEFINE bad == {n \in 0..N : ~Says(Advice!folded[n], n)}
<1>1. MaxLog \in Nat
  BY KnowledgeAssumption
<1>2. bad \in SUBSET Nat
  BY <1>1
<1>3. ASSUME bad # {}
      PROVE  FALSE
  <2>1. PICK n \in bad : \A m \in bad : n <= m
    <3> HIDE DEF bad
    <3> QED
      BY <1>2, <1>3, Least
  <2>2. n \in 0..N /\ n \in 0..MaxLog /\ ~Says(Advice!folded[n], n)
    BY <1>1
  <2>3. CASE n = 0
    <3>1. Advice!folded[0] = Advice!emptyProjection
      BY <2>2, <2>3, FoldExists
    <3>2. Says(Advice!emptyProjection, 0)
      BY DEF Says, OpenOf, Advice!emptyProjection
    <3> QED
      BY <2>2, <2>3, <3>1, <3>2
  <2>4. CASE n # 0
    <3>1. n - 1 \in 0..N /\ ~(n <= n - 1) /\ n \in Nat \ {0}
      BY <1>1, <2>2, <2>4
    <3>2. n - 1 \notin bad
      <4> HIDE DEF bad
      <4> QED
        BY <2>1, <3>1
    <3>3. Says(Advice!folded[n - 1], n - 1)
      BY <3>1, <3>2
    <3>4. Advice!folded[n] = Advice!project(Advice!folded[n - 1], log[n], n)
      BY <2>2, <2>4, FoldExists
    <3> QED
      BY <2>2, <3>1, <3>3, <3>4, ProjectSays
  <2> QED
    BY <2>3, <2>4
<1>4. N \in 0..N
  BY <1>1
<1> QED
  BY <1>3, <1>4

\* A ledger within its bound, and nudges in the order of their sequence, each
\* of an occurrence and a checkpoint of its own and far from those of its code.
AdviceInv ==
  /\ (\E S : log \in Seq(S)) /\ Len(log) <= MaxLog
  /\ (\E S : nudges \in Seq(S)) /\ Len(nudges) <= MaxPerRun
  /\ \A i \in 1..Len(nudges) : nudges[i].through \in 0..Len(log)
  /\ \A i, j \in 1..Len(nudges) : i < j =>
       /\ nudges[i].occurrence # nudges[j].occurrence /\ nudges[i].checkpoint # nudges[j].checkpoint
       /\ nudges[i].through <= nudges[j].through
       /\ nudges[i].code = nudges[j].code => nudges[j].through - nudges[i].through >= MinDistance

\* So the projection of the whole ledger means what it says.
LEMMA LedgerMeansIt == AdviceInv => Advice!ProjectionMeansIt
<1> SUFFICES ASSUME AdviceInv PROVE Advice!ProjectionMeansIt
  OBVIOUS
<1> DEFINE N == Len(log)
           p == Advice!projectLedger
           Checks == {n \in DOMAIN log : log[n].kind \in {"passed", "failed"}}
           newest == CHOOSE n \in Checks : \A m \in Checks : m <= n
<1>1. N \in 0..MaxLog /\ N \in Nat /\ DOMAIN log = 1..N
  BY KnowledgeAssumption DEF AdviceInv
<1>2. Says(p, N)
  BY <1>1, LedgerSays DEF Advice!projectLedger
<1> HIDE DEF p, N
<1>3. /\ p.failures = {n \in DOMAIN log : log[n].kind \in Advice!FailureKinds /\ \A m \in (n + 1)..N : n \notin log[m].resolves}
      /\ p.unknown = {n \in DOMAIN log : log[n].kind \in {"unknown"} /\ \A m \in (n + 1)..N : n \notin log[m].resolves}
  BY <1>1, <1>2 DEF Says, OpenOf
<1>4. CASE p.evidenceAt = 0
  <2>1. Checks = {}
    BY <1>1, <1>2, <1>4 DEF Says
  <2>2. Advice!evidenceState(p) = "none"
    BY <1>2, <1>4 DEF Says, Advice!evidenceState
  <2> HIDE DEF Checks
  <2> QED
    BY <1>3, <2>1, <2>2 DEF Advice!ProjectionMeansIt, p, N, Checks
<1>5. CASE p.evidenceAt # 0
  <2>1. /\ p.evidenceAt \in Checks /\ \A m \in Checks : m \in Nat /\ m <= p.evidenceAt
        /\ p.evidence = log[p.evidenceAt].kind /\ p.evidence \in {"passed", "failed"}
    BY <1>1, <1>2, <1>5 DEF Says
  <2>2. newest = p.evidenceAt
    <3>1. \A n \in Checks : (\A m \in Checks : m <= n) => n = p.evidenceAt
      BY <2>1
    <3> HIDE DEF Checks
    <3> QED
      BY <2>1, <3>1
  <2>3. p.mutation > p.evidenceAt <=> \E m \in (newest + 1)..N : log[m].kind = "mutation"
    <3>1. p.mutation \in 0..N /\ p.evidenceAt \in 0..N /\ (p.mutation = 0 \/ log[p.mutation].kind = "mutation")
          /\ \A m \in 1..N : log[m].kind = "mutation" => m <= p.mutation
      BY <1>2 DEF Says
    <3> HIDE DEF newest, Checks
    <3> QED
      BY <1>1, <2>2, <3>1
  <2>4. Advice!evidenceState(p) =
          IF p.evidence = "failed" THEN "failed" ELSE IF p.mutation > p.evidenceAt THEN "stale" ELSE "fresh"
    BY <2>1 DEF Advice!evidenceState
  <2>5. Checks # {} /\ log[newest].kind = p.evidence
    BY <2>1, <2>2
  <2>6. Advice!evidenceState(p) =
          CASE Checks = {} -> "none"
            [] Checks # {} /\ log[newest].kind = "failed" -> "failed"
            [] Checks # {} /\ log[newest].kind = "passed" ->
                  IF \E m \in (newest + 1)..N : log[m].kind = "mutation" THEN "stale" ELSE "fresh"
    <3> HIDE DEF newest, Checks
    <3>1. CASE p.evidence = "failed"
      BY <2>4, <2>5, <3>1
    <3>2. CASE p.evidence = "passed"
      BY <2>3, <2>4, <2>5, <3>2
    <3> QED
      BY <2>1, <3>1, <3>2
  <2> HIDE DEF newest, Checks
  <2> QED
    BY <1>3, <2>6 DEF Advice!ProjectionMeansIt, p, N, Checks, newest
<1> QED
  BY <1>4, <1>5

\* Whichever way two nudges are compared, the reader accepts them.
LEMMA HistoryReadable == AdviceInv => Advice!NudgeHistoryReadable
<1> SUFFICES ASSUME AdviceInv, NEW i \in DOMAIN nudges, NEW j \in DOMAIN nudges, i # j
             PROVE  /\ nudges[i].occurrence # nudges[j].occurrence /\ nudges[i].checkpoint # nudges[j].checkpoint
                    /\ nudges[i].code = nudges[j].code /\ nudges[i].through <= nudges[j].through =>
                         nudges[j].through - nudges[i].through >= MinDistance
  BY DEF Advice!NudgeHistoryReadable, AdviceInv
<1>1. DOMAIN nudges = 1..Len(nudges) /\ Len(nudges) \in Nat /\ Len(log) \in Nat /\ MinDistance \in Nat
  BY KnowledgeAssumption DEF AdviceInv
<1>2. i \in Nat /\ j \in Nat /\ nudges[i].through \in Nat /\ nudges[j].through \in Nat
  BY <1>1 DEF AdviceInv
<1>3. CASE i < j
  BY <1>1, <1>3 DEF AdviceInv
<1>4. CASE j < i
  BY <1>1, <1>2, <1>4 DEF AdviceInv
<1> QED
  BY <1>2, <1>3, <1>4

\* The nudge that is chosen is of a new occurrence and far from the last one.
LEMMA NudgeRecorded ==
  ASSUME AdviceInv, NEW c, Advice!recordNudgeDelivery(c)
  PROVE  AdviceInv'
<1> DEFINE p == Advice!projectLedger
           k == Advice!selectNudge(p)
           code == Advice!NudgeCodes[k]
           new == [checkpoint |-> c, code |-> code, through |-> Len(log), occurrence |-> Advice!occurrenceId(p, code)]
           N == Len(nudges)
<1>1. PICK S : nudges \in Seq(S)
  BY DEF AdviceInv
<1>2. N \in Nat /\ DOMAIN nudges = 1..N /\ Len(log) \in Nat /\ MinDistance \in Nat /\ MaxPerRun \in Nat /\ None \notin Nat
  BY <1>1, KnowledgeAssumption DEF AdviceInv
<1>3. nudges' = Append(nudges, new) /\ UNCHANGED log /\ k # 0 /\ \A j \in 1..N : nudges[j].checkpoint # c
  BY <1>2 DEF Advice!recordNudgeDelivery
<1>4. k \in Advice!eligible(p) /\ N < MaxPerRun
  <2>1. /\ ~(N >= MaxPerRun) /\ Advice!eligible(p) # {}
        /\ k = CHOOSE i \in Advice!eligible(p) : \A j \in Advice!eligible(p) : i <= j
    BY <1>3 DEF Advice!selectNudge
  <2>2. Advice!eligible(p) \in SUBSET Nat
    BY DEF Advice!eligible, Advice!deriveNudgeCandidates, Advice!NudgeCodes
  <2>3. \E i \in Advice!eligible(p) : \A j \in Advice!eligible(p) : i <= j
    BY <2>1, <2>2, Least
  <2> HIDE DEF p
  <2> QED
    BY <1>2, <2>1, <2>3
<1>5. (\A j \in 1..N : nudges[j].occurrence # new.occurrence) /\ Advice!farEnough(code)
  BY <1>2, <1>4 DEF Advice!eligible
<1>6. ASSUME NEW j \in 1..N, nudges[j].code = code
      PROVE  Len(log) - nudges[j].through >= MinDistance
  <2> DEFINE T == {nudges[i].through : i \in {x \in DOMAIN nudges : nudges[x].code = code}}
             last == CHOOSE s \in T : \A t \in T : t <= s
  <2>1. T \in SUBSET (0..Len(log)) /\ nudges[j].through \in T
    BY <1>2, <1>6 DEF AdviceInv
  <2>2. Advice!lastSequenceByCode(code) = last
    BY <2>1 DEF Advice!lastSequenceByCode
  <2> HIDE DEF T
  <2>3. \E s \in T : \A t \in T : t <= s
    BY <1>2, <2>1, Greatest
  <2>4. last \in T /\ \A t \in T : t <= last
    BY <2>3
  <2> HIDE DEF last, code
  <2>5. Len(log) - last >= MinDistance
    BY <1>2, <1>5, <2>1, <2>2, <2>4 DEF Advice!farEnough
  <2> QED
    BY <1>2, <2>1, <2>4, <2>5
<1>7. new.checkpoint = c /\ new.code = code /\ new.through = Len(log)
  OBVIOUS
<1> HIDE DEF new, k, p, code
<1>8. /\ nudges' \in Seq(S \cup {new}) /\ Len(nudges') = N + 1 /\ nudges'[N + 1] = new
      /\ \A i \in 1..N : nudges'[i] = nudges[i]
  <2>1. nudges \in Seq(S \cup {new})
    BY <1>1
  <2> QED
    BY <1>3, <2>1
<1>9. \A i \in 1..(N + 1) : i \in 1..N \/ i = N + 1
  BY <1>2
<1>10. \A i \in 1..N : nudges[i].through \in 0..Len(log)
  BY DEF AdviceInv
<1>11. \A i \in 1..(N + 1) : nudges'[i].through \in 0..Len(log)
  BY <1>2, <1>7, <1>8, <1>9, <1>10
<1>12. ASSUME NEW i \in 1..(N + 1), NEW j \in 1..(N + 1), i < j
       PROVE  /\ nudges'[i].occurrence # nudges'[j].occurrence /\ nudges'[i].checkpoint # nudges'[j].checkpoint
              /\ nudges'[i].through <= nudges'[j].through
              /\ nudges'[i].code = nudges'[j].code => nudges'[j].through - nudges'[i].through >= MinDistance
  <2>1. CASE j \in 1..N
    <3>1. i \in 1..N
      BY <1>2, <1>12, <2>1
    <3> QED
      BY <1>8, <1>12, <2>1, <3>1 DEF AdviceInv
  <2>2. CASE j = N + 1
    <3>1. i \in 1..N /\ nudges'[i] = nudges[i] /\ nudges'[j] = new
      BY <1>2, <1>8, <1>12, <2>2
    <3>2. nudges[i].through \in 0..Len(log)
      BY <1>10, <3>1
    <3> QED
      BY <1>2, <1>3, <1>5, <1>6, <1>7, <3>1, <3>2
  <2> QED
    BY <1>9, <2>1, <2>2
<1> QED
  BY <1>2, <1>3, <1>4, <1>8, <1>11, <1>12 DEF AdviceInv

\* An event and a nudge keep the invariant.
LEMMA AdviceStep == AdviceInv /\ [Advice!Next]_adviceVars => AdviceInv'
<1> SUFFICES ASSUME AdviceInv, [Advice!Next]_adviceVars PROVE AdviceInv'
  OBVIOUS
<1>1. CASE UNCHANGED adviceVars
  BY <1>1 DEF AdviceInv, adviceVars
<1>2. ASSUME NEW kind, NEW resolves, Advice!appendEvent(kind, resolves)
      PROVE  AdviceInv'
  <2> DEFINE new == [kind |-> kind, resolves |-> resolves]
  <2>1. Len(log) < MaxLog /\ log' = Append(log, new) /\ UNCHANGED nudges
    BY <1>2 DEF Advice!appendEvent
  <2> HIDE DEF new
  <2>2. PICK S : log \in Seq(S)
    BY DEF AdviceInv
  <2>3. log' \in Seq(S \cup {new}) /\ Len(log') = Len(log) + 1 /\ Len(log) \in Nat /\ MaxLog \in Nat
    <3>1. log \in Seq(S \cup {new})
      BY <2>2
    <3> QED
      BY <2>1, <3>1, KnowledgeAssumption
  <2>4. \A i \in 1..Len(nudges) : nudges[i].through \in 0..(Len(log) + 1)
    BY <2>3 DEF AdviceInv
  <2>5. Len(log) + 1 <= MaxLog
    BY <2>1, <2>3
  <2> QED
    BY <2>1, <2>3, <2>4, <2>5 DEF AdviceInv
<1>3. CASE Advice!Next
  BY <1>2, <1>3, NudgeRecorded DEF Advice!Next
<1> QED
  BY <1>1, <1>3

\* The steps of the advice are steps of the advice alone.
LEMMA OnlyAdviceSteps == [AllNext]_all => (InAdvice' => InAdvice /\ [Advice!Next]_adviceVars)
  BY DEF AllNext, all, InTask, InBroker, InAdvice, InReview, InEntries, InArchive,
         OnlyTask, OnlyBroker, OnlyAdvice, OnlyReview, OnlyEntries, OnlyArchive, Advice!Next

\* The one pass over the ledger says what its events say, and the nudges that
\* are delivered are a history that the reader of nudges accepts
\* (projectLedger, selectNudge and validateStoredNudgeHistory).
THEOREM AdviceFollows == KnowledgeSpec => []AdviceFollowsLedger
<1> DEFINE Inv == InAdvice => AdviceInv
<1>1. AllInit => Inv
  <2> SUFFICES ASSUME AllInit, InAdvice PROVE AdviceInv
    OBVIOUS
  <2>1. log = <<>> /\ nudges = <<>>
    BY DEF AllInit, InAdvice, Advice!Init
  <2>2. <<>> \in Seq({}) /\ Len(<<>>) = 0
    OBVIOUS
  <2> QED
    BY <2>1, <2>2, KnowledgeAssumption DEF AdviceInv
<1>2. Inv /\ [AllNext]_all => Inv'
  BY OnlyAdviceSteps, AdviceStep
<1>3. Inv => AdviceFollowsLedger
  BY LedgerMeansIt, HistoryReadable DEF AdviceFollowsLedger
<1> QED
  BY <1>1, <1>2, <1>3, PTL DEF KnowledgeSpec
=============================================================================
