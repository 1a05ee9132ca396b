---------------------------- MODULE EnnoRunProofs ----------------------------
(***************************************************************************)
(* Proofs about EnnoRun for every set of units, plans, sessions and        *)
(* processes, and every bound, and about the OpenCode plugin of            *)
(* MCEnnoReview that continues its session.                                *)
(*                                                                         *)
(* TypeInv is the type invariant.  PlanInv says that the states of the     *)
(* units are those of the units of the plan, that a run that executes has  *)
(* a unit in progress, and that units in progress are compatible.  LeaseInv*)
(* adds that a unit has one lease row of a revision, that a live lease is  *)
(* current, and that serials are handed out in order, a live lease having  *)
(* the last one of its unit.  ReviewInv follows the versions of the        *)
(* repository through a final verification.  Each is inductive relative to *)
(* those before it.                                                        *)
(*                                                                         *)
(* PluginInv says of the plugin that what is prompted for was not prompted *)
(* for before, because the storage still has the outbox of a first flight. *)
(***************************************************************************)
EXTENDS MCEnnoReview, FiniteSetTheorems, WellFoundedInduction, TLAPS

issuedFor(u) == {c \in issued : c.unit = u}

TypeInv == TypeOK /\ \A u \in Units : IsFiniteSet(issuedFor(u))

\* The serial of the next credential counts those handed out for the unit.
LEMMA SerialType ==
  ASSUME TypeInv, NEW u \in Units
  PROVE  nextSerial(u) \in Nat \ {0} /\ Cardinality(issuedFor(u)) \in Nat
         /\ nextSerial(u) = 1 + Cardinality(issuedFor(u))
<1>1. IsFiniteSet(issuedFor(u))
  BY DEF TypeInv
<1>2. Cardinality(issuedFor(u)) \in Nat
  BY <1>1, FS_CardinalityType
<1> QED
  BY <1>2 DEF nextSerial, issuedFor

\* What a grant adds to the leases and credentials is well-typed.
LEMMA GrantType ==
  ASSUME TypeInv, NEW S \in SUBSET Units, NEW ls \in SUBSET Lease, withinSerials(S),
         NEW rev \in 1..MaxRevision, NEW mut \in Nat, NEW ep \in 0..MaxEpoch, NEW owner \in Owners
  PROVE  /\ grants(ls, S, rev, mut, ep, owner) \subseteq Lease
         /\ issues(S, rev, ep) \subseteq Credential
<1>1. \A u \in S : nextSerial(u) \in 1..MaxSerial
  BY SerialType, BoundsAssumption DEF withinSerials
<1>2. \A u \in S : [unit |-> u, serial |-> nextSerial(u), revision |-> rev, epoch |-> ep,
                    mutation |-> mut, owner |-> owner, live |-> TRUE] \in Lease
  BY <1>1 DEF Lease
<1>3. \A u \in S : [unit |-> u, serial |-> nextSerial(u), revision |-> rev, epoch |-> ep] \in Credential
  BY <1>1 DEF Credential
<1> QED
  BY <1>2, <1>3 DEF grants, issues

\* A unit gets at most one new credential at a time, with the next serial.
LEMMA IssuedGrows ==
  ASSUME TypeInv, NEW S \in SUBSET Units, NEW rev, NEW ep,
         issued' = issued \cup issues(S, rev, ep), NEW u \in Units
  PROVE  /\ u \in S => issuedFor(u)' = issuedFor(u) \cup
              {[unit |-> u, serial |-> nextSerial(u), revision |-> rev, epoch |-> ep]}
         /\ u \notin S => issuedFor(u)' = issuedFor(u)
         /\ IsFiniteSet(issuedFor(u)')
<1>1. issuedFor(u)' = issuedFor(u) \cup {c \in issues(S, rev, ep) : c.unit = u}
  BY DEF issuedFor
<1>2. ASSUME u \in S
      PROVE  {c \in issues(S, rev, ep) : c.unit = u} =
             {[unit |-> u, serial |-> nextSerial(u), revision |-> rev, epoch |-> ep]}
  BY <1>2 DEF issues
<1>3. ASSUME u \notin S
      PROVE  {c \in issues(S, rev, ep) : c.unit = u} = {}
  BY <1>3 DEF issues
<1>4. IsFiniteSet(issuedFor(u))
  BY DEF TypeInv
<1>5. IsFiniteSet(issuedFor(u)')
  <2> DEFINE new == [unit |-> u, serial |-> nextSerial(u), revision |-> rev, epoch |-> ep]
  <2> HIDE DEF new
  <2>0. IsFiniteSet(issuedFor(u) \cup {new})
    BY <1>4, FS_AddElement
  <2>1. CASE u \in S
    BY <2>0, <2>1, <1>1, <1>2 DEF new
  <2>2. CASE u \notin S
    BY <2>2, <1>1, <1>3, <1>4
  <2> QED
    BY <2>1, <2>2
<1> QED
  BY <1>1, <1>2, <1>3, <1>5

\* A plan, or its absence, names finitely many units.
LEMMA PlanUnits ==
  ASSUME NEW p \in Plans \cup {NoPlan}
  PROVE  UnitsOf(p) \subseteq Units /\ IsFiniteSet(UnitsOf(p))
<1>1. CASE p \in Plans
  BY <1>1, PlansAssumption
<1>2. CASE p = NoPlan
  <2>1. UnitsOf(p) = {}
    BY <1>2 DEF UnitsOf, NoPlan
  <2> QED
    BY <2>1, FS_EmptySet
<1> QED
  BY <1>1, <1>2

\* startReadyUnits hands out well-typed leases and credentials.
LEMMA StartReadyType ==
  ASSUME TypeInv, NEW p \in Plans \cup {NoPlan}, NEW us \in [Units -> UnitStatuses],
         NEW ls \in SUBSET Lease, NEW rev \in 1..MaxRevision, NEW mut \in Nat, NEW limit,
         startReadyUnits(p, us, ls, rev, mut, limit)
  PROVE  /\ unit' \in [Units -> UnitStatuses]
         /\ leases' \subseteq Lease /\ issued' \subseteq Credential
         /\ \A u \in Units : IsFiniteSet(issuedFor(u)')
<1>1. PICK S \in SUBSET UnitsOf(p) :
        /\ withinSerials(S)
        /\ unit' = starts(us, S)
        /\ leases' = grants(ls, S, rev, mut, epoch, bound)
        /\ issued' = issued \cup issues(S, rev, epoch)
  BY DEF startReadyUnits
<1>2. S \subseteq Units
  BY PlanUnits
<1>3. unit' \in [Units -> UnitStatuses]
  BY <1>1 DEF starts, UnitStatuses
<1>4. epoch \in 0..MaxEpoch /\ bound \in Owners /\ issued \subseteq Credential
  BY DEF TypeInv, TypeOK
<1>5. leases' \subseteq Lease /\ issues(S, rev, epoch) \subseteq Credential
  BY <1>1, <1>2, <1>4, GrantType
<1>6. \A u \in Units : IsFiniteSet(issuedFor(u)')
  BY <1>1, <1>2, IssuedGrows
<1> QED
  BY <1>1, <1>3, <1>4, <1>5, <1>6

\* The evidence of the present contract, if there is any.
LEMMA ContextType ==
  ASSUME TypeInv
  PROVE  context \in Evidence \cup {None}
<1>1. CASE status \in {"oduno_ideal", "zenki_planning"}
  BY <1>1, BoundsAssumption DEF context, Evidence, TypeInv, TypeOK
<1>2. CASE status \notin {"oduno_ideal", "zenki_planning"}
  BY <1>2 DEF context, TypeInv, TypeOK
<1> QED
  BY <1>1, <1>2

\* The contract row before any command.
LEMMA TypeInit ==
  ASSUME Init
  PROVE  TypeInv
<1> USE DEF Init
<1>1. MaxRevision \in Nat /\ MaxEdits \in Nat /\ MaxEpoch \in Nat /\ MaxAttempts \in Nat
  BY BoundsAssumption
<1>2. TypeOK
  BY <1>1, BoundsAssumption, SessionsAssumption DEF TypeOK, Statuses, Owners, NoUnits, UnitStatuses, Idle
<1>3. \A u \in Units : issuedFor(u) = {}
  BY DEF issuedFor
<1> QED
  BY <1>2, <1>3, FS_EmptySet DEF TypeInv

\* What no step but a grant does: credentials stay.
LEMMA IssuedStays ==
  ASSUME TypeInv, issued' = issued
  PROVE  \A u \in Units : IsFiniteSet(issuedFor(u)')
BY DEF TypeInv, issuedFor

\* TypeInv is inductive.
LEMMA TypeStep ==
  ASSUME TypeInv, [Next]_vars
  PROVE  TypeInv'
<1> USE DEF TypeOK, contract, route, work, review
<1> SUFFICES TypeOK' /\ \A u \in Units : IsFiniteSet(issuedFor(u)')
  BY DEF TypeInv
<1>0. TypeOK /\ BoundsAssumption
  BY BoundsAssumption DEF TypeInv
<1>1. CASE submitEnnoAdvice
  BY <1>0, <1>1, ContextType, IssuedStays DEF submitEnnoAdvice
<1>2. CASE submitOdunoIdeal
  BY <1>0, <1>2, IssuedStays DEF submitOdunoIdeal, updatesContract, Statuses
<1>3. CASE answerEnno
  BY <1>0, <1>3, IssuedStays DEF answerEnno, updatesContract, Statuses
<1>4. CASE submitOdunoMeditation
  BY <1>0, <1>4, IssuedStays DEF submitOdunoMeditation, updatesContract, Statuses
<1>5. ASSUME NEW p \in Plans, submitEnnoPlan(p)
      PROVE  TypeOK' /\ \A u \in Units : IsFiniteSet(issuedFor(u)')
  <2> DEFINE us == [u \in Units |-> IF u \in UnitsOf(p) THEN "pending" ELSE "absent"]
  <2>1. /\ revision < MaxRevision
        /\ status' = "goki_executing" /\ revision' = revision + 1
        /\ attempts' = attempts /\ mutation' = mutation
        /\ plan' = p /\ advice' = None
        /\ startReadyUnits(p, us, leases, revision + 1, mutation, MaxParallel)
        /\ UNCHANGED <<route, ledger, receipt, op, evidence, accepted, repo>>
    BY <1>5 DEF submitEnnoPlan, updatesContract
  <2>2. us \in [Units -> UnitStatuses] /\ leases \in SUBSET Lease /\ mutation \in Nat
    BY <1>0 DEF UnitStatuses
  <2>3. revision + 1 \in 1..MaxRevision
    BY <1>0, <2>1 DEF BoundsAssumption
  <2> HIDE DEF us
  <2>4. /\ unit' \in [Units -> UnitStatuses]
        /\ leases' \subseteq Lease /\ issued' \subseteq Credential
        /\ \A u \in Units : IsFiniteSet(issuedFor(u)')
    BY <2>1, <2>2, <2>3, StartReadyType
  <2> QED
    BY <1>0, <2>1, <2>3, <2>4 DEF Statuses
<1>6. ASSUME NEW limit \in ClaimLimits, claimEnnoWork(limit)
      PROVE  TypeOK' /\ \A u \in Units : IsFiniteSet(issuedFor(u)')
  <2>1. requeued(unit, leases) \in [Units -> UnitStatuses] /\ leases \ expired(leases) \in SUBSET Lease
    BY <1>0 DEF requeued, UnitStatuses
  <2>2. /\ unit' \in [Units -> UnitStatuses]
        /\ leases' \subseteq Lease /\ issued' \subseteq Credential
        /\ \A u \in Units : IsFiniteSet(issuedFor(u)')
    BY <1>0, <1>6, <2>1, StartReadyType DEF claimEnnoWork
  <2> QED
    BY <1>0, <1>6, <2>2 DEF claimEnnoWork
<1>7. ASSUME NEW c \in issued, reportFailed(c)
      PROVE  TypeOK' /\ \A u \in Units : IsFiniteSet(issuedFor(u)')
  BY <1>0, <1>7, IssuedStays DEF reportFailed, replans, updatesContract, Statuses, oneMoreAttempt, NoUnits, UnitStatuses, BoundsAssumption
<1>8. ASSUME NEW p \in Procs, NEW c \in issued, NEW mutated \in BOOLEAN, reportBegins(p, c, mutated)
      PROVE  TypeOK' /\ \A u \in Units : IsFiniteSet(issuedFor(u)')
  <2>1. [kind |-> "report", credential |-> c, mutated |-> mutated] \in Reporting
    BY <1>0 DEF Reporting
  <2> QED
    BY <1>0, <1>8, <2>1, IssuedStays DEF reportBegins, renewsLease
<1>9. ASSUME NEW p \in Procs, reportPasses(p)
      PROVE  TypeOK' /\ \A u \in Units : IsFiniteSet(issuedFor(u)')
  <2> DEFINE u == op[p].credential.unit
             us == [unit EXCEPT ![u] = "completed"]
             own == {l \in leases : ~(l.revision = revision /\ l.unit = u)}
             ls == IF op[p].mutated THEN advanceSiblingLeaseMutation(own) ELSE own
             mut == IF op[p].mutated THEN mutation + 1 ELSE mutation
  <2>1. op[p] \in Reporting
    BY <1>0, <1>9 DEF reportPasses, reportHolds, Reporting, Verifying, Idle
  <2>2. us \in [Units -> UnitStatuses] /\ mut \in Nat
    <3>1. unit \in [Units -> UnitStatuses] /\ mutation \in Nat
      BY <1>0
    <3>2. us \in [Units -> UnitStatuses]
      BY <3>1 DEF UnitStatuses
    <3>3. mut \in Nat
      BY <3>1
    <3> QED
      BY <3>2, <3>3
  <2>3. own \in SUBSET Lease
    BY <1>0
  <2>4. advanceSiblingLeaseMutation(own) \in SUBSET Lease
    BY <1>0, <2>3 DEF advanceSiblingLeaseMutation, Lease
  <2>5. ls \in SUBSET Lease
    BY <2>3, <2>4
  <2>6. /\ receipt' = None /\ op' = [op EXCEPT ![p] = Idle]
        /\ UNCHANGED <<route, ledger, plan, review, repo>>
        /\ \/ /\ status' = "enno_verifying" /\ revision' = revision /\ attempts' = attempts /\ mutation' = mut
              /\ unit' = us /\ leases' = ls /\ UNCHANGED issued
           \/ /\ status' = status /\ revision' = revision /\ attempts' = attempts /\ mutation' = mut
              /\ startReadyUnits(plan, us, ls, revision, mut, MaxParallel)
    BY <1>9 DEF reportPasses, updatesContract
  <2> HIDE DEF us, own, ls, mut, u
  <2>7. /\ unit' \in [Units -> UnitStatuses]
        /\ leases' \subseteq Lease /\ issued' \subseteq Credential
        /\ \A v \in Units : IsFiniteSet(issuedFor(v)')
    BY <1>0, <2>2, <2>5, <2>6, StartReadyType, IssuedStays
  <2> QED
    BY <1>0, <2>2, <2>6, <2>7 DEF Statuses
<1>10. ASSUME NEW p \in Procs, reportRejected(p)
      PROVE  TypeOK' /\ \A u \in Units : IsFiniteSet(issuedFor(u)')
  BY <1>0, <1>10, IssuedStays DEF reportRejected, replans, updatesContract, Statuses, oneMoreAttempt, NoUnits, UnitStatuses, BoundsAssumption
<1>11. ASSUME NEW p \in Procs, prepareReads(p)
      PROVE  TypeOK' /\ \A u \in Units : IsFiniteSet(issuedFor(u)')
  BY <1>0, <1>11, IssuedStays DEF prepareReads, Verifying
<1>12. ASSUME NEW p \in Procs, prepareBegins(p)
      PROVE  TypeOK' /\ \A u \in Units : IsFiniteSet(issuedFor(u)')
  <2>1. op[p] \in Verifying /\ fresh(op[p].pre) \in BOOLEAN
    BY <1>0, <1>12 DEF prepareBegins, Reporting, Verifying, Idle, fresh
  <2> QED
    BY <1>0, <1>12, <2>1, IssuedStays DEF prepareBegins, Verifying
<1>13. ASSUME NEW p \in Procs, runVerifiers(p)
      PROVE  TypeOK' /\ \A u \in Units : IsFiniteSet(issuedFor(u)')
  <2>1. op[p] \in Verifying
    BY <1>0, <1>13 DEF runVerifiers, Reporting, Verifying, Idle
  <2>2. PICK passed \in BOOLEAN :
          op' = [op EXCEPT ![p].kind = "verified", ![p].passed = passed]
    <3>1. (repo \in Good) \in BOOLEAN
      OBVIOUS
    <3> QED
      BY <1>13, <3>1 DEF runVerifiers
  <2>3. op'[p] \in Verifying
    BY <1>0, <2>1, <2>2 DEF Verifying
  <2>4. op' \in [Procs -> {Idle} \cup Reporting \cup Verifying]
    BY <1>0, <2>2, <2>3
  <2> QED
    BY <1>0, <1>13, <2>4, IssuedStays DEF runVerifiers
<1>14. ASSUME NEW p \in Procs, captureAfter(p)
      PROVE  TypeOK' /\ \A u \in Units : IsFiniteSet(issuedFor(u)')
  <2>1. op[p] \in Verifying
    BY <1>0, <1>14 DEF captureAfter, Reporting, Verifying, Idle
  <2> QED
    BY <1>0, <1>14, <2>1, IssuedStays DEF captureAfter, Verifying
<1>15. ASSUME NEW p \in Procs, prepareEnds(p)
      PROVE  TypeOK' /\ \A u \in Units : IsFiniteSet(issuedFor(u)')
  <2>1. op[p] \in Verifying
    BY <1>0, <1>15 DEF prepareEnds, Reporting, Verifying, Idle
  <2>2. evidence' \in Evidence \cup {None}
    BY <1>0, <1>15, <2>1 DEF prepareEnds, finishVerifierRuns, Verifying, Evidence
  <2> QED
    BY <1>0, <1>15, <2>2, IssuedStays DEF prepareEnds
<1>16. ASSUME NEW p \in Procs, breaksOff(p)
      PROVE  TypeOK' /\ \A u \in Units : IsFiniteSet(issuedFor(u)')
  BY <1>0, <1>16, IssuedStays DEF breaksOff
<1>17. ASSUME NEW decision, finishEnno(decision)
      PROVE  TypeOK' /\ \A u \in Units : IsFiniteSet(issuedFor(u)')
  BY <1>0, <1>17, IssuedStays DEF finishEnno, updatesContract, Statuses, oneMoreAttempt, NoUnits, UnitStatuses, BoundsAssumption
<1>18. ASSUME NEW s \in Sessions, NEW allowed \in BOOLEAN, continuation(s, allowed)
      PROVE  TypeOK' /\ \A u \in Units : IsFiniteSet(issuedFor(u)')
  <2>1. PICK ep, ls, G :
          /\ ep = (IF bound = s THEN epoch ELSE epoch + 1)
          /\ ls = routedLeases(s) /\ G \subseteq directiveUnits
          /\ withinSerials(G)
          /\ epoch' = ep
          /\ leases' = grants(ls, G, revision, mutation, ep, s)
          /\ issued' = issued \cup issues(G, revision, ep)
    BY <1>18 DEF continuation
  <2>2. G \subseteq Units
    BY <1>0, <2>1, PlanUnits DEF directiveUnits, nextReadyWorkUnit, active, readyUnits
  <2>3. ep \in 0..MaxEpoch
    BY <1>0, <1>18, <2>1 DEF continuation, routable, BoundsAssumption
  <2>4. ls \in SUBSET Lease
    BY <1>0, <2>1 DEF routedLeases
  <2>5. leases' \subseteq Lease /\ issues(G, revision, ep) \subseteq Credential
    BY <1>0, <2>1, <2>2, <2>3, <2>4, GrantType DEF Owners
  <2>6. \A u \in Units : IsFiniteSet(issuedFor(u)')
    BY <2>1, <2>2, IssuedGrows
  <2>7. continued' \in [Sessions -> 0..MaxAttempts]
    BY <1>0, <1>18 DEF continuation, mayContinue, BoundsAssumption
  <2> QED
    BY <1>0, <1>18, <2>1, <2>3, <2>5, <2>6, <2>7 DEF continuation, Owners
<1>19. ASSUME NEW choice \in {"ordinary", "cancelled"}, selectExecution(choice)
      PROVE  TypeOK' /\ \A u \in Units : IsFiniteSet(issuedFor(u)')
  BY <1>0, <1>19, IssuedStays DEF selectExecution, Statuses
<1>20. ASSUME NEW outcome \in Outcomes, checkpoint(outcome)
      PROVE  TypeOK' /\ \A u \in Units : IsFiniteSet(issuedFor(u)')
  BY <1>0, <1>20, IssuedStays, OutcomesAssumption DEF checkpoint
<1>21. ASSUME NEW l \in leases, leaseExpires(l)
      PROVE  TypeOK' /\ \A u \in Units : IsFiniteSet(issuedFor(u)')
  <2>1. [l EXCEPT !.live = FALSE] \in Lease
    BY <1>0 DEF Lease
  <2> QED
    BY <1>0, <1>21, <2>1, IssuedStays DEF leaseExpires
<1>22. CASE receiptExpires
  BY <1>0, <1>22, IssuedStays DEF receiptExpires
<1>23. ASSUME NEW version \in 1..MaxEdits, editRepository(version)
      PROVE  TypeOK' /\ \A u \in Units : IsFiniteSet(issuedFor(u)')
  BY <1>0, <1>23, IssuedStays DEF editRepository, BoundsAssumption
<1>24. CASE UNCHANGED vars
  BY <1>0, <1>24, IssuedStays DEF vars
<1> QED
  BY <1>1, <1>2, <1>3, <1>4, <1>5, <1>6, <1>7, <1>8, <1>9, <1>10, <1>11, <1>12, <1>13, <1>14, <1>15, <1>16,
     <1>17, <1>18, <1>19, <1>20, <1>21, <1>22, <1>23, <1>24 DEF Next

(***************************************************************************)
(* Type correctness of a run: whatever the client, the processes and the   *)
(* clock do, the contract row, the units, the leases, the receipt and the  *)
(* evidence keep their types, attempts stay within 20 and continuations    *)
(* within maxAttempts.                                                     *)
(***************************************************************************)
THEOREM TypeCorrect == Spec => []TypeOK
<1>1. Init => TypeInv
  BY TypeInit
<1>2. TypeInv /\ [Next]_vars => TypeInv'
  BY TypeStep
<1>3. TypeInv => TypeOK
  BY DEF TypeInv
<1> QED
  BY <1>1, <1>2, <1>3, PTL DEF Spec

-----------------------------------------------------------------------------
(* The plan and its units                                                  *)

\* The units of p, and only they, have a row; none of this code's transactions
\* leaves a unit of the current plan failed or blocked.
followsPlan(p, us) ==
    \A u \in Units :
        /\ us[u] \in {"absent", "pending", "in_progress", "completed"}
        /\ us[u] # "absent" <=> u \in UnitsOf(p)

compatible(p, us) == \A u, v \in active(us) : u # v => ~claimsConflict(p, u, v)

ExecutionIsActive == status = "goki_executing" => plan \in Plans /\ active(unit) # {}

PlanInv ==
    /\ followsPlan(plan, unit)
    /\ ExecutionIsActive
    /\ ActiveUnitsCompatible
    /\ VerifiedIsWhole

\* What a start of ready units does: it follows the plan, keeps the units in
\* progress and adds only ready ones, compatible with them and with each other.
LEMMA StartsReady ==
  ASSUME NEW p \in Plans, NEW us \in [Units -> UnitStatuses], NEW limit,
         followsPlan(p, us), compatible(p, us), NEW S, selects(p, us, limit, S)
  PROVE  /\ S \subseteq readyUnits(p, us) /\ S \subseteq Units
         /\ active(starts(us, S)) = active(us) \cup S
         /\ followsPlan(p, starts(us, S))
         /\ compatible(p, starts(us, S))
<1>1. S \subseteq readyUnits(p, us) /\ S \subseteq Units /\ S \subseteq UnitsOf(p)
  BY PlanUnits DEF selects, readyUnits
<1>2. active(starts(us, S)) = active(us) \cup S
  BY <1>1 DEF active, starts
<1>3. followsPlan(p, starts(us, S))
  BY <1>1 DEF followsPlan, starts
<1>4. ASSUME NEW u \in S, NEW v \in active(us) \cup {w \in S : p.rank[w] < p.rank[u]}
      PROVE  ~claimsConflict(p, u, v)
  BY <1>1, <1>4 DEF selects, admissible
<1>5. \A u, v : claimsConflict(p, u, v) <=> claimsConflict(p, v, u)
  BY DEF claimsConflict
<1>6. ASSUME NEW u \in S, NEW v \in S, u # v
      PROVE  ~claimsConflict(p, u, v)
  <2>1. p.rank[u] \in Nat /\ p.rank[v] \in Nat /\ p.rank[u] # p.rank[v]
    BY <1>1, <1>6, PlansAssumption
  <2>2. p.rank[u] < p.rank[v] \/ p.rank[v] < p.rank[u]
    BY <2>1
  <2> QED
    BY <2>2, <1>4, <1>5
<1>7. compatible(p, starts(us, S))
  BY <1>2, <1>4, <1>5, <1>6 DEF compatible
<1> QED
  BY <1>1, <1>2, <1>3, <1>7

\* startReadyUnits follows the plan and leaves a unit in progress.
LEMMA StartReadyPlan ==
  ASSUME NEW p \in Plans, NEW us \in [Units -> UnitStatuses], NEW ls, NEW rev, NEW mut, NEW limit,
         followsPlan(p, us), compatible(p, us), startReadyUnits(p, us, ls, rev, mut, limit)
  PROVE  followsPlan(p, unit') /\ compatible(p, unit') /\ active(unit') # {}
<1>1. PICK S : selects(p, us, limit, S) /\ canAdvance(us, S) /\ unit' = starts(us, S)
  BY DEF startReadyUnits
<1>2. /\ active(unit') = active(us) \cup S
      /\ followsPlan(p, unit')
      /\ compatible(p, unit')
  BY <1>1, StartsReady
<1> QED
  BY <1>1, <1>2 DEF canAdvance

\* A sweep, and the completion of a unit, leave fewer units in progress.
LEMMA RequeuedPlan ==
  ASSUME NEW us \in [Units -> UnitStatuses], NEW ls, followsPlan(plan, us), compatible(plan, us)
  PROVE  /\ requeued(us, ls) \in [Units -> UnitStatuses]
         /\ followsPlan(plan, requeued(us, ls)) /\ compatible(plan, requeued(us, ls))
<1>1. requeued(us, ls) \in [Units -> UnitStatuses]
  BY DEF requeued, UnitStatuses
<1>2. followsPlan(plan, requeued(us, ls))
  BY DEF requeued, followsPlan
<1>3. active(requeued(us, ls)) \subseteq active(us)
  BY DEF requeued, active
<1> QED
  BY <1>1, <1>2, <1>3 DEF compatible

\* A unit in progress that completes makes only others ready.
LEMMA CompletedPlan ==
  ASSUME NEW us \in [Units -> UnitStatuses], NEW u \in Units, us[u] = "in_progress",
         followsPlan(plan, us), compatible(plan, us)
  PROVE  LET done == [us EXCEPT ![u] = "completed"]
         IN  /\ done \in [Units -> UnitStatuses]
             /\ followsPlan(plan, done) /\ compatible(plan, done)
<1> DEFINE done == [us EXCEPT ![u] = "completed"]
<1>1. done \in [Units -> UnitStatuses]
  BY DEF UnitStatuses
<1>2. followsPlan(plan, done)
  BY DEF followsPlan
<1>3. active(done) \subseteq active(us)
  BY DEF active
<1> QED
  BY <1>1, <1>2, <1>3 DEF compatible

\* Without a plan no unit is in progress.
LEMMA NoPlanHolds ==
  followsPlan(NoPlan, NoUnits) /\ compatible(NoPlan, NoUnits)
<1>1. UnitsOf(NoPlan) = {} /\ active(NoUnits) = {}
  BY DEF UnitsOf, NoPlan, NoUnits, active
<1> QED
  BY <1>1 DEF followsPlan, NoUnits, compatible

\* Whoever reports a unit holds the credential of that unit.
LEMMA ReportedUnit ==
  ASSUME TypeInv, NEW p \in Procs, reportHolds(p)
  PROVE  op[p] \in Reporting /\ op[p].credential \in Credential /\ op[p].credential.unit \in Units
BY DEF TypeInv, TypeOK, reportHolds, Reporting, Verifying, Idle, Credential

\* Initially there is no plan to follow.
LEMMA PlanInit ==
  ASSUME Init
  PROVE  PlanInv
BY NoPlanHolds DEF Init, PlanInv, ExecutionIsActive, ActiveUnitsCompatible, compatible, VerifiedIsWhole

\* PlanInv is inductive under TypeInv.
LEMMA PlanStep ==
  ASSUME TypeInv, PlanInv, [Next]_vars
  PROVE  PlanInv'
<1> USE DEF contract, route, work, review, updatesContract
<1>0. /\ unit \in [Units -> UnitStatuses] /\ plan \in Plans \cup {NoPlan}
      /\ followsPlan(plan, unit) /\ compatible(plan, unit)
  BY DEF TypeInv, TypeOK, PlanInv, ActiveUnitsCompatible, compatible
<1>1. ASSUME UNCHANGED <<plan, unit>>, status' = status
      PROVE  PlanInv'
  BY <1>1 DEF PlanInv, followsPlan, ExecutionIsActive, ActiveUnitsCompatible, VerifiedIsWhole
<1>2. ASSUME UNCHANGED <<plan, unit>>, status' \in {"zenki_planning", "cancelled"}
      PROVE  PlanInv'
  BY <1>2 DEF PlanInv, followsPlan, ExecutionIsActive, ActiveUnitsCompatible, VerifiedIsWhole
<1>3. ASSUME UNCHANGED <<plan, unit>>, status \in {"enno_verifying", "oduno_meditation"},
             status' \in {"oduno_meditation", "completed"}
      PROVE  PlanInv'
  BY <1>3 DEF PlanInv, followsPlan, ExecutionIsActive, ActiveUnitsCompatible, VerifiedIsWhole
<1>4. ASSUME plan' = NoPlan, unit' = NoUnits, status' = "zenki_planning"
      PROVE  PlanInv'
  BY <1>4, NoPlanHolds DEF PlanInv, ExecutionIsActive, ActiveUnitsCompatible, compatible, VerifiedIsWhole
<1>5. ASSUME plan' \in Plans, status' = "goki_executing",
             followsPlan(plan', unit'), compatible(plan', unit'), active(unit') # {}
      PROVE  PlanInv'
  BY <1>5 DEF PlanInv, ExecutionIsActive, ActiveUnitsCompatible, compatible, VerifiedIsWhole
<1>6. ASSUME submitEnnoAdvice \/ receiptExpires \/ UNCHANGED vars
      PROVE  PlanInv'
  BY <1>1, <1>6 DEF submitEnnoAdvice, receiptExpires, vars
<1>7. CASE submitOdunoIdeal
  BY <1>2, <1>7 DEF submitOdunoIdeal
<1>8. CASE answerEnno
  BY <1>2, <1>8 DEF answerEnno
<1>9. CASE submitOdunoMeditation
  BY <1>3, <1>9 DEF submitOdunoMeditation
<1>10. ASSUME NEW p \in Plans, submitEnnoPlan(p)
       PROVE  PlanInv'
  <2> DEFINE us == [u \in Units |-> IF u \in UnitsOf(p) THEN "pending" ELSE "absent"]
  <2>1. status' = "goki_executing" /\ plan' = p
        /\ startReadyUnits(p, us, leases, revision + 1, mutation, MaxParallel)
    BY <1>10 DEF submitEnnoPlan
  <2>2. us \in [Units -> UnitStatuses] /\ followsPlan(p, us) /\ active(us) = {}
    BY DEF UnitStatuses, followsPlan, active
  <2>3. compatible(p, us)
    BY <2>2 DEF compatible
  <2>4. followsPlan(p, unit') /\ compatible(p, unit') /\ active(unit') # {}
    BY <2>1, <2>2, <2>3, StartReadyPlan
  <2> QED
    BY <2>1, <2>4, <1>5
<1>11. ASSUME NEW limit \in ClaimLimits, claimEnnoWork(limit)
       PROVE  PlanInv'
  <2>1. plan \in Plans /\ plan' = plan /\ status' = "goki_executing"
        /\ startReadyUnits(plan, requeued(unit, leases), leases \ expired(leases), revision, mutation, limit)
    BY <1>11 DEF claimEnnoWork, PlanInv, ExecutionIsActive
  <2>2. /\ requeued(unit, leases) \in [Units -> UnitStatuses]
        /\ followsPlan(plan, requeued(unit, leases)) /\ compatible(plan, requeued(unit, leases))
    BY <1>0, RequeuedPlan
  <2>3. followsPlan(plan, unit') /\ compatible(plan, unit') /\ active(unit') # {}
    BY <2>1, <2>2, StartReadyPlan
  <2> QED
    BY <2>1, <2>3, <1>5
<1>12. ASSUME NEW c \in issued, reportFailed(c)
       PROVE  PlanInv'
  BY <1>4, <1>12 DEF reportFailed, replans
<1>13. ASSUME NEW p \in Procs, NEW c \in issued, NEW mutated \in BOOLEAN, reportBegins(p, c, mutated)
       PROVE  PlanInv'
  BY <1>1, <1>13 DEF reportBegins
<1>14. ASSUME NEW p \in Procs, reportPasses(p)
       PROVE  PlanInv'
  <2> DEFINE done == [unit EXCEPT ![op[p].credential.unit] = "completed"]
  <2>1. /\ reportHolds(p) /\ plan' = plan
        /\ \/ allCompleted(done) /\ status' = "enno_verifying" /\ unit' = done
           \/ status' = status /\ \E ls, mut : startReadyUnits(plan, done, ls, revision, mut, MaxParallel)
    BY <1>14 DEF reportPasses
  <2>2. status = "goki_executing" /\ plan \in Plans /\ op[p].credential.unit \in Units
        /\ unit[op[p].credential.unit] = "in_progress"
    BY <2>1, ReportedUnit DEF reportHolds, PlanInv, ExecutionIsActive
  <2>3. done \in [Units -> UnitStatuses] /\ followsPlan(plan, done) /\ compatible(plan, done)
    BY <1>0, <2>2, CompletedPlan
  <2>4. CASE allCompleted(done) /\ status' = "enno_verifying" /\ unit' = done
    <3>1. UnitsOf(plan) # {} /\ \A u \in UnitsOf(plan) : unit'[u] = "completed"
      BY <2>2, <2>4, PlansAssumption DEF allCompleted
    <3> HIDE DEF done
    <3> QED
      BY <2>1, <2>3, <2>4, <3>1
         DEF PlanInv, ExecutionIsActive, ActiveUnitsCompatible, compatible, VerifiedIsWhole
  <2>5. CASE status' = status /\ \E ls, mut : startReadyUnits(plan, done, ls, revision, mut, MaxParallel)
    <3> HIDE DEF done
    <3>1. followsPlan(plan, unit') /\ compatible(plan, unit') /\ active(unit') # {}
      BY <2>2, <2>3, <2>5, StartReadyPlan
    <3> QED
      BY <2>1, <2>2, <2>5, <3>1, <1>5
  <2> QED
    BY <2>1, <2>4, <2>5
<1>15. ASSUME NEW p \in Procs, reportRejected(p)
       PROVE  PlanInv'
  BY <1>4, <1>15 DEF reportRejected, replans
<1>16. ASSUME NEW p \in Procs,
              prepareReads(p) \/ prepareBegins(p) \/ runVerifiers(p) \/ captureAfter(p) \/ prepareEnds(p) \/ breaksOff(p)
       PROVE  PlanInv'
  BY <1>1, <1>16 DEF prepareReads, prepareBegins, runVerifiers, captureAfter, prepareEnds, breaksOff
<1>17. ASSUME NEW decision, finishEnno(decision)
       PROVE  PlanInv'
  BY <1>3, <1>4, <1>17 DEF finishEnno, finalEvidenceReady
<1>18. ASSUME NEW s \in Sessions, NEW allowed \in BOOLEAN, continuation(s, allowed)
       PROVE  PlanInv'
  BY <1>1, <1>18 DEF continuation
<1>19. ASSUME NEW choice \in {"ordinary", "cancelled"}, selectExecution(choice)
       PROVE  PlanInv'
  BY <1>2, <1>19 DEF selectExecution
<1>20. ASSUME NEW outcome \in Outcomes, checkpoint(outcome)
       PROVE  PlanInv'
  BY <1>1, <1>20 DEF checkpoint
<1>21. ASSUME NEW l \in leases, leaseExpires(l)
       PROVE  PlanInv'
  BY <1>1, <1>21 DEF leaseExpires
<1>22. ASSUME NEW version \in 1..MaxEdits, editRepository(version)
       PROVE  PlanInv'
  BY <1>1, <1>22 DEF editRepository
<1> QED
  BY <1>6, <1>7, <1>8, <1>9, <1>10, <1>11, <1>12, <1>13, <1>14, <1>15, <1>16, <1>17, <1>18, <1>19, <1>20,
     <1>21, <1>22 DEF Next

\* Of some units of a plan one is the first in the plan's order.
LEMMA FirstUnit ==
  ASSUME NEW p \in Plans, NEW R \in SUBSET UnitsOf(p), R # {}
  PROVE  \E u \in R : \A v \in R : v # u => p.rank[u] < p.rank[v]
<1> DEFINE ranks == {p.rank[u] : u \in R}
           less == OpToRel(<, Nat)
<1>1. ranks \subseteq Nat /\ ranks # {}
  BY PlansAssumption
<1>2. IsWellFoundedOn(less, Nat)
  BY NatLessThanWellFounded
<1>3. \A m, n \in Nat : <<m, n>> \in less <=> m < n
  BY DEF OpToRel
<1>4. \E n \in ranks : \A m \in ranks : <<m, n>> \notin less
  <2> HIDE DEF ranks, less
  <2> QED
    BY <1>1, <1>2, WFMin
<1>5. PICK n \in ranks : \A m \in ranks : ~(m < n)
  <2> HIDE DEF less
  <2> QED
    BY <1>1, <1>3, <1>4
<1>6. PICK u \in R : n = p.rank[u]
  OBVIOUS
<1>7. \A v \in R : p.rank[v] \in Nat /\ (v # u => p.rank[v] # p.rank[u])
  BY PlansAssumption
<1>8. ASSUME NEW v \in R, v # u
      PROVE  p.rank[u] < p.rank[v]
  <2>1. p.rank[v] \in ranks
    OBVIOUS
  <2>2. ~(p.rank[v] < p.rank[u])
    BY <1>5, <1>6, <2>1
  <2> QED
    BY <1>7, <1>8, <2>2
<1> QED
  BY <1>8

(***************************************************************************)
(* A plan can always be advanced from unit states that follow it: some     *)
(* unit is in progress, or all are completed, or a ready one can be        *)
(* started alone.  The dependencies of a plan are acyclic.                 *)
(***************************************************************************)
LEMMA Advances ==
  ASSUME NEW p \in Plans, NEW us \in [Units -> UnitStatuses], followsPlan(p, us),
         \E u \in UnitsOf(p) : us[u] # "completed"
  PROVE  \E S \in SUBSET UnitsOf(p) : selects(p, us, 1, S) /\ canAdvance(us, S)
<1>1. UnitsOf(p) \subseteq Units /\ IsFiniteSet(UnitsOf(p))
  BY PlansAssumption
<1>2. CASE active(us) # {}
  <2>1. active(us) \subseteq UnitsOf(p)
    BY DEF active, followsPlan
  <2>2. IsFiniteSet(active(us))
    BY <1>1, <2>1, FS_Subset
  <2>3. Cardinality(active(us)) \in Nat /\ Cardinality(active(us)) # 0
    BY <1>2, <2>2, FS_CardinalityType, FS_EmptySet
  <2>4. \A u : ~admissible(p, u, active(us), 1)
    BY <2>3 DEF admissible
  <2>5. selects(p, us, 1, {})
    <3>1. \A u : active(us) \cup {v \in {} : p.rank[v] < p.rank[u]} = active(us)
      OBVIOUS
    <3> QED
      BY <2>4, <3>1 DEF selects
  <2> QED
    BY <1>2, <2>5 DEF canAdvance
<1>3. CASE active(us) = {}
  <2> DEFINE P == {u \in UnitsOf(p) : us[u] = "pending"}
             R == readyUnits(p, us)
  <2>1. \A u \in UnitsOf(p) : us[u] \in {"pending", "completed"}
    BY <1>1, <1>3 DEF active, followsPlan
  <2>2. P # {}
    BY <2>1
  <2>3. PICK u \in P : p.needs[u] \cap P = {}
    <3>1. P \in SUBSET UnitsOf(p)
      OBVIOUS
    <3> HIDE DEF P
    <3> QED
      BY <2>2, <3>1, PlansAssumption
  <2>4. u \in R
    <3>1. p.needs[u] \subseteq UnitsOf(p)
      BY PlansAssumption
    <3> QED
      BY <2>1, <2>3, <3>1 DEF readyUnits
  <2>5. R \in SUBSET UnitsOf(p)
    BY DEF readyUnits
  <2>6. PICK first \in R : \A v \in R : v # first => p.rank[first] < p.rank[v]
    <3> HIDE DEF R
    <3> QED
      BY <2>4, <2>5, FirstUnit
  <2>7. \A v \in R : p.rank[v] \in Nat
    BY <2>5, PlansAssumption
  <2>8. Cardinality({}) = 0 /\ Cardinality({first}) = 1
    BY FS_EmptySet, FS_Singleton
  <2>9. admissible(p, first, {}, 1)
    BY <2>8 DEF admissible
  <2>10. \A v : ~admissible(p, v, {first}, 1)
    BY <2>8 DEF admissible
  <2>11. ASSUME NEW v \in R
         PROVE  v \in {first} <=> admissible(p, v, active(us) \cup {w \in {first} : p.rank[w] < p.rank[v]}, 1)
    <3>1. CASE v = first
      <4>1. active(us) \cup {w \in {first} : p.rank[w] < p.rank[v]} = {}
        BY <1>3, <2>7, <3>1
      <4> QED
        BY <2>9, <3>1, <4>1
    <3>2. CASE v # first
      <4>1. active(us) \cup {w \in {first} : p.rank[w] < p.rank[v]} = {first}
        BY <1>3, <2>6, <3>2
      <4> QED
        BY <2>10, <3>2, <4>1
    <3> QED
      BY <3>1, <3>2
  <2>12. selects(p, us, 1, {first})
    BY <2>6, <2>11 DEF selects
  <2> QED
    BY <2>5, <2>12 DEF canAdvance
<1> QED
  BY <1>2, <1>3

(***************************************************************************)
(* 'Enno WorkPlan dependencies cannot advance' is never raised: for every  *)
(* plan whose dependencies are acyclic, whatever has been claimed,         *)
(* reported and requeued, a sweep or the report of a running unit leaves   *)
(* every unit completed or can start one.                                  *)
(***************************************************************************)
THEOREM WorkAdvancing == Spec => []WorkAdvances
<1>1. Init => TypeInv /\ PlanInv
  BY TypeInit, PlanInit
<1>2. TypeInv /\ PlanInv /\ [Next]_vars => (TypeInv /\ PlanInv)'
  BY TypeStep, PlanStep
<1>3. ASSUME TypeInv, PlanInv
      PROVE  WorkAdvances
  <2> SUFFICES ASSUME status = "goki_executing",
                      NEW us \in {requeued(unit, leases)} \cup
                                 {[unit EXCEPT ![u] = "completed"] : u \in active(unit)}
               PROVE  \/ allCompleted(us)
                      \/ \E S \in SUBSET UnitsOf(plan) : selects(plan, us, 1, S) /\ canAdvance(us, S)
    BY DEF WorkAdvances
  <2>1. /\ plan \in Plans /\ unit \in [Units -> UnitStatuses]
        /\ followsPlan(plan, unit) /\ compatible(plan, unit)
    BY <1>3 DEF TypeInv, TypeOK, PlanInv, ExecutionIsActive, ActiveUnitsCompatible, compatible
  <2>2. us \in [Units -> UnitStatuses] /\ followsPlan(plan, us)
    <3>1. CASE us = requeued(unit, leases)
      BY <2>1, <3>1, RequeuedPlan
    <3>2. ASSUME NEW u \in active(unit), us = [unit EXCEPT ![u] = "completed"]
          PROVE  us \in [Units -> UnitStatuses] /\ followsPlan(plan, us)
      BY <2>1, <3>2, CompletedPlan DEF active
    <3> QED
      BY <3>1, <3>2
  <2> QED
    BY <2>1, <2>2, Advances DEF allCompleted
<1> QED
  BY <1>1, <1>2, <1>3, PTL DEF Spec

-----------------------------------------------------------------------------
(* Leases and credentials                                                  *)

OneLeasePerUnit ==
    \A l, m \in leases : l.revision = m.revision /\ l.unit = m.unit => l = m

SerialsInOrder ==
    /\ \A c \in issued : c.serial < nextSerial(c.unit)
    /\ \A l \in leases : l.live => l.serial + 1 = nextSerial(l.unit)

LeaseInv == OneLeasePerUnit /\ LiveLeaseIsCurrent /\ SerialsInOrder

\* The abstract rows: at most one lease of a unit at a revision.
oneLease(ls) == \A l, m \in ls : l.revision = m.revision /\ l.unit = m.unit => l = m

\* The serial of a unit moves on with its credential.
LEMMA SerialMoves ==
  ASSUME TypeInv, SerialsInOrder, NEW S \in SUBSET Units, NEW rev, NEW ep,
         issued' = issued \cup issues(S, rev, ep), NEW u \in Units
  PROVE  /\ u \in S => nextSerial(u)' = nextSerial(u) + 1
         /\ u \notin S => nextSerial(u)' = nextSerial(u)
<1> DEFINE new == [unit |-> u, serial |-> nextSerial(u), revision |-> rev, epoch |-> ep]
<1>1. nextSerial(u) \in Nat /\ nextSerial(u) = 1 + Cardinality(issuedFor(u))
      /\ Cardinality(issuedFor(u)) \in Nat
  BY SerialType
<1>2. nextSerial(u)' = 1 + Cardinality(issuedFor(u)')
  BY DEF nextSerial, issuedFor
<1>3. new \notin issuedFor(u)
  <2>1. \A c \in issuedFor(u) : c.serial < nextSerial(u) /\ c.serial \in Nat
    BY BoundsAssumption DEF TypeInv, TypeOK, SerialsInOrder, issuedFor, Credential
  <2> QED
    BY <2>1, <1>1
<1>4. IsFiniteSet(issuedFor(u))
  BY DEF TypeInv
<1>5. /\ u \in S => issuedFor(u)' = issuedFor(u) \cup {new}
      /\ u \notin S => issuedFor(u)' = issuedFor(u)
  BY IssuedGrows
<1> HIDE DEF new
<1>6. Cardinality(issuedFor(u) \cup {new}) = Cardinality(issuedFor(u)) + 1
  BY <1>3, <1>4, FS_AddElement
<1>7. CASE u \in S
  <2>1. Cardinality(issuedFor(u)') = Cardinality(issuedFor(u)) + 1
    BY <1>5, <1>6, <1>7
  <2> QED
    BY <1>1, <1>2, <1>7, <2>1
<1>8. CASE u \notin S
  <2>1. Cardinality(issuedFor(u)') = Cardinality(issuedFor(u))
    BY <1>5, <1>8
  <2> QED
    BY <1>1, <1>2, <1>8, <2>1
<1> QED
  BY <1>7, <1>8

\* What a grant does to rows ls that are in order: each unit of S gets the one
\* row with its latest serial, the other rows stay.
LEMMA GrantsInOrder ==
  ASSUME TypeInv, SerialsInOrder, NEW S \in SUBSET Units, NEW ls \in SUBSET Lease,
         NEW rev \in 1..MaxRevision, NEW mut \in Nat, NEW ep \in 0..MaxEpoch, NEW owner \in Owners,
         oneLease(ls),
         \A l \in ls : l.live => l.serial + 1 = nextSerial(l.unit) /\ l.revision = rev,
         leases' = grants(ls, S, rev, mut, ep, owner),
         issued' = issued \cup issues(S, rev, ep)
  PROVE  /\ OneLeasePerUnit' /\ SerialsInOrder'
         /\ \A l \in leases' : \/ l \in ls /\ (l.live => l.unit \notin S)
                               \/ /\ l.unit \in S /\ l.live /\ l.revision = rev
                                  /\ l.mutation = mut /\ l.epoch = ep /\ l.owner = owner
<1> DEFINE row(u) == [unit |-> u, serial |-> nextSerial(u), revision |-> rev, epoch |-> ep,
                      mutation |-> mut, owner |-> owner, live |-> TRUE]
           kept == {l \in ls : ~(l.revision = rev /\ l.unit \in S)}
<1>1. leases' = kept \cup {row(u) : u \in S}
  BY DEF grants
<1>2. \A l \in leases' : \/ l \in ls /\ ~(l.revision = rev /\ l.unit \in S)
                         \/ l.unit \in S /\ l = row(l.unit)
  BY <1>1
<1>3. \A u \in Units : nextSerial(u) \in Nat
  BY SerialType
<1>4. OneLeasePerUnit'
  <2> SUFFICES ASSUME NEW l \in leases', NEW m \in leases', l.revision = m.revision, l.unit = m.unit
               PROVE  l = m
    BY DEF OneLeasePerUnit
  <2>1. CASE l.unit \in S /\ l = row(l.unit)
    <3>1. row(l.unit).revision = rev
      OBVIOUS
    <3>2. m.unit \in S /\ m.revision = rev
      BY <2>1, <3>1
    <3>3. m = row(m.unit)
      BY <3>2, <1>2
    <3> HIDE DEF row
    <3> QED
      BY <2>1, <3>3
  <2>2. CASE l \in ls /\ ~(l.revision = rev /\ l.unit \in S)
    <3>1. ~(m.unit \in S /\ m = row(m.unit))
      BY <2>2
    <3>2. m \in ls
      BY <3>1, <1>2
    <3> QED
      BY <2>2, <3>2 DEF oneLease
  <2> QED
    BY <2>1, <2>2, <1>2
<1>5. \A c \in issued' : c.serial < nextSerial(c.unit)'
  <2> SUFFICES ASSUME NEW c \in issued'
               PROVE  c.serial < nextSerial(c.unit)'
    OBVIOUS
  <2>1. CASE c \in issued
    <3>1. c.unit \in Units /\ c.serial \in Nat /\ c.serial < nextSerial(c.unit)
      BY <2>1, BoundsAssumption DEF TypeInv, TypeOK, Credential, SerialsInOrder
    <3>2. nextSerial(c.unit)' \in {nextSerial(c.unit), nextSerial(c.unit) + 1}
      BY <3>1, SerialMoves
    <3>3. nextSerial(c.unit) \in Nat
      BY <3>1, <1>3
    <3> QED
      BY <3>1, <3>2, <3>3
  <2>2. CASE c \in issues(S, rev, ep)
    <3>1. c.unit \in S /\ c.serial = nextSerial(c.unit)
      BY <2>2 DEF issues
    <3> QED
      BY <3>1, <1>3, SerialMoves
  <2> QED
    BY <2>1, <2>2
<1>6. \A l \in leases' : l.live => l.serial + 1 = nextSerial(l.unit)'
  <2> SUFFICES ASSUME NEW l \in leases', l.live
               PROVE  l.serial + 1 = nextSerial(l.unit)'
    OBVIOUS
  <2>1. CASE l \in ls /\ ~(l.revision = rev /\ l.unit \in S)
    <3>1. l.unit \in Units /\ l.unit \notin S /\ l.serial + 1 = nextSerial(l.unit)
      BY <2>1 DEF Lease
    <3> QED
      BY <3>1, SerialMoves
  <2>2. CASE l.unit \in S /\ l = row(l.unit)
    <3>1. l.unit \in Units /\ l.serial = nextSerial(l.unit)
      BY <2>2
    <3> QED
      BY <2>2, <3>1, SerialMoves
  <2> QED
    BY <2>1, <2>2, <1>2
<1>7. SerialsInOrder'
  BY <1>5, <1>6 DEF SerialsInOrder
<1> QED
  BY <1>2, <1>4, <1>7

\* A start of ready units, seen from the leases.
LEMMA StartReadyLeases ==
  ASSUME TypeInv, SerialsInOrder, NEW p \in Plans, NEW us \in [Units -> UnitStatuses],
         NEW ls \in SUBSET Lease, NEW rev \in 1..MaxRevision, NEW mut \in Nat, NEW limit,
         oneLease(ls),
         \A l \in ls : l.live => /\ l.serial + 1 = nextSerial(l.unit) /\ l.revision = rev
                                 /\ l.mutation = mut /\ l.epoch = epoch /\ l.owner = bound
                                 /\ us[l.unit] = "in_progress",
         startReadyUnits(p, us, ls, rev, mut, limit)
  PROVE  /\ OneLeasePerUnit' /\ SerialsInOrder'
         /\ \A l \in leases' : l.live => /\ l.revision = rev /\ l.mutation = mut
                                         /\ l.epoch = epoch /\ l.owner = bound
                                         /\ unit'[l.unit] = "in_progress"
<1>1. PICK S \in SUBSET UnitsOf(p) :
        /\ unit' = starts(us, S)
        /\ leases' = grants(ls, S, rev, mut, epoch, bound)
        /\ issued' = issued \cup issues(S, rev, epoch)
  BY DEF startReadyUnits
<1>2. S \in SUBSET Units
  BY PlanUnits
<1>3. epoch \in 0..MaxEpoch /\ bound \in Owners
  BY DEF TypeInv, TypeOK
<1>4. /\ OneLeasePerUnit' /\ SerialsInOrder'
      /\ \A l \in leases' : \/ l \in ls /\ (l.live => l.unit \notin S)
                            \/ /\ l.unit \in S /\ l.live /\ l.revision = rev
                               /\ l.mutation = mut /\ l.epoch = epoch /\ l.owner = bound
  BY <1>1, <1>2, <1>3, GrantsInOrder
<1>5. \A u \in Units : unit'[u] = IF u \in S THEN "in_progress" ELSE us[u]
  BY <1>1 DEF starts
<1>6. \A l \in ls : l.unit \in Units
  BY DEF Lease
<1>7. \A l \in leases' : l.live => /\ l.revision = rev /\ l.mutation = mut
                                   /\ l.epoch = epoch /\ l.owner = bound
                                   /\ unit'[l.unit] = "in_progress"
  BY <1>2, <1>4, <1>5, <1>6
<1> QED
  BY <1>4, <1>5, <1>7

\* Initially there are no leases.
LEMMA LeaseInit ==
  ASSUME Init
  PROVE  LeaseInv
BY DEF Init, LeaseInv, OneLeasePerUnit, LiveLeaseIsCurrent, SerialsInOrder

\* The rows a report of unit u leaves behind: u's own is released, and the
\* siblings' follow the mutation revision.
released(u, mutated) ==
    LET own == {l \in leases : ~(l.revision = revision /\ l.unit = u)}
    IN IF mutated THEN advanceSiblingLeaseMutation(own) ELSE own

mutatedTo(mutated) == IF mutated THEN mutation + 1 ELSE mutation

\* A unit that ends gives up its lease; the leases of the other units stay current.
LEMMA ReleasedLeases ==
  ASSUME TypeInv, LeaseInv, NEW u \in Units, NEW mutated \in BOOLEAN
  PROVE  /\ released(u, mutated) \in SUBSET Lease /\ mutatedTo(mutated) \in Nat
         /\ oneLease(released(u, mutated))
         /\ \A l \in released(u, mutated) : l.live =>
               /\ l.serial + 1 = nextSerial(l.unit) /\ l.revision = revision
               /\ l.mutation = mutatedTo(mutated) /\ l.epoch = epoch /\ l.owner = bound
               /\ unit[l.unit] = "in_progress" /\ l.unit # u
               /\ status = "goki_executing"
<1> DEFINE own == {l \in leases : ~(l.revision = revision /\ l.unit = u)}
           next(l) == IF l.revision = revision /\ l.epoch = epoch /\ l.mutation = mutation
                      THEN [l EXCEPT !.mutation = mutation + 1] ELSE l
<1>1. own \in SUBSET Lease /\ mutation \in Nat
  BY DEF TypeInv, TypeOK
<1>2. oneLease(own)
  BY DEF LeaseInv, OneLeasePerUnit, oneLease
<1>3. \A l \in own : l.live =>
         /\ l.serial + 1 = nextSerial(l.unit) /\ l.revision = revision
         /\ l.mutation = mutation /\ l.epoch = epoch /\ l.owner = bound
         /\ unit[l.unit] = "in_progress" /\ l.unit # u
         /\ status = "goki_executing"
  BY DEF LeaseInv, LiveLeaseIsCurrent, SerialsInOrder
<1>4. CASE ~mutated
  BY <1>1, <1>2, <1>3, <1>4 DEF released, mutatedTo
<1>5. CASE mutated
  <2>1. \A l \in own : /\ next(l) \in Lease
                       /\ next(l).unit = l.unit /\ next(l).serial = l.serial
                       /\ next(l).revision = l.revision /\ next(l).epoch = l.epoch
                       /\ next(l).owner = l.owner /\ next(l).live = l.live
                       /\ l.live => next(l).mutation = mutation + 1
    BY <1>1, <1>3 DEF Lease
  <2>2. advanceSiblingLeaseMutation(own) = {next(l) : l \in own}
    BY DEF advanceSiblingLeaseMutation
  <2> HIDE DEF own, next
  <2> DEFINE ls == advanceSiblingLeaseMutation(own)
  <2>3. ls \in SUBSET Lease
    BY <2>1, <2>2
  <2>4. oneLease(ls)
    <3> SUFFICES ASSUME NEW l \in own, NEW m \in own,
                        next(l).revision = next(m).revision, next(l).unit = next(m).unit
                 PROVE  next(l) = next(m)
      BY <2>2 DEF oneLease
    <3>1. l = m
      BY <2>1, <1>2 DEF oneLease
    <3> QED
      BY <3>1
  <2>5. \A l \in ls : l.live =>
           /\ l.serial + 1 = nextSerial(l.unit) /\ l.revision = revision
           /\ l.mutation = mutation + 1 /\ l.epoch = epoch /\ l.owner = bound
           /\ unit[l.unit] = "in_progress" /\ l.unit # u
           /\ status = "goki_executing"
    BY <1>3, <2>1, <2>2
  <2>6. mutation + 1 \in Nat
    BY <1>1
  <2> QED
    BY <1>5, <2>3, <2>4, <2>5, <2>6 DEF own, released, mutatedTo
<1> QED
  BY <1>4, <1>5

\* LeaseInv is inductive under TypeInv and PlanInv.
LEMMA LeaseStep ==
  ASSUME TypeInv, PlanInv, LeaseInv, [Next]_vars
  PROVE  LeaseInv'
<1> USE DEF contract, route, work, review, updatesContract
<1>0. /\ leases \in SUBSET Lease /\ oneLease(leases) /\ SerialsInOrder
      /\ unit \in [Units -> UnitStatuses] /\ mutation \in Nat /\ revision \in 1..MaxRevision
  BY DEF TypeInv, TypeOK, LeaseInv, OneLeasePerUnit, oneLease
<1>1. ASSUME UNCHANGED <<leases, issued, status, revision, mutation, bound, epoch, unit>>
      PROVE  LeaseInv'
  BY <1>1 DEF LeaseInv, OneLeasePerUnit, LiveLeaseIsCurrent, SerialsInOrder, nextSerial
<1>2. ASSUME leases' = {}, UNCHANGED issued
      PROVE  LeaseInv'
  BY <1>2 DEF LeaseInv, OneLeasePerUnit, LiveLeaseIsCurrent, SerialsInOrder, nextSerial
<1>3. ASSUME \A l \in leases : ~l.live, UNCHANGED <<leases, issued>>
      PROVE  LeaseInv'
  BY <1>3 DEF LeaseInv, OneLeasePerUnit, LiveLeaseIsCurrent, SerialsInOrder, nextSerial
<1>4. status # "goki_executing" => \A l \in leases : ~l.live
  BY DEF LeaseInv, LiveLeaseIsCurrent
<1>5. ASSUME submitEnnoAdvice \/ receiptExpires \/ UNCHANGED vars
      PROVE  LeaseInv'
  BY <1>1, <1>5 DEF submitEnnoAdvice, receiptExpires, vars
<1>6. CASE submitOdunoIdeal \/ answerEnno \/ submitOdunoMeditation
  BY <1>3, <1>4, <1>6 DEF submitOdunoIdeal, answerEnno, submitOdunoMeditation
<1>7. ASSUME NEW p \in Plans, submitEnnoPlan(p)
      PROVE  LeaseInv'
  <2> DEFINE us == [u \in Units |-> IF u \in UnitsOf(p) THEN "pending" ELSE "absent"]
  <2>1. /\ status = "zenki_planning" /\ revision < MaxRevision
        /\ status' = "goki_executing" /\ revision' = revision + 1
        /\ mutation' = mutation /\ UNCHANGED <<bound, epoch>>
        /\ startReadyUnits(p, us, leases, revision + 1, mutation, MaxParallel)
    BY <1>7 DEF submitEnnoPlan
  <2>2. us \in [Units -> UnitStatuses] /\ revision + 1 \in 1..MaxRevision
    BY <1>0, <2>1, BoundsAssumption DEF UnitStatuses
  <2>3. \A l \in leases : ~l.live
    BY <1>4, <2>1
  <2> HIDE DEF us
  <2>4. /\ OneLeasePerUnit' /\ SerialsInOrder'
        /\ \A l \in leases' : l.live => /\ l.revision = revision + 1 /\ l.mutation = mutation
                                        /\ l.epoch = epoch /\ l.owner = bound
                                        /\ unit'[l.unit] = "in_progress"
    BY <1>0, <2>1, <2>2, <2>3, StartReadyLeases
  <2> QED
    BY <2>1, <2>4 DEF LeaseInv, LiveLeaseIsCurrent
<1>8. ASSUME NEW limit \in ClaimLimits, claimEnnoWork(limit)
      PROVE  LeaseInv'
  <2> DEFINE us == requeued(unit, leases)
             ls == leases \ expired(leases)
  <2>1. /\ status = "goki_executing" /\ plan \in Plans
        /\ UNCHANGED <<status, revision, mutation, bound, epoch>>
        /\ startReadyUnits(plan, us, ls, revision, mutation, limit)
    BY <1>8 DEF claimEnnoWork, PlanInv, ExecutionIsActive
  <2>2. us \in [Units -> UnitStatuses] /\ ls \in SUBSET Lease /\ oneLease(ls)
    BY <1>0 DEF requeued, UnitStatuses, oneLease
  <2>3. ASSUME NEW l \in ls, l.live
        PROVE  /\ l.serial + 1 = nextSerial(l.unit) /\ l.revision = revision
               /\ l.mutation = mutation /\ l.epoch = epoch /\ l.owner = bound
               /\ us[l.unit] = "in_progress"
    <3>1. /\ l.serial + 1 = nextSerial(l.unit) /\ l.revision = revision
          /\ l.mutation = mutation /\ l.epoch = epoch /\ l.owner = bound
          /\ unit[l.unit] = "in_progress" /\ l.unit \in Units
      BY <1>0, <2>3 DEF LeaseInv, LiveLeaseIsCurrent, SerialsInOrder, Lease
    <3>2. ~ \E m \in expired(leases) : m.unit = l.unit
      BY <1>0, <2>3, <3>1 DEF expired, oneLease
    <3> QED
      BY <3>1, <3>2 DEF requeued
  <2> HIDE DEF us, ls
  <2>4. /\ OneLeasePerUnit' /\ SerialsInOrder'
        /\ \A l \in leases' : l.live => /\ l.revision = revision /\ l.mutation = mutation
                                        /\ l.epoch = epoch /\ l.owner = bound
                                        /\ unit'[l.unit] = "in_progress"
    BY <1>0, <2>1, <2>2, <2>3, StartReadyLeases
  <2> QED
    BY <2>1, <2>4 DEF LeaseInv, LiveLeaseIsCurrent
<1>9. ASSUME NEW c \in issued, reportFailed(c)
      PROVE  LeaseInv'
  BY <1>2, <1>9 DEF reportFailed, replans
<1>10. ASSUME NEW p \in Procs, NEW c \in issued, NEW mutated \in BOOLEAN, reportBegins(p, c, mutated)
       PROVE  LeaseInv'
  BY <1>1, <1>10 DEF reportBegins, renewsLease
<1>11. ASSUME NEW p \in Procs, reportPasses(p)
       PROVE  LeaseInv'
  <2> DEFINE u == op[p].credential.unit
             ls == released(u, op[p].mutated)
             mut == mutatedTo(op[p].mutated)
             done == [unit EXCEPT ![u] = "completed"]
  <2>1. /\ reportHolds(p) /\ plan' = plan
        /\ UNCHANGED <<revision, bound, epoch>> /\ mutation' = mut
        /\ \/ allCompleted(done) /\ status' = "enno_verifying" /\ unit' = done /\ leases' = ls /\ UNCHANGED issued
           \/ status' = status /\ startReadyUnits(plan, done, ls, revision, mut, MaxParallel)
    BY <1>11 DEF reportPasses, released, mutatedTo
  <2>2. u \in Units /\ op[p].mutated \in BOOLEAN
    BY <2>1, ReportedUnit DEF Reporting
  <2>3. status = "goki_executing" /\ plan \in Plans /\ unit[u] = "in_progress"
    BY <2>1 DEF reportHolds, PlanInv, ExecutionIsActive
  <2>4. /\ ls \in SUBSET Lease /\ mut \in Nat /\ oneLease(ls)
        /\ \A l \in ls : l.live =>
              /\ l.serial + 1 = nextSerial(l.unit) /\ l.revision = revision
              /\ l.mutation = mut /\ l.epoch = epoch /\ l.owner = bound
              /\ unit[l.unit] = "in_progress" /\ l.unit # u
    BY <2>2, ReleasedLeases
  <2>5. \A l \in ls : l.unit \in Units
    BY <2>4 DEF Lease
  <2>6. done \in [Units -> UnitStatuses] /\ \A v \in Units : done[v] = IF v = u THEN "completed" ELSE unit[v]
    BY <1>0, <2>2 DEF UnitStatuses
  <2> HIDE DEF u, ls, mut, done
  <2>7. \A l \in ls : l.live => done[l.unit] = "in_progress"
    BY <2>4, <2>5, <2>6
  <2>8. CASE allCompleted(done) /\ status' = "enno_verifying" /\ unit' = done /\ leases' = ls /\ UNCHANGED issued
    <3>1. \A l \in ls : ~l.live
      <4>1. \A v \in Units : unit[v] = "in_progress" => v \in UnitsOf(plan)
        BY DEF PlanInv, followsPlan
      <4> QED
        BY <4>1, <2>4, <2>5, <2>7, <2>8 DEF allCompleted
    <3>2. \A c \in issued : c.serial < nextSerial(c.unit)
      BY <1>0 DEF SerialsInOrder
    <3>3. \A v : nextSerial(v)' = nextSerial(v)
      BY <2>8 DEF nextSerial
    <3> QED
      BY <2>4, <2>8, <3>1, <3>2, <3>3
         DEF LeaseInv, OneLeasePerUnit, LiveLeaseIsCurrent, SerialsInOrder, oneLease
  <2>9. CASE status' = status /\ startReadyUnits(plan, done, ls, revision, mut, MaxParallel)
    <3>1. /\ OneLeasePerUnit' /\ SerialsInOrder'
          /\ \A l \in leases' : l.live => /\ l.revision = revision /\ l.mutation = mut
                                          /\ l.epoch = epoch /\ l.owner = bound
                                          /\ unit'[l.unit] = "in_progress"
      BY <1>0, <2>3, <2>4, <2>6, <2>7, <2>9, StartReadyLeases
    <3> QED
      BY <2>1, <2>3, <2>9, <3>1 DEF LeaseInv, LiveLeaseIsCurrent
  <2> QED
    BY <2>1, <2>8, <2>9
<1>12. ASSUME NEW p \in Procs, reportRejected(p)
       PROVE  LeaseInv'
  BY <1>2, <1>12 DEF reportRejected, replans
<1>13. ASSUME NEW p \in Procs,
              prepareReads(p) \/ prepareBegins(p) \/ runVerifiers(p) \/ captureAfter(p) \/ prepareEnds(p) \/ breaksOff(p)
       PROVE  LeaseInv'
  BY <1>1, <1>13 DEF prepareReads, prepareBegins, runVerifiers, captureAfter, prepareEnds, breaksOff
<1>14. ASSUME NEW decision, finishEnno(decision)
       PROVE  LeaseInv'
  BY <1>3, <1>4, <1>14 DEF finishEnno, finalEvidenceReady
<1>15. ASSUME NEW s \in Sessions, NEW allowed \in BOOLEAN, continuation(s, allowed)
       PROVE  LeaseInv'
  <2> DEFINE ep == IF bound = s THEN epoch ELSE epoch + 1
             ls == routedLeases(s)
             U == IF allowed THEN directiveUnits ELSE {}
             live == {l \in ls : l.revision = revision /\ l.unit \in U /\ l.live}
             G == {u \in U : \A l \in live : l.unit # u}
  <2>1. /\ epoch' = ep
        /\ leases' = grants(ls, G, revision, mutation, ep, s)
        /\ issued' = issued \cup issues(G, revision, ep)
    BY <1>15 DEF continuation
  <2>2. routable(s) /\ bound' = s /\ UNCHANGED <<status, revision, mutation, unit>>
    BY <1>15 DEF continuation
  <2>3. \A u \in G : u \in Units /\ unit[u] = "in_progress" /\ status = "goki_executing"
    BY <2>1 DEF directiveUnits, nextReadyWorkUnit, PlanInv, ExecutionIsActive, active
  <2>4. ep \in 0..MaxEpoch
    BY <2>1, <2>2, BoundsAssumption DEF routable, TypeInv, TypeOK
  <2>5. ls \in SUBSET Lease /\ oneLease(ls)
    BY <1>0, <2>1 DEF routedLeases, oneLease
  <2>6. ASSUME NEW l \in ls, l.live
        PROVE  bound = s
    <3>1. l \in leases /\ l.owner = bound
      BY <2>1, <2>6 DEF routedLeases, LeaseInv, LiveLeaseIsCurrent
    <3>2. bound # s => l.owner # s /\ (bound = Provisional => l.owner # Provisional)
      BY <2>1, <2>6, <3>1 DEF routedLeases
    <3> QED
      BY <2>2, <2>6, <3>1, <3>2 DEF routable
  <2>7. \A l \in ls : l.live =>
           /\ l.serial + 1 = nextSerial(l.unit) /\ l.revision = revision
           /\ l.mutation = mutation /\ l.epoch = ep /\ l.owner = s
           /\ status = "goki_executing" /\ unit[l.unit] = "in_progress"
    BY <2>1, <2>6 DEF routedLeases, LeaseInv, LiveLeaseIsCurrent, SerialsInOrder
  <2> HIDE DEF ep, ls, G
  <2>8. G \in SUBSET Units /\ s \in Owners
    BY <2>3 DEF Owners
  <2>9. /\ OneLeasePerUnit' /\ SerialsInOrder'
        /\ \A l \in leases' : \/ l \in ls
                              \/ /\ l.unit \in G /\ l.live /\ l.revision = revision
                                 /\ l.mutation = mutation /\ l.epoch = ep /\ l.owner = s
    BY <1>0, <2>1, <2>4, <2>5, <2>7, <2>8, GrantsInOrder
  <2> QED
    BY <2>1, <2>2, <2>3, <2>7, <2>9 DEF LeaseInv, LiveLeaseIsCurrent
<1>16. ASSUME NEW choice \in {"ordinary", "cancelled"}, selectExecution(choice)
       PROVE  LeaseInv'
  BY <1>3, <1>16 DEF selectExecution
<1>17. ASSUME NEW outcome \in Outcomes, checkpoint(outcome)
       PROVE  LeaseInv'
  BY <1>1, <1>17 DEF checkpoint
<1>18. ASSUME NEW l \in leases, leaseExpires(l)
       PROVE  LeaseInv'
  <2> DEFINE dead == [l EXCEPT !.live = FALSE]
  <2>1. leases' = (leases \ {l}) \cup {dead} /\ UNCHANGED <<issued, status, revision, mutation, bound, epoch, unit>>
    BY <1>18 DEF leaseExpires
  <2>2. dead.revision = l.revision /\ dead.unit = l.unit /\ dead.live = FALSE
    BY <1>0 DEF Lease
  <2> HIDE DEF dead
  <2>3. OneLeasePerUnit'
    BY <1>0, <2>1, <2>2 DEF OneLeasePerUnit, oneLease
  <2>4. LiveLeaseIsCurrent'
    BY <2>1, <2>2 DEF LeaseInv, LiveLeaseIsCurrent
  <2>5. SerialsInOrder'
    BY <1>0, <2>1, <2>2 DEF SerialsInOrder, nextSerial
  <2> QED
    BY <2>3, <2>4, <2>5 DEF LeaseInv
<1>19. ASSUME NEW version \in 1..MaxEdits, editRepository(version)
       PROVE  LeaseInv'
  BY <1>1, <1>19 DEF editRepository
<1> QED
  BY <1>5, <1>6, <1>7, <1>8, <1>9, <1>10, <1>11, <1>12, <1>13, <1>14, <1>15, <1>16, <1>17, <1>18, <1>19 DEF Next

(***************************************************************************)
(* In every reachable state units in progress have compatible claims, a    *)
(* live lease names the run's revision, epoch, mutation revision and       *)
(* client and a unit in progress, and a run that is verified, meditated on *)
(* or completed has completed every unit of its plan: for any plans the    *)
(* schema admits, however plans, claims, reports, reroutings, expiries and *)
(* crashes alternate.                                                      *)
(***************************************************************************)
THEOREM LeasesFollow == Spec => []LeasesFollowThePlan
<1>1. Init => TypeInv /\ PlanInv /\ LeaseInv
  BY TypeInit, PlanInit, LeaseInit
<1>2. TypeInv /\ PlanInv /\ LeaseInv /\ [Next]_vars => (TypeInv /\ PlanInv /\ LeaseInv)'
  BY TypeStep, PlanStep, LeaseStep
<1>3. TypeInv /\ PlanInv /\ LeaseInv => LeasesFollowThePlan
  BY DEF PlanInv, LeaseInv, LeasesFollowThePlan
<1> QED
  BY <1>1, <1>2, <1>3, PTL DEF Spec

\* A start of ready units completes none.
LEMMA StartsOnly ==
  ASSUME NEW p, NEW us, NEW ls, NEW rev, NEW mut, NEW limit,
         startReadyUnits(p, us, ls, rev, mut, limit), NEW u \in Units
  PROVE  unit'[u] = us[u] \/ unit'[u] = "in_progress"
BY DEF startReadyUnits, starts

\* Only the second half of a report completes a unit that was in progress.
LEMMA ReportCompletes ==
  ASSUME TypeInv, Next, NEW u \in Units, unit[u] = "in_progress", unit'[u] = "completed"
  PROVE  \E p \in Procs : reportPasses(p) /\ op[p].credential.unit = u
<1> USE DEF work
<1>1. unit' # unit
  OBVIOUS
<1>2. unit' # NoUnits
  BY DEF NoUnits
<1>3. ASSUME NEW p \in Plans, submitEnnoPlan(p)
      PROVE  FALSE
  <2>1. \/ unit'[u] = [v \in Units |-> IF v \in UnitsOf(p) THEN "pending" ELSE "absent"][u]
        \/ unit'[u] = "in_progress"
    BY <1>3, StartsOnly DEF submitEnnoPlan
  <2> QED
    BY <2>1
<1>4. ASSUME NEW limit \in ClaimLimits, claimEnnoWork(limit)
      PROVE  FALSE
  <2>1. unit'[u] = requeued(unit, leases)[u] \/ unit'[u] = "in_progress"
    BY <1>4, StartsOnly DEF claimEnnoWork
  <2> QED
    BY <2>1 DEF requeued
<1>5. ASSUME NEW p \in Procs, reportPasses(p)
      PROVE  op[p].credential.unit = u
  <2> DEFINE done == [unit EXCEPT ![op[p].credential.unit] = "completed"]
  <2>1. \/ unit' = done
        \/ \E ls, mut : startReadyUnits(plan, done, ls, revision, mut, MaxParallel)
    BY <1>5 DEF reportPasses
  <2>2. unit'[u] = done[u]
    <3> HIDE DEF done
    <3> QED
      BY <2>1, StartsOnly
  <2> QED
    BY <2>2 DEF TypeInv, TypeOK
<1> QED
  BY <1>1, <1>2, <1>3, <1>4, <1>5
     DEF Next, submitEnnoAdvice, submitOdunoIdeal, answerEnno, submitOdunoMeditation, reportFailed, replans,
         reportBegins, reportRejected, prepareReads, prepareBegins, runVerifiers, captureAfter, prepareEnds,
         breaksOff, finishEnno, continuation, selectExecution, checkpoint, leaseExpires, receiptExpires,
         editRepository

(***************************************************************************)
(* A unit leaves execution as completed only by the report of the latest   *)
(* credential issued for it: a worker whose lease ran out and whose unit   *)
(* was claimed again while its verifiers ran is refused by the lease check *)
(* of the second transaction.                                              *)
(***************************************************************************)
THEOREM SupersededReports == Spec => SupersededNeverReports
<1>1. Init => TypeInv /\ PlanInv /\ LeaseInv
  BY TypeInit, PlanInit, LeaseInit
<1>2. TypeInv /\ PlanInv /\ LeaseInv /\ [Next]_vars => (TypeInv /\ PlanInv /\ LeaseInv)'
  BY TypeStep, PlanStep, LeaseStep
<1>3. ASSUME TypeInv, LeaseInv, [Next]_vars
      PROVE  [\A u \in Units : unit[u] = "in_progress" /\ unit'[u] = "completed" =>
                \E p \in Procs : /\ op[p].kind = "report" /\ op'[p] = Idle
                                 /\ op[p].credential.unit = u
                                 /\ op[p].credential.serial + 1 = nextSerial(u)]_vars
  <2> SUFFICES ASSUME Next, NEW u \in Units, unit[u] = "in_progress", unit'[u] = "completed"
               PROVE  \E p \in Procs : /\ op[p].kind = "report" /\ op'[p] = Idle
                                       /\ op[p].credential.unit = u
                                       /\ op[p].credential.serial + 1 = nextSerial(u)
    BY <1>3
  <2>1. PICK p \in Procs : reportPasses(p) /\ op[p].credential.unit = u
    BY <1>3, ReportCompletes
  <2>2. op[p].kind = "report" /\ HoldsLease(op[p].credential) /\ op'[p] = Idle
    BY <1>3, <2>1 DEF reportPasses, reportHolds, TypeInv, TypeOK
  <2>3. PICK l \in leases : l.unit = u /\ l.live /\ l.serial = op[p].credential.serial
    BY <2>1, <2>2 DEF HoldsLease
  <2>4. l.serial + 1 = nextSerial(l.unit)
    BY <1>3, <2>3 DEF LeaseInv, SerialsInOrder
  <2> QED
    BY <2>1, <2>2, <2>3, <2>4
<1> QED
  BY <1>1, <1>2, <1>3, PTL DEF Spec, SupersededNeverReports

-----------------------------------------------------------------------------
(* Repository versions in a final verification                             *)

\* What o has learnt about the version it captured first, while the
\* repository is at version r.
versionsHold(o, r) ==
    /\ o.kind = "prepare" => o.pre <= r /\ ~o.passed
    /\ o.kind = "verify" => o.pre <= r
    /\ o.kind = "verified" => o.pre <= r /\ (o.passed /\ o.pre = r => o.pre \in Good)
    /\ o.kind = "captured" => o.pre <= o.post /\ o.post <= r
                              /\ (o.passed /\ o.pre = o.post => o.pre \in Good)

EvidenceHolds ==
    evidence # None => (evidence.passed /\ evidence.pre = evidence.post => evidence.pre \in Good)

ReviewInv ==
    /\ \A p \in Procs : versionsHold(op[p], repo)
    /\ EvidenceHolds
    /\ AcceptedIsGood

\* Initially nothing was verified.
LEMMA ReviewBegins ==
  ASSUME Init
  PROVE  ReviewInv
BY DEF Init, ReviewInv, versionsHold, Idle, EvidenceHolds, AcceptedIsGood

\* ReviewInv is inductive under TypeInv.
LEMMA ReviewStep ==
  ASSUME TypeInv, ReviewInv, [Next]_vars
  PROVE  ReviewInv'
<1> USE DEF contract, route, work, review, updatesContract
<1>0. /\ op \in [Procs -> {Idle} \cup Reporting \cup Verifying] /\ repo \in Nat
      /\ \A p \in Procs : versionsHold(op[p], repo)
      /\ EvidenceHolds
  BY BoundsAssumption DEF TypeInv, TypeOK, ReviewInv
<1>1. ASSUME UNCHANGED <<op, evidence, repo>>, accepted' = accepted,
             status' \in {"oduno_meditation", "completed"} => status \in {"oduno_meditation", "completed"}
      PROVE  ReviewInv'
  BY <1>1 DEF ReviewInv, EvidenceHolds, AcceptedIsGood
<1>2. ASSUME NEW p \in Procs, \A q \in Procs \ {p} : op'[q] = op[q], versionsHold(op'[p], repo),
             UNCHANGED <<repo, status, accepted>>, EvidenceHolds'
      PROVE  ReviewInv'
  BY <1>0, <1>2 DEF ReviewInv, AcceptedIsGood
<1>2a. ASSUME NEW p \in Procs, NEW o, op' = [op EXCEPT ![p] = o], versionsHold(o, repo),
              UNCHANGED <<repo, status, accepted>>, EvidenceHolds'
       PROVE  ReviewInv'
  <2>1. op'[p] = o /\ \A q \in Procs \ {p} : op'[q] = op[q]
    BY <1>0, <1>2a
  <2> QED
    BY <1>2, <1>2a, <2>1
<1>3. UNCHANGED evidence => EvidenceHolds'
  BY <1>0 DEF EvidenceHolds
<1>4. versionsHold(Idle, repo)
  BY DEF versionsHold, Idle
<1>5. ASSUME submitEnnoAdvice \/ submitOdunoIdeal \/ answerEnno \/ receiptExpires \/ UNCHANGED vars
      PROVE  ReviewInv'
  BY <1>1, <1>5 DEF submitEnnoAdvice, submitOdunoIdeal, answerEnno, receiptExpires, vars
<1>6. CASE submitOdunoMeditation
  BY <1>1, <1>6 DEF submitOdunoMeditation
<1>7. ASSUME NEW p \in Plans, submitEnnoPlan(p)
      PROVE  ReviewInv'
  BY <1>1, <1>7 DEF submitEnnoPlan
<1>8. ASSUME NEW limit \in ClaimLimits, claimEnnoWork(limit)
      PROVE  ReviewInv'
  BY <1>1, <1>8 DEF claimEnnoWork
<1>9. ASSUME NEW c \in issued, reportFailed(c)
      PROVE  ReviewInv'
  BY <1>1, <1>9 DEF reportFailed, replans
<1>10. ASSUME NEW p \in Procs, NEW c \in issued, NEW mutated \in BOOLEAN, reportBegins(p, c, mutated)
       PROVE  ReviewInv'
  <2>1. versionsHold([kind |-> "report", credential |-> c, mutated |-> mutated], repo)
    BY DEF versionsHold
  <2> QED
    BY <1>2a, <1>3, <1>10, <2>1 DEF reportBegins
<1>11. ASSUME NEW p \in Procs, reportPasses(p) \/ reportRejected(p)
       PROVE  ReviewInv'
  <2>1. /\ op' = [op EXCEPT ![p] = Idle] /\ UNCHANGED <<evidence, repo, accepted>>
        /\ status' \in {"enno_verifying", "zenki_planning", "goki_executing"}
    BY <1>11 DEF reportPasses, reportRejected, reportHolds, replans
  <2>2. \A q \in Procs : op'[q] = IF q = p THEN Idle ELSE op[q]
    BY <1>0, <2>1
  <2>3. \A q \in Procs : versionsHold(op'[q], repo)
    BY <1>0, <1>4, <2>2
  <2> QED
    BY <1>3, <2>1, <2>3 DEF ReviewInv, AcceptedIsGood
<1>12. ASSUME NEW p \in Procs, prepareReads(p)
       PROVE  ReviewInv'
  <2>1. versionsHold([kind |-> "prepare", revision |-> revision, pre |-> repo,
                      post |-> repo, cached |-> FALSE, passed |-> FALSE], repo)
    BY <1>0 DEF versionsHold
  <2> QED
    BY <1>2a, <1>3, <1>12, <2>1 DEF prepareReads
<1>13. ASSUME NEW p \in Procs, prepareBegins(p)
       PROVE  ReviewInv'
  <2>1. /\ op[p].kind = "prepare" /\ UNCHANGED <<evidence, repo, status, accepted>>
        /\ op' = [op EXCEPT ![p].kind = IF fresh(op[p].pre) THEN "verified" ELSE "verify",
                            ![p].cached = fresh(op[p].pre)]
    BY <1>13 DEF prepareBegins
  <2>2. op[p] \in Verifying
    BY <1>0, <2>1 DEF Idle, Reporting, Verifying
  <2>3. op[p].pre <= repo /\ ~op[p].passed
    BY <1>0, <2>1 DEF versionsHold
  <2>4. /\ op'[p].kind \in {"verified", "verify"} /\ op'[p].pre = op[p].pre
        /\ op'[p].passed = op[p].passed
        /\ \A q \in Procs \ {p} : op'[q] = op[q]
    BY <1>0, <2>1, <2>2 DEF Verifying
  <2>5. versionsHold(op'[p], repo)
    BY <2>3, <2>4 DEF versionsHold
  <2> QED
    BY <1>2, <1>3, <2>1, <2>4, <2>5
<1>14. ASSUME NEW p \in Procs, runVerifiers(p)
       PROVE  ReviewInv'
  <2>1. PICK passed \in {FALSE, (repo \in Good)} :
          op' = [op EXCEPT ![p].kind = "verified", ![p].passed = passed]
    BY <1>14 DEF runVerifiers
  <2>2. op[p].kind = "verify" /\ UNCHANGED <<evidence, repo, status, accepted>>
    BY <1>14 DEF runVerifiers
  <2>3. op[p] \in Verifying
    BY <1>0, <2>2 DEF Idle, Reporting, Verifying
  <2>4. op[p].pre <= repo
    BY <1>0, <2>2 DEF versionsHold
  <2>5. /\ op'[p].kind = "verified" /\ op'[p].pre = op[p].pre /\ op'[p].passed = passed
        /\ \A q \in Procs \ {p} : op'[q] = op[q]
    BY <1>0, <2>1, <2>3 DEF Verifying
  <2>6. versionsHold(op'[p], repo)
    BY <2>1, <2>4, <2>5 DEF versionsHold
  <2> QED
    BY <1>2, <1>3, <2>2, <2>5, <2>6
<1>15. ASSUME NEW p \in Procs, captureAfter(p)
       PROVE  ReviewInv'
  <2>1. /\ op[p].kind = "verified" /\ UNCHANGED <<evidence, repo, status, accepted>>
        /\ op' = [op EXCEPT ![p].kind = "captured", ![p].post = repo]
    BY <1>15 DEF captureAfter
  <2>2. op[p] \in Verifying
    BY <1>0, <2>1 DEF Idle, Reporting, Verifying
  <2>3. op[p].pre <= repo /\ (op[p].passed /\ op[p].pre = repo => op[p].pre \in Good)
    BY <1>0, <2>1 DEF versionsHold
  <2>4. /\ op'[p].kind = "captured" /\ op'[p].pre = op[p].pre /\ op'[p].post = repo
        /\ op'[p].passed = op[p].passed
        /\ \A q \in Procs \ {p} : op'[q] = op[q]
    BY <1>0, <2>1, <2>2 DEF Verifying
  <2>5. versionsHold(op'[p], repo)
    BY <1>0, <2>3, <2>4 DEF versionsHold
  <2> QED
    BY <1>2, <1>3, <2>1, <2>4, <2>5
<1>16. ASSUME NEW p \in Procs, prepareEnds(p)
       PROVE  ReviewInv'
  <2>1. /\ op[p].kind = "captured" /\ op' = [op EXCEPT ![p] = Idle]
        /\ UNCHANGED <<repo, status, accepted>>
        /\ \/ UNCHANGED evidence
           \/ evidence' = [revision |-> revision, mutation |-> mutation, pre |-> op[p].pre,
                           post |-> op[p].post, passed |-> op[p].passed]
    BY <1>16 DEF prepareEnds, finishVerifierRuns
  <2>2. op[p].passed /\ op[p].pre = op[p].post => op[p].pre \in Good
    BY <1>0, <2>1 DEF versionsHold
  <2>3. EvidenceHolds'
    BY <1>3, <2>1, <2>2 DEF EvidenceHolds
  <2> QED
    BY <1>2a, <1>4, <2>1, <2>3
<1>17. ASSUME NEW p \in Procs, breaksOff(p)
       PROVE  ReviewInv'
  BY <1>2a, <1>3, <1>4, <1>17 DEF breaksOff
<1>18. ASSUME NEW decision, finishEnno(decision)
       PROVE  ReviewInv'
  <2>1. fresh(repo) /\ UNCHANGED <<op, evidence, repo>>
    BY <1>18 DEF finishEnno, finalEvidenceReady
  <2>2. evidence # None /\ evidence.pre = repo /\ evidence.post = repo
    BY <2>1 DEF fresh
  <2>3. \/ evidence.passed /\ accepted' = repo
        \/ status' = "zenki_planning"
    BY <1>18 DEF finishEnno
  <2>4. AcceptedIsGood'
    BY <1>0, <2>2, <2>3 DEF AcceptedIsGood, EvidenceHolds
  <2> QED
    BY <1>0, <1>3, <2>1, <2>4 DEF ReviewInv
<1>19. ASSUME NEW s \in Sessions, NEW allowed \in BOOLEAN, continuation(s, allowed)
       PROVE  ReviewInv'
  BY <1>1, <1>19 DEF continuation
<1>20. ASSUME NEW choice \in {"ordinary", "cancelled"}, selectExecution(choice)
       PROVE  ReviewInv'
  BY <1>1, <1>20 DEF selectExecution
<1>21. ASSUME NEW outcome \in Outcomes, checkpoint(outcome)
       PROVE  ReviewInv'
  BY <1>1, <1>21 DEF checkpoint
<1>22. ASSUME NEW l \in leases, leaseExpires(l)
       PROVE  ReviewInv'
  BY <1>1, <1>22 DEF leaseExpires
<1>23. ASSUME NEW version \in 1..MaxEdits, editRepository(version)
       PROVE  ReviewInv'
  <2>1. repo' = repo + 1 /\ UNCHANGED <<op, evidence, status, accepted>>
    BY <1>23 DEF editRepository
  <2>2. ASSUME NEW p \in Procs
        PROVE  versionsHold(op[p], repo + 1)
    <3>1. CASE op[p] \in Verifying
      <4>1. op[p].pre \in Nat /\ op[p].post \in Nat
        BY <3>1, BoundsAssumption DEF Verifying
      <4>2. versionsHold(op[p], repo)
        BY <1>0
      <4> QED
        BY <1>0, <4>1, <4>2 DEF versionsHold
    <3>2. CASE op[p] \in {Idle} \cup Reporting
      BY <3>2 DEF versionsHold, Idle, Reporting
    <3> QED
      BY <1>0, <3>1, <3>2
  <2> QED
    BY <1>3, <2>1, <2>2 DEF ReviewInv, AcceptedIsGood
<1> QED
  BY <1>5, <1>6, <1>7, <1>8, <1>9, <1>10, <1>11, <1>12, <1>13, <1>14, <1>15, <1>16, <1>17, <1>18, <1>19,
     <1>20, <1>21, <1>22, <1>23 DEF Next

(***************************************************************************)
(* A run that is meditated on or completed was accepted on a version of    *)
(* the repository the final verifiers pass on, for any number of edits     *)
(* before, between and after the capture, the verifiers, the second        *)
(* capture and the review, and any processes that verify at once.          *)
(***************************************************************************)
THEOREM AcceptedGood == Spec => []AcceptedIsGood
<1>1. Init => TypeInv /\ ReviewInv
  BY TypeInit, ReviewBegins
<1>2. TypeInv /\ ReviewInv /\ [Next]_vars => (TypeInv /\ ReviewInv)'
  BY TypeStep, ReviewStep
<1>3. TypeInv /\ ReviewInv => AcceptedIsGood
  BY DEF ReviewInv
<1> QED
  BY <1>1, <1>2, <1>3, PTL DEF Spec

------------------------------------------------------------------------------
(* The plugin that continues a session.                                    *)

Turns == Plugin!Turns
Started == {"hook_pending", "hook", "stop", "retry", "fail", "continue", "prompt_pending", "latest", "send"}

PluginTypes ==
  /\ session \in [terminal : 0..MaxTurns, input : Nat, idle : BOOLEAN] /\ binding \in Nat \cup {None}
  /\ receipts \in [Turns -> Nat \cup {None}] /\ outbox \in [Turns -> Box \cup {None}]
  /\ prompted \in [Turns -> Nat] /\ message \in [Turns -> {"none", "queued", "in"}]
  /\ drained \in BOOLEAN /\ alive \in BOOLEAN
  /\ flight \in Flight \cup {None} /\ scan \in ScanRow \cup {None}

\* A flight has a boundary of the session, and an outbox that is not settled.
FlightSound ==
  flight # None =>
    /\ session.terminal > 0
    /\ flight.pc # "boundary" => flight.boundary # None
    /\ flight.pc \notin {"boundary", "open"} => flight.box # None /\ flight.box.phase \notin Plugin!Final
    /\ flight.pc \in {"latest", "send", "sent"} => receipts[flight.boundary.terminal] # None

ScanSound ==
  scan # None =>
    /\ \A t \in scan.todo : scan.boxes[t] # None
    /\ scan.doing # None => scan.doing \in scan.todo
    /\ scan.verdict = "accepted" => scan.doing # None /\ message[scan.doing] = "in"

Truthful ==
  /\ \A t \in Turns : outbox[t] # None /\ outbox[t].phase = "accepted" => message[t] = "in"
  /\ \A t \in Turns : prompted[t] > 0 => receipts[t] # None

\* What was prompted is stored as being sent or settled, and a flight on its
\* way to the prompt is the first.
Stored ==
  /\ flight # None => alive
  /\ \A t \in Turns : prompted[t] <= 1
  /\ \A t \in Turns : prompted[t] > 0 => outbox[t] # None /\ outbox[t].phase \in Plugin!Final \cup {"sending"}
  /\ flight # None /\ flight.pc \in Started => prompted[flight.boundary.terminal] = 0
  /\ flight # None /\ flight.pc = "send" =>
       /\ outbox[flight.boundary.terminal] # None
       /\ outbox[flight.boundary.terminal].phase \in Plugin!Final \cup {"sending"}

PluginInv == PluginTypes /\ FlightSound /\ ScanSound /\ Truthful /\ (drained \/ Stored)

\* The types PluginInv says of.
LEMMA PluginHas ==
  ASSUME PluginInv
  PROVE  /\ \A t \in Turns : outbox[t] \in Box \cup {None} /\ prompted[t] \in Nat /\ receipts[t] \in Nat \cup {None}
         /\ \A t \in Turns : message[t] \in {"none", "queued", "in"}
         /\ flight # None => /\ flight \in Flight /\ flight.pc \in FlightSteps /\ flight.box \in Box \cup {None} /\ flight.binding \in Nat
                             /\ flight.pc # "boundary" => flight.boundary \in ContextBoundary /\ flight.boundary.terminal \in Turns /\ flight.boundary.input \in Nat
                             /\ flight.pc \notin {"boundary", "open"} => flight.box \in Box
         /\ scan # None => /\ scan \in ScanRow /\ scan.todo \subseteq Turns /\ \A t \in scan.todo : scan.boxes[t] \in Box
         /\ Turns \subseteq Nat
<1>1. \A t \in Turns : outbox[t] \in Box \cup {None} /\ prompted[t] \in Nat /\ receipts[t] \in Nat \cup {None}
  BY DEF PluginInv, PluginTypes
<1>2. \A t \in Turns : message[t] \in {"none", "queued", "in"}
  BY DEF PluginInv, PluginTypes
<1>3. ASSUME flight # None
      PROVE  /\ flight \in Flight /\ flight.pc \in FlightSteps /\ flight.box \in Box \cup {None} /\ flight.binding \in Nat
             /\ flight.pc # "boundary" => flight.boundary \in ContextBoundary /\ flight.boundary.terminal \in Turns /\ flight.boundary.input \in Nat
             /\ flight.pc \notin {"boundary", "open"} => flight.box \in Box
  <2>1. flight \in Flight
    BY <1>3 DEF PluginInv, PluginTypes
  <2>2. flight.pc \in FlightSteps /\ flight.box \in Box \cup {None} /\ flight.boundary \in ContextBoundary \cup {None} /\ flight.binding \in Nat
    BY <2>1 DEF Flight
  <2>3. \A b \in ContextBoundary : b.terminal \in Turns /\ b.input \in Nat
    BY DEF ContextBoundary, Turns
  <2> QED
    BY <1>3, <2>1, <2>2, <2>3 DEF PluginInv, FlightSound
<1>4. ASSUME scan # None
      PROVE  /\ scan \in ScanRow /\ scan.todo \subseteq Turns /\ \A t \in scan.todo : scan.boxes[t] \in Box
  <2>1. scan \in ScanRow
    BY <1>4 DEF PluginInv, PluginTypes
  <2>2. scan.todo \subseteq Turns /\ scan.boxes \in [Turns -> Box \cup {None}]
    BY <2>1 DEF ScanRow, Turns
  <2> QED
    BY <1>4, <2>1, <2>2 DEF PluginInv, ScanSound
<1>5. Turns \subseteq Nat
  BY ReviewAssumption DEF Turns, Plugin!Turns
<1> QED
  BY <1>1, <1>2, <1>3, <1>4, <1>5

\* What is saved is an outbox, of one terminal message.
LEMMA SaveTyped ==
  ASSUME PluginInv, NEW t \in Turns, NEW box \in Box, Plugin!save(t, box)
  PROVE  /\ outbox' \in [Turns -> Box \cup {None}] /\ outbox'[t] = (IF alive THEN box ELSE outbox[t])
         /\ \A u \in Turns : u # t => outbox'[u] = outbox[u]
BY DEF PluginInv, PluginTypes, Plugin!save

\* A flight that goes on keeps its boundary.
LEMMA FlightGoes ==
  ASSUME flight \in Flight, NEW pc \in FlightSteps, NEW box \in Box, Plugin!goto(pc, box)
  PROVE  flight' \in Flight /\ flight' # None /\ flight'.pc = pc /\ flight'.box = box /\ flight'.boundary = flight.boundary
<1>1. flight' = [flight EXCEPT !.pc = pc, !.box = box]
  BY DEF Plugin!goto
<1>2. flight' \in Flight /\ flight'.pc = pc /\ flight'.box = box /\ flight'.boundary = flight.boundary
  BY <1>1 DEF Flight
<1> QED
  BY <1>2, ReviewAssumption

\* An outbox of another phase.
LEMMA PhaseSet ==
  ASSUME NEW box \in Box, NEW phase \in {"hook_pending", "prompt_pending", "sending", "accepted", "stopped", "quarantined"}
  PROVE  [box EXCEPT !.phase = phase] \in Box /\ [box EXCEPT !.phase = phase].phase = phase /\ [box EXCEPT !.phase = phase] # None
<1>1. [box EXCEPT !.phase = phase] \in Box /\ [box EXCEPT !.phase = phase].phase = phase
  BY DEF Box, Plugin!Final
<1> QED
  BY <1>1, ReviewAssumption

\* What settles an outbox, or lands.
Settled(t) ==
  \/ outbox' = outbox
  \/ \E phase \in Plugin!Final, box \in Box :
        Plugin!save(t, [box EXCEPT !.phase = phase]) /\ (phase = "accepted" => message[t] = "in")

\* An outbox that is settled while nothing else changes keeps PluginInv: with
\* its flight, the reconciliation and every other outbox.
LEMMA Settles ==
  ASSUME PluginInv, UNCHANGED <<session, binding, receipts, prompted, message, drained, alive>>,
         flight' \in {None, flight}, scan' \in ScanRow \cup {None}, ScanSound', NEW t \in Turns, Settled(t)
  PROVE  PluginInv'
<1>1. /\ outbox' \in [Turns -> Box \cup {None}] /\ \A u \in Turns : u # t => outbox'[u] = outbox[u]
      /\ \/ outbox'[t] = outbox[t]
         \/ outbox'[t] # None /\ outbox'[t].phase \in Plugin!Final /\ (outbox'[t].phase = "accepted" => message[t] = "in")
  <2>1. CASE outbox' = outbox
    BY <2>1 DEF PluginInv, PluginTypes
  <2>2. ASSUME NEW phase \in Plugin!Final, NEW box \in Box, Plugin!save(t, [box EXCEPT !.phase = phase]), phase = "accepted" => message[t] = "in"
        PROVE  /\ outbox' \in [Turns -> Box \cup {None}] /\ \A u \in Turns : u # t => outbox'[u] = outbox[u]
               /\ \/ outbox'[t] = outbox[t]
                  \/ outbox'[t] # None /\ outbox'[t].phase \in Plugin!Final /\ (outbox'[t].phase = "accepted" => message[t] = "in")
    <3> DEFINE new == [box EXCEPT !.phase = phase]
    <3>1. new \in Box /\ new.phase = phase /\ new # None
      <4>1. phase \in {"hook_pending", "prompt_pending", "sending", "accepted", "stopped", "quarantined"}
        BY DEF Plugin!Final
      <4> QED
        BY <4>1, PhaseSet
    <3>2. Plugin!save(t, new)
      BY <2>2
    <3> HIDE DEF new
    <3> QED
      BY <2>2, <3>1, <3>2, SaveTyped
  <2> QED
    BY <2>1, <2>2 DEF Settled
<1>2. PluginTypes'
  BY <1>1 DEF PluginInv, PluginTypes
<1>3. FlightSound'
  BY DEF PluginInv, FlightSound
<1>4. Truthful'
  BY <1>1 DEF PluginInv, Truthful
<1>5. ~drained' => Stored'
  <2> SUFFICES ASSUME ~drained' PROVE Stored'
    OBVIOUS
  <2>1. Stored
    BY DEF PluginInv
  <2>2. \A u \in Turns : prompted[u] > 0 => outbox'[u] # None /\ outbox'[u].phase \in Plugin!Final \cup {"sending"}
    BY <1>1, <2>1 DEF Stored
  <2>3. flight' # None => /\ flight' = flight /\ alive
                          /\ flight.pc \in Started => prompted[flight.boundary.terminal] = 0
                          /\ flight.pc = "send" => /\ flight.boundary.terminal \in Turns
                                                   /\ outbox[flight.boundary.terminal] # None
                                                   /\ outbox[flight.boundary.terminal].phase \in Plugin!Final \cup {"sending"}
    BY <2>1, PluginHas DEF Stored
  <2>4. flight' # None /\ flight.pc = "send" => /\ outbox'[flight.boundary.terminal] # None
                                                /\ outbox'[flight.boundary.terminal].phase \in Plugin!Final \cup {"sending"}
    BY <1>1, <2>3
  <2> QED
    BY <2>1, <2>2, <2>3, <2>4 DEF Stored
<1> QED
  BY <1>2, <1>3, <1>4, <1>5 DEF PluginInv

\* A flight that settles its outbox, or leaves it, and lands.
LEMMA Lands ==
  ASSUME PluginInv, UNCHANGED <<session, binding, receipts, prompted, message, drained, alive, scan>>, flight' = None,
         NEW t \in Turns, Settled(t)
  PROVE  PluginInv'
<1>1. scan' \in ScanRow \cup {None} /\ ScanSound'
  BY DEF PluginInv, PluginTypes, ScanSound
<1> QED
  BY <1>1, Settles

\* A flight that lands, or a reconciliation that breaks off, and saves nothing.
LEMMA LandsUnsaved ==
  ASSUME PluginInv, UNCHANGED <<session, binding, receipts, prompted, message, drained, alive, outbox>>, flight' \in {None, flight},
         scan' \in {None, scan}
  PROVE  PluginInv'
BY DEF PluginInv, PluginTypes, FlightSound, ScanSound, Truthful, Stored

\* What becomes of the session is a session.
LEMMA SessionSet ==
  ASSUME session \in [terminal : 0..MaxTurns, input : Nat, idle : BOOLEAN], NEW terminal \in 0..MaxTurns, NEW input \in Nat, NEW idle \in BOOLEAN
  PROVE  /\ [session EXCEPT !.terminal = terminal, !.idle = idle] \in [terminal : 0..MaxTurns, input : Nat, idle : BOOLEAN]
         /\ [session EXCEPT !.terminal = terminal, !.idle = idle].terminal = terminal
         /\ [session EXCEPT !.input = input, !.idle = idle] \in [terminal : 0..MaxTurns, input : Nat, idle : BOOLEAN]
         /\ [session EXCEPT !.input = input, !.idle = idle].terminal = session.terminal
OBVIOUS

\* The session, the user and the run move on.
LEMMA SessionMoves ==
  ASSUME PluginInv, Plugin!turnEnds \/ Plugin!userPrompts \/ Plugin!runChanges \/ \E t \in Plugin!Turns : Plugin!admit(t)
  PROVE  PluginInv'
<1>1. session \in [terminal : 0..MaxTurns, input : Nat, idle : BOOLEAN] /\ MaxTurns \in Nat /\ MaxInputs \in Nat /\ Turns \subseteq Nat
  BY ReviewAssumption, PluginHas DEF PluginInv, PluginTypes
<1>2. PICK yes \in BOOLEAN, no \in BOOLEAN : yes = TRUE /\ no = FALSE
  OBVIOUS
<1>3. ASSUME session' \in [terminal : 0..MaxTurns, input : Nat, idle : BOOLEAN], session'.terminal >= session.terminal,
             binding' \in Nat \cup {None}, message' \in [Turns -> {"none", "queued", "in"}],
             \A t \in Turns : message[t] = "in" => message'[t] = "in",
             UNCHANGED <<receipts, outbox, prompted, drained, alive, flight, scan>>
      PROVE  PluginInv'
  <2>1. PluginTypes' /\ Truthful' /\ (drained \/ Stored)'
    BY <1>3 DEF PluginInv, PluginTypes, Truthful, Stored
  <2>2. FlightSound'
    <3>1. session.terminal > 0 => session'.terminal > 0
      BY <1>1, <1>3
    <3> QED
      BY <1>3, <3>1 DEF PluginInv, FlightSound
  <2>3. ScanSound'
    <3>1. scan # None /\ scan.doing # None => scan.doing \in Turns
      BY PluginHas DEF PluginInv, ScanSound
    <3> QED
      BY <1>3, <3>1 DEF PluginInv, ScanSound
  <2> QED
    BY <2>1, <2>2, <2>3 DEF PluginInv
<1>4. CASE Plugin!turnEnds
  <2>1. session' = [session EXCEPT !.terminal = session.terminal + 1, !.idle = yes]
    BY <1>2, <1>4 DEF Plugin!turnEnds
  <2>2. session' \in [terminal : 0..MaxTurns, input : Nat, idle : BOOLEAN] /\ session'.terminal >= session.terminal
    <3>1. session.terminal + 1 \in 0..MaxTurns /\ session.terminal + 1 >= session.terminal
      BY <1>1, <1>4 DEF Plugin!turnEnds
    <3> QED
      BY <1>1, <2>1, <3>1, SessionSet
  <2> QED
    BY <1>3, <1>4, <2>2 DEF Plugin!turnEnds, Plugin!pluginVars, PluginInv, PluginTypes
<1>5. CASE Plugin!userPrompts
  <2>1. session' = [session EXCEPT !.input = session.input + 1, !.idle = no]
    BY <1>2, <1>5 DEF Plugin!userPrompts
  <2>2. session' \in [terminal : 0..MaxTurns, input : Nat, idle : BOOLEAN] /\ session'.terminal >= session.terminal
    <3>1. session.input + 1 \in Nat /\ session.terminal >= session.terminal /\ session.terminal \in 0..MaxTurns
      BY <1>1
    <3> QED
      BY <1>1, <2>1, <3>1, SessionSet
  <2> QED
    BY <1>3, <1>5, <2>2 DEF Plugin!userPrompts, Plugin!pluginVars, PluginInv, PluginTypes
<1>6. CASE Plugin!runChanges
  <2>1. binding' \in Nat \cup {None} /\ session'.terminal >= session.terminal
    BY <1>1, <1>6 DEF Plugin!runChanges, PluginInv, PluginTypes
  <2> QED
    BY <1>1, <1>3, <1>6, <2>1 DEF Plugin!runChanges, Plugin!pluginVars, PluginInv, PluginTypes
<1>7. ASSUME NEW t \in Turns, Plugin!admit(t) PROVE PluginInv'
  <2>1. message' = [message EXCEPT ![t] = "in"] \/ (message' = [message EXCEPT ![t] = "none"] /\ message[t] = "queued")
    BY <1>7 DEF Plugin!admit
  <2>2. message' \in [Turns -> {"none", "queued", "in"}] /\ \A u \in Turns : message[u] = "in" => message'[u] = "in"
    BY <2>1 DEF PluginInv, PluginTypes
  <2>3. session' = [session EXCEPT !.input = MaxInputs + t, !.idle = no] \/ session' = session
    BY <1>2, <1>7 DEF Plugin!admit
  <2>4. session' \in [terminal : 0..MaxTurns, input : Nat, idle : BOOLEAN] /\ session'.terminal >= session.terminal
    <3>1. MaxInputs + t \in Nat /\ session.terminal >= session.terminal /\ session.terminal \in 0..MaxTurns
      BY <1>1
    <3>2. CASE session' = [session EXCEPT !.input = MaxInputs + t, !.idle = no]
      <4>1. session' = [terminal |-> session.terminal, input |-> MaxInputs + t, idle |-> FALSE]
        BY <1>1, <1>2, <3>2
      <4> QED
        BY <3>1, <4>1
    <3>3. CASE session' = session
      BY <1>1, <3>1, <3>3
    <3> QED
      BY <2>3, <3>2, <3>3
  <2> QED
    BY <1>3, <1>7, <2>2, <2>4 DEF Plugin!admit, Plugin!pluginVars, PluginInv, PluginTypes
<1> QED
  BY <1>4, <1>5, <1>6, <1>7 DEF Turns

\* A flight starts without a boundary and without an outbox.
LEMMA FlightStarts ==
  ASSUME PluginInv, NEW allow \in BOOLEAN, Plugin!startRun(allow)
  PROVE  PluginInv'
<1>1. /\ alive /\ flight = None /\ session.terminal > 0
      /\ UNCHANGED <<session, binding, receipts, outbox, prompted, message, drained, alive, sending, scan>>
  BY DEF Plugin!startRun
<1>2. CASE binding = None
  BY <1>1, <1>2, LandsUnsaved DEF Plugin!startRun
<1>3. CASE binding # None
  <2> DEFINE new == [pc |-> "boundary", allow |-> allow, binding |-> binding, boundary |-> None, box |-> None]
  <2>1. flight' = new
    BY <1>3 DEF Plugin!startRun
  <2>2. new \in Flight /\ new.pc = "boundary"
    BY <1>3 DEF Flight, FlightSteps, PluginInv, PluginTypes
  <2> HIDE DEF new
  <2> QED
    BY <1>1, <2>1, <2>2 DEF PluginInv, PluginTypes, FlightSound, ScanSound, Truthful, Stored, Started
<1> QED
  BY <1>2, <1>3

\* The boundary is one of the session.
LEMMA BoundaryRead ==
  ASSUME PluginInv, Plugin!readBoundary
  PROVE  PluginInv'
<1>1. /\ flight # None /\ flight.pc = "boundary"
      /\ UNCHANGED <<session, binding, receipts, outbox, prompted, message, drained, events, alive, faults, sending, scan>>
  BY DEF Plugin!readBoundary, Plugin!at
<1>2. CASE flight' = None
  BY <1>1, <1>2, LandsUnsaved
<1>3. CASE flight' # None
  <2>1. alive /\ session.idle /\ flight' = [flight EXCEPT !.pc = "open", !.boundary = [terminal |-> session.terminal, input |-> session.input]]
    BY <1>3 DEF Plugin!readBoundary, Plugin!boundary, Plugin!landed
  <2> DEFINE now == [terminal |-> session.terminal, input |-> session.input]
  <2>2. now \in ContextBoundary
    BY <1>1 DEF ContextBoundary, PluginInv, PluginTypes, FlightSound, Plugin!Turns
  <2>3. flight' = [flight EXCEPT !.pc = "open", !.boundary = now]
    BY <2>1
  <2> HIDE DEF now
  <2>4. flight' \in Flight /\ flight'.pc = "open" /\ flight'.boundary # None
    BY <1>1, <2>2, <2>3, PluginHas, ReviewAssumption DEF Flight, FlightSteps
  <2> QED
    BY <1>1, <1>3, <2>1, <2>4 DEF PluginInv, PluginTypes, FlightSound, ScanSound, Truthful, Stored, Started
<1> QED
  BY <1>2, <1>3

\* A flight goes on with its outbox, and may store it on the way to the prompt.
LEMMA GoesOn ==
  ASSUME PluginInv, UNCHANGED <<session, binding, prompted, message, drained, alive, scan>>,
         flight # None, flight.pc \notin {"boundary"}, NEW pc \in FlightSteps \ {"boundary", "open"}, NEW box \in Box, Plugin!goto(pc, box),
         box.phase \notin Plugin!Final, NEW t, t = flight.boundary.terminal,
         outbox' = outbox \/ Plugin!save(t, box),
         receipts' \in [Turns -> Nat \cup {None}], \A u \in Turns : receipts[u] # None => receipts'[u] # None,
         pc \in {"latest", "send", "sent"} => receipts[t] # None,
         ~drained => prompted[t] = 0,
         pc = "send" => Plugin!save(t, box) /\ box.phase = "sending"
  PROVE  PluginInv'
<1>1. t \in Turns /\ flight \in Flight
  BY PluginHas
<1>2. flight' \in Flight /\ flight' # None /\ flight'.pc = pc /\ flight'.box = box /\ flight'.boundary = flight.boundary
  BY <1>1, FlightGoes
<1>3. /\ outbox' \in [Turns -> Box \cup {None}] /\ \A u \in Turns : u # t => outbox'[u] = outbox[u]
      /\ outbox'[t] \in {outbox[t], box}
      /\ Plugin!save(t, box) /\ alive => outbox'[t] = box
  <2>1. CASE outbox' = outbox /\ ~Plugin!save(t, box)
    BY <2>1 DEF PluginInv, PluginTypes
  <2>2. CASE Plugin!save(t, box)
    BY <1>1, <2>2, SaveTyped
  <2> QED
    BY <2>1, <2>2
<1>4. PluginTypes'
  BY <1>2, <1>3 DEF PluginInv, PluginTypes
<1>5. box # None /\ flight.boundary # None
  BY PluginHas, ReviewAssumption
<1>6. FlightSound'
  BY <1>1, <1>2, <1>5 DEF PluginInv, FlightSound
<1>7. Truthful'
  <2>1. box.phase # "accepted"
    BY DEF Plugin!Final
  <2> QED
    BY <1>1, <1>3, <2>1 DEF PluginInv, Truthful
<1>8. ScanSound'
  BY DEF PluginInv, ScanSound
<1>9. ~drained' => Stored'
  <2> SUFFICES ASSUME ~drained' PROVE Stored'
    OBVIOUS
  <2>1. Stored /\ alive /\ prompted[t] = 0
    BY DEF PluginInv, Stored
  <2>2. pc = "send" => outbox'[t] = box /\ box # None /\ box.phase = "sending"
    BY <1>3, <1>5, <2>1
  <2>3. \A u \in Turns : prompted[u] > 0 => u # t /\ outbox'[u] = outbox[u]
    BY <1>3, <2>1
  <2> QED
    BY <1>1, <1>2, <1>3, <2>1, <2>2, <2>3 DEF Stored
<1> QED
  BY <1>4, <1>6, <1>7, <1>8, <1>9 DEF PluginInv

\* A flight goes on only with an outbox that is not settled and was not being
\* sent, so the terminal message was never prompted.
LEMMA OutboxOpened ==
  ASSUME PluginInv, Plugin!openOutbox
  PROVE  PluginInv'
<1> DEFINE t == flight.boundary.terminal
           box == IF outbox[t] = None THEN Plugin!newOutbox ELSE outbox[t]
<1>1. /\ flight # None /\ flight.pc = "open"
      /\ UNCHANGED <<session, binding, receipts, prompted, message, drained, events, alive, faults, sending, scan>>
  BY DEF Plugin!openOutbox, Plugin!at
<1>2. t \in Turns /\ flight \in Flight
  BY <1>1, PluginHas
<1>3. box \in Box /\ box # None
  <2>1. Plugin!newOutbox \in Box
    BY <1>1, PluginHas DEF Plugin!newOutbox, Box
  <2> QED
    BY <1>2, <2>1, PluginHas, ReviewAssumption
<1>4. (box.phase = "accepted" => message[t] = "in") /\ (outbox[t] = None => box.phase = "hook_pending")
      /\ box.phase \in {"hook_pending", "prompt_pending", "sending"} \cup Plugin!Final
  <2>1. outbox[t] = None => box.phase = "hook_pending"
    BY DEF Plugin!newOutbox
  <2>2. box.phase \in {"hook_pending", "prompt_pending", "sending"} \cup Plugin!Final
    BY <1>3 DEF Box
  <2> QED
    BY <1>2, <2>1, <2>2 DEF PluginInv, Truthful
<1>5. \/ flight' = None /\ Settled(t)
      \/ box.phase \in {"hook_pending", "prompt_pending"} /\ Plugin!goto(box.phase, box) /\ Plugin!save(t, box)
  <2>1. CASE flight' = None /\ outbox' = outbox
    BY <2>1 DEF Settled
  <2>2. CASE flight' = None /\ Plugin!quarantine(t, box)
    BY <1>3, <2>2 DEF Settled, Plugin!quarantine, Plugin!Final
  <2>3. CASE flight' = None /\ Plugin!save(t, [box EXCEPT !.phase = "accepted"]) /\ message[t] = "in"
    BY <1>3, <2>3 DEF Settled, Plugin!Final
  <2>4. ASSUME NEW found \in Plugin!messageFound(t), found PROVE message[t] = "in"
    BY <2>4 DEF Plugin!messageFound
  <2> QED
    BY <1>4, <2>1, <2>2, <2>3, <2>4 DEF Plugin!openOutbox, Plugin!landed
<1>6. CASE flight' = None /\ Settled(t)
  BY <1>1, <1>2, <1>6, Lands
<1>7. CASE box.phase \in {"hook_pending", "prompt_pending"} /\ Plugin!goto(box.phase, box) /\ Plugin!save(t, box)
  <2>1. ~drained => prompted[t] = 0
    <3>1. prompted[t] \in Nat
      BY <1>2, PluginHas
    <3>2. outbox[t] = None \/ outbox[t].phase \notin Plugin!Final \cup {"sending"}
      BY <1>7 DEF Plugin!Final
    <3> QED
      BY <1>2, <3>1, <3>2 DEF PluginInv, Stored
  <2> DEFINE pc == box.phase
  <2>2. pc \in FlightSteps \ {"boundary", "open"} /\ pc \notin {"latest", "send", "sent"} /\ pc \notin Plugin!Final
    BY <1>7 DEF FlightSteps, Plugin!Final
  <2>3. receipts' \in [Turns -> Nat \cup {None}] /\ \A u \in Turns : receipts[u] # None => receipts'[u] # None
    BY <1>1 DEF PluginInv, PluginTypes
  <2> HIDE DEF box
  <2> QED
    BY <1>1, <1>2, <1>3, <1>7, <2>1, <2>2, <2>3, GoesOn
<1> QED
  BY <1>5, <1>6, <1>7

\* A flight that has opened its outbox.
LEMMA FlightHas ==
  ASSUME PluginInv, flight # None, flight.pc \notin {"boundary", "open"}
  PROVE  /\ flight.boundary.terminal \in Turns /\ flight \in Flight /\ flight.box \in Box /\ flight.box # None /\ flight.box.phase \notin Plugin!Final
         /\ flight.pc \in Started /\ ~drained => prompted[flight.boundary.terminal] = 0
         /\ ~drained => alive
BY PluginHas, ReviewAssumption DEF PluginInv, FlightSound, Stored

\* The attempt is stored before the hook is called.
LEMMA HookAttempted ==
  ASSUME PluginInv, Plugin!attemptHook
  PROVE  PluginInv'
<1> DEFINE t == flight.boundary.terminal
<1>1. /\ flight # None /\ flight.pc = "hook_pending"
      /\ UNCHANGED <<session, binding, receipts, prompted, message, drained, events, alive, faults, sending, scan>>
  BY DEF Plugin!attemptHook, Plugin!at
<1>2. /\ t \in Turns /\ flight \in Flight /\ flight.box \in Box /\ flight.box # None /\ flight.box.phase \notin Plugin!Final
      /\ ~drained => prompted[t] = 0
  BY <1>1, FlightHas DEF Started
<1>3. Plugin!attempt \in Box /\ Plugin!attempt.phase = flight.box.phase
  BY <1>2 DEF Plugin!attempt, Box
<1>4. CASE flight' = None /\ Settled(t)
  BY <1>1, <1>2, <1>4, Lands
<1>5. CASE Plugin!goto("hook", Plugin!attempt) /\ Plugin!save(t, Plugin!attempt)
  <2>1. "hook" \in FlightSteps \ {"boundary", "open"} /\ "hook" \notin {"latest", "send", "sent"}
    BY DEF FlightSteps
  <2>2. receipts' \in [Turns -> Nat \cup {None}] /\ \A u \in Turns : receipts[u] # None => receipts'[u] # None
    BY <1>1 DEF PluginInv, PluginTypes
  <2> QED
    BY <1>1, <1>2, <1>3, <1>5, <2>1, <2>2, GoesOn
<1>6. \/ flight' = None /\ Settled(t)
      \/ Plugin!goto("hook", Plugin!attempt) /\ Plugin!save(t, Plugin!attempt)
  BY <1>2 DEF Plugin!attemptHook, Plugin!landed, Plugin!quarantine, Settled, Plugin!Final
<1> QED
  BY <1>4, <1>5, <1>6

\* The hook may leave a receipt, which no flight takes away.
LEMMA HookCalled ==
  ASSUME PluginInv, Plugin!callHook
  PROVE  PluginInv'
<1> DEFINE t == flight.boundary.terminal
<1>1. /\ flight # None /\ flight.pc = "hook"
      /\ UNCHANGED <<session, binding, outbox, prompted, message, drained, events, alive, faults, sending, scan>>
  BY DEF Plugin!callHook, Plugin!at
<1>2. /\ t \in Turns /\ flight \in Flight /\ flight.box \in Box /\ flight.box # None /\ flight.box.phase \notin Plugin!Final
      /\ ~drained => prompted[t] = 0
  BY <1>1, FlightHas DEF Started
<1>3. \A d \in Plugin!hookCommand(t) : /\ d.kind \in {"stop", "retry", "fail", "continue"}
                                      /\ d.receipt \in Nat \cup {None} /\ (receipts[t] # None => d.receipt # None)
  BY <1>2 DEF Plugin!hookCommand, Plugin!claimContinuation, PluginInv, PluginTypes
<1>4. \E pc \in {"stop", "retry", "fail", "continue"} :
         /\ Plugin!goto(pc, flight.box)
         /\ receipts' \in [Turns -> Nat \cup {None}] /\ \A u \in Turns : receipts[u] # None => receipts'[u] # None
  <2>1. ASSUME NEW d \in Plugin!hookCommand(t), NEW failure \in {None, "retry", "fail"},
               receipts' = [receipts EXCEPT ![t] = d.receipt], Plugin!goto(IF failure = None THEN d.kind ELSE failure, flight.box)
        PROVE  \E pc \in {"stop", "retry", "fail", "continue"} :
                  /\ Plugin!goto(pc, flight.box)
                  /\ receipts' \in [Turns -> Nat \cup {None}] /\ \A u \in Turns : receipts[u] # None => receipts'[u] # None
    <3> DEFINE pc == IF failure = None THEN d.kind ELSE failure
    <3>1. pc \in {"stop", "retry", "fail", "continue"}
      BY <1>3
    <3>2. receipts' \in [Turns -> Nat \cup {None}] /\ \A u \in Turns : receipts[u] # None => receipts'[u] # None
      BY <1>2, <1>3, <2>1 DEF PluginInv, PluginTypes
    <3> QED
      BY <2>1, <3>1, <3>2
  <2>2. ASSUME NEW failure \in {"retry", "fail"}, Plugin!goto(failure, flight.box), UNCHANGED receipts
        PROVE  \E pc \in {"stop", "retry", "fail", "continue"} :
                  /\ Plugin!goto(pc, flight.box)
                  /\ receipts' \in [Turns -> Nat \cup {None}] /\ \A u \in Turns : receipts[u] # None => receipts'[u] # None
    BY <2>2 DEF PluginInv, PluginTypes
  <2> QED
    BY <2>1, <2>2 DEF Plugin!callHook
<1>5. PICK pc \in {"stop", "retry", "fail", "continue"} :
         /\ Plugin!goto(pc, flight.box)
         /\ receipts' \in [Turns -> Nat \cup {None}] /\ \A u \in Turns : receipts[u] # None => receipts'[u] # None
  BY <1>4
<1>6. pc \in FlightSteps \ {"boundary", "open"} /\ pc \notin {"latest", "send", "sent"}
  BY DEF FlightSteps
<1> QED
  BY <1>1, <1>2, <1>5, <1>6, GoesOn

\* A prompt is pending when the receipt is that of the outbox.
LEMMA HookDecided ==
  ASSUME PluginInv, Plugin!decide
  PROVE  PluginInv'
<1> DEFINE t == flight.boundary.terminal
           next == [flight.box EXCEPT !.phase = "prompt_pending"]
<1>1. /\ flight # None /\ flight.pc \in {"stop", "retry", "fail", "continue"}
      /\ UNCHANGED <<session, binding, receipts, prompted, message, drained, events, alive, faults, sending, scan>>
  BY DEF Plugin!decide, Plugin!at
<1>2. /\ t \in Turns /\ flight \in Flight /\ flight.box \in Box /\ flight.box # None /\ flight.box.phase \notin Plugin!Final
      /\ ~drained => prompted[t] = 0
  BY <1>1, FlightHas DEF Started
<1>3. next \in Box /\ next.phase = "prompt_pending"
  BY <1>2, PhaseSet
<1>4. \/ flight' = None /\ Settled(t)
      \/ Plugin!goto("prompt_pending", next) /\ Plugin!save(t, next)
  BY <1>1, <1>2 DEF Plugin!decide, Plugin!at, Plugin!landed, Plugin!quarantine, Settled, Plugin!Final
<1> HIDE DEF next
<1>5. CASE flight' = None /\ Settled(t)
  BY <1>1, <1>2, <1>5, Lands
<1>6. CASE Plugin!goto("prompt_pending", next) /\ Plugin!save(t, next)
  <2>1. "prompt_pending" \in FlightSteps \ {"boundary", "open"} /\ "prompt_pending" \notin {"latest", "send", "sent"} \cup Plugin!Final
    BY DEF FlightSteps, Plugin!Final
  <2>2. receipts' \in [Turns -> Nat \cup {None}] /\ \A u \in Turns : receipts[u] # None => receipts'[u] # None
    BY <1>1 DEF PluginInv, PluginTypes
  <2> QED
    BY <1>1, <1>2, <1>3, <1>6, <2>1, <2>2, GoesOn
<1> QED
  BY <1>4, <1>5, <1>6

\* A flight reaches the last look with a receipt.
LEMMA ReadOnceMore ==
  ASSUME PluginInv, Plugin!preflight
  PROVE  PluginInv'
<1> DEFINE t == flight.boundary.terminal
<1>1. /\ flight # None /\ flight.pc = "prompt_pending"
      /\ UNCHANGED <<session, binding, receipts, prompted, message, drained, events, alive, faults, sending, scan>>
  BY DEF Plugin!preflight, Plugin!at
<1>2. /\ t \in Turns /\ flight \in Flight /\ flight.box \in Box /\ flight.box # None /\ flight.box.phase \notin Plugin!Final
      /\ ~drained => prompted[t] = 0
  BY <1>1, FlightHas DEF Started
<1>3. \/ flight' = None /\ Settled(t)
      \/ receipts[t] # None /\ Plugin!goto("latest", flight.box) /\ outbox' = outbox
  BY <1>2 DEF Plugin!preflight, Plugin!landed, Plugin!quarantine, Settled, Plugin!Final, Plugin!receiptMatches
<1>4. CASE flight' = None /\ Settled(t)
  BY <1>1, <1>2, <1>4, Lands
<1>5. CASE receipts[t] # None /\ Plugin!goto("latest", flight.box) /\ outbox' = outbox
  <2>1. "latest" \in FlightSteps \ {"boundary", "open"} /\ "latest" # "send"
    BY DEF FlightSteps
  <2>2. receipts' \in [Turns -> Nat \cup {None}] /\ \A u \in Turns : receipts[u] # None => receipts'[u] # None
    BY <1>1 DEF PluginInv, PluginTypes
  <2> QED
    BY <1>1, <1>2, <1>5, <2>1, <2>2, GoesOn
<1> QED
  BY <1>3, <1>4, <1>5

\* Sending is stored before the prompt, unless the plugin is disposed of.
LEMMA LatestRead ==
  ASSUME PluginInv, Plugin!readLatest
  PROVE  PluginInv'
<1> DEFINE t == flight.boundary.terminal
           next == [flight.box EXCEPT !.phase = "sending"]
<1>1. /\ flight # None /\ flight.pc = "latest"
      /\ UNCHANGED <<session, binding, receipts, prompted, message, drained, events, alive, faults, sending, scan>>
  BY DEF Plugin!readLatest, Plugin!at
<1>2. /\ t \in Turns /\ flight \in Flight /\ flight.box \in Box /\ flight.box # None /\ flight.box.phase \notin Plugin!Final
      /\ ~drained => prompted[t] = 0
  BY <1>1, FlightHas DEF Started
<1>3. next \in Box /\ next.phase = "sending" /\ receipts[t] # None
  BY <1>1, <1>2, PhaseSet DEF PluginInv, FlightSound
<1>4. \/ flight' = None /\ Settled(t)
      \/ Plugin!goto("send", next) /\ Plugin!save(t, next)
  BY <1>1, <1>2 DEF Plugin!readLatest, Plugin!at, Plugin!landed, Plugin!quarantine, Plugin!markSending, Settled, Plugin!Final
<1> HIDE DEF next
<1>5. CASE flight' = None /\ Settled(t)
  BY <1>1, <1>2, <1>5, Lands
<1>6. CASE Plugin!goto("send", next) /\ Plugin!save(t, next)
  <2>1. "send" \in FlightSteps \ {"boundary", "open"} /\ "sending" \notin Plugin!Final
    BY DEF FlightSteps, Plugin!Final
  <2>2. receipts' \in [Turns -> Nat \cup {None}] /\ \A u \in Turns : receipts[u] # None => receipts'[u] # None
    BY <1>1 DEF PluginInv, PluginTypes
  <2> QED
    BY <1>1, <1>2, <1>3, <1>6, <2>1, <2>2, GoesOn
<1> QED
  BY <1>4, <1>5, <1>6

\* The prompt is the first for its terminal message: Stored says that it was
\* not prompted before, and that what is prompted now is stored.
LEMMA PromptCalled ==
  ASSUME PluginInv, Plugin!callPrompt
  PROVE  PluginInv'
<1> DEFINE t == flight.boundary.terminal
<1>1. /\ flight # None /\ flight.pc = "send" /\ Plugin!goto("sent", flight.box)
      /\ prompted' = [prompted EXCEPT ![t] = prompted[t] + 1]
      /\ message' = [message EXCEPT ![t] = IF message[t] = "none" THEN "queued" ELSE message[t]]
      /\ UNCHANGED <<session, binding, receipts, outbox, drained, events, alive, faults, scan>>
  BY DEF Plugin!callPrompt, Plugin!at
<1>2. /\ t \in Turns /\ flight \in Flight /\ flight.box \in Box /\ flight.box # None /\ flight.box.phase \notin Plugin!Final
      /\ ~drained => prompted[t] = 0 /\ prompted[t] \in Nat
  BY <1>1, FlightHas, PluginHas DEF Started
<1>3. flight' \in Flight /\ flight' # None /\ flight'.pc = "sent" /\ flight'.box = flight.box /\ flight'.boundary = flight.boundary
  <2>1. "sent" \in FlightSteps
    BY DEF FlightSteps
  <2> QED
    BY <1>1, <1>2, <2>1, FlightGoes
<1>4. /\ prompted' \in [Turns -> Nat] /\ prompted'[t] = prompted[t] + 1 /\ \A u \in Turns : u # t => prompted'[u] = prompted[u]
      /\ message' \in [Turns -> {"none", "queued", "in"}] /\ \A u \in Turns : message[u] = "in" => message'[u] = "in"
  BY <1>1, <1>2, PluginHas DEF PluginInv, PluginTypes
<1>5. PluginTypes'
  BY <1>1, <1>3, <1>4 DEF PluginInv, PluginTypes
<1>6. FlightSound'
  BY <1>1, <1>2, <1>3 DEF PluginInv, FlightSound
<1>7. ScanSound'
  <2>1. scan # None /\ scan.doing # None => scan.doing \in Turns
    BY PluginHas DEF PluginInv, ScanSound
  <2> QED
    BY <1>1, <1>4, <2>1 DEF PluginInv, ScanSound
<1>8. Truthful'
  <2>1. receipts[t] # None
    BY <1>1 DEF PluginInv, FlightSound
  <2> QED
    BY <1>1, <1>2, <1>4, <2>1 DEF PluginInv, Truthful
<1>9. ~drained' => Stored'
  <2> SUFFICES ASSUME ~drained' PROVE Stored'
    OBVIOUS
  <2>1. Stored /\ prompted[t] = 0
    BY <1>1, <1>2 DEF PluginInv
  <2> QED
    BY <1>1, <1>2, <1>3, <1>4, <2>1 DEF Stored, Started
<1> QED
  BY <1>5, <1>6, <1>7, <1>8, <1>9 DEF PluginInv

\* The answer of the prompt settles the outbox, accepted only if the message is in.
LEMMA PromptReturned ==
  ASSUME PluginInv, Plugin!promptReturns
  PROVE  PluginInv'
<1> DEFINE t == flight.boundary.terminal
<1>1. /\ flight # None /\ flight.pc = "sent" /\ flight' = None
      /\ UNCHANGED <<session, binding, receipts, prompted, message, drained, events, alive, faults, scan>>
  BY DEF Plugin!promptReturns, Plugin!at, Plugin!landed
<1>2. t \in Turns /\ flight.box \in Box
  BY <1>1, PluginHas
<1>3. Settled(t)
  BY <1>2 DEF Plugin!promptReturns, Plugin!quarantine, Settled, Plugin!Final
<1> QED
  BY <1>1, <1>2, <1>3, Lands

\* The reconciliation starts with the outboxes there are.
LEMMA ScanStarts ==
  ASSUME PluginInv, Plugin!startScan
  PROVE  PluginInv'
<1> DEFINE new == [binding |-> binding, boxes |-> outbox, todo |-> {t \in Turns : outbox[t] # None}, doing |-> None, verdict |-> None]
<1>1. scan' = new /\ UNCHANGED <<session, binding, receipts, outbox, prompted, message, drained, events, alive, faults, flight, sending>>
  BY DEF Plugin!startScan, Turns
<1>2. new \in ScanRow /\ new.doing = None /\ new.verdict = None /\ \A t \in new.todo : new.boxes[t] # None
  BY DEF PluginInv, PluginTypes, ScanRow, Turns
<1> HIDE DEF new
<1>3. scan' \in ScanRow \cup {None} /\ ScanSound'
  BY <1>1, <1>2, ReviewAssumption DEF ScanSound
<1> QED
  BY <1>1, <1>3 DEF PluginInv, PluginTypes, FlightSound, Truthful, Stored

\* The entry is done with, whatever is left to do.
LEMMA EntryDone ==
  ASSUME PluginInv, NEW t \in Turns, scan # None, Plugin!done(t)
  PROVE  scan' \in ScanRow \cup {None} /\ (scan' # None => scan'.todo \subseteq scan.todo /\ scan'.boxes = scan.boxes /\ scan'.doing = None /\ scan'.verdict = None)
<1>1. scan \in ScanRow
  BY PluginHas
<1>2. CASE scan' = None
  BY <1>2
<1>3. CASE scan' # None
  <2>1. scan' = [scan EXCEPT !.todo = scan.todo \ {t}, !.doing = None, !.verdict = None]
    BY <1>3 DEF Plugin!done
  <2> QED
    BY <1>1, <2>1 DEF ScanRow
<1> QED
  BY <1>2, <1>3

\* The reconciliation writes its verdict over whatever the flight has stored
\* meanwhile: it can only settle what was there.
LEMMA Scans ==
  ASSUME PluginInv, NEW t \in Turns, Plugin!examine(t) \/ Plugin!readSession(t) \/ Plugin!reconcileSaved(t)
  PROVE  PluginInv'
<1>1. scan # None /\ UNCHANGED <<session, binding, receipts, prompted, message, drained, events, alive, faults, flight, sending>>
  BY DEF Plugin!examine, Plugin!readSession, Plugin!reconcileSaved
<1>2. scan \in ScanRow /\ scan.todo \subseteq Turns /\ (\A u \in scan.todo : scan.boxes[u] \in Box /\ scan.boxes[u] # None)
      /\ (scan.doing # None => scan.doing \in scan.todo)
  BY <1>1, PluginHas, ReviewAssumption DEF PluginInv, ScanSound
<1>3. ASSUME Plugin!done(t) PROVE scan' \in ScanRow \cup {None} /\ ScanSound'
  <2>1. scan' \in ScanRow \cup {None} /\ (scan' # None => scan'.todo \subseteq scan.todo /\ scan'.boxes = scan.boxes /\ scan'.doing = None /\ scan'.verdict = None)
    BY <1>1, <1>3, EntryDone
  <2> QED
    BY <1>2, <2>1, ReviewAssumption DEF ScanSound
<1>4. CASE Plugin!examine(t)
  <2>1. CASE Plugin!done(t)
    <3>1. Settled(t)
      BY <1>2, <1>4, <2>1 DEF Plugin!examine, Settled, Plugin!quarantine, Plugin!Final
    <3> QED
      BY <1>1, <1>3, <2>1, <3>1, Settles
  <2>2. CASE scan' = [scan EXCEPT !.doing = t] /\ outbox' = outbox
    <3>1. t \in scan.todo /\ scan.doing = None
      BY <1>4 DEF Plugin!examine
    <3>2. scan' \in ScanRow /\ scan'.doing = t /\ scan'.todo = scan.todo /\ scan'.boxes = scan.boxes /\ scan'.verdict = scan.verdict
      BY <1>2, <2>2 DEF ScanRow, Turns
    <3>3. ScanSound'
      BY <1>1, <1>2, <3>1, <3>2 DEF PluginInv, ScanSound
    <3> QED
      BY <1>1, <2>2, <3>2, <3>3, Settles DEF Settled
  <2> QED
    BY <1>4, <2>1, <2>2 DEF Plugin!examine
<1>5. CASE Plugin!readSession(t)
  <2>1. scan.doing = t /\ outbox' = outbox
    BY <1>5 DEF Plugin!readSession
  <2>2. PICK v \in {"run", "accepted", "quarantined"} : scan' = [scan EXCEPT !.verdict = v] /\ (v = "accepted" => message[t] = "in")
    BY <1>5 DEF Plugin!readSession, Plugin!messageFound
  <2>3. scan' \in ScanRow /\ scan'.doing = t /\ scan'.todo = scan.todo /\ scan'.boxes = scan.boxes /\ scan'.verdict = v
    BY <1>2, <2>1, <2>2 DEF ScanRow
  <2>4. t # None
    BY PluginHas, ReviewAssumption
  <2>5. ScanSound'
    BY <1>1, <1>2, <2>1, <2>2, <2>3, <2>4 DEF ScanSound
  <2> QED
    BY <1>1, <2>1, <2>3, <2>5, Settles DEF Settled
<1>6. CASE Plugin!reconcileSaved(t)
  <2>1. scan.doing = t /\ t # None /\ scan.verdict # None /\ Plugin!done(t)
    BY <1>6, PluginHas, ReviewAssumption DEF Plugin!reconcileSaved
  <2>2. scan.boxes[t] \in Box /\ scan.verdict \in {"run", "accepted", "quarantined"} /\ (scan.verdict = "accepted" => message[t] = "in")
    BY <1>1, <1>2, <2>1 DEF PluginInv, ScanSound, ScanRow
  <2>3. Settled(t)
    BY <1>6, <2>2 DEF Plugin!reconcileSaved, Settled, Plugin!Final
  <2> QED
    BY <1>1, <1>3, <2>1, <2>3, Settles
<1> QED
  BY <1>4, <1>5, <1>6

\* After a disposal during a flight nothing more is promised of what is
\* stored; a crash leaves no flight that could prompt.
LEMMA InstanceEnds ==
  ASSUME PluginInv, Plugin!dispose \/ Plugin!setup \/ Plugin!crash \/ Plugin!readFails
  PROVE  PluginInv'
<1>1. CASE Plugin!dispose
  BY <1>1 DEF Plugin!dispose, Plugin!pluginVars, PluginInv, PluginTypes, FlightSound, ScanSound, Truthful, Stored
<1>2. CASE Plugin!setup
  BY <1>2 DEF Plugin!setup, PluginInv, PluginTypes, FlightSound, ScanSound, Truthful, Stored
<1>3. CASE Plugin!crash
  BY <1>3 DEF Plugin!crash, PluginInv, PluginTypes, FlightSound, ScanSound, Truthful, Stored
<1>4. CASE Plugin!readFails
  BY <1>4, LandsUnsaved DEF Plugin!readFails, Plugin!landed
<1> QED
  BY <1>1, <1>2, <1>3, <1>4

\* Every step of the plugin keeps PluginInv.
LEMMA PluginStep == PluginInv /\ [Plugin!Next]_pluginVars => PluginInv'
<1> SUFFICES ASSUME PluginInv, [Plugin!Next]_pluginVars PROVE PluginInv'
  OBVIOUS
<1>1. CASE UNCHANGED pluginVars
  BY <1>1 DEF pluginVars, PluginInv, PluginTypes, FlightSound, ScanSound, Truthful, Stored
<1>2. CASE Plugin!Next
  <2>1. CASE Plugin!fly
    BY <2>1, BoundaryRead, OutboxOpened, HookAttempted, HookCalled, HookDecided, ReadOnceMore, LatestRead, PromptCalled, PromptReturned
    DEF Plugin!fly
  <2>2. CASE Plugin!reconcileTracked
    BY <2>2, ScanStarts, Scans DEF Plugin!reconcileTracked, Turns
  <2> QED
    BY <1>2, <2>1, <2>2, SessionMoves, FlightStarts, InstanceEnds DEF Plugin!Next
<1> QED
  BY <1>1, <1>2

\* A step of either scenario is one of the plugin, or leaves the plugin alone.
LEMMA OnlyPluginSteps == [ReviewNext]_all => [Plugin!Next]_pluginVars
BY DEF ReviewNext, all, InEnno, InPlugin, Plugin!Next, Plugin!fly, Plugin!reconcileTracked

\* The plugin begins without an outbox.
LEMMA PluginBegins == ReviewInit => PluginInv
<1> SUFFICES ASSUME ReviewInit PROVE PluginInv
  OBVIOUS
<1>1. session = [terminal |-> 0, input |-> 0, idle |-> FALSE]
  BY DEF ReviewInit, Plugin!Init
<1>2. session \in [terminal : 0..MaxTurns, input : Nat, idle : BOOLEAN]
  BY <1>1, ReviewAssumption
<1>3. /\ binding = 1
      /\ receipts = [t \in Turns |-> None] /\ outbox = [t \in Turns |-> None]
      /\ prompted = [t \in Turns |-> 0] /\ message = [t \in Turns |-> "none"]
      /\ drained = FALSE /\ alive = TRUE /\ flight = None /\ scan = None
  BY DEF ReviewInit, Plugin!Init, Turns
<1>4. PluginTypes
  BY <1>2, <1>3 DEF PluginTypes
<1>5. FlightSound /\ ScanSound /\ Truthful /\ Stored
  BY <1>3 DEF FlightSound, ScanSound, Truthful, Stored
<1> QED
  BY <1>4, <1>5 DEF PluginInv

(***************************************************************************)
(* A session is prompted at most once for a terminal message unless the    *)
(* plugin was disposed of during a flight; a prompt has a receipt, and     *)
(* what the outbox calls accepted is in the session; for any number of     *)
(* turns, inputs and faults, and in whatever order the flight, the         *)
(* reconciliation with outboxes read earlier, the user, the run, crashes   *)
(* and disposals interleave.                                               *)
(***************************************************************************)
THEOREM PluginPromptsOnce == ReviewSpec => []PromptedOnce
<1>1. PluginInv => PromptedOnce
  BY DEF PluginInv, Truthful, Stored, Turns, PromptedOnce, Plugin!PromptedOnce
<1> QED
  BY <1>1, PluginBegins, PluginStep, OnlyPluginSteps, PTL DEF ReviewSpec

=============================================================================
