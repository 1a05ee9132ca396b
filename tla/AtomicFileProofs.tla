---------------------------- MODULE AtomicFileProofs ----------------------------
(***************************************************************************)
(* Proofs about AtomicFile for any number of operations of any kinds, any  *)
(* number of edits by a user, failing calls and crashes: OutcomesAreTrue   *)
(* and NothingLost.                                                        *)
(*                                                                         *)
(* FileInv says of each operation by itself where it can stand, what it    *)
(* has planned and made, which of its names are in use and what it has     *)
(* reported (Local), and of all of them two things.  Claims: the file that *)
(* a conditional operation has renamed away is nobody else's and not the   *)
(* target's, until that operation links it back; two operations that       *)
(* succeed on the same bytes would claim the same file.  Spared: a file    *)
(* whose bytes nobody gave up is under a name that no removal under way is *)
(* free to unlink.                                                         *)
(*                                                                         *)
(* Done(p) is what a step of p has to do for all that, read against p's    *)
(* own names and the target; each action is shown to be such a step, and   *)
(* only then the other operations are brought in (DoneKeeps).              *)
(***************************************************************************)
EXTENDS MCAtomicFile, FiniteSetTheorems, TLAPS

\* Where an operation stands: planned, changing the target conditionally,
\* publishing unconditionally, removing an artifact.
Planning == {"plan", "prepare"}
Changing == {"check", "rename", "verify", "preinstall", "link", "validate", "alternates",
             "uninstall", "uninstallRename", "uninstallVerify", "uninstalled",
             "restore", "relink", "relinked", "restoredVerify", "restored", "disposeTmp"}
Publishing == {"publish", "publishNow", "published", "discard"}
Disposing == {"dispose", "disposeVerify", "disposeUnlink"}
Pcs == Planning \cup Changing \cup Publishing \cup Disposing \cup {"end", "over", "dead"}

\* What is read of a file, and the local variables of an operation.
Snapshot == Nat \X Nat
Artifact == Nat \X Nat \X Nat
Errors == {"none", "failed", "unlinked", "installed"}
Operation == [pc : Pcs, kind : {"none", "write", "unlink", "replace", "overwrite"}, guards : BOOLEAN,
       expected : Snapshot \cup {Absent}, planned : Artifact \cup {Absent}, temp : Artifact \cup {Absent},
       links : Nat, err : Errors, failures : SUBSET (Names \cup {Unproven}),
       victim : Names, bound : Artifact \cup {Absent}, ret : {"end", "disposeTmp", "restoredVerify", "uninstalled"}]

-----------------------------------------------------------------------------
(* Names and reads                                                         *)

\* The names of an operation are its own, and each another.
LEMMA OwnNames ==
  ASSUME NEW p \in Procs
  PROVE  /\ namesOf(p) = {tmp(p), quarantine(p), rollback(p), disposal(tmp(p)), disposal(quarantine(p)), disposal(rollback(p))}
         /\ namesOf(p) \subseteq Names /\ Target \in Names /\ Alt \in Names
         /\ Target # Alt /\ Target \notin namesOf(p) /\ Alt \notin namesOf(p)
         /\ tmp(p) # quarantine(p) /\ tmp(p) # rollback(p) /\ quarantine(p) # rollback(p)
         /\ disposal(tmp(p)) \notin {tmp(p), quarantine(p), rollback(p), disposal(quarantine(p)), disposal(rollback(p))}
         /\ disposal(quarantine(p)) \notin {tmp(p), quarantine(p), rollback(p), disposal(rollback(p))}
         /\ disposal(rollback(p)) \notin {tmp(p), quarantine(p), rollback(p)}
         /\ Unproven \notin Names
<1>1. /\ tmp(p) = <<p, "tmp">> /\ quarantine(p) = <<p, "quarantine">> /\ rollback(p) = <<p, "rollback">>
      /\ Target = <<Nobody, "target">> /\ Alt = <<Nobody, "alternate">> /\ Unproven = <<Nobody, "unproven">>
  BY DEF tmp, quarantine, rollback, Target, Alt, Unproven
<1>2. /\ disposal(tmp(p)) = <<p, "tmp.cleanup">> /\ disposal(quarantine(p)) = <<p, "quarantine.cleanup">>
      /\ disposal(rollback(p)) = <<p, "rollback.cleanup">>
  BY <1>1 DEF disposal
<1>3. p # Nobody
  BY AtomicAssumption
<1>4. namesOf(p) = {tmp(p), quarantine(p), rollback(p), disposal(tmp(p)), disposal(quarantine(p)), disposal(rollback(p))}
  BY DEF namesOf
<1>5. namesOf(p) \subseteq Names /\ Target \in Names /\ Alt \in Names
  BY DEF Names
<1>6. ASSUME NEW q \in Procs
      PROVE  Unproven \notin namesOf(q)
  <2>1. Unproven[1] = Nobody /\ q # Nobody
    BY AtomicAssumption DEF Unproven
  <2>2. \A n \in namesOf(q) : n[1] = q
    BY DEF namesOf, tmp, quarantine, rollback, disposal
  <2> QED
    BY <2>1, <2>2
<1>7. Unproven \notin Names
  BY <1>1, <1>6 DEF Names
<1> QED
  BY <1>1, <1>2, <1>3, <1>4, <1>5, <1>7

\* Two operations have no name in common.
LEMMA OthersNames ==
  ASSUME NEW p \in Procs, NEW q \in Procs, p # q
  PROVE  namesOf(p) \cap namesOf(q) = {}
<1>1. \A r \in Procs : \A n \in namesOf(r) : n[1] = r
  BY DEF namesOf, tmp, quarantine, rollback, disposal
<1> QED
  BY <1>1

\* The directory is finite, so links can be counted.
LEMMA NamesFinite == IsFiniteSet(Names) /\ \A i : linkCount(i) \in Nat
<1> DEFINE parts == {"target", "alternate", "tmp", "quarantine", "rollback", "tmp.cleanup", "quarantine.cleanup", "rollback.cleanup"}
<1>1. IsFiniteSet({Nobody} \cup Procs)
  BY AtomicAssumption, FS_Singleton, FS_Union
<1>2. IsFiniteSet(parts)
  <2>1. \A a, b, c, d : IsFiniteSet({a, b, c, d})
    <3>1. ASSUME NEW a, NEW b, NEW c, NEW d PROVE IsFiniteSet({a, b, c, d})
      <4>1. IsFiniteSet({a} \cup {b}) /\ IsFiniteSet({c} \cup {d})
        BY FS_Singleton, FS_Union
      <4>2. IsFiniteSet(({a} \cup {b}) \cup ({c} \cup {d}))
        BY <4>1, FS_Union
      <4>3. ({a} \cup {b}) \cup ({c} \cup {d}) = {a, b, c, d}
        OBVIOUS
      <4> QED
        BY <4>2, <4>3
    <3> QED
      BY <3>1
  <2>2. IsFiniteSet({"target", "alternate", "tmp", "quarantine"} \cup {"rollback", "tmp.cleanup", "quarantine.cleanup", "rollback.cleanup"})
    BY <2>1, FS_Union
  <2>3. parts = {"target", "alternate", "tmp", "quarantine"} \cup {"rollback", "tmp.cleanup", "quarantine.cleanup", "rollback.cleanup"}
    OBVIOUS
  <2> QED
    BY <2>2, <2>3
<1>3. IsFiniteSet(({Nobody} \cup Procs) \X parts)
  BY <1>1, <1>2, FS_Product
<1>4. \A q \in Procs : namesOf(q) \subseteq ({Nobody} \cup Procs) \X parts
  BY DEF namesOf, tmp, quarantine, rollback, disposal
<1>5. Names \subseteq ({Nobody} \cup Procs) \X parts
  BY <1>4 DEF Names, Target, Alt
<1>6. IsFiniteSet(Names)
  BY <1>3, <1>5, FS_Subset
<1>7. ASSUME NEW i
      PROVE  linkCount(i) \in Nat
  <2>1. IsFiniteSet({n \in Names : dir[n] = i})
    BY <1>6, FS_Subset
  <2> QED
    BY <2>1, FS_CardinalityType DEF linkCount
<1> QED
  BY <1>6, <1>7

\* Every name is bound to a file there is, or to none.
Files ==
  /\ fresh \in Nat \ {0} /\ DOMAIN text \subseteq 1..(fresh - 1) /\ \A i \in DOMAIN text : text[i] \in Nat
  /\ dir \in [Names -> DOMAIN text \cup {0}]

\* What is read of a name.
LEMMA Reads ==
  ASSUME Files, NEW n \in Names
  PROVE  /\ dir[n] \in Nat /\ snapshot(n) \in Snapshot \cup {Absent} /\ artifact(n) \in Artifact \cup {Absent}
         /\ dir[n] = 0 => snapshot(n) = Absent /\ artifact(n) = Absent
         /\ dir[n] # 0 => /\ snapshot(n) = <<dir[n], text[dir[n]]>> /\ artifact(n) # Absent /\ artifact(n)[1] = dir[n]
                          /\ snapshot(n) # Absent /\ dir[n] \in DOMAIN text
         /\ snapshot(n) = snapshotOf(artifact(n))
<1>1. dir[n] \in DOMAIN text \cup {0}
  BY DEF Files
<1>2. CASE dir[n] = 0
  BY <1>2 DEF snapshot, artifact, snapshotOf
<1>3. CASE dir[n] # 0
  <2>1. dir[n] \in DOMAIN text /\ dir[n] \in Nat /\ text[dir[n]] \in Nat /\ linkCount(dir[n]) \in Nat
    BY <1>1, <1>3, NamesFinite DEF Files
  <2>2. snapshot(n) = <<dir[n], text[dir[n]]>> /\ artifact(n) = <<dir[n], text[dir[n]], linkCount(dir[n])>>
    BY <1>3 DEF snapshot, artifact
  <2>3. snapshot(n) \in Snapshot /\ artifact(n) \in Artifact
    BY <2>1, <2>2 DEF Snapshot, Artifact
  <2>4. snapshot(n) # Absent /\ artifact(n) # Absent
    BY <2>3, AtomicAssumption DEF Snapshot, Artifact
  <2> QED
    BY <1>3, <2>1, <2>2, <2>3, <2>4 DEF snapshotOf
<1> QED
  BY <1>2, <1>3

\* What bindOwned finds is there, or is the failure without a name.
LEMMA Binds ==
  ASSUME Files, NEW ns \in SUBSET Names, NEW bound
  PROVE  /\ bindOwned(ns, bound) # {} /\ bindOwned(ns, bound) \subseteq ns \cup {Unproven}
         /\ \A n \in bindOwned(ns, bound) : n = Unproven \/ dir[n] # 0
BY DEF bindOwned

\* Another number of links is another artifact of the same file.
LEMMA Links ==
  ASSUME NEW a \in Artifact, NEW k \in Nat
  PROVE  withLinkCount(a, k) \in Artifact /\ withLinkCount(a, k) # Absent /\ snapshotOf(withLinkCount(a, k)) = snapshotOf(a)
         /\ snapshotOf(a) = <<a[1], a[2]>> /\ a # Absent /\ a[1] \in Nat /\ a[2] \in Nat
<1>1. withLinkCount(a, k) = <<a[1], a[2], k>> /\ a[1] \in Nat /\ a[2] \in Nat
  BY DEF withLinkCount, Artifact
<1>2. <<a[1], a[2], k>> \in Artifact /\ <<a[1], a[2], k>>[1] = a[1] /\ <<a[1], a[2], k>>[2] = a[2]
  BY <1>1 DEF Artifact
<1>3. \A b \in Artifact : b # Absent
  BY AtomicAssumption DEF Artifact
<1> QED
  BY <1>1, <1>2, <1>3 DEF snapshotOf

-----------------------------------------------------------------------------
(* How an operation moves                                                  *)

\* Operation p goes to pc with an error and with failures.
Goes(p, pc, err, failures) ==
  /\ op' \in [Procs -> Operation] /\ \A q \in Procs : q # p => op'[q] = op[q]
  /\ op'[p].kind = op[p].kind /\ op'[p].expected = op[p].expected
  /\ op'[p].pc = pc /\ op'[p].err = err /\ op'[p].failures = failures

\* ... with everything else as it was.
GoesOn(p, pc, failures) ==
  /\ Goes(p, pc, op[p].err, failures)
  /\ op'[p].planned = op[p].planned /\ op'[p].temp = op[p].temp
  /\ op'[p].victim = op[p].victim /\ op'[p].bound = op[p].bound /\ op'[p].ret = op[p].ret

\* ... to the removal of its temporary, where it has one.
Unwinds(p, err, failures) ==
  /\ op'[p].planned = op[p].planned /\ op'[p].temp = op[p].temp
  /\ op[p].kind = "unlink" => Goes(p, "end", err, failures)
  /\ op[p].kind = "replace" => Goes(p, "discard", err, failures)
  /\ op[p].kind \notin {"unlink", "replace"} =>
       /\ Goes(p, "dispose", err, failures)
       /\ op'[p].victim = tmp(p) /\ op'[p].ret = "end" /\ op'[p].bound # Absent /\ snapshotOf(op'[p].bound) = snapshotOf(op[p].temp)

\* ... to the removal of an artifact it knows the bytes of.
Disposes(p, n, ret) ==
  /\ Goes(p, "dispose", op[p].err, op[p].failures)
  /\ op'[p].planned = op[p].planned /\ op'[p].temp = op[p].temp
  /\ op'[p].victim = n /\ op'[p].ret = ret
  /\ op'[p].bound # Absent /\ snapshotOf(op'[p].bound) \in {op[p].expected, snapshotOf(op[p].temp)}

\* One operation moves at a time.
LEMMA Becomes ==
  ASSUME op \in [Procs -> Operation], NEW p \in Procs, NEW o \in Operation, becomes(p, o)
  PROVE  op' \in [Procs -> Operation] /\ op'[p] = o /\ (\A q \in Procs : q # p => op'[q] = op[q]) /\ UNCHANGED <<edits, crashes, given>>
BY DEF becomes, moves

\* goes changes the place and nothing else.
LEMMA GoesThere ==
  ASSUME op \in [Procs -> Operation], NEW p \in Procs, NEW pc \in Pcs, goes(p, pc)
  PROVE  GoesOn(p, pc, op[p].failures) /\ given' = given
<1> DEFINE o == [op[p] EXCEPT !.pc = pc]
<1>1. op[p] \in Operation
  OBVIOUS
<1>2. /\ o \in Operation /\ o.pc = pc /\ o.kind = op[p].kind /\ o.expected = op[p].expected /\ o.err = op[p].err /\ o.failures = op[p].failures
      /\ o.planned = op[p].planned /\ o.temp = op[p].temp /\ o.victim = op[p].victim /\ o.bound = op[p].bound /\ o.ret = op[p].ret
  BY <1>1 DEF Operation
<1>3. becomes(p, o)
  BY DEF goes
<1> HIDE DEF o
<1> QED
  BY <1>2, <1>3, Becomes DEF GoesOn, Goes

\* reports adds to the failures and changes nothing else.
LEMMA Reported ==
  ASSUME Files, op \in [Procs -> Operation], NEW p \in Procs, NEW ns \in SUBSET Names, NEW bound
  PROVE  LET o == reports(op[p], ns, bound) IN
         /\ o \in Operation /\ o.failures = op[p].failures \cup bindOwned(ns, bound)
         /\ o.pc = op[p].pc /\ o.kind = op[p].kind /\ o.expected = op[p].expected /\ o.err = op[p].err
         /\ o.planned = op[p].planned /\ o.temp = op[p].temp /\ o.links = op[p].links
         /\ o.victim = op[p].victim /\ o.bound = op[p].bound /\ o.ret = op[p].ret
<1> DEFINE o == reports(op[p], ns, bound)
           F == op[p].failures \cup bindOwned(ns, bound)
<1>1. op[p] \in Operation /\ op[p].failures \in SUBSET (Names \cup {Unproven})
  BY DEF Operation
<1>2. F \in SUBSET (Names \cup {Unproven})
  BY <1>1, Binds
<1>3. o = [op[p] EXCEPT !.failures = F]
  BY DEF reports
<1> HIDE DEF F, o
<1>4. /\ o \in Operation /\ o.failures = F
      /\ o.pc = op[p].pc /\ o.kind = op[p].kind /\ o.expected = op[p].expected /\ o.err = op[p].err
      /\ o.planned = op[p].planned /\ o.temp = op[p].temp /\ o.links = op[p].links
      /\ o.victim = op[p].victim /\ o.bound = op[p].bound /\ o.ret = op[p].ret
  BY <1>1, <1>2, <1>3 DEF Operation
<1> QED
  BY <1>4 DEF o, F

\* An operation that reports and goes on.
LEMMA ReportedGoes ==
  ASSUME Files, op \in [Procs -> Operation], NEW p \in Procs, NEW ns \in SUBSET Names, NEW bound, NEW pc \in Pcs,
         becomes(p, [reports(op[p], ns, bound) EXCEPT !.pc = pc])
  PROVE  GoesOn(p, pc, op[p].failures \cup bindOwned(ns, bound)) /\ given' = given
<1> DEFINE r == reports(op[p], ns, bound)
           o == [r EXCEPT !.pc = pc]
<1>1. /\ r \in Operation /\ r.failures = op[p].failures \cup bindOwned(ns, bound)
      /\ r.pc = op[p].pc /\ r.kind = op[p].kind /\ r.expected = op[p].expected /\ r.err = op[p].err
      /\ r.planned = op[p].planned /\ r.temp = op[p].temp /\ r.victim = op[p].victim /\ r.bound = op[p].bound /\ r.ret = op[p].ret
  BY Reported
<1> HIDE DEF r
<1>2. /\ o \in Operation /\ o.pc = pc /\ o.kind = r.kind /\ o.expected = r.expected /\ o.err = r.err /\ o.failures = r.failures
      /\ o.planned = r.planned /\ o.temp = r.temp /\ o.victim = r.victim /\ o.bound = r.bound /\ o.ret = r.ret
  BY <1>1 DEF Operation
<1>3. becomes(p, o)
  BY DEF r
<1> HIDE DEF o
<1> QED
  BY <1>1, <1>2, <1>3, Becomes DEF GoesOn, Goes

\* unwound sends an operation to the removal of its temporary.
LEMMA Unwound ==
  ASSUME op \in [Procs -> Operation], NEW p \in Procs, NEW o \in Operation,
         o.kind = op[p].kind, o.expected = op[p].expected, o.planned = op[p].planned, o.temp = op[p].temp,
         op[p].kind \in {"unlink", "replace"} \/ op[p].temp # Absent,
         becomes(p, unwound(p, o))
  PROVE  Unwinds(p, o.err, o.failures) /\ given' = given
<1> DEFINE r == unwound(p, o)
<1>1. CASE o.kind = "unlink"
  <2>1. r = [o EXCEPT !.pc = "end"]
    BY <1>1 DEF unwound
  <2> HIDE DEF r
  <2>2. /\ r \in Operation /\ r.pc = "end" /\ r.kind = o.kind /\ r.expected = o.expected /\ r.planned = o.planned /\ r.temp = o.temp
        /\ r.err = o.err /\ r.failures = o.failures
    BY <2>1 DEF Operation, Pcs
  <2>3. becomes(p, r)
    BY DEF r
  <2> QED
    BY <1>1, <2>2, <2>3, Becomes DEF Unwinds, Goes
<1>2. CASE o.kind = "replace"
  <2>1. r = [o EXCEPT !.pc = "discard"]
    BY <1>2 DEF unwound
  <2> HIDE DEF r
  <2>2. /\ r \in Operation /\ r.pc = "discard" /\ r.kind = o.kind /\ r.expected = o.expected /\ r.planned = o.planned /\ r.temp = o.temp
        /\ r.err = o.err /\ r.failures = o.failures
    BY <2>1 DEF Operation, Pcs, Publishing
  <2>3. becomes(p, r)
    BY DEF r
  <2> QED
    BY <1>2, <2>2, <2>3, Becomes DEF Unwinds, Goes
<1>3. CASE o.kind \notin {"unlink", "replace"}
  <2> DEFINE bound == withLinkCount(o.temp, o.links)
  <2>1. o.temp \in Artifact /\ o.links \in Nat
    BY <1>3 DEF Operation
  <2>2. bound \in Artifact /\ bound # Absent /\ snapshotOf(bound) = snapshotOf(o.temp)
    BY <2>1, Links
  <2>3. r = [o EXCEPT !.pc = "dispose", !.victim = tmp(p), !.ret = "end", !.bound = bound]
    BY <1>3 DEF unwound
  <2>4. tmp(p) \in Names
    BY OwnNames
  <2> HIDE DEF r, bound
  <2>5. /\ r \in Operation /\ r.pc = "dispose" /\ r.kind = o.kind /\ r.expected = o.expected /\ r.planned = o.planned /\ r.temp = o.temp
        /\ r.err = o.err /\ r.failures = o.failures /\ r.victim = tmp(p) /\ r.ret = "end" /\ r.bound = bound
    BY <2>2, <2>3, <2>4 DEF Operation, Pcs, Disposing
  <2>6. becomes(p, r)
    BY DEF r
  <2> QED
    BY <1>3, <2>2, <2>5, <2>6, Becomes DEF Unwinds, Goes
<1> QED
  BY <1>1, <1>2, <1>3

\* An operation that fails removes its temporary.
LEMMA FailsSo ==
  ASSUME op \in [Procs -> Operation], NEW p \in Procs, NEW err \in Errors,
         op[p].kind \in {"unlink", "replace"} \/ op[p].temp # Absent, fails(p, err)
  PROVE  Unwinds(p, err, op[p].failures) /\ given' = given
<1> DEFINE o == [op[p] EXCEPT !.err = err]
<1>1. /\ o \in Operation /\ o.err = err /\ o.kind = op[p].kind /\ o.expected = op[p].expected /\ o.failures = op[p].failures
      /\ o.planned = op[p].planned /\ o.temp = op[p].temp
  BY DEF Operation
<1>2. becomes(p, unwound(p, o))
  BY DEF fails
<1> HIDE DEF o
<1>3. Unwinds(p, o.err, o.failures) /\ given' = given
  BY <1>1, <1>2, Unwound
<1> QED
  BY <1>1, <1>3

\* An operation that removes an artifact, and comes back at ret.
LEMMA DisposesSo ==
  ASSUME op \in [Procs -> Operation], NEW p \in Procs, NEW n \in Names, NEW bound \in Artifact,
         NEW ret \in {"end", "disposeTmp", "restoredVerify", "uninstalled"},
         snapshotOf(bound) \in {op[p].expected, snapshotOf(op[p].temp)}, disposes(p, n, bound, ret)
  PROVE  Disposes(p, n, ret) /\ given' = given
<1> DEFINE o == [op[p] EXCEPT !.pc = "dispose", !.victim = n, !.bound = bound, !.ret = ret]
<1>1. /\ o \in Operation /\ o.pc = "dispose" /\ o.kind = op[p].kind /\ o.expected = op[p].expected /\ o.planned = op[p].planned
      /\ o.temp = op[p].temp /\ o.err = op[p].err /\ o.failures = op[p].failures /\ o.victim = n /\ o.ret = ret /\ o.bound = bound
  <2>1. op[p] \in Operation
    OBVIOUS
  <2>2. op[p].links \in Nat /\ bound \in Artifact \cup {Absent} /\ "dispose" \in Pcs
    BY <2>1 DEF Operation, Pcs, Disposing
  <2> QED
    BY <2>1, <2>2 DEF Operation
<1>2. becomes(p, o) /\ bound # Absent
  BY Links DEF disposes
<1> HIDE DEF o
<1> QED
  BY <1>1, <1>2, Becomes DEF Disposes, Goes

\* An operation that ends with the new file in place names its quarantine.
LEMMA InstalledSo ==
  ASSUME Files, op \in [Procs -> Operation], NEW p \in Procs, op[p].kind = "write", op[p].temp # Absent, installedAnyway(p)
  PROVE  /\ op[p].planned # Absent => Unwinds(p, "installed", op[p].failures \cup bindOwned({quarantine(p)}, op[p].planned))
         /\ op[p].planned = Absent => Unwinds(p, "installed", op[p].failures)
         /\ given' = given
<1> DEFINE F == IF quarantined(p) THEN op[p].failures \cup bindOwned({quarantine(p)}, op[p].planned) ELSE op[p].failures
           o == [op[p] EXCEPT !.err = "installed", !.failures = F]
<1>1. quarantine(p) \in Names
  BY OwnNames
<1>2. op[p].failures \in SUBSET (Names \cup {Unproven}) /\ bindOwned({quarantine(p)}, op[p].planned) \subseteq Names \cup {Unproven}
  BY <1>1, Binds DEF Operation
<1>3. F \in SUBSET (Names \cup {Unproven})
  BY <1>2
<1>4. becomes(p, unwound(p, o))
  BY DEF installedAnyway
<1> HIDE DEF F
<1>5. /\ o \in Operation /\ o.err = "installed" /\ o.kind = op[p].kind /\ o.expected = op[p].expected /\ o.failures = F
      /\ o.planned = op[p].planned /\ o.temp = op[p].temp
  BY <1>3 DEF Operation, Errors
<1> HIDE DEF o
<1>6. Unwinds(p, "installed", F) /\ given' = given
  BY <1>4, <1>5, Unwound
<1> QED
  BY <1>6 DEF F, quarantined

\* An operation that has nothing in quarantine fails, the others restore it.
LEMMA GivesBackSo ==
  ASSUME op \in [Procs -> Operation], NEW p \in Procs, op[p].temp # Absent, givesBack(p)
  PROVE  /\ op[p].planned # Absent => GoesOn(p, "restore", op[p].failures)
         /\ op[p].planned = Absent => Unwinds(p, "failed", op[p].failures)
         /\ given' = given
<1>1. "restore" \in Pcs /\ "failed" \in Errors
  BY DEF Pcs, Changing, Errors
<1>2. CASE op[p].planned # Absent
  BY <1>1, <1>2, GoesThere DEF givesBack, quarantined
<1>3. CASE op[p].planned = Absent
  BY <1>1, <1>3, FailsSo DEF givesBack, quarantined
<1> QED
  BY <1>2, <1>3

-----------------------------------------------------------------------------
(* The invariant                                                           *)

\* Neither a name nor its disposal name is in use; the victim of a removal.
empty(n) == dir[n] = 0 /\ dir[disposal(n)] = 0
disposing(p, n) == op[p].pc \in Disposing /\ op[p].victim = n

\* Which kind of operation is where, and what it may remove.
Kinded(p) ==
  /\ op[p].kind = "none" => op[p].pc = "plan"
  /\ op[p].pc = "prepare" => op[p].kind \in {"write", "replace", "overwrite"}
  /\ op[p].pc \in Publishing => op[p].kind \in {"replace", "overwrite"}
  /\ op[p].pc = "discard" => op[p].kind = "replace"
  /\ op[p].pc \in Changing => op[p].kind \in {"write", "unlink"}
  /\ op[p].pc \in {"preinstall", "link", "validate", "uninstall", "uninstallRename", "uninstallVerify",
                  "uninstalled", "disposeTmp"} => op[p].kind = "write"
  /\ op[p].pc \in Disposing =>
       \/ op[p].victim = tmp(p) /\ op[p].ret = "end" /\ op[p].kind \in {"write", "overwrite"}
       \/ op[p].victim = quarantine(p) /\ op[p].ret = "end" /\ op[p].kind = "unlink"
       \/ op[p].victim = quarantine(p) /\ op[p].ret = "disposeTmp" /\ op[p].kind = "write"
       \/ op[p].victim = quarantine(p) /\ op[p].ret = "restoredVerify" /\ op[p].kind \in {"write", "unlink"}
       \/ op[p].victim = rollback(p) /\ op[p].ret = "uninstalled" /\ op[p].kind = "write"

\* What an operation has planned, made and learnt so far.
Known(p) ==
  /\ op[p].pc = "plan" => op[p].expected = Absent
  /\ op[p].kind = "unlink" => op[p].expected # Absent
  /\ op[p].kind = "unlink" \/ op[p].pc \in Planning => op[p].temp = Absent
  /\ op[p].kind \in {"write", "overwrite"} /\ op[p].pc \notin {"prepare", "end", "over", "dead"} \cup Planning => op[p].temp # Absent
  /\ op[p].pc \in {"check"} \cup Planning \cup Publishing => op[p].planned = Absent
  /\ op[p].planned # Absent => op[p].expected = snapshotOf(op[p].planned)
  /\ op[p].pc \in Changing \ {"check"} /\ op[p].expected # Absent => op[p].planned # Absent
  /\ op[p].kind \in {"write", "unlink"} /\ op[p].pc \in Disposing \cup {"end", "over"}
       /\ op[p].err \in {"none", "installed"} /\ op[p].expected # Absent
       => op[p].planned # Absent
  /\ op[p].pc \in {"rename", "verify", "restore", "relink", "relinked", "restoredVerify", "restored"} => op[p].planned # Absent
  /\ disposing(p, quarantine(p)) => op[p].planned # Absent
  /\ op[p].pc \in Disposing => op[p].bound # Absent /\ snapshotOf(op[p].bound) \in {op[p].expected, snapshotOf(op[p].temp)}
  /\ op[p].pc \in Planning \cup Changing \cup (Publishing \ {"discard"}) => op[p].err = "none"
  /\ op[p].pc \in Disposing /\ op[p].ret # "end" => op[p].err = "none"
  /\ op[p].expected # Absent => op[p].expected[1] \in DOMAIN text
  /\ op[p].temp # Absent => op[p].temp[1] \in DOMAIN text
  /\ op[p].expected # Absent /\ op[p].temp # Absent => op[p].expected[1] # op[p].temp[1]

\* Where nothing has been reported yet.
Unfailed == {"plan", "prepare", "check", "rename", "verify", "preinstall", "link", "validate", "alternates",
             "uninstall", "uninstallRename", "uninstallVerify", "publish", "publishNow", "published", "discard"}

\* What is reported is there, and never the temporary before its removal.
Reporting(p) ==
  /\ op[p].pc \in Unfailed \/ disposing(p, rollback(p)) => op[p].failures = {}
  /\ op[p].pc \in {"uninstalled", "restore", "relink", "relinked"} \/ disposing(p, quarantine(p)) =>
       op[p].failures \subseteq {rollback(p), disposal(rollback(p)), Unproven}
  /\ op[p].pc \in {"restoredVerify", "restored", "disposeTmp"} \/ disposing(p, tmp(p)) =>
       tmp(p) \notin op[p].failures /\ disposal(tmp(p)) \notin op[p].failures
  /\ \A n \in op[p].failures : n = Unproven \/ (n \in namesOf(p) /\ dir[n] # 0)

\* The quarantine and the rollback name are in use only where they should
\* be, and in the end only when a failure says so.
Held(p) ==
  /\ op[p].pc = "dispose" => dir[disposal(op[p].victim)] = 0
  /\ op[p].pc \in {"disposeVerify", "disposeUnlink"} => dir[op[p].victim] = 0
  /\ op[p].pc \in Unfailed \ {"uninstallVerify"} => empty(rollback(p))
  /\ op[p].pc = "uninstallVerify" => dir[disposal(rollback(p))] = 0
  /\ op[p].pc \notin {"uninstallVerify", "dead"} /\ ~disposing(p, rollback(p)) /\ op[p].failures = {} => empty(rollback(p))
  /\ op[p].pc \in {"plan", "prepare", "check", "rename", "publish", "publishNow", "published", "discard"} => empty(quarantine(p))
  /\ op[p].pc # "dead" /\ op[p].planned = Absent => empty(quarantine(p))
  /\ op[p].pc \in {"end", "over", "disposeTmp", "restored", "restoredVerify"} \/ disposing(p, tmp(p)) =>
       (op[p].failures = {} => empty(quarantine(p)))
  /\ op[p].pc \in Changing \ {"restoredVerify", "restored", "disposeTmp"} \/ disposing(p, rollback(p)) => dir[disposal(quarantine(p))] = 0

\* Before the new file can have left the temporary name, and where the
\* temporary must still stand.
Prelink == {"check", "rename", "verify", "preinstall", "link", "publish", "publishNow"}
Standing == {"link", "validate", "alternates", "uninstall", "uninstallRename", "uninstallVerify", "publish", "publishNow"}

\* The temporary is where it was made or gone.
Temporary(p) ==
  /\ op[p].pc # "dead" /\ op[p].temp = Absent => empty(tmp(p))
  /\ op[p].pc \notin {"end", "over", "dead"} /\ ~disposing(p, tmp(p)) => dir[disposal(tmp(p))] = 0
  /\ op[p].pc = "published" /\ op[p].kind = "overwrite" => dir[tmp(p)] = 0
  /\ op[p].pc \in {"end", "over"} /\ op[p].kind # "replace" /\ op[p].failures = {} => empty(tmp(p))
  /\ op[p].pc \in Standing /\ op[p].kind # "unlink" => dir[tmp(p)] = op[p].temp[1]
  /\ op[p].temp # Absent => dir[tmp(p)] \in {0, op[p].temp[1]}
  /\ op[p].pc = "relink" => dir[quarantine(p)] = op[p].planned[1]

\* The new file is under no name but the operation's own: so it is before it
\* is linked, and again after a failure that reports nothing.
OwnOnly(p) == op[p].temp # Absent => \A n \in Names : dir[n] = op[p].temp[1] => n \in namesOf(p)
Undone(p) ==
  /\ op[p].pc \in Prelink => OwnOnly(p)
  /\ \/ op[p].pc \in {"uninstalled", "restore", "relink", "relinked", "restoredVerify", "restored"}
     \/ op[p].pc \in Disposing /\ op[p].ret \in {"uninstalled", "restoredVerify"}
     \/ op[p].kind \in {"write", "unlink"} /\ op[p].pc \in Disposing \cup {"end", "over"} /\ op[p].err = "failed"
     => (op[p].failures = {} => OwnOnly(p))

\* The whole of what is said of one operation.
Local(p) == Kinded(p) /\ Known(p) /\ Reporting(p) /\ Held(p) /\ Temporary(p) /\ Undone(p)

(***************************************************************************)
(* The file an operation has taken away from the target: from the rename   *)
(* on it is no other operation's, and not the target's, until it is linked *)
(* back.                                                                   *)
(***************************************************************************)
claims(p) ==
  /\ op[p].kind \in {"write", "unlink"} /\ op[p].planned # Absent /\ op[p].err \in {"none", "installed"}
  /\ op[p].pc \notin {"plan", "prepare", "check", "rename", "relinked", "restoredVerify", "restored", "dead"}
  /\ op[p].pc \in Disposing => op[p].ret # "restoredVerify"
claimed(p) == IF op[p].pc = "verify" THEN dir[quarantine(p)] ELSE op[p].planned[1]
Claims ==
  /\ \A p, q \in Procs : claims(p) /\ claims(q) /\ claimed(p) = claimed(q) => p = q
  /\ \A p \in Procs : claims(p) => dir[Target] # claimed(p) /\ claimed(p) \in DOMAIN text
  /\ \A p, q \in Procs : claims(p) /\ op[q].pc \in Prelink /\ op[q].temp # Absent => claimed(p) # op[q].temp[1]

\* The names that a removal under way, or a guarded replacement, is free to
\* unlink; a file that nobody gave up is also under another name.
removes(p, n) ==
  \/ op[p].pc = "disposeUnlink" /\ n = disposal(op[p].victim)
  \/ op[p].kind = "replace" /\ n = tmp(p)
doomed(n) == \E p \in Procs : removes(p, n)
spared(i) == \E n \in Names : dir[n] = i /\ ~doomed(n)
Spared == \A i \in DOMAIN text : linked(i) => spared(i) \/ <<i, text[i]>> \in givenUp

\* The inductive invariant.
FileInv ==
  /\ Files /\ op \in [Procs -> Operation]
  /\ \A p, q \in Procs : op[p].temp # Absent /\ op[q].temp # Absent /\ op[p].temp[1] = op[q].temp[1] => p = q
  /\ \A p \in Procs : Local(p)
  /\ Claims /\ Spared

\* A step of p touches its own names and the target only, and binds them to
\* files that were there.
Works(p) ==
  /\ UNCHANGED <<text, fresh>> /\ dir' \in [Names -> Nat]
  /\ \A n \in Names \ (namesOf(p) \cup {Target}) : dir'[n] = dir[n]
  /\ \A n \in namesOf(p) \cup {Target} : dir'[n] = 0 \/ \E m \in namesOf(p) \cup {Target} : dir'[n] = dir[m]

\* What a step may do to claims: keep one, take the target's file, give the
\* claimed file back, or link a new file.
ClaimStep(p) ==
  /\ claims(p)' => \/ claims(p) /\ claimed(p)' = claimed(p)
                   \/ dir[Target] # 0 /\ claimed(p)' = dir[Target] /\ dir'[Target] = 0
  /\ \/ dir'[Target] \in {0, dir[Target]}
     \/ op[p].pc \in Prelink /\ op[p].temp # Absent /\ dir'[Target] = op[p].temp[1] /\ op'[p].pc \notin Prelink
     \/ claims(p) /\ ~claims(p)' /\ dir'[Target] = claimed(p)
  /\ op'[p].pc \in Prelink /\ op'[p].temp # Absent => op[p].pc \in Prelink

\* A file is under a name that is not free to go, or its bytes were given up.
SparedStep(p) ==
  \A n \in namesOf(p) \cup {Target} : dir[n] # 0 /\ ~removes(p, n) =>
    \/ <<dir[n], text[dir[n]]>> \in givenUp'
    \/ \E m \in namesOf(p) \cup {Target} : dir'[m] = dir[n] /\ ~removes(p, m)'

\* A step of operation p that keeps its part of the invariant.
Done(p) ==
  /\ op' \in [Procs -> Operation] /\ \A q \in Procs : q # p => op'[q] = op[q]
  /\ op'[p].temp = op[p].temp /\ (op'[p].kind = op[p].kind \/ op[p].pc = "plan")
  /\ op'[p].expected = op[p].expected \/ op[p].expected = Absent
  /\ given \subseteq given'
  /\ Works(p) /\ Local(p)' /\ ClaimStep(p) /\ SparedStep(p)

-----------------------------------------------------------------------------
(* The steps of an operation                                               *)

\* A step that changes no name, and is on its way to remove none.
LEMMA Stays ==
  ASSUME FileInv, NEW p \in Procs, stays, op'[p].kind = op[p].kind, op'[p].pc # "disposeUnlink"
  PROVE  Works(p) /\ SparedStep(p)
<1>1. dir' = dir /\ UNCHANGED <<text, fresh>> /\ dir \in [Names -> Nat]
  BY DEF stays, FileInv, Files
<1>2. \A n : ~removes(p, n) => ~removes(p, n)'
  BY DEF removes
<1>3. Works(p)
  BY <1>1 DEF Works
<1>4. SparedStep(p)
  BY <1>1, <1>2 DEF SparedStep
<1> QED
  BY <1>3, <1>4

\* An operation that goes to its end removes its temporary first.
LEMMA UnwindsLocal ==
  ASSUME FileInv, NEW p \in Procs, stays, NEW err \in Errors, NEW F, Unwinds(p, err, F), given' = given,
         op[p].pc \in Changing \cup {"publish", "publishNow"},
         \A n \in F : n = Unproven \/ (n \in namesOf(p) /\ dir[n] # 0),
         tmp(p) \notin F, disposal(tmp(p)) \notin F,
         F = {} => empty(quarantine(p)) /\ empty(rollback(p)), op[p].kind = "replace" => F = {},
         err = "failed" /\ F = {} => OwnOnly(p),
         err \in {"none", "installed"} => /\ op[p].expected # Absent => op[p].planned # Absent
                                          /\ op[p].pc \notin {"check", "rename", "verify", "relinked", "restoredVerify", "restored"}
  PROVE  Done(p)
<1>1. /\ op[p] \in Operation /\ Local(p) /\ op \in [Procs -> Operation] /\ dir' = dir /\ text' = text /\ op[p].temp \in Artifact \cup {Absent}
      /\ op[p].kind \in {"write", "unlink", "replace", "overwrite"} /\ op[p].pc \notin Disposing \cup {"end", "over", "dead", "discard", "plan", "prepare"}
      /\ (op[p].kind = "replace" \/ op[p].kind = "overwrite" => op[p].pc \in {"publish", "publishNow"})
      /\ (op[p].kind = "write" \/ op[p].kind = "unlink" => op[p].pc \in Changing)
      /\ op[p].err = "none"
  <2>1. op[p] \in Operation /\ Local(p) /\ op \in [Procs -> Operation]
    BY DEF FileInv
  <2>2. op[p].kind \in {"none", "write", "unlink", "replace", "overwrite"} /\ op[p].temp \in Artifact \cup {Absent}
    BY <2>1 DEF Operation
  <2>3. op[p].pc \notin Disposing \cup {"end", "over", "dead", "discard", "plan", "prepare"}
    BY DEF Changing, Disposing
  <2> QED
    BY <2>1, <2>2, <2>3 DEF stays, Local, Kinded, Known, Changing, Publishing
<1>2. CASE op[p].kind = "unlink"
  <2>1. Goes(p, "end", err, F) /\ op'[p].planned = op[p].planned /\ op'[p].temp = op[p].temp
    BY <1>2 DEF Unwinds
  <2>2. Kinded(p)' /\ Known(p)'
    BY <1>1, <1>2, <2>1 DEF Local, Kinded, Known, Goes, Planning, Changing, Publishing, Disposing, disposing
  <2>3. Reporting(p)' /\ Held(p)'
    BY <1>1, <1>2, <2>1, OwnNames DEF Local, Reporting, Held, Goes, Unfailed, Changing, Disposing, disposing, empty
  <2>4. Temporary(p)' /\ Undone(p)'
    BY <1>1, <1>2, <2>1, OwnNames DEF Local, Known, Temporary, Standing, Undone, OwnOnly, Goes, Disposing, disposing, empty, Prelink
  <2>5. ClaimStep(p)
    BY <1>1, <1>2, <2>1 DEF ClaimStep, claims, claimed, Goes, Disposing, Changing, Prelink
  <2>6. Works(p) /\ SparedStep(p)
    BY <2>1, Stays DEF Goes
  <2> QED
    BY <2>1, <2>2, <2>3, <2>4, <2>5, <2>6 DEF Done, Local, Goes
<1>3. CASE op[p].kind = "replace"
  <2>1. Goes(p, "discard", err, F) /\ op'[p].planned = op[p].planned /\ op'[p].temp = op[p].temp
    BY <1>3 DEF Unwinds
  <2>2. Kinded(p)' /\ Known(p)'
    BY <1>1, <1>3, <2>1 DEF Local, Kinded, Known, Goes, Planning, Changing, Publishing, Disposing, disposing
  <2>3. Reporting(p)' /\ Held(p)'
    BY <1>1, <1>3, <2>1, OwnNames DEF Local, Reporting, Held, Goes, Unfailed, Changing, Disposing, disposing, empty
  <2>4. Temporary(p)' /\ Undone(p)'
    BY <1>1, <1>3, <2>1, OwnNames DEF Local, Known, Temporary, Standing, Undone, OwnOnly, Goes, Disposing, disposing, empty, Prelink
  <2>5. ClaimStep(p)
    BY <1>1, <1>3, <2>1 DEF ClaimStep, claims, claimed, Goes, Disposing, Changing, Prelink
  <2>6. Works(p) /\ SparedStep(p)
    BY <2>1, Stays DEF Goes
  <2> QED
    BY <2>1, <2>2, <2>3, <2>4, <2>5, <2>6 DEF Done, Local, Goes
<1>4. CASE op[p].kind \in {"write", "overwrite"}
  <2>1. /\ Goes(p, "dispose", err, F) /\ op'[p].planned = op[p].planned /\ op'[p].temp = op[p].temp
        /\ op'[p].victim = tmp(p) /\ op'[p].ret = "end" /\ op'[p].bound # Absent /\ snapshotOf(op'[p].bound) = snapshotOf(op[p].temp)
    BY <1>4 DEF Unwinds
  <2>2. Kinded(p)' /\ Known(p)'
    BY <1>1, <1>4, <2>1, OwnNames DEF Local, Kinded, Known, Goes, Planning, Changing, Publishing, Disposing, disposing
  <2>3. Reporting(p)'
    BY <1>1, <1>4, <2>1, OwnNames DEF Local, Reporting, Goes, Unfailed, Changing, Disposing, disposing, empty
  <2>4. Held(p)'
    BY <1>1, <1>4, <2>1, OwnNames DEF Local, Held, Temporary, Standing, Goes, Unfailed, Changing, Disposing, disposing, empty
  <2>5. Temporary(p)'
    BY <1>1, <1>4, <2>1, OwnNames DEF Local, Known, Temporary, Standing, Goes, Disposing, disposing, empty
  <2>6. Undone(p)'
    BY <1>1, <1>4, <2>1, OwnNames DEF Local, Undone, OwnOnly, Goes, Disposing, Prelink
  <2>7. ClaimStep(p)
    BY <1>1, <1>4, <2>1 DEF ClaimStep, claims, claimed, Goes, Disposing, Changing, Prelink
  <2>8. Works(p) /\ SparedStep(p)
    BY <2>1, Stays DEF Goes
  <2> QED
    BY <2>1, <2>2, <2>3, <2>4, <2>5, <2>6, <2>7, <2>8 DEF Done, Local, Goes
<1> QED
  BY <1>1, <1>2, <1>3, <1>4

\* An operation that goes on, and the conditions on where it goes.
LEMMA GoesLocal ==
  ASSUME FileInv, NEW p \in Procs, stays, given' = given, NEW pc, NEW F, GoesOn(p, pc, F),
         op[p].pc \in Changing \ {"disposeTmp"},
         pc \in {"alternates", "preinstall", "link", "uninstall", "uninstallRename", "restore", "relink", "restored"},
         pc \in {"preinstall", "link", "uninstall", "uninstallRename"} => op[p].kind = "write",
         pc # "restored" =>
           op[p].pc \in {"verify", "preinstall", "link", "validate", "alternates", "uninstall", "uninstallVerify", "uninstalled", "restore"},
         pc \in {"alternates", "preinstall", "link", "uninstall", "uninstallRename"} =>
           F = {} /\ op[p].pc \in {"verify", "preinstall", "validate", "alternates", "uninstall"},
         pc \in {"restore", "relink", "restored"} => op[p].planned # Absent /\ (F = {} => OwnOnly(p) /\ empty(rollback(p))),
         pc \in {"restore", "relink"} => F \subseteq {rollback(p), disposal(rollback(p)), Unproven},
         pc = "restored" => tmp(p) \notin F /\ disposal(tmp(p)) \notin F /\ (F = {} => empty(quarantine(p))),
         pc = "preinstall" => op[p].pc = "verify",
         pc = "alternates" => op[p].kind = "unlink" \/ op[p].pc = "validate",
         pc = "uninstall" => op[p].pc = "alternates",
         pc = "uninstallRename" => op[p].pc = "uninstall",
         pc = "link" => op[p].pc = "preinstall" /\ dir[tmp(p)] = op[p].temp[1],
         pc = "relink" => dir[quarantine(p)] = op[p].planned[1],
         \A n \in F : n = Unproven \/ (n \in namesOf(p) /\ dir[n] # 0),
         op[p].pc = "verify" => dir[quarantine(p)] = op[p].planned[1]
  PROVE  Done(p)
<1>1. /\ op[p] \in Operation /\ Local(p) /\ op \in [Procs -> Operation] /\ dir' = dir /\ text' = text
      /\ op[p].kind \in {"write", "unlink"} /\ op[p].pc \notin Disposing
      /\ op[p].err = "none" /\ op'[p].err = "none"
      /\ Goes(p, pc, "none", F) /\ op'[p].planned = op[p].planned /\ op'[p].temp = op[p].temp
  BY DEF FileInv, stays, Local, Kinded, Known, Changing, Disposing, GoesOn, Goes
<1>2. Kinded(p)'
  BY <1>1 DEF Local, Kinded, Goes, Planning, Changing, Publishing, Disposing
<1>3. Known(p)'
  BY <1>1 DEF Local, Known, Goes, Planning, Changing, Publishing, Disposing, disposing
<1>4. Reporting(p)'
  BY <1>1, OwnNames DEF Reporting, Goes, Unfailed, Disposing, disposing
<1>5. Held(p)'
  <2>1. op'[p].pc = pc /\ op'[p].failures = F /\ pc \notin Disposing /\ op'[p].planned = op[p].planned
    BY <1>1 DEF Goes, Disposing
  <2>2. CASE pc = "restored"
    BY <1>1, <2>1, <2>2 DEF Local, Held, Unfailed, Changing, disposing, empty
  <2>3. CASE pc \in {"restore", "relink"}
    <3>1. dir[disposal(quarantine(p))] = 0
      BY <1>1, <2>3 DEF Local, Held, Changing
    <3> QED
      BY <1>1, <2>1, <2>3, <3>1 DEF Held, Unfailed, Changing, disposing, empty
  <2>4. CASE pc \in {"alternates", "preinstall", "link", "uninstall", "uninstallRename"}
    <3>1. dir[disposal(quarantine(p))] = 0 /\ empty(rollback(p)) /\ (op[p].planned = Absent => empty(quarantine(p)))
      BY <1>1, <2>4 DEF Local, Held, Unfailed, Changing
    <3> QED
      BY <1>1, <2>1, <2>4, <3>1 DEF Held, Unfailed, Changing, disposing, empty
  <2> QED
    BY <2>2, <2>3, <2>4
<1>6. Temporary(p)'
  BY <1>1, OwnNames DEF Local, Temporary, Standing, Goes, Changing, Disposing, disposing, empty
<1>7. Undone(p)'
  BY <1>1 DEF Local, Undone, OwnOnly, Goes, Disposing, Prelink
<1>8. ClaimStep(p)
  BY <1>1 DEF ClaimStep, claims, claimed, Goes, Disposing, Prelink
<1>9. Works(p) /\ SparedStep(p)
  BY <1>1, Stays DEF Goes
<1> QED
  BY <1>1, <1>2, <1>3, <1>4, <1>5, <1>6, <1>7, <1>8, <1>9 DEF Done, Local, Goes

\* An operation that is about to remove its quarantine or its rollback name.
LEMMA DisposesLocal ==
  ASSUME FileInv, NEW p \in Procs, stays, given' = given, NEW n, NEW ret, Disposes(p, n, ret), op[p].planned # Absent \/ n = rollback(p),
         \/ n = quarantine(p) /\ ret = "end" /\ op[p].pc = "alternates" /\ op[p].kind = "unlink"
         \/ n = quarantine(p) /\ ret = "disposeTmp" /\ op[p].pc = "alternates" /\ op[p].kind = "write"
         \/ n = quarantine(p) /\ ret = "restoredVerify" /\ op[p].pc = "relinked"
         \/ n = rollback(p) /\ ret = "uninstalled" /\ op[p].pc = "uninstallVerify" /\ OwnOnly(p)
  PROVE  Done(p)
<1>1. /\ op[p] \in Operation /\ Local(p) /\ op \in [Procs -> Operation] /\ dir' = dir /\ text' = text
      /\ op[p].kind \in {"write", "unlink"} /\ op[p].pc \notin Disposing /\ op[p].err = "none"
      /\ Goes(p, "dispose", "none", op[p].failures) /\ op'[p].planned = op[p].planned /\ op'[p].temp = op[p].temp
      /\ op'[p].victim = n /\ op'[p].ret = ret /\ op'[p].bound # Absent /\ snapshotOf(op'[p].bound) \in {op[p].expected, snapshotOf(op[p].temp)}
  BY DEF FileInv, stays, Local, Kinded, Known, Changing, Disposing, Disposes
<1>2. Kinded(p)'
  BY <1>1 DEF Local, Kinded, Goes, Planning, Changing, Publishing, Disposing
<1>3. Known(p)'
  BY <1>1, OwnNames DEF Local, Known, Goes, Planning, Changing, Publishing, Disposing, disposing
<1>4. Reporting(p)'
  BY <1>1, OwnNames DEF Local, Reporting, Goes, Unfailed, Disposing, disposing
<1>5. Held(p)'
  BY <1>1, OwnNames DEF Local, Held, Goes, Unfailed, Changing, Disposing, disposing, empty
<1>6. Temporary(p)'
  BY <1>1, OwnNames DEF Local, Temporary, Standing, Goes, Disposing, disposing, empty
<1>7. Undone(p)'
  BY <1>1, OwnNames DEF Local, Undone, OwnOnly, Goes, Disposing, Prelink
<1>8. ClaimStep(p)
  BY <1>1, OwnNames DEF ClaimStep, claims, claimed, Goes, Disposing, Prelink
<1>9. Works(p) /\ SparedStep(p)
  BY <1>1, Stays DEF Goes
<1> QED
  BY <1>1, <1>2, <1>3, <1>4, <1>5, <1>6, <1>7, <1>8, <1>9 DEF Done, Local, Goes

\* The check plans the file that is expected, or fails.
LEMMA CheckStep ==
  ASSUME FileInv, NEW p \in Procs, check(p)
  PROVE  Done(p)
<1>1. /\ op[p] \in Operation /\ op[p].pc = "check" /\ Local(p) /\ op \in [Procs -> Operation] /\ Files
      /\ stays /\ Target \in Names
  BY OwnNames DEF check, at, FileInv
<1>2. \/ Unwinds(p, "failed", op[p].failures) /\ given' = given
      \/ /\ given' = given /\ op'[p].temp = op[p].temp
         /\ op'[p].planned \in Artifact \cup {Absent} /\ snapshotOf(op'[p].planned) = op[p].expected
         /\ op[p].expected = Absent => op'[p].planned = Absent /\ Goes(p, "preinstall", "none", op[p].failures)
         /\ op[p].expected # Absent => op'[p].planned # Absent /\ Goes(p, "rename", "none", op[p].failures)
  <2>1. CASE fails(p, "failed")
    <3>1. op[p].kind \in {"unlink", "replace"} \/ op[p].temp # Absent
      BY <1>1 DEF Local, Known, Kinded, Planning, Changing
    <3> QED
      BY <1>1, <2>1, <3>1, FailsSo DEF Errors
  <2>2. ASSUME expectationHolds(p),
               becomes(p, [op[p] EXCEPT !.planned = artifact(Target), !.pc = IF op[p].expected = Absent THEN "preinstall" ELSE "rename"])
        PROVE  /\ given' = given /\ op'[p].temp = op[p].temp
               /\ op'[p].planned \in Artifact \cup {Absent} /\ snapshotOf(op'[p].planned) = op[p].expected
               /\ op[p].expected = Absent => op'[p].planned = Absent /\ Goes(p, "preinstall", "none", op[p].failures)
               /\ op[p].expected # Absent => op'[p].planned # Absent /\ Goes(p, "rename", "none", op[p].failures)
    <3> DEFINE a == artifact(Target)
               pc == IF op[p].expected = Absent THEN "preinstall" ELSE "rename"
               o == [op[p] EXCEPT !.planned = a, !.pc = pc]
    <3>1. a \in Artifact \cup {Absent} /\ snapshotOf(a) = op[p].expected /\ (op[p].expected = Absent <=> a = Absent)
      BY <1>1, <2>2, Reads DEF expectationHolds
    <3>2. pc \in Pcs
      BY DEF Pcs, Changing
    <3>3. becomes(p, o)
      BY <2>2
    <3> HIDE DEF a, pc
    <3>4. /\ o \in Operation /\ o.pc = pc /\ o.planned = a /\ o.kind = op[p].kind /\ o.expected = op[p].expected /\ o.err = op[p].err
          /\ o.failures = op[p].failures /\ o.temp = op[p].temp
      BY <1>1, <3>1, <3>2 DEF Operation
    <3> HIDE DEF o
    <3>5. op[p].err = "none"
      BY <1>1 DEF Local, Known, Changing
    <3> QED
      BY <1>1, <3>1, <3>3, <3>4, <3>5, Becomes DEF pc, Goes
  <2> QED
    BY <2>1, <2>2 DEF check, succeeds
<1>3. CASE Unwinds(p, "failed", op[p].failures) /\ given' = given
  <2>1. op[p].failures = {} /\ empty(quarantine(p)) /\ empty(rollback(p)) /\ OwnOnly(p) /\ op[p].kind # "replace"
    BY <1>1 DEF Local, Kinded, Reporting, Held, Undone, Unfailed, Prelink, Changing
  <2> QED
    BY <1>1, <1>3, <2>1, UnwindsLocal DEF Errors, Changing
<1>4. CASE ~(Unwinds(p, "failed", op[p].failures) /\ given' = given)
  <2> DEFINE pc == IF op[p].expected = Absent THEN "preinstall" ELSE "rename"
  <2>1. /\ given' = given /\ op'[p].temp = op[p].temp /\ Goes(p, pc, "none", op[p].failures) /\ pc \in {"preinstall", "rename"}
        /\ op'[p].planned \in Artifact \cup {Absent} /\ snapshotOf(op'[p].planned) = op[p].expected
        /\ (op[p].expected = Absent <=> op'[p].planned = Absent) /\ (pc = "rename" <=> op[p].expected # Absent)
    BY <1>2, <1>4
  <2> HIDE DEF pc
  <2>2. Kinded(p)'
    BY <1>1, <2>1 DEF Local, Kinded, Known, Goes, Planning, Changing, Publishing, Disposing
  <2>3. Known(p)'
    BY <1>1, <2>1, OwnNames DEF Local, Kinded, Known, Goes, Planning, Changing, Publishing, Disposing, disposing, stays
  <2>4. Reporting(p)'
    BY <1>1, <2>1, OwnNames DEF Local, Reporting, Goes, Unfailed, Changing, Disposing, disposing, stays
  <2>5. Held(p)'
    BY <1>1, <2>1, OwnNames DEF Local, Held, Goes, Unfailed, Changing, Disposing, disposing, stays, empty
  <2>6. Temporary(p)'
    BY <1>1, <2>1, OwnNames DEF Local, Held, Temporary, Standing, Goes, Disposing, disposing, stays, empty
  <2>7. Undone(p)'
    BY <1>1, <2>1, OwnNames DEF Local, Undone, OwnOnly, Goes, Disposing, Prelink, stays
  <2>8. ClaimStep(p)
    BY <1>1, <2>1, OwnNames DEF ClaimStep, claims, claimed, Goes, Disposing, Changing, Prelink, stays
  <2>9. Works(p) /\ SparedStep(p)
    BY <1>1, <2>1, Stays DEF Goes
  <2> QED
    BY <1>1, <2>1, <2>2, <2>3, <2>4, <2>5, <2>6, <2>7, <2>8, <2>9 DEF Done, Local, Goes
<1> QED
  BY <1>3, <1>4

\* The invariant, of one operation.
LEMMA FileHas ==
  ASSUME FileInv, NEW p \in Procs
  PROVE  /\ op[p] \in Operation /\ Local(p) /\ op \in [Procs -> Operation] /\ Files
         /\ {tmp(p), quarantine(p), rollback(p), disposal(tmp(p)), disposal(quarantine(p)), disposal(rollback(p)), Target, Alt} \subseteq Names
         /\ op[p].temp \in Artifact \cup {Absent} /\ op[p].planned \in Artifact \cup {Absent} /\ op[p].err \in Errors
         /\ op[p].planned # Absent => op[p].planned[1] \in Nat /\ op[p].expected = <<op[p].planned[1], op[p].planned[2]>>
<1>1. op[p] \in Operation /\ Local(p) /\ op \in [Procs -> Operation] /\ Files
  BY DEF FileInv
<1>2. op[p].temp \in Artifact \cup {Absent} /\ op[p].planned \in Artifact \cup {Absent} /\ op[p].err \in Errors
  BY <1>1 DEF Operation
<1>3. op[p].planned # Absent => op[p].planned[1] \in Nat /\ op[p].expected = <<op[p].planned[1], op[p].planned[2]>>
  BY <1>1, <1>2, Links DEF Local, Known
<1> QED
  BY <1>1, <1>2, <1>3, OwnNames

\* What an operation has planned or made is a file, and no new one.
LEMMA KnownFiles ==
  ASSUME FileInv, NEW p \in Procs
  PROVE  /\ op[p].temp # Absent => op[p].temp[1] \in DOMAIN text /\ op[p].temp[1] # 0 /\ op[p].temp[1] # fresh
         /\ op[p].expected # Absent => op[p].expected[1] \in DOMAIN text /\ op[p].expected[1] # 0 /\ op[p].expected[1] # fresh
         /\ op[p].planned # Absent => op[p].planned[1] = op[p].expected[1] /\ op[p].expected # Absent
<1>1. fresh \in Nat /\ DOMAIN text \subseteq 1..(fresh - 1)
  BY FileHas DEF Files
<1>2. 0 \notin DOMAIN text /\ fresh \notin DOMAIN text
  BY <1>1
<1>3. op[p].planned # Absent => op[p].planned[1] = op[p].expected[1] /\ op[p].expected # Absent
  <2>1. op[p].planned # Absent => op[p].expected = <<op[p].planned[1], op[p].planned[2]>> /\ op[p].planned \in Artifact
    BY FileHas
  <2>2. op[p].planned # Absent => <<op[p].planned[1], op[p].planned[2]>> \in Nat \X Nat
    BY <2>1 DEF Artifact
  <2> QED
    BY <2>1, <2>2, AtomicAssumption
<1> QED
  BY <1>2, <1>3, FileHas DEF Local, Known

\* An operation that ends with the new file in place keeps its claim.
LEMMA InstalledLocal ==
  ASSUME FileInv, NEW p \in Procs, stays, installedAnyway(p),
         op[p].pc \in {"validate", "alternates", "uninstall", "uninstallRename"}, op[p].kind = "write"
  PROVE  Done(p)
<1>1. op[p].temp # Absent /\ op[p].failures = {} /\ empty(rollback(p)) /\ op[p].pc \in Changing /\ "installed" \in Errors
      /\ (op[p].planned = Absent => empty(quarantine(p))) /\ (op[p].expected # Absent => op[p].planned # Absent)
  BY FileHas DEF Local, Known, Reporting, Held, Unfailed, Changing, Errors, Planning
<1>2. CASE op[p].planned = Absent
  <2>1. Unwinds(p, "installed", {}) /\ given' = given
    BY <1>1, <1>2, InstalledSo, FileHas
  <2> QED
    BY <1>1, <1>2, <2>1, UnwindsLocal
<1>3. CASE op[p].planned # Absent
  <2> DEFINE F == bindOwned({quarantine(p)}, op[p].planned)
  <2>1. Unwinds(p, "installed", F) /\ given' = given
    BY <1>1, <1>3, InstalledSo, FileHas
  <2>2. F # {} /\ F \subseteq {quarantine(p), Unproven} /\ \A n \in F : n = Unproven \/ dir[n] # 0
    BY FileHas, Binds
  <2> HIDE DEF F
  <2>3. /\ \A n \in F : n = Unproven \/ (n \in namesOf(p) /\ dir[n] # 0)
        /\ tmp(p) \notin F /\ disposal(tmp(p)) \notin F
    BY <2>2, OwnNames
  <2> QED
    BY <1>1, <1>3, <2>1, <2>2, <2>3, UnwindsLocal
<1> QED
  BY <1>2, <1>3

\* An operation that gives back what it has taken.
LEMMA GivesBackLocal ==
  ASSUME FileInv, NEW p \in Procs, stays, givesBack(p), op[p].pc \in {"preinstall", "link"}
  PROVE  Done(p)
<1>1. op[p].temp # Absent /\ op[p].failures = {} /\ empty(rollback(p)) /\ op[p].pc \in Changing /\ "failed" \in Errors /\ op[p].kind = "write"
      /\ (op[p].planned = Absent => empty(quarantine(p))) /\ OwnOnly(p)
  BY FileHas DEF Local, Kinded, Known, Reporting, Held, Undone, Unfailed, Changing, Errors, Planning, Prelink
<1>2. CASE op[p].planned = Absent
  <2>1. Unwinds(p, "failed", {}) /\ given' = given
    BY <1>1, <1>2, GivesBackSo, FileHas
  <2> QED
    BY <1>1, <1>2, <2>1, UnwindsLocal
<1>3. CASE op[p].planned # Absent
  <2>1. GoesOn(p, "restore", {}) /\ given' = given
    BY <1>1, <1>3, GivesBackSo, FileHas
  <2> QED
    BY <1>1, <1>3, <2>1, GoesLocal DEF Changing
<1> QED
  BY <1>2, <1>3

\* An operation that could not give back reports its quarantine.
LEMMA NotRestored ==
  ASSUME FileInv, NEW p \in Procs, stays, op[p].pc \in {"restore", "relink", "relinked", "restoredVerify"},
         becomes(p, [reports(op[p], {quarantine(p)}, op[p].planned) EXCEPT !.pc = "restored"])
  PROVE  Done(p)
<1> DEFINE B == bindOwned({quarantine(p)}, op[p].planned)
<1>1. B # {} /\ B \subseteq {quarantine(p), Unproven} /\ \A n \in B : n = Unproven \/ dir[n] # 0
  BY FileHas, Binds
<1>2. GoesOn(p, "restored", op[p].failures \cup B) /\ given' = given
  BY FileHas, ReportedGoes DEF Pcs, Changing
<1>3. /\ \A n \in op[p].failures : n = Unproven \/ (n \in namesOf(p) /\ dir[n] # 0)
      /\ op[p].planned # Absent /\ tmp(p) \notin op[p].failures /\ disposal(tmp(p)) \notin op[p].failures
  BY FileHas, OwnNames DEF Local, Known, Reporting
<1> HIDE DEF B
<1> DEFINE F == op[p].failures \cup B
<1>4. /\ \A n \in F : n = Unproven \/ (n \in namesOf(p) /\ dir[n] # 0)
      /\ F # {} /\ tmp(p) \notin F /\ disposal(tmp(p)) \notin F
  BY <1>1, <1>3, OwnNames
<1> HIDE DEF F
<1>5. GoesOn(p, "restored", F)
  BY <1>2 DEF F
<1> QED
  BY <1>2, <1>3, <1>4, <1>5, GoesLocal DEF Changing

\* What the rename brought is the planned file, or is reported.
LEMMA VerifyStep ==
  ASSUME FileInv, NEW p \in Procs, verify(p)
  PROVE  Done(p)
<1>1. op[p].pc = "verify" /\ stays
  BY DEF verify, at
<1>2. /\ op[p].failures = {} /\ op[p].kind \in {"write", "unlink"} /\ op[p].planned # Absent /\ empty(rollback(p))
      /\ op[p].kind = "unlink" \/ op[p].temp # Absent
  BY <1>1, FileHas DEF Local, Kinded, Known, Reporting, Held, Changing, Unfailed, Planning
<1>3. ASSUME artifact(quarantine(p)) = op[p].planned, goes(p, IF op[p].kind = "unlink" THEN "alternates" ELSE "preinstall")
      PROVE  Done(p)
  <2> DEFINE pc == IF op[p].kind = "unlink" THEN "alternates" ELSE "preinstall"
  <2>1. pc \in Pcs
    BY DEF Pcs, Changing
  <2>2. GoesOn(p, pc, {}) /\ given' = given
    BY <1>2, <1>3, <2>1, FileHas, GoesThere
  <2>3. dir[quarantine(p)] = op[p].planned[1]
    BY <1>2, <1>3, FileHas, Reads
  <2>4. pc \in {"alternates", "preinstall"} /\ (pc = "preinstall" => op[p].kind = "write") /\ (pc = "alternates" => op[p].kind = "unlink")
    BY <1>2
  <2> HIDE DEF pc
  <2> QED
    BY <1>1, <1>2, <2>2, <2>3, <2>4, GoesLocal DEF Changing
<1>4. ASSUME becomes(p, unwound(p, [reports(op[p], {quarantine(p)}, op[p].planned) EXCEPT !.err = "unlinked"]))
      PROVE  Done(p)
  <2> DEFINE F == bindOwned({quarantine(p)}, op[p].planned)
             r == reports(op[p], {quarantine(p)}, op[p].planned)
             o == [r EXCEPT !.err = "unlinked"]
  <2>1. F # {} /\ F \subseteq {quarantine(p), Unproven} /\ \A n \in F : n = Unproven \/ dir[n] # 0
    BY FileHas, Binds
  <2>2. /\ r \in Operation /\ r.failures = F /\ r.kind = op[p].kind /\ r.expected = op[p].expected
        /\ r.planned = op[p].planned /\ r.temp = op[p].temp
    <3>1. {quarantine(p)} \in SUBSET Names /\ Files /\ op \in [Procs -> Operation]
      BY FileHas
    <3>2. /\ r \in Operation /\ r.failures = op[p].failures \cup F /\ r.kind = op[p].kind /\ r.expected = op[p].expected
          /\ r.planned = op[p].planned /\ r.temp = op[p].temp
      BY <3>1, Reported
    <3> QED
      BY <1>2, <3>2
  <2> HIDE DEF F, r
  <2>3. /\ o \in Operation /\ o.failures = F /\ o.kind = op[p].kind /\ o.expected = op[p].expected
        /\ o.planned = op[p].planned /\ o.temp = op[p].temp /\ o.err = "unlinked"
    BY <2>2 DEF Operation, Errors
  <2>4. becomes(p, unwound(p, o))
    BY <1>4 DEF r
  <2> HIDE DEF o
  <2>5. Unwinds(p, "unlinked", F) /\ given' = given
    BY <1>2, <2>3, <2>4, FileHas, Unwound
  <2>6. /\ \A n \in F : n = Unproven \/ (n \in namesOf(p) /\ dir[n] # 0)
        /\ tmp(p) \notin F /\ disposal(tmp(p)) \notin F
    BY <2>1, OwnNames
  <2> QED
    BY <1>1, <1>2, <2>1, <2>5, <2>6, UnwindsLocal DEF Errors, Changing
<1> QED
  BY <1>3, <1>4 DEF verify, succeeds

\* The last look before the link finds the temporary.
LEMMA PreinstallStep ==
  ASSUME FileInv, NEW p \in Procs, preinstall(p)
  PROVE  Done(p)
<1>1. op[p].pc = "preinstall" /\ stays
  BY DEF preinstall, at
<1>2. op[p].failures = {} /\ op[p].kind = "write" /\ op[p].temp # Absent
  BY <1>1, FileHas DEF Local, Kinded, Known, Reporting, Changing, Unfailed, Planning
<1>3. ASSUME artifact(tmp(p)) = op[p].temp, goes(p, "link")
      PROVE  Done(p)
  <2>1. GoesOn(p, "link", {}) /\ given' = given
    BY <1>2, <1>3, FileHas, GoesThere DEF Pcs, Changing
  <2>2. dir[tmp(p)] = op[p].temp[1]
    BY <1>2, <1>3, FileHas, Reads
  <2> QED
    BY <1>1, <1>2, <2>1, <2>2, GoesLocal DEF Changing
<1> QED
  BY <1>1, <1>3, GivesBackLocal DEF preinstall, succeeds

\* The look after the link.
LEMMA ValidateStep ==
  ASSUME FileInv, NEW p \in Procs, validate(p)
  PROVE  Done(p)
<1>1. op[p].pc = "validate" /\ stays
  BY DEF validate, at
<1>2. op[p].failures = {} /\ op[p].kind = "write"
  BY <1>1, FileHas DEF Local, Kinded, Reporting, Changing, Unfailed
<1>3. ASSUME goes(p, "alternates")
      PROVE  Done(p)
  <2>1. GoesOn(p, "alternates", {}) /\ given' = given
    BY <1>2, <1>3, FileHas, GoesThere DEF Pcs, Changing
  <2> QED
    BY <1>1, <1>2, <2>1, GoesLocal DEF Changing
<1> QED
  BY <1>1, <1>2, <1>3, InstalledLocal DEF validate

\* The alternate is absent still, or the change is undone.
LEMMA AlternatesStep ==
  ASSUME FileInv, NEW p \in Procs, alternates(p)
  PROVE  Done(p)
<1>1. op[p].pc = "alternates" /\ stays
  BY DEF alternates, at
<1>2. /\ op[p].failures = {} /\ op[p].kind \in {"write", "unlink"} /\ empty(rollback(p)) /\ (op[p].planned = Absent => empty(quarantine(p)))
      /\ op[p].kind = "unlink" => op[p].planned # Absent /\ op[p].temp = Absent
      /\ op[p].kind = "write" => op[p].temp # Absent
      /\ op[p].expected # Absent => op[p].planned # Absent
  BY <1>1, FileHas DEF Local, Kinded, Known, Reporting, Held, Changing, Unfailed, Planning
<1>3. ASSUME op[p].planned # Absent, disposes(p, quarantine(p), op[p].planned, IF op[p].kind = "unlink" THEN "end" ELSE "disposeTmp")
      PROVE  Done(p)
  <2> DEFINE ret == IF op[p].kind = "unlink" THEN "end" ELSE "disposeTmp"
  <2>1. op[p].planned \in Artifact /\ snapshotOf(op[p].planned) = op[p].expected /\ ret \in {"end", "disposeTmp", "restoredVerify", "uninstalled"}
    BY <1>3, FileHas DEF Local, Known
  <2>2. Disposes(p, quarantine(p), ret) /\ given' = given
    BY <1>3, <2>1, FileHas, DisposesSo
  <2> QED
    BY <1>1, <1>2, <1>3, <2>2, DisposesLocal
<1>4. ASSUME op[p].planned = Absent, fails(p, "none")
      PROVE  Done(p)
  <2>1. Unwinds(p, "none", {}) /\ given' = given
    BY <1>2, <1>4, FileHas, FailsSo DEF Errors
  <2> QED
    BY <1>1, <1>2, <1>4, <2>1, UnwindsLocal DEF Errors, Changing
<1>5. ASSUME op[p].kind = "unlink", goes(p, "restore")
      PROVE  Done(p)
  <2>1. GoesOn(p, "restore", {}) /\ given' = given
    BY <1>2, <1>5, FileHas, GoesThere DEF Pcs, Changing
  <2>2. OwnOnly(p)
    BY <1>2, <1>5 DEF OwnOnly
  <2> QED
    BY <1>1, <1>2, <1>5, <2>1, <2>2, GoesLocal DEF Changing
<1>6. ASSUME op[p].kind = "write", goes(p, "uninstall")
      PROVE  Done(p)
  <2>1. GoesOn(p, "uninstall", {}) /\ given' = given
    BY <1>2, <1>6, FileHas, GoesThere DEF Pcs, Changing
  <2> QED
    BY <1>1, <1>2, <1>6, <2>1, GoesLocal DEF Changing
<1> QED
  BY <1>1, <1>3, <1>4, <1>5, <1>6, InstalledLocal DEF alternates, quarantined

\* Only the file that was installed is taken back.
LEMMA UninstallStep ==
  ASSUME FileInv, NEW p \in Procs, uninstall(p)
  PROVE  Done(p)
<1>1. op[p].pc = "uninstall" /\ stays
  BY DEF uninstall, at
<1>2. op[p].failures = {} /\ op[p].kind = "write"
  BY <1>1, FileHas DEF Local, Kinded, Reporting, Changing, Unfailed
<1>3. ASSUME goes(p, "uninstallRename")
      PROVE  Done(p)
  <2>1. GoesOn(p, "uninstallRename", {}) /\ given' = given
    BY <1>2, <1>3, FileHas, GoesThere DEF Pcs, Changing
  <2> QED
    BY <1>1, <1>2, <2>1, GoesLocal DEF Changing
<1> QED
  BY <1>1, <1>2, <1>3, InstalledLocal DEF uninstall

\* The original is given back only when it is in the quarantine.
LEMMA RestoreStep ==
  ASSUME FileInv, NEW p \in Procs, restore(p)
  PROVE  Done(p)
<1>1. op[p].pc = "restore" /\ stays
  BY DEF restore, at
<1>2. /\ op[p].planned \in Artifact /\ op[p].failures \subseteq {rollback(p), disposal(rollback(p)), Unproven}
      /\ \A n \in op[p].failures : n = Unproven \/ (n \in namesOf(p) /\ dir[n] # 0)
      /\ op[p].failures = {} => OwnOnly(p) /\ empty(rollback(p))
  BY <1>1, FileHas, AtomicAssumption DEF Local, Known, Reporting, Held, Undone, disposing, Disposing
<1>3. ASSUME artifact(quarantine(p)) = op[p].planned, becomes(p, [op[p] EXCEPT !.pc = "relink"])
      PROVE  Done(p)
  <2>1. GoesOn(p, "relink", op[p].failures) /\ given' = given
    BY <1>3, FileHas, GoesThere DEF goes, Pcs, Changing
  <2>2. dir[quarantine(p)] = op[p].planned[1] /\ op[p].planned # Absent
    BY <1>2, <1>3, FileHas, Reads, Links
  <2> QED
    BY <1>1, <1>2, <2>1, <2>2, GoesLocal DEF Changing
<1> QED
  BY <1>1, <1>3, NotRestored DEF restore, succeeds

\* The original is removed from the quarantine when it is in both places.
LEMMA RelinkedVerifyStep ==
  ASSUME FileInv, NEW p \in Procs, relinkedVerify(p)
  PROVE  Done(p)
<1>1. op[p].pc = "relinked" /\ stays
  BY DEF relinkedVerify, at
<1>2. ASSUME artifact(quarantine(p)) = relinked(p), disposes(p, quarantine(p), relinked(p), "restoredVerify")
      PROVE  Done(p)
  <2>1. op[p].planned \in Artifact /\ op[p].planned # Absent /\ snapshotOf(op[p].planned) = op[p].expected
    BY <1>1, FileHas DEF Local, Known
  <2>2. relinked(p) \in Artifact /\ snapshotOf(relinked(p)) = op[p].expected
    <3>1. op[p].planned[3] + 1 \in Nat
      BY <2>1 DEF Artifact
    <3> QED
      BY <2>1, <3>1, Links DEF relinked
  <2>3. Disposes(p, quarantine(p), "restoredVerify") /\ given' = given
    BY <1>2, <2>2, FileHas, DisposesSo
  <2> QED
    BY <1>1, <2>1, <2>3, DisposesLocal
<1> QED
  BY <1>1, <1>2, NotRestored DEF relinkedVerify, succeeds

\* A restored original is alone, or what is left is reported.
LEMMA RestoredVerifyStep ==
  ASSUME FileInv, NEW p \in Procs, restoredVerify(p)
  PROVE  Done(p)
<1>1. op[p].pc = "restoredVerify" /\ stays
  BY DEF restoredVerify, at
<1>2. /\ op[p].planned # Absent /\ tmp(p) \notin op[p].failures /\ disposal(tmp(p)) \notin op[p].failures
      /\ \A n \in op[p].failures : n = Unproven \/ (n \in namesOf(p) /\ dir[n] # 0)
      /\ op[p].failures = {} => OwnOnly(p) /\ empty(rollback(p)) /\ empty(quarantine(p))
  BY <1>1, FileHas DEF Local, Known, Reporting, Held, Undone, disposing, Disposing
<1>3. ASSUME becomes(p, [op[p] EXCEPT !.pc = "restored"])
      PROVE  Done(p)
  <2>1. GoesOn(p, "restored", op[p].failures) /\ given' = given
    BY <1>3, FileHas, GoesThere DEF goes, Pcs, Changing
  <2> QED
    BY <1>1, <1>2, <2>1, GoesLocal DEF Changing
<1> QED
  BY <1>1, <1>3, NotRestored DEF restoredVerify

\* After an attempt to restore the operation has failed.
LEMMA RestoredStep ==
  ASSUME FileInv, NEW p \in Procs, restored(p)
  PROVE  Done(p)
<1>1. op[p].pc = "restored" /\ stays
  BY DEF restored, at
<1>2. /\ tmp(p) \notin op[p].failures /\ disposal(tmp(p)) \notin op[p].failures /\ op[p].kind \in {"write", "unlink"}
      /\ \A n \in op[p].failures : n = Unproven \/ (n \in namesOf(p) /\ dir[n] # 0)
      /\ op[p].failures = {} => OwnOnly(p) /\ empty(rollback(p)) /\ empty(quarantine(p))
      /\ op[p].kind = "unlink" \/ op[p].temp # Absent
  BY <1>1, FileHas DEF Local, Kinded, Known, Reporting, Held, Undone, disposing, Disposing, Changing, Planning
<1>3. ASSUME NEW err \in {"failed", "unlinked"}, fails(p, err)
      PROVE  Done(p)
  <2>1. Unwinds(p, err, op[p].failures) /\ given' = given
    BY <1>2, <1>3, FileHas, FailsSo DEF Errors
  <2> QED
    BY <1>1, <1>2, <2>1, UnwindsLocal DEF Errors, Changing
<1> QED
  BY <1>3 DEF restored

\* Once through, the temporary is removed.
LEMMA DisposeTmpStep ==
  ASSUME FileInv, NEW p \in Procs, disposeTmp(p)
  PROVE  Done(p)
<1>1. op[p].pc = "disposeTmp" /\ stays
  BY DEF disposeTmp, at
<1>2. /\ tmp(p) \notin op[p].failures /\ disposal(tmp(p)) \notin op[p].failures /\ op[p].kind = "write"
      /\ \A n \in op[p].failures : n = Unproven \/ (n \in namesOf(p) /\ dir[n] # 0)
      /\ op[p].failures = {} => empty(rollback(p)) /\ empty(quarantine(p))
      /\ op[p].temp # Absent /\ (op[p].expected # Absent => op[p].planned # Absent)
  BY <1>1, FileHas DEF Local, Kinded, Known, Reporting, Held, disposing, Disposing, Changing, Planning
<1>3. ASSUME NEW err \in {"none", "installed"}, fails(p, err)
      PROVE  Done(p)
  <2>1. Unwinds(p, err, op[p].failures) /\ given' = given
    BY <1>2, <1>3, FileHas, FailsSo DEF Errors
  <2> QED
    BY <1>1, <1>2, <2>1, UnwindsLocal DEF Errors, Changing
<1> QED
  BY <1>3 DEF disposeTmp

\* A new file with two links, one at the temporary name and one at the
\* rollback name, is under no other name.
LEMMA LinkedTwice ==
  ASSUME FileInv, NEW p \in Procs, op[p].temp # Absent, dir[tmp(p)] = op[p].temp[1], artifact(rollback(p)) = linkedTemporary(p)
  PROVE  OwnOnly(p)
<1> DEFINE i == op[p].temp[1]
           N == {n \in Names : dir[n] = i}
<1>1. op[p].temp \in Artifact /\ tmp(p) \in Names /\ rollback(p) \in Names /\ tmp(p) # rollback(p) /\ {tmp(p), rollback(p)} \subseteq namesOf(p)
  BY FileHas, OwnNames
<1>2. linkedTemporary(p) = <<i, op[p].temp[2], 2>> /\ linkedTemporary(p) # Absent
  BY <1>1, Links DEF linkedTemporary, withLinkCount
<1>3. dir[rollback(p)] # 0
  BY <1>1, <1>2, FileHas, Reads
<1>4. dir[rollback(p)] = i /\ linkCount(i) = 2
  BY <1>1, <1>2, <1>3 DEF artifact
<1>5. IsFiniteSet(N) /\ Cardinality(N) = 2
  BY <1>4, NamesFinite, FS_Subset DEF linkCount
<1>6. {tmp(p), rollback(p)} \subseteq N
  BY <1>1, <1>4
<1>7. Cardinality({tmp(p), rollback(p)}) = 2
  <2>1. IsFiniteSet({tmp(p)}) /\ Cardinality({tmp(p)}) = 1
    BY FS_Singleton
  <2>2. Cardinality({tmp(p)} \cup {rollback(p)}) = 2
    <3>1. rollback(p) \notin {tmp(p)}
      BY <1>1
    <3>2. Cardinality({tmp(p)} \cup {rollback(p)}) = Cardinality({tmp(p)}) + 1
      BY <2>1, <3>1, FS_AddElement
    <3> QED
      BY <2>1, <3>2
  <2>3. {tmp(p)} \cup {rollback(p)} = {tmp(p), rollback(p)}
    OBVIOUS
  <2> QED
    BY <2>2, <2>3
<1>8. N = {tmp(p), rollback(p)}
  BY <1>5, <1>6, <1>7, FS_Subset
<1> QED
  BY <1>1, <1>8 DEF OwnOnly

\* The number of links it is known to have is all recount changes.
LEMMA Recounts ==
  ASSUME FileInv, NEW p \in Procs, NEW o \in Operation
  PROVE  LET r == recount(p, o) IN
         /\ r \in Operation /\ r.kind = o.kind /\ r.expected = o.expected /\ r.planned = o.planned /\ r.temp = o.temp
         /\ r.err = o.err /\ r.failures = o.failures /\ r.victim = o.victim /\ r.bound = o.bound /\ r.ret = o.ret
<1>1. linkCount(dir[tmp(p)]) \in Nat
  BY NamesFinite
<1> DEFINE k == linkCount(dir[tmp(p)])
           r == [o EXCEPT !.links = k]
<1> HIDE DEF k
<1>2. /\ r \in Operation /\ r.kind = o.kind /\ r.expected = o.expected /\ r.planned = o.planned /\ r.temp = o.temp
      /\ r.err = o.err /\ r.failures = o.failures /\ r.victim = o.victim /\ r.bound = o.bound /\ r.ret = o.ret
  BY <1>1 DEF Operation, k
<1> QED
  BY <1>2 DEF recount, k

\* The end of an attempt to take the new file back.
LEMMA UninstallEnds ==
  ASSUME FileInv, NEW p \in Procs, stays, op[p].pc \in {"uninstallVerify", "uninstalled"}, NEW o \in Operation,
         o.kind = op[p].kind, o.expected = op[p].expected, o.planned = op[p].planned, o.temp = op[p].temp, o.err = op[p].err,
         o.victim = op[p].victim, o.bound = op[p].bound, o.ret = op[p].ret,
         o.failures \subseteq {rollback(p), disposal(rollback(p)), Unproven},
         \A n \in o.failures : n = Unproven \/ (n \in namesOf(p) /\ dir[n] # 0),
         o.failures = {} => OwnOnly(p) /\ empty(rollback(p)),
         becomes(p, IF quarantined(p) THEN [o EXCEPT !.pc = "restore"] ELSE unwound(p, [o EXCEPT !.err = "failed"]))
  PROVE  Done(p)
<1>1. op[p].kind = "write" /\ op[p].temp # Absent /\ op[p].err = "none" /\ (op[p].planned = Absent => empty(quarantine(p)))
      /\ tmp(p) \notin o.failures /\ disposal(tmp(p)) \notin o.failures
  BY FileHas, OwnNames DEF Local, Kinded, Known, Held, Changing, Planning
<1>2. CASE op[p].planned # Absent
  <2> DEFINE r == [o EXCEPT !.pc = "restore"]
  <2>1. /\ r \in Operation /\ r.pc = "restore" /\ r.kind = o.kind /\ r.expected = o.expected /\ r.planned = o.planned /\ r.temp = o.temp
        /\ r.err = o.err /\ r.failures = o.failures /\ r.victim = o.victim /\ r.bound = o.bound /\ r.ret = o.ret
    BY DEF Operation, Pcs, Changing
  <2>2. becomes(p, r)
    BY <1>2 DEF quarantined
  <2> HIDE DEF r
  <2>3. GoesOn(p, "restore", o.failures) /\ given' = given
    BY <2>1, <2>2, FileHas, Becomes DEF GoesOn, Goes
  <2> QED
    BY <1>1, <1>2, <2>3, GoesLocal DEF Changing
<1>3. CASE op[p].planned = Absent
  <2> DEFINE r == [o EXCEPT !.err = "failed"]
  <2>1. /\ r \in Operation /\ r.err = "failed" /\ r.kind = o.kind /\ r.expected = o.expected /\ r.planned = o.planned /\ r.temp = o.temp
        /\ r.failures = o.failures
    BY DEF Operation, Errors
  <2>2. becomes(p, unwound(p, r))
    BY <1>3 DEF quarantined
  <2> HIDE DEF r
  <2>3. Unwinds(p, "failed", o.failures) /\ given' = given
    BY <1>1, <2>1, <2>2, FileHas, Unwound
  <2> QED
    BY <1>1, <1>3, <2>3, UnwindsLocal DEF Changing, Errors
<1> QED
  BY <1>2, <1>3

\* What was taken back is the new file with its two links, or is reported.
LEMMA UninstallVerifyStep ==
  ASSUME FileInv, NEW p \in Procs, uninstallVerify(p)
  PROVE  Done(p)
<1>1. op[p].pc = "uninstallVerify" /\ stays
  BY DEF uninstallVerify, at
<1>2. op[p].failures = {} /\ op[p].temp # Absent /\ op[p].temp \in Artifact /\ dir[tmp(p)] = op[p].temp[1]
  BY <1>1, FileHas DEF Local, Kinded, Known, Reporting, Temporary, Standing, Unfailed, Planning
<1>3. linkedTemporary(p) \in Artifact /\ snapshotOf(linkedTemporary(p)) = snapshotOf(op[p].temp)
  BY <1>2, Links DEF linkedTemporary
<1>4. ASSUME artifact(rollback(p)) = linkedTemporary(p), disposes(p, rollback(p), linkedTemporary(p), "uninstalled")
      PROVE  Done(p)
  <2>1. Disposes(p, rollback(p), "uninstalled") /\ given' = given
    BY <1>3, <1>4, FileHas, DisposesSo
  <2>2. OwnOnly(p)
    BY <1>2, <1>4, LinkedTwice
  <2> QED
    BY <1>1, <2>1, <2>2, DisposesLocal
<1>5. ASSUME becomes(p, IF quarantined(p) THEN [recount(p, reports(op[p], {rollback(p)}, linkedTemporary(p))) EXCEPT !.pc = "restore"]
                        ELSE unwound(p, [recount(p, reports(op[p], {rollback(p)}, linkedTemporary(p))) EXCEPT !.err = "failed"]))
      PROVE  Done(p)
  <2> DEFINE r == reports(op[p], {rollback(p)}, linkedTemporary(p))
             o == recount(p, r)
             B == bindOwned({rollback(p)}, linkedTemporary(p))
  <2>1. {rollback(p)} \in SUBSET Names /\ Files /\ op \in [Procs -> Operation]
    BY FileHas
  <2>2. /\ r \in Operation /\ r.failures = op[p].failures \cup B /\ r.kind = op[p].kind /\ r.expected = op[p].expected /\ r.err = op[p].err
        /\ r.planned = op[p].planned /\ r.temp = op[p].temp /\ r.victim = op[p].victim /\ r.bound = op[p].bound /\ r.ret = op[p].ret
    BY <2>1, Reported
  <2>3. B # {} /\ B \subseteq {rollback(p), Unproven} /\ \A n \in B : n = Unproven \/ dir[n] # 0
    BY <2>1, Binds
  <2> HIDE DEF r, B
  <2>4. /\ o \in Operation /\ o.failures = r.failures /\ o.kind = r.kind /\ o.expected = r.expected /\ o.err = r.err
        /\ o.planned = r.planned /\ o.temp = r.temp /\ o.victim = r.victim /\ o.bound = r.bound /\ o.ret = r.ret
    BY <2>2, Recounts
  <2>5. becomes(p, IF quarantined(p) THEN [o EXCEPT !.pc = "restore"] ELSE unwound(p, [o EXCEPT !.err = "failed"]))
    BY <1>5 DEF r
  <2> HIDE DEF o
  <2>6. o.failures = B /\ (\A n \in B : n = Unproven \/ (n \in namesOf(p) /\ dir[n] # 0))
    BY <1>2, <2>2, <2>3, <2>4, OwnNames
  <2> QED
    BY <1>1, <2>2, <2>3, <2>4, <2>5, <2>6, UninstallEnds
<1> QED
  BY <1>1, <1>4, <1>5 DEF uninstallVerify, succeeds

\* The new file is taken back, and the original can be restored.
LEMMA UninstalledStep ==
  ASSUME FileInv, NEW p \in Procs, uninstalled(p)
  PROVE  Done(p)
<1> DEFINE o == IF dir[rollback(p)] = 0 /\ dir[disposal(rollback(p))] = 0 THEN [op[p] EXCEPT !.links = 1] ELSE recount(p, op[p])
<1>1. /\ op[p].pc = "uninstalled" /\ stays
      /\ becomes(p, IF quarantined(p) THEN [o EXCEPT !.pc = "restore"] ELSE unwound(p, [o EXCEPT !.err = "failed"]))
  BY DEF uninstalled, at
<1>2. /\ o \in Operation /\ o.kind = op[p].kind /\ o.expected = op[p].expected /\ o.planned = op[p].planned /\ o.temp = op[p].temp
      /\ o.err = op[p].err /\ o.failures = op[p].failures /\ o.victim = op[p].victim /\ o.bound = op[p].bound /\ o.ret = op[p].ret
  <2>1. op[p] \in Operation
    BY FileHas
  <2>2. CASE dir[rollback(p)] = 0 /\ dir[disposal(rollback(p))] = 0
    <3>1. o = [op[p] EXCEPT !.links = 1]
      BY <2>2
    <3> HIDE DEF o
    <3> QED
      BY <2>1, <3>1 DEF Operation
  <2>3. CASE ~(dir[rollback(p)] = 0 /\ dir[disposal(rollback(p))] = 0)
    <3>1. o = recount(p, op[p])
      BY <2>3
    <3> HIDE DEF o
    <3> QED
      BY <2>1, <3>1, Recounts
  <2> QED
    BY <2>2, <2>3
<1> HIDE DEF o
<1>3. /\ op[p].failures \subseteq {rollback(p), disposal(rollback(p)), Unproven}
      /\ \A n \in op[p].failures : n = Unproven \/ (n \in namesOf(p) /\ dir[n] # 0)
      /\ op[p].failures = {} => OwnOnly(p) /\ empty(rollback(p))
  BY <1>1, FileHas DEF Local, Reporting, Held, Undone, disposing, Disposing
<1> QED
  BY <1>1, <1>2, <1>3, UninstallEnds

\* A removal that fails reports the name that still holds the file.
LEMMA DisposalFails ==
  ASSUME FileInv, NEW p \in Procs, stays, op[p].pc \in Disposing, disposalFails(p)
  PROVE  Done(p)
<1> DEFINE v == op[p].victim
           B == bindOwned({disposal(v), v}, op[p].bound)
           F == op[p].failures \cup B
           pc == op[p].ret
<1>1. /\ \/ v = tmp(p) /\ pc = "end" /\ op[p].kind \in {"write", "overwrite"}
         \/ v = quarantine(p) /\ pc = "end" /\ op[p].kind = "unlink"
         \/ v = quarantine(p) /\ pc = "disposeTmp" /\ op[p].kind = "write"
         \/ v = quarantine(p) /\ pc = "restoredVerify" /\ op[p].kind \in {"write", "unlink"}
         \/ v = rollback(p) /\ pc = "uninstalled" /\ op[p].kind = "write"
      /\ pc # "end" => op[p].err = "none"
  BY FileHas DEF Local, Kinded, Known
<1>2. {disposal(v), v} \in SUBSET Names /\ {disposal(v), v} \subseteq namesOf(p) /\ pc \in Pcs
  BY <1>1, OwnNames DEF Pcs, Changing
<1>3. B # {} /\ B \subseteq {disposal(v), v, Unproven} /\ \A n \in B : n = Unproven \/ dir[n] # 0
  BY <1>2, FileHas, Binds
<1>4. GoesOn(p, pc, F) /\ given' = given
  BY <1>2, FileHas, ReportedGoes DEF disposalFails
<1>5. /\ \A n \in op[p].failures : n = Unproven \/ (n \in namesOf(p) /\ dir[n] # 0)
      /\ v = rollback(p) => op[p].failures = {}
      /\ v = quarantine(p) => op[p].failures \subseteq {rollback(p), disposal(rollback(p)), Unproven}
  BY FileHas DEF Local, Reporting, disposing
<1> HIDE DEF B
<1>6. /\ F # {} /\ \A n \in F : n = Unproven \/ (n \in namesOf(p) /\ dir[n] # 0)
      /\ v = rollback(p) => F \subseteq {rollback(p), disposal(rollback(p)), Unproven}
      /\ v = quarantine(p) => tmp(p) \notin F /\ disposal(tmp(p)) \notin F
  BY <1>2, <1>3, <1>5, OwnNames
<1> HIDE DEF F, pc
<1>7. /\ op[p] \in Operation /\ Local(p) /\ op \in [Procs -> Operation] /\ dir' = dir /\ text' = text
      /\ Goes(p, pc, op[p].err, F) /\ op'[p].planned = op[p].planned /\ op'[p].temp = op[p].temp
      /\ pc \in {"end", "disposeTmp", "restoredVerify", "uninstalled"} /\ op[p].ret = pc
  BY <1>1, <1>4, FileHas DEF stays, GoesOn, pc
<1>8. Kinded(p)'
  BY <1>1, <1>7 DEF Kinded, Goes, Planning, Changing, Publishing, Disposing
<1>9. Known(p)'
  BY <1>1, <1>7 DEF Local, Known, Goes, Planning, Changing, Publishing, Disposing, disposing
<1>10. Reporting(p)'
  BY <1>1, <1>6, <1>7, OwnNames DEF Reporting, Goes, Unfailed, Disposing, disposing
<1>11. Held(p)'
  BY <1>1, <1>6, <1>7, OwnNames DEF Local, Held, Goes, Unfailed, Changing, Disposing, disposing, empty
<1>12. Temporary(p)'
  BY <1>1, <1>6, <1>7, OwnNames DEF Local, Temporary, Standing, Goes, Disposing, disposing, empty
<1>13. Undone(p)'
  BY <1>6, <1>7 DEF Undone, Goes, Disposing, Prelink
<1>14. ClaimStep(p)
  BY <1>1, <1>7 DEF ClaimStep, claims, claimed, Goes, Disposing, Prelink
<1>15. Works(p) /\ SparedStep(p)
  BY <1>7, Stays DEF Goes
<1> QED
  BY <1>4, <1>7, <1>8, <1>9, <1>10, <1>11, <1>12, <1>13, <1>14, <1>15 DEF Done, Local, Goes

\* The artifact moves to its disposal name, ...
LEMMA DisposeStep ==
  ASSUME FileInv, NEW p \in Procs, dispose(p)
  PROVE  Done(p)
<1> DEFINE v == op[p].victim
<1>1. op[p].pc = "dispose"
  BY DEF dispose, at
<1>2. ASSUME artifact(v) = op[p].bound, dir' = [dir EXCEPT ![disposal(v)] = dir[v], ![v] = 0],
             goes(p, "disposeVerify"), UNCHANGED <<text, fresh>>
      PROVE  Done(p)
  <2>1. GoesOn(p, "disposeVerify", op[p].failures) /\ given' = given
    BY <1>2, FileHas, GoesThere DEF Pcs, Disposing
  <2>2. v \in {tmp(p), quarantine(p), rollback(p)} /\ {v, disposal(v)} \subseteq namesOf(p) /\ namesOf(p) \subseteq Names /\ v # disposal(v)
    BY <1>1, FileHas, OwnNames DEF Local, Kinded, Disposing
  <2>3. dir \in [Names -> Nat] /\ dir[disposal(v)] = 0
    BY <1>1, FileHas DEF Local, Held, Files
  <2>4. dir' \in [Names -> Nat] /\ dir'[v] = 0 /\ dir'[disposal(v)] = dir[v] /\ \A n \in Names \ {v, disposal(v)} : dir'[n] = dir[n]
    BY <1>2, <2>2, <2>3
  <2>5. /\ op[p] \in Operation /\ Local(p) /\ op \in [Procs -> Operation] /\ text' = text /\ fresh' = fresh
        /\ Goes(p, "disposeVerify", op[p].err, op[p].failures) /\ op'[p].planned = op[p].planned /\ op'[p].temp = op[p].temp
        /\ op'[p].victim = v /\ op'[p].ret = op[p].ret /\ op'[p].bound = op[p].bound
    BY <1>2, <2>1, FileHas DEF GoesOn
  <2> HIDE DEF v
  <2>6. Kinded(p)' /\ Known(p)'
    BY <1>1, <2>5 DEF Local, Kinded, Known, Goes, Planning, Changing, Publishing, Disposing, disposing, v
  <2>7. Reporting(p)'
    <3>1. \A n \in op[p].failures : n # v /\ n # disposal(v)
      BY <1>1, <2>2, <2>5, OwnNames DEF Local, Reporting, Disposing, disposing, v
    <3>2. \A n \in op[p].failures : n = Unproven \/ (n \in namesOf(p) /\ dir'[n] # 0)
      BY <2>2, <2>4, <2>5, <3>1, OwnNames DEF Local, Reporting
    <3> QED
      BY <1>1, <2>5, <3>2 DEF Local, Reporting, Goes, Unfailed, Disposing, disposing, v
  <2>8. Held(p)'
    BY <1>1, <2>2, <2>4, <2>5, OwnNames DEF Local, Kinded, Known, Held, Goes, Unfailed, Changing, Disposing, disposing, empty, v
  <2>9. Temporary(p)'
    BY <1>1, <2>2, <2>3, <2>4, <2>5, OwnNames DEF Local, Kinded, Known, Temporary, Standing, Planning, Goes, Disposing, disposing, empty, v
  <2>10. Undone(p)'
    BY <1>1, <2>2, <2>4, <2>5, OwnNames DEF Local, Undone, OwnOnly, Goes, Disposing, Prelink
  <2>11. ClaimStep(p)
    BY <1>1, <2>2, <2>4, <2>5, OwnNames DEF ClaimStep, claims, claimed, Goes, Disposing, Prelink
  <2>12. Works(p)
    BY <2>2, <2>3, <2>4, <2>5, OwnNames DEF Works
  <2>13. SparedStep(p)
    <3>1. \A n : removes(p, n) <=> op[p].kind = "replace" /\ n = tmp(p)
      BY <1>1 DEF removes
    <3>2. \A n : removes(p, n)' <=> op[p].kind = "replace" /\ n = tmp(p)
      BY <2>5 DEF removes, Goes
    <3>3. op[p].kind # "replace"
      BY <1>1, <2>5 DEF Local, Kinded, Disposing
    <3> QED
      BY <2>2, <2>3, <2>4, <3>1, <3>2, <3>3, OwnNames DEF SparedStep
  <2> QED
    BY <2>1, <2>5, <2>6, <2>7, <2>8, <2>9, <2>10, <2>11, <2>12, <2>13 DEF Done, Local, Goes
<1> QED
  BY <1>1, <1>2, DisposalFails DEF dispose, succeeds, Disposing

\* ... is read once more: it is the file whose bytes were given up, ...
LEMMA DisposeVerifyStep ==
  ASSUME FileInv, NEW p \in Procs, disposeVerify(p)
  PROVE  Done(p)
<1> DEFINE v == op[p].victim
           d == disposal(v)
<1>1. op[p].pc = "disposeVerify" /\ stays
  BY DEF disposeVerify, at
<1>2. ASSUME artifact(d) = op[p].bound, goes(p, "disposeUnlink")
      PROVE  Done(p)
  <2>1. GoesOn(p, "disposeUnlink", op[p].failures) /\ given' = given
    BY <1>2, FileHas, GoesThere DEF Pcs, Disposing
  <2>2. v \in {tmp(p), quarantine(p), rollback(p)} /\ {v, d} \subseteq namesOf(p) /\ namesOf(p) \subseteq Names
    BY <1>1, FileHas, OwnNames DEF Local, Kinded, Disposing
  <2>3. /\ op[p] \in Operation /\ Local(p) /\ op \in [Procs -> Operation] /\ dir' = dir /\ text' = text /\ fresh' = fresh /\ dir \in [Names -> Nat]
        /\ Goes(p, "disposeUnlink", op[p].err, op[p].failures) /\ op'[p].planned = op[p].planned /\ op'[p].temp = op[p].temp
        /\ op'[p].victim = v /\ op'[p].ret = op[p].ret /\ op'[p].bound = op[p].bound
    BY <1>1, <2>1, FileHas DEF GoesOn, stays, Files
  <2>4. <<dir[d], text[dir[d]]>> \in givenUp'
    <3>1. op[p].bound # Absent /\ snapshotOf(op[p].bound) \in {op[p].expected, snapshotOf(op[p].temp)}
      BY <1>1, <2>3 DEF Local, Known, Disposing
    <3>2. <<dir[d], text[dir[d]]>> \in {op[p].expected, snapshotOf(op[p].temp)}
      BY <1>2, <2>2, <3>1, FileHas, Reads
    <3>3. op'[p].expected = op[p].expected /\ op'[p].temp = op[p].temp
      BY <2>3 DEF Goes
    <3>4. op'[p].expected \in givenUp' /\ snapshotOf(op'[p].temp) \in givenUp'
      BY DEF givenUp, snapshotOf
    <3> QED
      BY <3>2, <3>3, <3>4
  <2> HIDE DEF v, d
  <2>5. Kinded(p)' /\ Known(p)'
    BY <1>1, <2>3 DEF Local, Kinded, Known, Goes, Planning, Changing, Publishing, Disposing, disposing, v
  <2>6. Reporting(p)' /\ Held(p)'
    BY <1>1, <2>3 DEF Local, Reporting, Held, Goes, Unfailed, Changing, Disposing, disposing, empty, v
  <2>7. Temporary(p)' /\ Undone(p)'
    BY <1>1, <2>3 DEF Local, Temporary, Standing, Undone, OwnOnly, Goes, Disposing, disposing, empty, Prelink, v
  <2>8. ClaimStep(p)
    BY <1>1, <2>3 DEF ClaimStep, claims, claimed, Goes, Disposing, Prelink
  <2>9. Works(p)
    BY <2>3 DEF Works
  <2>10. SparedStep(p)
    <3>1. \A n : removes(p, n)' => removes(p, n) \/ n = d
      BY <2>3 DEF removes, Goes, v, d
    <3> QED
      BY <2>3, <2>4, <3>1 DEF SparedStep
  <2> QED
    BY <2>1, <2>3, <2>5, <2>6, <2>7, <2>8, <2>9, <2>10 DEF Done, Local, Goes
<1> QED
  BY <1>1, <1>2, DisposalFails DEF disposeVerify, succeeds, Disposing

\* ... and goes.
LEMMA DisposeUnlinkStep ==
  ASSUME FileInv, NEW p \in Procs, disposeUnlink(p)
  PROVE  Done(p)
<1> DEFINE v == op[p].victim
           d == disposal(v)
           pc == op[p].ret
<1>1. op[p].pc = "disposeUnlink"
  BY DEF disposeUnlink, at
<1>2. ASSUME dir' = [dir EXCEPT ![d] = 0], goes(p, pc), UNCHANGED <<text, fresh>>
      PROVE  Done(p)
  <2>1. /\ \/ v = tmp(p) /\ pc = "end" /\ op[p].kind \in {"write", "overwrite"}
           \/ v = quarantine(p) /\ pc = "end" /\ op[p].kind = "unlink"
           \/ v = quarantine(p) /\ pc = "disposeTmp" /\ op[p].kind = "write"
           \/ v = quarantine(p) /\ pc = "restoredVerify" /\ op[p].kind \in {"write", "unlink"}
           \/ v = rollback(p) /\ pc = "uninstalled" /\ op[p].kind = "write"
        /\ pc # "end" => op[p].err = "none"
    BY <1>1, FileHas DEF Local, Kinded, Known, Disposing
  <2>2. GoesOn(p, pc, op[p].failures) /\ given' = given /\ pc \in {"end", "disposeTmp", "restoredVerify", "uninstalled"}
    BY <1>2, <2>1, FileHas, GoesThere DEF Pcs, Changing
  <2>3. {v, d} \subseteq namesOf(p) /\ namesOf(p) \subseteq Names /\ v # d
    BY <2>1, OwnNames
  <2>4. dir \in [Names -> Nat] /\ dir[v] = 0
    BY <1>1, FileHas DEF Local, Held, Files
  <2>5. dir' \in [Names -> Nat] /\ dir'[d] = 0 /\ \A n \in Names \ {d} : dir'[n] = dir[n]
    BY <1>2, <2>3, <2>4
  <2>6. /\ op[p] \in Operation /\ Local(p) /\ op \in [Procs -> Operation] /\ text' = text /\ fresh' = fresh
        /\ Goes(p, pc, op[p].err, op[p].failures) /\ op'[p].planned = op[p].planned /\ op'[p].temp = op[p].temp
    BY <1>2, <2>2, FileHas DEF GoesOn
  <2>7. dir'[v] = 0 /\ op[p].ret = pc /\ op[p].victim = v /\ d = disposal(v)
    BY <2>3, <2>4, <2>5
  <2>8. /\ \A n \in op[p].failures : n = Unproven \/ (n \in namesOf(p) /\ dir'[n] # 0)
        /\ v = rollback(p) => op[p].failures = {}
        /\ v = quarantine(p) => op[p].failures \subseteq {rollback(p), disposal(rollback(p)), Unproven}
        /\ v = quarantine(p) => tmp(p) \notin op[p].failures /\ disposal(tmp(p)) \notin op[p].failures
    <3>1. /\ v = rollback(p) => op[p].failures = {}
          /\ v = quarantine(p) => op[p].failures \subseteq {rollback(p), disposal(rollback(p)), Unproven}
          /\ v = tmp(p) => d \notin op[p].failures
          /\ \A n \in op[p].failures : n = Unproven \/ (n \in namesOf(p) /\ dir[n] # 0)
      BY <1>1, <2>6 DEF Local, Reporting, Disposing, disposing
    <3>2. d \notin op[p].failures
      BY <2>1, <3>1, OwnNames
    <3> QED
      BY <2>3, <2>5, <3>1, <3>2, OwnNames
  <2> HIDE DEF v, d, pc
  <2>9. Kinded(p)' /\ Known(p)'
    BY <1>1, <2>1, <2>2, <2>6, <2>7 DEF Local, Kinded, Known, Goes, Planning, Changing, Publishing, Disposing, disposing
  <2>10. Reporting(p)'
    BY <2>1, <2>2, <2>6, <2>8, OwnNames DEF Reporting, Goes, Unfailed, Disposing, disposing
  <2>11. Held(p)'
    BY <1>1, <2>1, <2>2, <2>3, <2>5, <2>6, <2>7, OwnNames DEF Local, Held, Goes, Unfailed, Changing, Disposing, disposing, empty
  <2>12. Temporary(p)'
    BY <1>1, <2>1, <2>2, <2>3, <2>5, <2>6, <2>7, OwnNames DEF Local, Known, Temporary, Standing, Goes, Planning, Disposing, disposing, empty
  <2>13. Undone(p)'
    <3>1. OwnOnly(p) => OwnOnly(p)'
      BY <2>5, <2>6, KnownFiles DEF OwnOnly
    <3>2. op'[p].pc = pc /\ op'[p].err = op[p].err /\ op'[p].failures = op[p].failures /\ op'[p].kind = op[p].kind /\ pc \notin Prelink \cup Disposing
      BY <2>2, <2>6 DEF Goes, Prelink, Disposing
    <3>3. /\ pc \in {"uninstalled", "restoredVerify"} => (op[p].failures = {} => OwnOnly(p))
          /\ op[p].kind \in {"write", "unlink"} /\ op[p].err = "failed" => (op[p].failures = {} => OwnOnly(p))
      BY <1>1, <2>6, <2>7 DEF Local, Undone, Disposing
    <3> QED
      BY <2>2, <3>1, <3>2, <3>3 DEF Undone
  <2>14. ClaimStep(p)
    BY <1>1, <2>1, <2>2, <2>3, <2>5, <2>6, <2>7, OwnNames DEF ClaimStep, claims, claimed, Goes, Disposing, Prelink
  <2>15. Works(p)
    <3>1. Target \in Names \ {d}
      BY <2>3, OwnNames
    <3>2. \A n \in namesOf(p) \cup {Target} : dir'[n] = 0 \/ dir'[n] = dir[n]
      BY <2>3, <2>5, <3>1
    <3> QED
      BY <2>3, <2>5, <2>6, <3>2 DEF Works
  <2>16. SparedStep(p)
    <3>1. removes(p, d) /\ \A n : removes(p, n)' => removes(p, n)
      BY <1>1, <2>2, <2>6, <2>7 DEF removes, Goes
    <3> QED
      BY <2>3, <2>5, <3>1, OwnNames DEF SparedStep
  <2> QED
    BY <2>2, <2>6, <2>9, <2>10, <2>11, <2>12, <2>13, <2>14, <2>15, <2>16 DEF Done, Local, Goes
<1> QED
  BY <1>1, <1>2, DisposalFails DEF disposeUnlink, succeeds, Disposing

\* The last look decides between done and committed.
LEMMA EndStep ==
  ASSUME FileInv, NEW p \in Procs, end(p)
  PROVE  Done(p)
<1>1. op[p].pc = "end" /\ stays
  BY DEF end, at
<1>2. PICK err \in Errors : /\ becomes(p, [op[p] EXCEPT !.pc = "over", !.err = err])
                            /\ \/ err = op[p].err
                               \/ op[p].err = "none" /\ err \in {"unlinked", "installed"}
  <2>1. ASSUME NEW ok \in BOOLEAN, IF op[p].err = "none" THEN TRUE ELSE ok,
               becomes(p, [op[p] EXCEPT !.pc = "over", !.err = IF ok THEN @ ELSE IF op[p].kind = "unlink" THEN "unlinked" ELSE "installed"])
        PROVE  \E err \in Errors : /\ becomes(p, [op[p] EXCEPT !.pc = "over", !.err = err])
                                   /\ \/ err = op[p].err
                                      \/ op[p].err = "none" /\ err \in {"unlinked", "installed"}
    <3> DEFINE e == IF ok THEN op[p].err ELSE IF op[p].kind = "unlink" THEN "unlinked" ELSE "installed"
    <3>1. e \in Errors /\ (e = op[p].err \/ (op[p].err = "none" /\ e \in {"unlinked", "installed"}))
      BY <2>1, FileHas DEF Errors
    <3>2. [op[p] EXCEPT !.pc = "over", !.err = IF ok THEN @ ELSE IF op[p].kind = "unlink" THEN "unlinked" ELSE "installed"]
            = [op[p] EXCEPT !.pc = "over", !.err = e]
      OBVIOUS
    <3> QED
      BY <2>1, <3>1, <3>2
  <2> QED
    BY <2>1 DEF end
<1> DEFINE o == [op[p] EXCEPT !.pc = "over", !.err = err]
<1>3. /\ o \in Operation /\ o.pc = "over" /\ o.err = err /\ o.kind = op[p].kind /\ o.expected = op[p].expected /\ o.planned = op[p].planned
      /\ o.temp = op[p].temp /\ o.failures = op[p].failures
  <2>1. op[p] \in Operation /\ "over" \in Pcs
    BY FileHas DEF Pcs
  <2> QED
    BY <2>1 DEF Operation
<1>4. becomes(p, o)
  BY <1>2
<1> HIDE DEF o
<1>5. Goes(p, "over", err, op[p].failures) /\ given' = given /\ op'[p].planned = op[p].planned /\ op'[p].temp = op[p].temp
  BY <1>3, <1>4, FileHas, Becomes DEF Goes
<1>6. op[p] \in Operation /\ Local(p) /\ op \in [Procs -> Operation] /\ dir' = dir /\ text' = text
  BY <1>1, FileHas DEF stays
<1>7. Kinded(p)' /\ Known(p)'
  BY <1>1, <1>2, <1>5, <1>6 DEF Local, Kinded, Known, Goes, Planning, Changing, Publishing, Disposing, disposing
<1>8. Reporting(p)' /\ Held(p)'
  BY <1>1, <1>5, <1>6 DEF Local, Reporting, Held, Goes, Unfailed, Changing, Disposing, disposing, empty
<1>9. Temporary(p)' /\ Undone(p)'
  BY <1>1, <1>2, <1>5, <1>6 DEF Local, Temporary, Standing, Undone, OwnOnly, Goes, Disposing, disposing, empty, Prelink
<1>10. ClaimStep(p)
  BY <1>1, <1>2, <1>5, <1>6 DEF ClaimStep, claims, claimed, Goes, Disposing, Prelink
<1>11. Works(p) /\ SparedStep(p)
  BY <1>1, <1>5, Stays DEF Goes
<1> QED
  BY <1>5, <1>6, <1>7, <1>8, <1>9, <1>10, <1>11 DEF Done, Local, Goes

\* An operation that fails before it has changed anything.
LEMMA FailsEarly ==
  ASSUME FileInv, NEW p \in Procs, stays, fails(p, "failed"), op[p].pc \in {"rename", "publish", "publishNow"}
  PROVE  Done(p)
<1>1. /\ op[p].kind \in {"unlink", "replace"} \/ op[p].temp # Absent
      /\ op[p].pc \in Changing \cup {"publish", "publishNow"} /\ op[p].failures = {} /\ empty(quarantine(p)) /\ empty(rollback(p))
      /\ OwnOnly(p) /\ "failed" \in Errors
  <2>1. Kinded(p) /\ Known(p) /\ Reporting(p) /\ Held(p) /\ Undone(p)
    BY FileHas DEF Local
  <2>2. op[p].kind \in {"write", "unlink", "replace", "overwrite"}
    BY <2>1 DEF Kinded, Changing, Publishing
  <2> QED
    BY <2>1, <2>2 DEF Known, Reporting, Held, Undone, Unfailed, Prelink, Changing, Publishing, Planning, Errors
<1>2. Unwinds(p, "failed", {}) /\ given' = given
  BY <1>1, FileHas, FailsSo
<1> QED
  BY <1>1, <1>2, UnwindsLocal

\* The rename takes whatever file the target is, and makes it a claim.
LEMMA RenameStep ==
  ASSUME FileInv, NEW p \in Procs, rename(p)
  PROVE  Done(p)
<1>1. op[p].pc = "rename"
  BY DEF rename, at
<1>2. ASSUME dir[Target] # 0, dir' = [dir EXCEPT ![quarantine(p)] = dir[Target], ![Target] = 0],
             goes(p, "verify"), UNCHANGED <<text, fresh>>
      PROVE  Done(p)
  <2>1. GoesOn(p, "verify", op[p].failures) /\ given' = given
    BY <1>2, FileHas, GoesThere DEF Pcs, Changing
  <2>2. quarantine(p) \in namesOf(p) /\ namesOf(p) \subseteq Names /\ Target \in Names /\ Target \notin namesOf(p)
    BY OwnNames
  <2>3. dir \in [Names -> Nat] /\ dir[quarantine(p)] = 0
    BY <1>1, FileHas DEF Local, Held, Files, empty
  <2>4. dir' \in [Names -> Nat] /\ dir'[Target] = 0 /\ dir'[quarantine(p)] = dir[Target] /\ \A n \in Names \ {Target, quarantine(p)} : dir'[n] = dir[n]
    BY <1>2, <2>2, <2>3
  <2>5. /\ op[p] \in Operation /\ Local(p) /\ op \in [Procs -> Operation] /\ text' = text /\ fresh' = fresh
        /\ Goes(p, "verify", op[p].err, op[p].failures) /\ op'[p].planned = op[p].planned /\ op'[p].temp = op[p].temp
        /\ op[p].kind \in {"write", "unlink"} /\ op[p].failures = {}
    BY <1>1, <1>2, <2>1, FileHas DEF GoesOn, Local, Kinded, Reporting, Changing, Unfailed
  <2>6. Kinded(p)' /\ Known(p)'
    BY <1>1, <2>5 DEF Local, Kinded, Known, Goes, Planning, Changing, Publishing, Disposing, disposing
  <2>7. Reporting(p)'
    BY <2>5 DEF Reporting, Goes
  <2>8. Held(p)'
    BY <1>1, <2>2, <2>4, <2>5, OwnNames DEF Local, Known, Held, Goes, Unfailed, Changing, Disposing, disposing, empty
  <2>9. Temporary(p)'
    BY <1>1, <2>2, <2>4, <2>5, OwnNames DEF Local, Temporary, Standing, Goes, Disposing, disposing, empty
  <2>10. Undone(p)'
    BY <1>1, <2>2, <2>4, <2>5, KnownFiles DEF Local, Undone, OwnOnly, Goes, Disposing, Prelink
  <2>11. ClaimStep(p)
    BY <1>1, <1>2, <2>2, <2>4, <2>5 DEF ClaimStep, claims, claimed, Goes, Disposing, Prelink
  <2>12. Works(p)
    BY <2>2, <2>3, <2>4, <2>5 DEF Works
  <2>13. SparedStep(p)
    <3>1. \A n : ~removes(p, n)'
      BY <2>5 DEF removes, Goes
    <3> QED
      BY <2>2, <2>3, <2>4, <3>1 DEF SparedStep
  <2> QED
    BY <2>1, <2>5, <2>6, <2>7, <2>8, <2>9, <2>10, <2>11, <2>12, <2>13 DEF Done, Local, Goes
<1> QED
  BY <1>1, <1>2, FailsEarly DEF rename, succeeds

\* The link puts the new file where no file is.
LEMMA LinkStep ==
  ASSUME FileInv, NEW p \in Procs, link(p)
  PROVE  Done(p)
<1>1. op[p].pc = "link"
  BY DEF link, at
<1>2. ASSUME dir[Target] = 0, dir' = [dir EXCEPT ![Target] = dir[tmp(p)]],
             becomes(p, [op[p] EXCEPT !.links = 2, !.pc = "validate"]), UNCHANGED <<text, fresh>>
      PROVE  Done(p)
  <2> DEFINE o == [op[p] EXCEPT !.links = 2, !.pc = "validate"]
  <2>1. /\ o \in Operation /\ o.pc = "validate" /\ o.kind = op[p].kind /\ o.expected = op[p].expected /\ o.planned = op[p].planned
        /\ o.temp = op[p].temp /\ o.err = op[p].err /\ o.failures = op[p].failures
    <3>1. op[p] \in Operation /\ "validate" \in Pcs
      BY FileHas DEF Pcs, Changing
    <3> QED
      BY <3>1 DEF Operation
  <2>2. becomes(p, o)
    BY <1>2
  <2> HIDE DEF o
  <2>3. /\ Goes(p, "validate", op[p].err, op[p].failures) /\ given' = given
        /\ op'[p].planned = op[p].planned /\ op'[p].temp = op[p].temp
    BY <2>1, <2>2, FileHas, Becomes DEF Goes
  <2>4. tmp(p) \in namesOf(p) /\ namesOf(p) \subseteq Names /\ Target \in Names /\ Target \notin namesOf(p) /\ dir \in [Names -> Nat]
    BY OwnNames, FileHas DEF Files
  <2>5. dir' \in [Names -> Nat] /\ dir'[Target] = dir[tmp(p)] /\ \A n \in Names \ {Target} : dir'[n] = dir[n]
    BY <1>2, <2>4
  <2>6. /\ op[p] \in Operation /\ Local(p) /\ text' = text /\ fresh' = fresh
        /\ op[p].kind = "write" /\ op[p].failures = {} /\ op[p].temp # Absent /\ dir[tmp(p)] = op[p].temp[1]
    BY <1>1, <1>2, FileHas DEF Local, Kinded, Known, Reporting, Temporary, Standing, Changing, Unfailed, Planning
  <2>7. Kinded(p)' /\ Known(p)'
    BY <1>1, <2>3, <2>6 DEF Local, Kinded, Known, Goes, Planning, Changing, Publishing, Disposing, disposing
  <2>8. Reporting(p)'
    BY <2>3, <2>6 DEF Reporting, Goes
  <2>9. Held(p)'
    BY <1>1, <2>3, <2>4, <2>5, <2>6, OwnNames DEF Local, Held, Goes, Unfailed, Changing, Disposing, disposing, empty
  <2>10. Temporary(p)'
    BY <1>1, <2>3, <2>4, <2>5, <2>6, OwnNames DEF Local, Temporary, Standing, Goes, Disposing, disposing, empty
  <2>11. Undone(p)'
    BY <2>3, <2>6 DEF Undone, Goes, Disposing, Prelink
  <2>12. ClaimStep(p)
    BY <1>1, <2>3, <2>5, <2>6 DEF ClaimStep, claims, claimed, Goes, Disposing, Prelink
  <2>13. Works(p)
    BY <2>4, <2>5, <2>6 DEF Works
  <2>14. SparedStep(p)
    <3>1. \A n : ~removes(p, n)'
      BY <2>3, <2>6 DEF removes, Goes
    <3> QED
      BY <1>2, <2>4, <2>5, <3>1 DEF SparedStep
  <2> QED
    BY <2>3, <2>6, <2>7, <2>8, <2>9, <2>10, <2>11, <2>12, <2>13, <2>14 DEF Done, Local, Goes
<1> QED
  BY <1>1, <1>2, GivesBackLocal DEF link, succeeds

\* The target moves to the rollback name, whatever file it is.
LEMMA UninstallRenameStep ==
  ASSUME FileInv, NEW p \in Procs, uninstallRename(p)
  PROVE  Done(p)
<1>1. op[p].pc = "uninstallRename"
  BY DEF uninstallRename, at
<1>2. ASSUME dir[Target] # 0, dir' = [dir EXCEPT ![rollback(p)] = dir[Target], ![Target] = 0],
             goes(p, "uninstallVerify"), UNCHANGED <<text, fresh>>
      PROVE  Done(p)
  <2>1. GoesOn(p, "uninstallVerify", op[p].failures) /\ given' = given
    BY <1>2, FileHas, GoesThere DEF Pcs, Changing
  <2>2. rollback(p) \in namesOf(p) /\ namesOf(p) \subseteq Names /\ Target \in Names /\ Target \notin namesOf(p)
    BY OwnNames
  <2>3. dir \in [Names -> Nat] /\ empty(rollback(p))
    BY <1>1, FileHas DEF Local, Held, Files, Unfailed
  <2>4. dir' \in [Names -> Nat] /\ dir'[Target] = 0 /\ dir'[rollback(p)] = dir[Target] /\ \A n \in Names \ {Target, rollback(p)} : dir'[n] = dir[n]
    BY <1>2, <2>2, <2>3
  <2>5. /\ op[p] \in Operation /\ Local(p) /\ op \in [Procs -> Operation] /\ text' = text /\ fresh' = fresh
        /\ Goes(p, "uninstallVerify", op[p].err, op[p].failures) /\ op'[p].planned = op[p].planned /\ op'[p].temp = op[p].temp
        /\ op[p].kind = "write" /\ op[p].failures = {}
    BY <1>1, <1>2, <2>1, FileHas DEF GoesOn, Local, Kinded, Reporting, Changing, Unfailed
  <2>6. Kinded(p)' /\ Known(p)'
    BY <1>1, <2>5 DEF Local, Kinded, Known, Goes, Planning, Changing, Publishing, Disposing, disposing
  <2>7. Reporting(p)'
    BY <2>5 DEF Reporting, Goes
  <2>8. Held(p)'
    BY <1>1, <2>2, <2>3, <2>4, <2>5, OwnNames DEF Local, Known, Held, Goes, Unfailed, Changing, Disposing, disposing, empty
  <2>9. Temporary(p)'
    BY <1>1, <2>2, <2>4, <2>5, OwnNames DEF Local, Temporary, Standing, Goes, Disposing, disposing, empty
  <2>10. Undone(p)'
    BY <2>5 DEF Undone, Goes, Disposing, Prelink
  <2>11. ClaimStep(p)
    BY <1>1, <1>2, <2>2, <2>4, <2>5 DEF ClaimStep, claims, claimed, Goes, Disposing, Prelink
  <2>12. Works(p)
    BY <2>2, <2>3, <2>4, <2>5 DEF Works
  <2>13. SparedStep(p)
    <3>1. \A n : ~removes(p, n)'
      BY <2>5 DEF removes, Goes
    <3> QED
      BY <2>2, <2>3, <2>4, <3>1 DEF SparedStep, empty
  <2> QED
    BY <2>1, <2>5, <2>6, <2>7, <2>8, <2>9, <2>10, <2>11, <2>12, <2>13 DEF Done, Local, Goes
<1>3. op[p].kind = "write"
  BY <1>1, FileHas DEF Local, Kinded
<1> QED
  BY <1>1, <1>2, <1>3, InstalledLocal DEF uninstallRename, succeeds

\* The claimed file is linked back where no file is, and the claim is over.
LEMMA RelinkStep ==
  ASSUME FileInv, NEW p \in Procs, relink(p)
  PROVE  Done(p)
<1>1. op[p].pc = "relink"
  BY DEF relink, at
<1>2. ASSUME dir[Target] = 0, dir' = [dir EXCEPT ![Target] = dir[quarantine(p)]],
             goes(p, "relinked"), UNCHANGED <<text, fresh>>
      PROVE  Done(p)
  <2>1. GoesOn(p, "relinked", op[p].failures) /\ given' = given
    BY <1>2, FileHas, GoesThere DEF Pcs, Changing
  <2>2. quarantine(p) \in namesOf(p) /\ namesOf(p) \subseteq Names /\ Target \in Names /\ Target \notin namesOf(p) /\ dir \in [Names -> Nat]
    BY OwnNames, FileHas DEF Files
  <2>3. dir' \in [Names -> Nat] /\ dir'[Target] = dir[quarantine(p)] /\ \A n \in Names \ {Target} : dir'[n] = dir[n]
    BY <1>2, <2>2
  <2>4. /\ op[p] \in Operation /\ Local(p) /\ op \in [Procs -> Operation] /\ text' = text /\ fresh' = fresh
        /\ Goes(p, "relinked", op[p].err, op[p].failures) /\ op'[p].planned = op[p].planned /\ op'[p].temp = op[p].temp
        /\ op[p].kind \in {"write", "unlink"} /\ op[p].planned # Absent /\ op[p].err = "none" /\ dir[quarantine(p)] = op[p].planned[1]
    BY <1>1, <1>2, <2>1, FileHas DEF GoesOn, Local, Kinded, Known, Temporary, Changing
  <2>5. Kinded(p)' /\ Known(p)'
    BY <1>1, <2>4 DEF Local, Kinded, Known, Goes, Planning, Changing, Publishing, Disposing, disposing
  <2>6. Reporting(p)'
    <3>1. op[p].failures \subseteq {rollback(p), disposal(rollback(p)), Unproven}
      BY <1>1, <2>4 DEF Local, Reporting
    <3>2. \A n \in op[p].failures : n = Unproven \/ (n \in namesOf(p) /\ dir'[n] # 0)
      BY <2>2, <2>3, <2>4 DEF Local, Reporting
    <3> QED
      BY <2>4, <3>1, <3>2 DEF Reporting, Goes, Unfailed, Disposing, disposing
  <2>7. Held(p)'
    BY <1>1, <2>2, <2>3, <2>4, OwnNames DEF Local, Held, Goes, Unfailed, Changing, Disposing, disposing, empty
  <2>8. Temporary(p)'
    BY <1>1, <2>2, <2>3, <2>4, OwnNames DEF Local, Temporary, Standing, Goes, Disposing, disposing, empty
  <2>9. Undone(p)'
    <3>1. op[p].temp # Absent => dir'[Target] # op[p].temp[1]
      BY <2>3, <2>4, KnownFiles DEF Local, Known
    <3>2. OwnOnly(p) => OwnOnly(p)'
      BY <2>3, <2>4, <3>1 DEF OwnOnly
    <3> QED
      BY <1>1, <2>4, <3>2 DEF Local, Undone, Goes, Disposing, Prelink
  <2>10. ClaimStep(p)
    BY <1>1, <2>3, <2>4 DEF ClaimStep, claims, claimed, Goes, Disposing, Prelink
  <2>11. Works(p)
    BY <2>2, <2>3, <2>4 DEF Works
  <2>12. SparedStep(p)
    <3>1. \A n : ~removes(p, n)'
      BY <2>4 DEF removes, Goes
    <3> QED
      BY <1>2, <2>2, <2>3, <3>1 DEF SparedStep
  <2> QED
    BY <2>1, <2>4, <2>5, <2>6, <2>7, <2>8, <2>9, <2>10, <2>11, <2>12 DEF Done, Local, Goes
<1> QED
  BY <1>1, <1>2, NotRestored DEF relink, succeeds

\* A plan expects the bytes there are.
LEMMA PlanStep ==
  ASSUME FileInv, NEW p \in Procs, plan(p)
  PROVE  Done(p)
<1>1. op[p].pc = "plan" /\ stays
  BY DEF plan, at
<1>2. PICK k \in Kinds, guards \in BOOLEAN :
        /\ k = "unlink" => dir[Target] # 0
        /\ becomes(p, [Start EXCEPT !.kind = k, !.guards = guards, !.expected = snapshot(Target),
                                    !.pc = IF k = "unlink" THEN "check" ELSE "prepare"])
  BY DEF plan
<1> DEFINE pc == IF k = "unlink" THEN "check" ELSE "prepare"
           expected == snapshot(Target)
           o == [Start EXCEPT !.kind = k, !.guards = guards, !.expected = expected, !.pc = pc]
<1>3. /\ k \in {"write", "unlink", "replace", "overwrite"} /\ pc \in Pcs /\ expected \in Snapshot \cup {Absent} /\ Target \in Names
      /\ k = "unlink" => expected # Absent /\ pc = "check"
      /\ k # "unlink" => pc = "prepare"
      /\ expected # Absent => expected[1] \in DOMAIN text
  <2>1. k \in {"write", "unlink", "replace", "overwrite"} /\ pc \in Pcs
    BY AtomicAssumption DEF Pcs, Planning, Changing
  <2>2. Target \in Names /\ Files
    BY FileHas
  <2> QED
    BY <1>2, <2>1, <2>2, Reads
<1>4. becomes(p, o)
  BY <1>2
<1> HIDE DEF pc, expected
<1>5. /\ o \in Operation /\ o.pc = pc /\ o.kind = k /\ o.expected = expected /\ o.temp = Absent /\ o.planned = Absent
      /\ o.err = "none" /\ o.failures = {}
  BY <1>3 DEF Start, Operation, Errors
<1> HIDE DEF o
<1>6. /\ op' \in [Procs -> Operation] /\ (\A q \in Procs : q # p => op'[q] = op[q]) /\ given' = given
      /\ op'[p].pc = pc /\ op'[p].kind = k /\ op'[p].expected = expected /\ op'[p].temp = Absent /\ op'[p].planned = Absent
      /\ op'[p].err = "none" /\ op'[p].failures = {}
  BY <1>4, <1>5, FileHas, Becomes
<1>7. /\ op[p].temp = Absent /\ op[p].expected = Absent /\ dir' = dir /\ text' = text /\ fresh' = fresh /\ dir \in [Names -> Nat]
      /\ \A n \in namesOf(p) : dir[n] = 0
  <2>1. op[p].temp = Absent /\ op[p].expected = Absent /\ op[p].planned = Absent /\ op[p].failures = {} /\ dir \in [Names -> Nat]
    BY <1>1, FileHas DEF Local, Known, Reporting, Unfailed, Planning, Files
  <2>2. empty(quarantine(p)) /\ empty(rollback(p)) /\ empty(tmp(p))
    BY <1>1, <2>1, FileHas DEF Local, Held, Temporary, Unfailed
  <2> QED
    BY <1>1, <2>1, <2>2, OwnNames DEF empty, stays
<1>8. Kinded(p)' /\ Known(p)'
  BY <1>3, <1>6, <1>7 DEF Kinded, Known, Planning, Changing, Publishing, Disposing, disposing
<1>9. Reporting(p)' /\ Held(p)'
  BY <1>3, <1>6, <1>7, OwnNames DEF Reporting, Held, Unfailed, Disposing, disposing, empty
<1>10. Temporary(p)' /\ Undone(p)'
  BY <1>3, <1>6, <1>7, OwnNames DEF Temporary, Standing, Undone, OwnOnly, Disposing, disposing, empty
<1>11. ClaimStep(p)
  BY <1>3, <1>6, <1>7 DEF ClaimStep, claims
<1>12. Works(p)
  BY <1>7 DEF Works
<1>13. SparedStep(p)
  <2>1. ~removes(p, Target)'
    BY <1>3, <1>6, OwnNames DEF removes
  <2> QED
    BY <1>7, <2>1 DEF SparedStep
<1> QED
  BY <1>1, <1>6, <1>7, <1>8, <1>9, <1>10, <1>11, <1>12, <1>13 DEF Done, Local

\* The check before publishing.
LEMMA PublishStep ==
  ASSUME FileInv, NEW p \in Procs, publish(p)
  PROVE  Done(p)
<1>1. op[p].pc = "publish" /\ stays
  BY DEF publish, at
<1>2. ASSUME goes(p, "publishNow")
      PROVE  Done(p)
  <2>1. GoesOn(p, "publishNow", op[p].failures) /\ given' = given
    BY <1>2, FileHas, GoesThere DEF Pcs, Publishing
  <2>2. /\ op[p] \in Operation /\ Local(p) /\ op \in [Procs -> Operation] /\ dir' = dir /\ text' = text
        /\ Goes(p, "publishNow", op[p].err, op[p].failures) /\ op'[p].planned = op[p].planned /\ op'[p].temp = op[p].temp
    BY <1>1, <2>1, FileHas DEF GoesOn, stays
  <2>3. Kinded(p)' /\ Known(p)'
    BY <1>1, <2>2 DEF Local, Kinded, Known, Goes, Planning, Changing, Publishing, Disposing, disposing
  <2>4. Reporting(p)' /\ Held(p)'
    BY <1>1, <2>2 DEF Local, Reporting, Held, Goes, Unfailed, Changing, Disposing, disposing, empty
  <2>5. Temporary(p)' /\ Undone(p)'
    BY <1>1, <2>2 DEF Local, Temporary, Standing, Undone, OwnOnly, Goes, Disposing, disposing, empty, Prelink
  <2>6. ClaimStep(p)
    BY <1>1, <2>2 DEF Local, Known, ClaimStep, claims, claimed, Goes, Disposing, Prelink, Publishing
  <2>7. Works(p) /\ SparedStep(p)
    BY <1>1, <2>2, Stays DEF Goes
  <2> QED
    BY <2>1, <2>2, <2>3, <2>4, <2>5, <2>6, <2>7 DEF Done, Local, Goes
<1> QED
  BY <1>1, <1>2, FailsEarly DEF publish

\* Publishing gives up what the target was, and moves the temporary there.
LEMMA PublishNowStep ==
  ASSUME FileInv, NEW p \in Procs, publishNow(p)
  PROVE  Done(p)
<1> DEFINE links == op[p].kind = "replace" /\ op[p].expected = Absent
           o == [op[p] EXCEPT !.pc = "published"]
<1>1. op[p].pc = "publishNow"
  BY DEF publishNow, at
<1>2. ASSUME links => dir[Target] = 0, dir' = [dir EXCEPT ![Target] = dir[tmp(p)], ![tmp(p)] = IF links THEN @ ELSE 0],
             given' = given \cup {snapshot(Target)}, moves(p, o), UNCHANGED <<text, fresh>>
      PROVE  Done(p)
  <2>1. /\ o \in Operation /\ o.pc = "published" /\ o.kind = op[p].kind /\ o.expected = op[p].expected /\ o.planned = op[p].planned
        /\ o.temp = op[p].temp /\ o.err = op[p].err /\ o.failures = op[p].failures
    <3>1. op[p] \in Operation /\ "published" \in Pcs
      BY FileHas DEF Pcs, Publishing
    <3> QED
      BY <3>1 DEF Operation
  <2> HIDE DEF o
  <2>2. op' \in [Procs -> Operation] /\ op'[p] = o /\ \A q \in Procs : q # p => op'[q] = op[q]
    BY <1>2, <2>1, FileHas DEF moves
  <2>3. /\ Goes(p, "published", op[p].err, op[p].failures) /\ op'[p].planned = op[p].planned /\ op'[p].temp = op[p].temp
    BY <2>1, <2>2 DEF Goes
  <2>4. tmp(p) \in namesOf(p) /\ namesOf(p) \subseteq Names /\ Target \in Names /\ Target \notin namesOf(p) /\ dir \in [Names -> Nat]
    BY OwnNames, FileHas DEF Files
  <2>5. /\ dir' \in [Names -> Nat] /\ dir'[Target] = dir[tmp(p)] /\ \A n \in Names \ {Target, tmp(p)} : dir'[n] = dir[n]
        /\ links => dir'[tmp(p)] = dir[tmp(p)]
        /\ ~links => dir'[tmp(p)] = 0
    BY <1>2, <2>4
  <2>6. /\ op[p] \in Operation /\ Local(p) /\ text' = text /\ fresh' = fresh
        /\ op[p].kind \in {"replace", "overwrite"} /\ op[p].failures = {} /\ op[p].planned = Absent
    BY <1>1, <1>2, FileHas DEF Local, Kinded, Known, Reporting, Publishing, Unfailed
  <2>7. Kinded(p)' /\ Known(p)'
    BY <1>1, <2>3, <2>6 DEF Local, Kinded, Known, Goes, Planning, Changing, Publishing, Disposing, disposing
  <2>8. Reporting(p)'
    BY <2>3, <2>6 DEF Reporting, Goes
  <2>9. Held(p)'
    BY <1>1, <2>3, <2>4, <2>5, <2>6, OwnNames DEF Local, Held, Goes, Unfailed, Changing, Disposing, disposing, empty
  <2>10. Temporary(p)'
    BY <1>1, <2>3, <2>4, <2>5, <2>6, OwnNames DEF Local, Temporary, Standing, Goes, Disposing, disposing, empty
  <2>11. Undone(p)'
    BY <2>3, <2>6 DEF Undone, Goes, Disposing, Prelink
  <2>12. ClaimStep(p)
    <3>1. ~claims(p)' /\ op'[p].pc = "published" /\ op'[p].pc \notin Prelink
      BY <2>3, <2>6 DEF claims, Goes, Prelink
    <3>2. dir'[Target] = 0 \/ (op[p].temp # Absent /\ dir'[Target] = op[p].temp[1])
      BY <1>1, <2>5, <2>6 DEF Local, Temporary, empty
    <3> QED
      BY <1>1, <3>1, <3>2 DEF ClaimStep, Prelink
  <2>13. Works(p)
    <3>1. \A n \in namesOf(p) \cup {Target} : dir'[n] = 0 \/ \E m \in namesOf(p) \cup {Target} : dir'[n] = dir[m]
      BY <2>4, <2>5
    <3> QED
      BY <2>4, <2>5, <2>6, <3>1 DEF Works
  <2>14. SparedStep(p)
    <3>1. \A n : (removes(p, n) <=> op[p].kind = "replace" /\ n = tmp(p)) /\ (removes(p, n)' <=> op[p].kind = "replace" /\ n = tmp(p))
      BY <1>1, <2>3, <2>6 DEF removes, Goes
    <3>2. dir[Target] # 0 => <<dir[Target], text[dir[Target]]>> \in givenUp'
      BY <1>2, <2>4 DEF givenUp, snapshot
    <3>3. \A n \in namesOf(p) : dir[n] # 0 /\ ~removes(p, n) => \E m \in namesOf(p) \cup {Target} : dir'[m] = dir[n] /\ ~removes(p, m)'
      BY <2>4, <2>5, <2>6, <3>1
    <3> QED
      BY <3>2, <3>3 DEF SparedStep
  <2> QED
    BY <1>2, <2>2, <2>3, <2>6, <2>7, <2>8, <2>9, <2>10, <2>11, <2>12, <2>13, <2>14 DEF Done, Local, Goes
<1> QED
  BY <1>1, <1>2, FailsEarly DEF publishNow, succeeds

\* The look at what was published.
LEMMA PublishedStep ==
  ASSUME FileInv, NEW p \in Procs, published(p)
  PROVE  Done(p)
<1>1. op[p].pc = "published" /\ stays
  BY DEF published, at
<1>2. /\ op[p] \in Operation /\ Local(p) /\ op \in [Procs -> Operation] /\ dir' = dir /\ text' = text
      /\ op[p].failures = {} /\ op[p].planned = Absent
  BY <1>1, FileHas DEF stays, Local, Reporting, Known, Unfailed, Publishing
<1>3. CASE op[p].kind = "overwrite"
  <2>1. PICK err \in {"none", "installed"}, F \in SUBSET {Unproven} : becomes(p, [op[p] EXCEPT !.pc = "over", !.err = err, !.failures = F])
    <3>1. op[p].err = "none"
      BY <1>1, <1>2 DEF Local, Known, Publishing
    <3>2. ASSUME becomes(p, [op[p] EXCEPT !.pc = "over"])
          PROVE  becomes(p, [op[p] EXCEPT !.pc = "over", !.err = "none", !.failures = {}])
      <4>1. [op[p] EXCEPT !.pc = "over"] = [op[p] EXCEPT !.pc = "over", !.err = "none", !.failures = {}]
        BY <1>2, <3>1 DEF Operation
      <4> QED
        BY <3>2, <4>1
    <3>3. ASSUME NEW c \in BOOLEAN,
                 becomes(p, [op[p] EXCEPT !.pc = "over", !.err = "installed", !.failures = IF c THEN @ ELSE @ \cup {Unproven}])
          PROVE  \E F \in SUBSET {Unproven} : becomes(p, [op[p] EXCEPT !.pc = "over", !.err = "installed", !.failures = F])
      <4>1. CASE c
        BY <1>2, <3>3, <4>1
      <4>2. CASE ~c
        BY <1>2, <3>3, <4>2
      <4> QED
        BY <4>1, <4>2
    <3>4. \/ becomes(p, [op[p] EXCEPT !.pc = "over"])
          \/ becomes(p, [op[p] EXCEPT !.pc = "over", !.err = "installed",
                           !.failures = IF artifact(Target) = op[p].temp THEN @ ELSE @ \cup {Unproven}])
      BY <1>3 DEF published
    <3> QED
      BY <3>2, <3>3, <3>4
  <2> DEFINE o == [op[p] EXCEPT !.pc = "over", !.err = err, !.failures = F]
  <2>2. /\ o \in Operation /\ o.pc = "over" /\ o.kind = op[p].kind /\ o.expected = op[p].expected /\ o.planned = op[p].planned
        /\ o.temp = op[p].temp /\ o.err = err /\ o.failures = F
    <3>1. "over" \in Pcs /\ err \in Errors /\ F \in SUBSET (Names \cup {Unproven})
      BY DEF Pcs, Errors
    <3> QED
      BY <1>2, <3>1 DEF Operation
  <2>3. becomes(p, o)
    BY <2>1
  <2> HIDE DEF o
  <2>4. Goes(p, "over", err, F) /\ given' = given /\ op'[p].planned = op[p].planned /\ op'[p].temp = op[p].temp
    BY <2>2, <2>3, FileHas, Becomes DEF Goes
  <2>5. Kinded(p)' /\ Known(p)'
    BY <1>1, <1>2, <1>3, <2>4 DEF Local, Kinded, Known, Goes, Planning, Changing, Publishing, Disposing, disposing
  <2>6. Reporting(p)' /\ Held(p)'
    BY <1>1, <1>2, <1>3, <2>4, OwnNames DEF Local, Reporting, Held, Goes, Unfailed, Changing, Disposing, disposing, empty
  <2>7. Temporary(p)' /\ Undone(p)'
    BY <1>1, <1>2, <1>3, <2>4, OwnNames DEF Local, Temporary, Standing, Undone, Goes, Disposing, disposing, empty, Prelink
  <2>8. ClaimStep(p)
    BY <1>1, <1>2, <1>3, <2>4 DEF ClaimStep, claims, claimed, Goes, Prelink
  <2>9. Works(p) /\ SparedStep(p)
    BY <1>1, <2>4, Stays DEF Goes
  <2> QED
    BY <2>4, <2>5, <2>6, <2>7, <2>8, <2>9 DEF Done, Local, Goes
<1>4. CASE op[p].kind = "replace"
  <2>1. PICK err \in Errors : becomes(p, [op[p] EXCEPT !.pc = "discard", !.err = err])
    BY <1>4 DEF published, Errors
  <2> DEFINE o == [op[p] EXCEPT !.pc = "discard", !.err = err]
  <2>2. /\ o \in Operation /\ o.pc = "discard" /\ o.kind = op[p].kind /\ o.expected = op[p].expected /\ o.planned = op[p].planned
        /\ o.temp = op[p].temp /\ o.err = err /\ o.failures = {}
    BY <1>2 DEF Operation, Pcs, Publishing
  <2>3. becomes(p, o)
    BY <2>1
  <2> HIDE DEF o
  <2>4. Goes(p, "discard", err, {}) /\ given' = given /\ op'[p].planned = op[p].planned /\ op'[p].temp = op[p].temp
    BY <2>2, <2>3, FileHas, Becomes DEF Goes
  <2>5. Kinded(p)' /\ Known(p)'
    BY <1>1, <1>2, <1>4, <2>4 DEF Local, Kinded, Known, Goes, Planning, Changing, Publishing, Disposing, disposing
  <2>6. Reporting(p)' /\ Held(p)'
    BY <1>1, <1>2, <1>4, <2>4, OwnNames DEF Local, Reporting, Held, Goes, Unfailed, Changing, Disposing, disposing, empty
  <2>7. Temporary(p)' /\ Undone(p)'
    BY <1>1, <1>2, <1>4, <2>4, OwnNames DEF Local, Temporary, Standing, Undone, Goes, Disposing, disposing, empty, Prelink
  <2>8. ClaimStep(p)
    BY <1>1, <1>2, <1>4, <2>4 DEF ClaimStep, claims, claimed, Goes, Prelink
  <2>9. Works(p) /\ SparedStep(p)
    BY <1>1, <2>4, Stays DEF Goes
  <2> QED
    BY <2>4, <2>5, <2>6, <2>7, <2>8, <2>9 DEF Done, Local, Goes
<1> QED
  BY <1>3, <1>4 DEF published

\* A guarded replacement may unlink its temporary in any case: it is
\* published, or its own.
LEMMA DiscardStep ==
  ASSUME FileInv, NEW p \in Procs, discard(p)
  PROVE  Done(p)
<1>1. op[p].pc = "discard" /\ goes(p, "over") /\ UNCHANGED <<text, fresh>>
  BY DEF discard, at
<1>2. tmp(p) \in namesOf(p) /\ namesOf(p) \subseteq Names /\ Target \in Names /\ Target \notin namesOf(p) /\ dir \in [Names -> Nat]
  BY OwnNames, FileHas DEF Files
<1>3. dir' \in [Names -> Nat] /\ dir'[tmp(p)] \in {0, dir[tmp(p)]} /\ \A n \in Names \ {tmp(p)} : dir'[n] = dir[n]
  BY <1>2 DEF discard
<1>4. GoesOn(p, "over", op[p].failures) /\ given' = given
  BY <1>1, FileHas, GoesThere DEF Pcs
<1>5. /\ op[p] \in Operation /\ Local(p) /\ text' = text /\ fresh' = fresh
      /\ Goes(p, "over", op[p].err, op[p].failures) /\ op'[p].planned = op[p].planned /\ op'[p].temp = op[p].temp
      /\ op[p].kind = "replace" /\ op[p].failures = {} /\ op[p].planned = Absent
  BY <1>1, <1>4, FileHas DEF GoesOn, Local, Kinded, Known, Reporting, Unfailed, Publishing
<1>6. Kinded(p)' /\ Known(p)'
  BY <1>1, <1>5 DEF Local, Kinded, Known, Goes, Planning, Changing, Publishing, Disposing, disposing
<1>7. Reporting(p)'
  BY <1>5 DEF Reporting, Goes
<1>8. Held(p)'
  BY <1>1, <1>2, <1>3, <1>5, OwnNames DEF Local, Held, Goes, Unfailed, Changing, Disposing, disposing, empty
<1>9. Temporary(p)'
  BY <1>1, <1>2, <1>3, <1>5, OwnNames DEF Local, Temporary, Standing, Goes, Disposing, disposing, empty
<1>10. Undone(p)'
  BY <1>5 DEF Undone, Goes, Disposing, Prelink
<1>11. ClaimStep(p)
  BY <1>1, <1>2, <1>3, <1>5 DEF ClaimStep, claims, Goes, Prelink
<1>12. Works(p)
  <2>1. \A n \in namesOf(p) \cup {Target} : dir'[n] = 0 \/ dir'[n] = dir[n]
    BY <1>2, <1>3
  <2> QED
    BY <1>2, <1>3, <1>5, <2>1 DEF Works
<1>13. SparedStep(p)
  <2>1. \A n : (removes(p, n) <=> n = tmp(p)) /\ (removes(p, n)' <=> n = tmp(p))
    BY <1>1, <1>5 DEF removes, Goes
  <2> QED
    BY <1>2, <1>3, <2>1 DEF SparedStep
<1> QED
  BY <1>4, <1>5, <1>6, <1>7, <1>8, <1>9, <1>10, <1>11, <1>12, <1>13 DEF Done, Local, Goes

\* A dead process leaves its names as they are.
LEMMA CrashStep ==
  ASSUME FileInv, NEW p \in Procs, crash(p)
  PROVE  Done(p)
<1> DEFINE o == [op[p] EXCEPT !.pc = "dead"]
<1>1. op' = [op EXCEPT ![p] = o] /\ op[p].pc # "plan" /\ stays /\ given' = given
  BY DEF crash, stays
<1>2. /\ o \in Operation /\ o.pc = "dead" /\ o.kind = op[p].kind /\ o.expected = op[p].expected /\ o.planned = op[p].planned
      /\ o.temp = op[p].temp /\ o.err = op[p].err /\ o.failures = op[p].failures
  <2>1. op[p] \in Operation
    BY FileHas
  <2> QED
    BY <2>1 DEF Operation, Pcs
<1> HIDE DEF o
<1>3. Goes(p, "dead", op[p].err, op[p].failures) /\ op'[p].planned = op[p].planned /\ op'[p].temp = op[p].temp
  BY <1>1, <1>2, FileHas DEF Goes
<1>4. Local(p) /\ dir' = dir /\ text' = text
  BY <1>1, FileHas DEF stays
<1>5. Kinded(p)' /\ Known(p)'
  BY <1>1, <1>3, <1>4 DEF Local, Kinded, Known, Goes, Planning, Changing, Publishing, Disposing, disposing
<1>6. Reporting(p)' /\ Held(p)'
  BY <1>3, <1>4 DEF Local, Reporting, Held, Goes, Unfailed, Changing, Disposing, disposing, empty
<1>7. Temporary(p)' /\ Undone(p)'
  BY <1>3, <1>4 DEF Local, Temporary, Standing, Undone, Goes, Disposing, disposing, empty, Prelink
<1>8. ClaimStep(p)
  BY <1>3, <1>4 DEF ClaimStep, claims, claimed, Goes, Prelink
<1>9. Works(p) /\ SparedStep(p)
  BY <1>1, <1>3, Stays DEF Goes
<1> QED
  BY <1>1, <1>3, <1>5, <1>6, <1>7, <1>8, <1>9 DEF Done, Local, Goes

\* The temporary is a new file.
Creates(p) ==
  /\ op' \in [Procs -> Operation] /\ \A q \in Procs : q # p => op'[q] = op[q]
  /\ op[p].temp = Absent /\ op'[p].temp = <<fresh, fresh, 1>> /\ op'[p].planned = Absent /\ op'[p].pc # "disposeUnlink"
  /\ op'[p].expected = op[p].expected /\ given' = given
  /\ fresh' = fresh + 1 /\ text' = newFile(fresh) /\ dir' = [dir EXCEPT ![tmp(p)] = fresh] /\ dir[tmp(p)] = 0
  /\ Local(p)'

\* The bytes of a new file.
LEMMA NewFile ==
  ASSUME FileInv, text' = newFile(fresh), fresh' = fresh + 1
  PROVE  /\ fresh \in Nat /\ fresh # 0 /\ fresh \notin DOMAIN text /\ 0 \notin DOMAIN text
         /\ DOMAIN text' = DOMAIN text \cup {fresh} /\ text'[fresh] = fresh /\ \A i \in DOMAIN text : text'[i] = text[i]
         /\ fresh' \in Nat \ {0} /\ DOMAIN text' \subseteq 1..(fresh' - 1) /\ \A i \in DOMAIN text' : text'[i] \in Nat
<1>1. fresh \in Nat \ {0} /\ DOMAIN text \subseteq 1..(fresh - 1) /\ \A i \in DOMAIN text : text[i] \in Nat
  BY DEF FileInv, Files
<1>2. fresh \notin DOMAIN text /\ 0 \notin DOMAIN text
  BY <1>1
<1>3. DOMAIN text' = DOMAIN text \cup {fresh} /\ text'[fresh] = fresh /\ \A i \in DOMAIN text : text'[i] = text[i]
  BY <1>2 DEF newFile
<1> QED
  BY <1>1, <1>2, <1>3

\* An expectation that fails before there is a temporary.
LEMMA PrepareFails ==
  ASSUME FileInv, NEW p \in Procs, op[p].pc = "prepare", stays, becomes(p, [op[p] EXCEPT !.pc = "end", !.err = "failed"])
  PROVE  Done(p)
<1> DEFINE o == [op[p] EXCEPT !.pc = "end", !.err = "failed"]
<1>1. /\ o \in Operation /\ o.pc = "end" /\ o.kind = op[p].kind /\ o.expected = op[p].expected /\ o.planned = op[p].planned
      /\ o.temp = op[p].temp /\ o.err = "failed" /\ o.failures = op[p].failures
  <2>1. op[p] \in Operation
    BY FileHas
  <2> QED
    BY <2>1 DEF Operation, Pcs, Errors
<1>2. becomes(p, o)
  OBVIOUS
<1> HIDE DEF o
<1>3. Goes(p, "end", "failed", op[p].failures) /\ given' = given /\ op'[p].planned = op[p].planned /\ op'[p].temp = op[p].temp
  BY <1>1, <1>2, FileHas, Becomes DEF Goes
<1>4. /\ op[p] \in Operation /\ Local(p) /\ op \in [Procs -> Operation] /\ dir' = dir /\ text' = text
      /\ op[p].failures = {} /\ op[p].planned = Absent /\ op[p].temp = Absent
  BY FileHas DEF stays, Local, Reporting, Known, Unfailed, Planning
<1>5. Kinded(p)' /\ Known(p)'
  BY <1>3, <1>4 DEF Local, Kinded, Known, Goes, Planning, Changing, Publishing, Disposing, disposing
<1>6. Reporting(p)' /\ Held(p)'
  BY <1>3, <1>4 DEF Local, Reporting, Held, Goes, Unfailed, Changing, Disposing, disposing, empty
<1>7. Temporary(p)' /\ Undone(p)'
  BY <1>3, <1>4 DEF Local, Temporary, Standing, Undone, OwnOnly, Goes, Disposing, disposing, empty, Prelink
<1>8. ClaimStep(p)
  BY <1>3, <1>4 DEF ClaimStep, claims, Goes, Prelink
<1>9. Works(p) /\ SparedStep(p)
  BY <1>3, Stays DEF Goes
<1> QED
  BY <1>3, <1>4, <1>5, <1>6, <1>7, <1>8, <1>9 DEF Done, Local, Goes

\* An operation makes its temporary, or fails before.
LEMMA PrepareStep ==
  ASSUME FileInv, NEW p \in Procs, prepare(p)
  PROVE  Done(p) \/ Creates(p)
<1>1. op[p].pc = "prepare"
  BY DEF prepare, at
<1> DEFINE new == <<fresh, fresh, 1>>
           o == [op[p] EXCEPT !.temp = new]
<1>2. ASSUME dir' = [dir EXCEPT ![tmp(p)] = fresh], text' = newFile(fresh), fresh' = fresh + 1,
             NEW ok \in BOOLEAN,
             becomes(p, IF ok THEN [o EXCEPT !.pc = IF conditional(p) THEN "check" ELSE "publish"]
                        ELSE unwound(p, [o EXCEPT !.err = "failed"]))
      PROVE  Creates(p)
  <2>1. /\ fresh \in Nat /\ fresh # 0 /\ fresh \notin DOMAIN text /\ 0 \notin DOMAIN text
        /\ DOMAIN text' = DOMAIN text \cup {fresh}
    BY <1>2, NewFile
  <2>2. new \in Artifact /\ new[1] = fresh /\ new # Absent /\ snapshotOf(new) = <<fresh, fresh>> /\ withLinkCount(new, op[p].links) \in Artifact
        /\ withLinkCount(new, op[p].links) # Absent /\ snapshotOf(withLinkCount(new, op[p].links)) = snapshotOf(new)
    <3>1. new \in Artifact /\ new[1] = fresh /\ new[2] = fresh
      BY <2>1 DEF Artifact
    <3>2. op[p].links \in Nat
      BY FileHas DEF Operation
    <3> QED
      BY <3>1, <3>2, Links
  <2>3. /\ Local(p) /\ op[p] \in Operation /\ op[p].kind \in {"write", "replace", "overwrite"} /\ op[p].temp = Absent /\ op[p].planned = Absent
        /\ op[p].err = "none" /\ op[p].failures = {} /\ empty(quarantine(p)) /\ empty(rollback(p)) /\ empty(tmp(p))
    <3>1. Local(p) /\ op[p] \in Operation /\ op[p].kind \in {"write", "replace", "overwrite"} /\ op[p].temp = Absent /\ op[p].planned = Absent
      BY <1>1, FileHas DEF Local, Kinded, Known, Planning
    <3> QED
      BY <1>1, <3>1 DEF Local, Known, Reporting, Held, Temporary, Unfailed, Planning
  <2>4. dir \in [Names -> Nat] /\ tmp(p) \in Names /\ \A n \in Names : dir[n] # fresh
    BY <2>1, FileHas DEF Files
  <2>5. /\ dir'[tmp(p)] = fresh /\ \A n \in Names \ {tmp(p)} : dir'[n] = dir[n]
        /\ dir'[quarantine(p)] = 0 /\ dir'[disposal(quarantine(p))] = 0 /\ dir'[rollback(p)] = 0 /\ dir'[disposal(rollback(p))] = 0
        /\ dir'[disposal(tmp(p))] = 0
        /\ \A n \in Names : dir'[n] = fresh => n \in namesOf(p)
    <3>1. dir'[tmp(p)] = fresh /\ \A n \in Names \ {tmp(p)} : dir'[n] = dir[n]
      BY <1>2, <2>4
    <3> QED
      BY <2>3, <2>4, <3>1, OwnNames DEF empty
  <2>6. op[p].expected # Absent => op[p].expected[1] \in DOMAIN text' /\ op[p].expected[1] # fresh
    BY <2>1, KnownFiles
  <2> HIDE DEF new
  <2>7. /\ o \in Operation /\ o.kind = op[p].kind /\ o.expected = op[p].expected /\ o.planned = op[p].planned /\ o.temp = new
        /\ o.err = op[p].err /\ o.failures = op[p].failures /\ o.links = op[p].links
    BY <2>2, <2>3 DEF Operation
  <2> HIDE DEF o
  <2>8. ASSUME NEW pc, NEW err, op' \in [Procs -> Operation], \A q \in Procs : q # p => op'[q] = op[q],
               op'[p].kind = op[p].kind, op'[p].expected = op[p].expected, op'[p].planned = Absent, op'[p].temp = new,
               op'[p].failures = {}, op'[p].pc = pc, op'[p].err = err, given' = given,
               \/ pc = "check" /\ op[p].kind = "write" /\ err = "none"
               \/ pc = "publish" /\ op[p].kind \in {"replace", "overwrite"} /\ err = "none"
               \/ pc = "discard" /\ op[p].kind = "replace" /\ err = "failed"
               \/ /\ pc = "dispose" /\ op[p].kind \in {"write", "overwrite"} /\ err = "failed"
                  /\ op'[p].victim = tmp(p) /\ op'[p].ret = "end" /\ op'[p].bound = withLinkCount(new, op[p].links)
        PROVE  Creates(p)
    <3>1. Kinded(p)'
      BY <2>8 DEF Kinded, Planning, Changing, Publishing, Disposing
    <3>2. Known(p)'
      BY <2>1, <2>2, <2>6, <2>8, OwnNames DEF Known, Planning, Changing, Publishing, Disposing, disposing
    <3>3. Reporting(p)'
      BY <2>8 DEF Reporting
    <3>4. Held(p)'
      BY <2>5, <2>8, OwnNames DEF Held, Unfailed, Changing, Disposing, disposing, empty
    <3>5. Temporary(p)'
      BY <2>2, <2>5, <2>8, OwnNames DEF Temporary, Standing, Disposing, disposing, empty
    <3>6. Undone(p)'
      BY <2>2, <2>5, <2>8 DEF Undone, OwnOnly
    <3> QED
      BY <1>2, <2>3, <2>8, <3>1, <3>2, <3>3, <3>4, <3>5, <3>6 DEF Creates, Local, new, empty
  <2>9. CASE ok
    <3> DEFINE pc == IF conditional(p) THEN "check" ELSE "publish"
               r == [o EXCEPT !.pc = pc]
    <3>1. /\ pc \in Pcs
          /\ \/ pc = "check" /\ op[p].kind = "write"
             \/ pc = "publish" /\ op[p].kind \in {"replace", "overwrite"}
      BY <2>3 DEF conditional, Pcs, Changing, Publishing
    <3>2. becomes(p, r)
      BY <1>2, <2>9
    <3> HIDE DEF pc
    <3>3. /\ r \in Operation /\ r.pc = pc /\ r.kind = o.kind /\ r.expected = o.expected /\ r.planned = o.planned /\ r.temp = o.temp
          /\ r.err = o.err /\ r.failures = o.failures
      BY <2>7, <3>1 DEF Operation
    <3> HIDE DEF r
    <3>4. op' \in [Procs -> Operation] /\ op'[p] = r /\ (\A q \in Procs : q # p => op'[q] = op[q]) /\ given' = given
      BY <3>2, <3>3, FileHas, Becomes
    <3> QED
      BY <2>3, <2>7, <2>8, <3>1, <3>3, <3>4
  <2>10. CASE ~ok
    <3> DEFINE e == [o EXCEPT !.err = "failed"]
               r == unwound(p, e)
    <3>1. becomes(p, r)
      BY <1>2, <2>10
    <3>2. /\ e \in Operation /\ e.kind = o.kind /\ e.expected = o.expected /\ e.planned = o.planned /\ e.temp = o.temp
          /\ e.err = "failed" /\ e.failures = o.failures /\ e.links = o.links
      BY <2>7 DEF Operation, Errors
    <3> HIDE DEF e
    <3>3. CASE op[p].kind = "replace"
      <4>1. r = [e EXCEPT !.pc = "discard"]
        BY <2>7, <3>2, <3>3 DEF unwound
      <4> HIDE DEF r
      <4>2. /\ r \in Operation /\ r.pc = "discard" /\ r.kind = e.kind /\ r.expected = e.expected /\ r.planned = e.planned /\ r.temp = e.temp
            /\ r.err = e.err /\ r.failures = e.failures
        BY <3>2, <4>1 DEF Operation, Pcs, Publishing
      <4>3. op' \in [Procs -> Operation] /\ op'[p] = r /\ (\A q \in Procs : q # p => op'[q] = op[q]) /\ given' = given
        BY <3>1, <4>2, FileHas, Becomes
      <4> QED
        BY <2>3, <2>7, <2>8, <3>2, <3>3, <4>2, <4>3
    <3>4. CASE op[p].kind \in {"write", "overwrite"}
      <4> DEFINE bound == withLinkCount(new, op[p].links)
      <4>1. r = [e EXCEPT !.pc = "dispose", !.victim = tmp(p), !.ret = "end", !.bound = bound]
        BY <2>7, <3>2, <3>4 DEF unwound
      <4>2. bound \in Artifact
        BY <2>2
      <4> HIDE DEF r, bound
      <4>3. /\ r \in Operation /\ r.pc = "dispose" /\ r.kind = e.kind /\ r.expected = e.expected /\ r.planned = e.planned /\ r.temp = e.temp
            /\ r.err = e.err /\ r.failures = e.failures /\ r.victim = tmp(p) /\ r.ret = "end" /\ r.bound = bound
        BY <2>4, <3>2, <4>1, <4>2 DEF Operation, Pcs, Disposing
      <4>4. op' \in [Procs -> Operation] /\ op'[p] = r /\ (\A q \in Procs : q # p => op'[q] = op[q]) /\ given' = given
        BY <3>1, <4>3, FileHas, Becomes
      <4> QED
        BY <2>3, <2>7, <2>8, <3>2, <3>4, <4>3, <4>4 DEF bound
    <3> QED
      BY <2>3, <3>3, <3>4
  <2> QED
    BY <2>9, <2>10
<1> QED
  BY <1>1, <1>2, PrepareFails DEF prepare

-----------------------------------------------------------------------------
(* The invariant is kept                                                   *)

\* An operation removes its own names only.
LEMMA RemovesOwn ==
  ASSUME FileInv, NEW p \in Procs
  PROVE  \A n : removes(p, n) => n \in namesOf(p) /\ n # Target /\ n # Alt
<1>1. op[p].pc = "disposeUnlink" => op[p].victim \in {tmp(p), quarantine(p), rollback(p)}
  BY FileHas DEF Local, Kinded, Disposing
<1> QED
  BY <1>1, OwnNames DEF removes

\* What others do leaves an operation's names alone.
LEMMA LocalFrame ==
  ASSUME FileInv, NEW q \in Procs, op'[q] = op[q], \A n \in namesOf(q) : dir'[n] = dir[n], DOMAIN text \subseteq DOMAIN text',
         OwnOnly(q) => OwnOnly(q)'
  PROVE  Local(q)'
<1>1. Local(q)
  BY FileHas
<1>2. \A n \in {tmp(q), quarantine(q), rollback(q)} : empty(n)' = empty(n)
  BY OwnNames DEF empty
<1>3. \A n : disposing(q, n)' = disposing(q, n)
  BY DEF disposing
<1>4. dir'[tmp(q)] = dir[tmp(q)] /\ dir'[quarantine(q)] = dir[quarantine(q)] /\ dir'[disposal(tmp(q))] = dir[disposal(tmp(q))]
      /\ dir'[disposal(quarantine(q))] = dir[disposal(quarantine(q))] /\ dir'[disposal(rollback(q))] = dir[disposal(rollback(q))]
  BY OwnNames
<1>5. Kinded(q)'
  BY <1>1 DEF Local, Kinded
<1>6. Known(q)'
  BY <1>1, <1>3 DEF Local, Known
<1>7. Reporting(q)'
  BY <1>1, <1>3 DEF Local, Reporting
<1>8. Held(q)'
  <2>1. op[q].pc \in Disposing => op[q].victim \in {tmp(q), quarantine(q), rollback(q)}
    BY <1>1 DEF Local, Kinded
  <2>2. op[q].pc \in Disposing => dir'[op[q].victim] = dir[op[q].victim] /\ dir'[disposal(op[q].victim)] = dir[disposal(op[q].victim)]
    BY <2>1, OwnNames
  <2> QED
    BY <1>1, <1>2, <1>3, <1>4, <2>2 DEF Local, Held, Disposing
<1>9. Temporary(q)'
  BY <1>1, <1>2, <1>3, <1>4 DEF Local, Temporary
<1>10. Undone(q)'
  BY <1>1 DEF Local, Undone
<1> QED
  BY <1>5, <1>6, <1>7, <1>8, <1>9, <1>10 DEF Local

\* A file that is gone and that nobody gave up.
Lost(i) == linked(i) /\ ~linked(i)' /\ <<i, text[i]>> \notin givenUp'

\* What is given up stays given up.
LEMMA GivenUpKept ==
  ASSUME FileInv, given \subseteq given',
         \A q \in Procs : op'[q].expected = op[q].expected \/ op[q].expected = Absent,
         \A q \in Procs : op'[q].temp = op[q].temp \/ op[q].temp = Absent
  PROVE  \A i \in DOMAIN text : <<i, text[i]>> \in givenUp => <<i, text[i]>> \in givenUp'
<1>1. \A i \in DOMAIN text : <<i, text[i]>> # Absent
  <2>1. \A i \in DOMAIN text : i \in Nat /\ text[i] \in Nat
    BY DEF FileInv, Files
  <2> QED
    BY <2>1, AtomicAssumption
<1>2. ASSUME NEW i \in DOMAIN text, NEW q \in Procs, <<i, text[i]>> \in {op[q].expected, snapshotOf(op[q].temp)}
      PROVE  <<i, text[i]>> \in {op'[q].expected, snapshotOf(op'[q].temp)}
  BY <1>1, <1>2 DEF snapshotOf
<1>3. \A q \in Procs : {op'[q].expected, (snapshotOf(op[q].temp))'} \subseteq givenUp'
  BY DEF givenUp
<1>4. \A q : (snapshotOf(op[q].temp))' = snapshotOf(op'[q].temp)
  BY DEF snapshotOf
<1>5. ASSUME NEW i \in DOMAIN text, <<i, text[i]>> \in givenUp
      PROVE  <<i, text[i]>> \in given \/ \E q \in Procs : <<i, text[i]>> \in {op[q].expected, snapshotOf(op[q].temp)}
  BY <1>5 DEF givenUp
<1> QED
  BY <1>2, <1>3, <1>4, <1>5 DEF givenUp

\* A step of one operation does not disturb the others.
LEMMA DoneFrame ==
  ASSUME FileInv, NEW p \in Procs, Done(p), NEW q \in Procs, q # p
  PROVE  Local(q)' /\ (OwnOnly(q) => OwnOnly(q)') /\ \A n \in namesOf(q) : dir'[n] = dir[n]
<1>1. op'[q] = op[q] /\ Works(p)
  BY DEF Done
<1>2. namesOf(p) \cap namesOf(q) = {} /\ Target \notin namesOf(q) /\ namesOf(q) \subseteq Names /\ namesOf(p) \subseteq Names /\ Target \in Names
  BY OthersNames, OwnNames
<1>3. \A n \in namesOf(q) : dir'[n] = dir[n]
  BY <1>1, <1>2 DEF Works
<1>4. OwnOnly(q) => OwnOnly(q)'
  <2>1. ASSUME OwnOnly(q), op[q].temp # Absent, NEW n \in Names, dir'[n] = op[q].temp[1]
        PROVE  n \in namesOf(q)
    <3>1. op[q].temp[1] # 0
      BY <2>1, KnownFiles
    <3>2. CASE n \in namesOf(p) \cup {Target}
      <4>1. PICK m \in namesOf(p) \cup {Target} : dir'[n] = dir[m]
        BY <1>1, <2>1, <3>1, <3>2 DEF Works
      <4>2. m \in namesOf(q)
        BY <1>2, <2>1, <4>1 DEF OwnOnly
      <4> QED
        BY <1>2, <4>2
    <3>3. CASE n \notin namesOf(p) \cup {Target}
      BY <1>1, <2>1, <3>3 DEF Works, OwnOnly
    <3> QED
      BY <3>2, <3>3
  <2> QED
    BY <1>1, <2>1 DEF OwnOnly
<1>5. DOMAIN text \subseteq DOMAIN text'
  BY <1>1 DEF Works
<1>6. Local(q)'
  BY <1>1, <1>3, <1>4, <1>5, LocalFrame
<1> QED
  BY <1>3, <1>4, <1>6

\* The claims stay apart.
LEMMA DoneClaims ==
  ASSUME FileInv, NEW p \in Procs, Done(p)
  PROVE  Claims'
<1>1. /\ \A q \in Procs : q # p => op'[q] = op[q] /\ claims(q)' = claims(q) /\ claimed(q)' = claimed(q)
      /\ \A q \in Procs : op'[q].temp = op[q].temp
  <2>1. ASSUME NEW q \in Procs, q # p
        PROVE  op'[q] = op[q] /\ claims(q)' = claims(q) /\ claimed(q)' = claimed(q)
    <3>1. op'[q] = op[q] /\ dir'[quarantine(q)] = dir[quarantine(q)]
      BY <2>1, DoneFrame, OwnNames DEF Done
    <3> QED
      BY <3>1 DEF claims, claimed
  <2> QED
    BY <2>1 DEF Done
<1>2. ClaimStep(p) /\ Claims /\ text' = text
  BY DEF Done, FileInv, Works
<1>3. 0 \notin DOMAIN text /\ dir[Target] \in DOMAIN text \cup {0}
  BY OwnNames DEF FileInv, Files
<1>4. claims(p)' => \/ claims(p) /\ claimed(p)' = claimed(p)
                    \/ dir[Target] # 0 /\ claimed(p)' = dir[Target] /\ dir'[Target] = 0
  BY <1>2 DEF ClaimStep
<1>5. ASSUME NEW a \in Procs, NEW b \in Procs, claims(a)', claims(b)', claimed(a)' = claimed(b)'
      PROVE  a = b
  <2>1. ASSUME NEW q \in Procs, q # p, claims(q)', claims(p)' PROVE claimed(p)' # claimed(q)'
    BY <1>1, <1>2, <1>4, <2>1 DEF Claims
  <2> QED
    BY <1>1, <1>2, <1>5, <2>1 DEF Claims
<1>6. ASSUME NEW a \in Procs, claims(a)'
      PROVE  dir'[Target] # claimed(a)' /\ claimed(a)' \in DOMAIN text'
  <2>1. CASE claims(a) /\ claimed(a)' = claimed(a)
    <3>1. dir[Target] # claimed(a) /\ claimed(a) \in DOMAIN text
      BY <1>2, <2>1 DEF Claims
    <3>2. CASE dir'[Target] \in {0, dir[Target]}
      BY <1>2, <1>3, <2>1, <3>1, <3>2
    <3>3. CASE op[p].pc \in Prelink /\ op[p].temp # Absent /\ dir'[Target] = op[p].temp[1]
      BY <1>2, <2>1, <3>1, <3>3 DEF Claims
    <3>4. CASE claims(p) /\ ~claims(p)' /\ dir'[Target] = claimed(p)
      BY <1>2, <1>6, <2>1, <3>1, <3>4 DEF Claims
    <3> QED
      BY <1>2, <3>2, <3>3, <3>4 DEF ClaimStep
  <2>2. CASE dir[Target] # 0 /\ claimed(a)' = dir[Target] /\ dir'[Target] = 0
    BY <1>2, <1>3, <2>2
  <2> QED
    BY <1>1, <1>4, <1>6, <2>1, <2>2
<1>7. ASSUME NEW a \in Procs, NEW b \in Procs, claims(a)', op'[b].pc \in Prelink, op'[b].temp # Absent
      PROVE  claimed(a)' # op'[b].temp[1]
  <2>1. op[b].pc \in Prelink /\ op[b].temp # Absent /\ op'[b].temp = op[b].temp
    BY <1>1, <1>2, <1>7 DEF ClaimStep
  <2>2. CASE claims(a) /\ claimed(a)' = claimed(a)
    BY <1>2, <2>1, <2>2 DEF Claims
  <2>3. CASE claimed(a)' = dir[Target]
    <3>1. OwnOnly(b)
      BY <2>1, FileHas DEF Local, Undone
    <3> QED
      BY <2>1, <2>3, <3>1, OwnNames DEF OwnOnly
  <2> QED
    BY <1>1, <1>4, <1>7, <2>2, <2>3
<1> QED
  BY <1>5, <1>6, <1>7 DEF Claims

\* No step takes the last name of a file that nobody gave up.
LEMMA DoneSpares ==
  ASSUME FileInv, NEW p \in Procs, Done(p)
  PROVE  Spared' /\ \A i \in DOMAIN text : ~Lost(i)
<1>1. /\ Works(p) /\ SparedStep(p) /\ Local(p)' /\ text' = text
      /\ \A q \in Procs : q # p => op'[q] = op[q]
  BY DEF Done, Works
<1>2. \A i \in DOMAIN text : <<i, text[i]>> \in givenUp => <<i, text[i]>> \in givenUp'
  BY GivenUpKept DEF Done
<1>3. namesOf(p) \subseteq Names /\ Target \in Names /\ Target \notin namesOf(p) /\ 0 \notin DOMAIN text
  BY OwnNames DEF FileInv, Files
<1>4. \A n : removes(p, n)' => n \in namesOf(p)
  <2>1. op'[p].pc = "disposeUnlink" => op'[p].victim \in {tmp(p), quarantine(p), rollback(p)}
    BY <1>1 DEF Local, Kinded, Disposing
  <2> QED
    BY <2>1, OwnNames DEF removes
<1>5. ASSUME NEW n \in Names \ (namesOf(p) \cup {Target}), ~doomed(n)
      PROVE  dir'[n] = dir[n] /\ ~doomed(n)'
  BY <1>1, <1>4, <1>5 DEF Works, doomed, removes
<1>6. ASSUME NEW m \in namesOf(p) \cup {Target}, ~removes(p, m)'
      PROVE  ~doomed(m)'
  <2>1. ASSUME NEW q \in Procs, q # p PROVE ~removes(q, m)'
    <3>1. ~removes(q, m)
      BY <2>1, RemovesOwn, OthersNames
    <3> QED
      BY <1>1, <2>1, <3>1 DEF removes
  <2> QED
    BY <1>6, <2>1 DEF doomed
<1>7. ASSUME NEW i \in DOMAIN text, spared(i)
      PROVE  spared(i)' \/ <<i, text[i]>> \in givenUp'
  <2>1. PICK n \in Names : dir[n] = i /\ ~doomed(n)
    BY <1>7 DEF spared
  <2>2. CASE n \notin namesOf(p) \cup {Target}
    BY <1>5, <2>1, <2>2 DEF spared
  <2>3. CASE n \in namesOf(p) \cup {Target}
    <3>1. ~removes(p, n) /\ dir[n] # 0
      BY <1>3, <2>1 DEF doomed
    <3>2. CASE \E m \in namesOf(p) \cup {Target} : dir'[m] = dir[n] /\ ~removes(p, m)'
      <4>1. PICK m \in namesOf(p) \cup {Target} : dir'[m] = dir[n] /\ ~removes(p, m)'
        BY <3>2
      <4> QED
        BY <1>3, <1>6, <2>1, <4>1 DEF spared
    <3>3. CASE <<dir[n], text[dir[n]]>> \in givenUp'
      BY <2>1, <3>3
    <3> QED
      BY <1>1, <2>3, <3>1, <3>2, <3>3 DEF SparedStep
  <2> QED
    BY <2>2, <2>3
<1>8. ASSUME NEW i \in DOMAIN text, linked(i)'
      PROVE  linked(i)
  <2>1. PICK n \in Names : dir'[n] = i
    BY <1>8 DEF linked
  <2>2. \E m \in Names : dir[m] = i
    BY <1>1, <1>3, <2>1 DEF Works
  <2> QED
    BY <2>2 DEF linked
<1>9. \A i \in DOMAIN text : linked(i) => spared(i)' \/ <<i, text[i]>> \in givenUp'
  BY <1>2, <1>7 DEF FileInv, Spared
<1>10. Spared'
  BY <1>1, <1>8, <1>9 DEF Spared
<1>11. \A i : spared(i)' => linked(i)'
  BY DEF spared, linked
<1> QED
  BY <1>9, <1>10, <1>11 DEF Lost

\* A step of an operation keeps the invariant and loses nothing.
LEMMA DoneKeeps ==
  ASSUME FileInv, NEW p \in Procs, Done(p)
  PROVE  FileInv' /\ \A i \in DOMAIN text : ~Lost(i)
<1>1. Works(p) /\ text' = text /\ fresh' = fresh /\ op' \in [Procs -> Operation] /\ \A q \in Procs : op'[q].temp = op[q].temp
  BY DEF Done, Works
<1>2. Files'
  <2>1. namesOf(p) \subseteq Names /\ Target \in Names /\ dir \in [Names -> DOMAIN text \cup {0}]
    BY OwnNames DEF FileInv, Files
  <2>2. \A n \in Names : dir'[n] \in DOMAIN text \cup {0}
    BY <1>1, <2>1 DEF Works
  <2> QED
    BY <1>1, <2>2 DEF FileInv, Files, Works
<1>3. \A a, b \in Procs : op'[a].temp # Absent /\ op'[b].temp # Absent /\ op'[a].temp[1] = op'[b].temp[1] => a = b
  BY <1>1 DEF FileInv
<1>4. \A q \in Procs : Local(q)'
  <2>1. Local(p)'
    BY DEF Done
  <2> QED
    BY <2>1, DoneFrame
<1> QED
  BY <1>1, <1>2, <1>3, <1>4, DoneClaims, DoneSpares DEF FileInv

\* So does a new temporary, ...
LEMMA CreatesKeeps ==
  ASSUME FileInv, NEW p \in Procs, Creates(p)
  PROVE  FileInv' /\ \A i \in DOMAIN text : ~Lost(i)
<1>1. /\ op' \in [Procs -> Operation] /\ (\A q \in Procs : q # p => op'[q] = op[q])
      /\ op[p].temp = Absent /\ op'[p].temp = <<fresh, fresh, 1>> /\ op'[p].planned = Absent /\ op'[p].pc # "disposeUnlink"
      /\ op'[p].expected = op[p].expected /\ given' = given /\ dir' = [dir EXCEPT ![tmp(p)] = fresh] /\ dir[tmp(p)] = 0
      /\ Local(p)' /\ text' = newFile(fresh) /\ fresh' = fresh + 1
  BY DEF Creates
<1>2. /\ fresh \in Nat /\ fresh # 0 /\ fresh \notin DOMAIN text /\ 0 \notin DOMAIN text
      /\ DOMAIN text' = DOMAIN text \cup {fresh} /\ text'[fresh] = fresh /\ (\A i \in DOMAIN text : text'[i] = text[i])
      /\ fresh' \in Nat \ {0} /\ DOMAIN text' \subseteq 1..(fresh' - 1) /\ \A i \in DOMAIN text' : text'[i] \in Nat
  BY <1>1, NewFile
<1>3. dir \in [Names -> DOMAIN text \cup {0}] /\ tmp(p) \in namesOf(p) /\ namesOf(p) \subseteq Names /\ Target \in Names /\ Target \notin namesOf(p)
  BY OwnNames DEF FileInv, Files
<1>4. dir'[tmp(p)] = fresh /\ \A n \in Names \ {tmp(p)} : dir'[n] = dir[n]
  BY <1>1, <1>3
<1>5. Files'
  <2>1. dir' \in [Names -> DOMAIN text' \cup {0}]
    BY <1>1, <1>2, <1>3
  <2> QED
    BY <1>2, <2>1 DEF Files
<1>6. \A q \in Procs : op[q].temp # Absent => op[q].temp[1] \in DOMAIN text
  BY KnownFiles
<1>7. op'[p].temp[1] = fresh /\ snapshotOf(op'[p].temp) = <<fresh, fresh>>
  <2>1. <<fresh, fresh, 1>> \in Artifact
    BY <1>2 DEF Artifact
  <2> QED
    BY <1>1, <2>1, Links
<1>8. ASSUME NEW a \in Procs, NEW b \in Procs, op'[a].temp # Absent, op'[b].temp # Absent, op'[a].temp[1] = op'[b].temp[1]
      PROVE  a = b
  <2>1. a # p => op'[a].temp[1] # fresh
    BY <1>1, <1>2, <1>6, <1>8
  <2>2. b # p => op'[b].temp[1] # fresh
    BY <1>1, <1>2, <1>6, <1>8
  <2> QED
    BY <1>1, <1>7, <1>8, <2>1, <2>2 DEF FileInv
<1>9. ASSUME NEW q \in Procs
      PROVE  Local(q)'
  <2>1. CASE q # p
    <3>1. \A n \in namesOf(q) : dir'[n] = dir[n]
      BY <1>3, <1>4, <2>1, OthersNames, OwnNames
    <3>2. OwnOnly(q) => OwnOnly(q)'
      BY <1>1, <1>2, <1>4, <1>6, <2>1 DEF OwnOnly
    <3> QED
      BY <1>1, <1>2, <2>1, <3>1, <3>2, LocalFrame
  <2> QED
    BY <1>1, <2>1
<1>10. Claims'
  <2>1. ~claims(p)'
    BY <1>1 DEF claims
  <2>2. ASSUME NEW q \in Procs, q # p
        PROVE  claims(q)' = claims(q) /\ claimed(q)' = claimed(q)
    <3>1. op'[q] = op[q] /\ dir'[quarantine(q)] = dir[quarantine(q)]
      BY <1>1, <1>3, <1>4, <2>2, OthersNames, OwnNames
    <3> QED
      BY <3>1 DEF claims, claimed
  <2>3. dir'[Target] = dir[Target] /\ Claims
    BY <1>3, <1>4 DEF FileInv
  <2>4. ASSUME NEW a \in Procs, NEW b \in Procs, claims(a)', op'[b].pc \in Prelink, op'[b].temp # Absent
        PROVE  claimed(a)' # op'[b].temp[1]
    <3>1. a # p /\ claims(a) /\ claimed(a)' = claimed(a) /\ claimed(a) \in DOMAIN text
      BY <2>1, <2>2, <2>3, <2>4 DEF Claims
    <3> QED
      BY <1>1, <1>2, <1>7, <2>3, <2>4, <3>1 DEF Claims
  <2>5. \A a, b \in Procs : claims(a)' /\ claims(b)' /\ claimed(a)' = claimed(b)' => a = b
    BY <2>1, <2>2, <2>3 DEF Claims
  <2>6. \A a \in Procs : claims(a)' => dir'[Target] # claimed(a)' /\ claimed(a)' \in DOMAIN text'
    BY <1>2, <2>1, <2>2, <2>3 DEF Claims
  <2> QED
    BY <2>4, <2>5, <2>6 DEF Claims
<1>11. \A i \in DOMAIN text : <<i, text[i]>> \in givenUp => <<i, text[i]>> \in givenUp'
  <2>1. \A q \in Procs : op'[q].expected = op[q].expected /\ (op'[q].temp = op[q].temp \/ op[q].temp = Absent)
    BY <1>1
  <2> QED
    BY <1>1, <2>1, GivenUpKept
<1>12. ASSUME NEW n \in Names \ {tmp(p)}, ~doomed(n)
       PROVE  ~doomed(n)'
  BY <1>1, <1>12 DEF doomed, removes
<1>13. ASSUME NEW i \in DOMAIN text, spared(i)
       PROVE  spared(i)'
  <2>1. PICK n \in Names : dir[n] = i /\ ~doomed(n)
    BY <1>13 DEF spared
  <2>2. n # tmp(p)
    BY <1>1, <1>2, <2>1
  <2> QED
    BY <1>4, <1>12, <2>1, <2>2 DEF spared
<1>14. ASSUME NEW i \in DOMAIN text
       PROVE  linked(i) <=> linked(i)'
  BY <1>1, <1>2, <1>3, <1>4 DEF linked
<1>15. <<fresh, fresh>> \in givenUp'
  <2>1. (snapshotOf(op[p].temp))' = snapshotOf(op'[p].temp)
    BY DEF snapshotOf
  <2> QED
    BY <1>7, <2>1 DEF givenUp
<1>16. Spared'
  <2>1. ASSUME NEW i \in DOMAIN text, linked(i)' PROVE spared(i)' \/ <<i, text'[i]>> \in givenUp'
    BY <1>2, <1>11, <1>13, <1>14, <2>1 DEF FileInv, Spared
  <2> QED
    BY <1>2, <1>15, <2>1 DEF Spared
<1> QED
  BY <1>1, <1>5, <1>8, <1>9, <1>10, <1>14, <1>16 DEF FileInv, Lost

\* ... and a user, who replaces and removes the target and never touches an
\* operation's names.
LEMMA UserKeeps ==
  ASSUME FileInv, user
  PROVE  FileInv' /\ \A i \in DOMAIN text : ~Lost(i)
<1>1. op' = op
  BY DEF user
<1>2. /\ dir \in [Names -> DOMAIN text \cup {0}] /\ Target \in Names /\ Alt \in Names /\ Target # Alt
      /\ fresh \in Nat \ {0} /\ DOMAIN text \subseteq 1..(fresh - 1) /\ (\A i \in DOMAIN text : text[i] \in Nat)
      /\ fresh \notin DOMAIN text /\ 0 \notin DOMAIN text
  BY DEF FileInv, Files, Names, Target, Alt
<1>3. /\ Files' /\ given \subseteq given'
      /\ DOMAIN text \subseteq DOMAIN text' /\ DOMAIN text' \subseteq DOMAIN text \cup {fresh}
      /\ \A n \in Names \ {Target, Alt} : dir'[n] = dir[n]
      /\ dir'[Target] \in {0, dir[Target], fresh} /\ dir'[Alt] \in {dir[Alt], fresh} /\ (dir[Alt] # 0 => dir'[Alt] = dir[Alt])
      /\ dir[Target] # 0 /\ dir'[Target] # dir[Target] => <<dir[Target], text[dir[Target]]>> \in given'
      /\ \A i \in DOMAIN text : text'[i] = text[i] \/ dir'[Target] = i
  <2>1. CASE editInPlace
    <3>1. dir[Target] \in DOMAIN text /\ text' = [text EXCEPT ![dir[Target]] = fresh] /\ fresh' = fresh + 1 /\ dir' = dir /\ given' = given
      BY <1>2, <2>1 DEF editInPlace
    <3>2. fresh' \in Nat \ {0} /\ DOMAIN text' = DOMAIN text /\ DOMAIN text \subseteq 1..(fresh' - 1) /\ \A i \in DOMAIN text : text'[i] \in Nat
      BY <1>2, <3>1
    <3>3. Files'
      BY <1>2, <3>1, <3>2 DEF Files
    <3> QED
      BY <1>2, <3>1, <3>2, <3>3
  <2>2. CASE saveAs
    <3>1. dir' = [dir EXCEPT ![Target] = fresh] /\ given' = given \cup {snapshot(Target)} /\ text' = newFile(fresh) /\ fresh' = fresh + 1
      BY <2>2 DEF saveAs
    <3>2. /\ DOMAIN text' = DOMAIN text \cup {fresh} /\ (\A i \in DOMAIN text : text'[i] = text[i])
          /\ fresh' \in Nat \ {0} /\ DOMAIN text' \subseteq 1..(fresh' - 1) /\ \A i \in DOMAIN text' : text'[i] \in Nat
      BY <3>1, NewFile
    <3>3. Files'
      BY <1>2, <3>1, <3>2 DEF Files
    <3> QED
      BY <1>2, <3>1, <3>2, <3>3 DEF snapshot
  <2>3. CASE removeTarget
    <3>1. dir' = [dir EXCEPT ![Target] = 0] /\ given' = given \cup {snapshot(Target)} /\ text' = text /\ fresh' = fresh
      BY <2>3 DEF removeTarget
    <3>2. Files'
      BY <1>2, <3>1 DEF Files
    <3> QED
      BY <1>2, <3>1, <3>2 DEF snapshot
  <2>4. CASE createAlternate
    <3>1. dir[Alt] = 0 /\ dir' = [dir EXCEPT ![Alt] = fresh] /\ given' = given /\ text' = newFile(fresh) /\ fresh' = fresh + 1
      BY <2>4 DEF createAlternate
    <3>2. /\ DOMAIN text' = DOMAIN text \cup {fresh} /\ (\A i \in DOMAIN text : text'[i] = text[i])
          /\ fresh' \in Nat \ {0} /\ DOMAIN text' \subseteq 1..(fresh' - 1) /\ \A i \in DOMAIN text' : text'[i] \in Nat
      BY <3>1, NewFile
    <3>3. Files'
      BY <1>2, <3>1, <3>2 DEF Files
    <3> QED
      BY <1>2, <3>1, <3>2, <3>3
  <2> QED
    BY <2>1, <2>2, <2>3, <2>4 DEF user
<1>4. ASSUME NEW q \in Procs
      PROVE  Local(q)' /\ claims(q)' = claims(q) /\ claimed(q)' = claimed(q) /\ (op[q].temp # Absent => op[q].temp[1] \in DOMAIN text)
  <2>1. \A n \in namesOf(q) : dir'[n] = dir[n]
    BY <1>3, OwnNames
  <2>2. op[q].temp # Absent => op[q].temp[1] \in DOMAIN text
    BY KnownFiles
  <2>3. OwnOnly(q) => OwnOnly(q)'
    <3>1. ASSUME NEW n \in Names, dir'[n] \in DOMAIN text PROVE dir'[n] = dir[n]
      BY <1>2, <1>3, <3>1
    <3> QED
      BY <1>1, <2>2, <3>1 DEF OwnOnly
  <2>4. Local(q)'
    BY <1>1, <1>3, <2>1, <2>3, LocalFrame
  <2>5. dir'[quarantine(q)] = dir[quarantine(q)]
    BY <2>1, OwnNames
  <2> QED
    BY <1>1, <2>2, <2>4, <2>5 DEF claims, claimed
<1>5. Claims'
  <2>1. \A q \in Procs : claims(q) => dir'[Target] # claimed(q) /\ claimed(q) \in DOMAIN text'
    BY <1>2, <1>3 DEF FileInv, Claims
  <2> QED
    BY <1>1, <1>4, <2>1 DEF FileInv, Claims
<1>6. \A n : doomed(n)' <=> doomed(n)
  BY <1>1 DEF doomed, removes
<1>7. ~doomed(Target) /\ ~doomed(Alt)
  BY RemovesOwn DEF doomed
<1>8. \A i \in DOMAIN text : <<i, text[i]>> \in givenUp => <<i, text[i]>> \in givenUp'
  BY <1>1, <1>3, GivenUpKept
<1>9. ASSUME NEW i \in DOMAIN text, spared(i)
      PROVE  spared(i)' \/ <<i, text[i]>> \in givenUp'
  <2>1. PICK n \in Names : dir[n] = i /\ ~doomed(n)
    BY <1>9 DEF spared
  <2>2. CASE dir'[n] = i
    BY <1>6, <2>1, <2>2 DEF spared
  <2>3. CASE dir'[n] # i
    <3>1. n = Target /\ dir[Target] = i /\ i # 0
      BY <1>2, <1>3, <2>1, <2>3
    <3> QED
      BY <1>3, <2>3, <3>1 DEF givenUp
  <2> QED
    BY <2>2, <2>3
<1>10. Spared'
  <2>1. ASSUME NEW i \in DOMAIN text', linked(i)'
        PROVE  spared(i)' \/ <<i, text'[i]>> \in givenUp'
    <3>1. CASE dir'[Target] = i \/ dir'[Alt] = i
      BY <1>2, <1>6, <1>7, <3>1 DEF spared
    <3>2. CASE dir'[Target] # i /\ dir'[Alt] # i
      <4>1. PICK n \in Names : dir'[n] = i
        BY <2>1 DEF linked
      <4>2. dir[n] = i /\ i \in DOMAIN text
        BY <1>2, <1>3, <2>1, <3>2, <4>1
      <4>3. linked(i) /\ text'[i] = text[i]
        BY <1>3, <3>2, <4>2 DEF linked
      <4> QED
        BY <1>8, <1>9, <4>2, <4>3 DEF FileInv, Spared
    <3> QED
      BY <3>1, <3>2
  <2> QED
    BY <2>1 DEF Spared
<1>11. \A i \in DOMAIN text : ~Lost(i)
  <2>1. \A i : spared(i)' => linked(i)'
    BY DEF spared, linked
  <2> QED
    BY <1>8, <1>9, <2>1 DEF Lost, FileInv, Spared
<1> QED
  BY <1>1, <1>3, <1>4, <1>5, <1>10, <1>11 DEF FileInv

\* Every step keeps the invariant and loses nothing.
LEMMA StepKeeps ==
  ASSUME FileInv, [Next]_vars
  PROVE  FileInv' /\ (UNCHANGED vars \/ \A i \in DOMAIN text : ~Lost(i))
<1>1. CASE UNCHANGED vars
  <2>1. UNCHANGED <<dir, text, fresh, op, given>>
    BY <1>1 DEF vars
  <2>2. Files' /\ Spared' /\ Claims' /\ \A p \in Procs : Local(p)'
    <3>1. \A p \in Procs : Local(p)'
      BY <2>1, LocalFrame, OwnNames DEF OwnOnly
    <3>2. Files' /\ Claims'
      BY <2>1 DEF FileInv, Files, Claims, claims, claimed
    <3>3. Spared'
      <4>1. givenUp' = givenUp
        BY <2>1 DEF givenUp, snapshotOf
      <4>2. \A n : doomed(n)' <=> doomed(n)
        BY <2>1 DEF doomed, removes
      <4>3. \A i : (linked(i)' <=> linked(i)) /\ (spared(i)' <=> spared(i))
        BY <2>1, <4>2 DEF linked, spared
      <4> QED
        BY <2>1, <4>1, <4>3 DEF FileInv, Spared
    <3> QED
      BY <3>1, <3>2, <3>3
  <2> QED
    BY <1>1, <2>1, <2>2 DEF FileInv
<1>2. CASE user
  BY <1>2, UserKeeps
<1>3. ASSUME NEW p \in Procs, operate(p) \/ crash(p)
      PROVE  FileInv' /\ \A i \in DOMAIN text : ~Lost(i)
  <2>1. Done(p) \/ Creates(p)
    BY <1>3, PlanStep, PrepareStep, CheckStep, RenameStep, VerifyStep, PreinstallStep, LinkStep, ValidateStep, AlternatesStep,
       UninstallStep, UninstallRenameStep, UninstallVerifyStep, UninstalledStep, RestoreStep, RelinkStep, RelinkedVerifyStep,
       RestoredVerifyStep, RestoredStep, DisposeStep, DisposeVerifyStep, DisposeUnlinkStep, DisposeTmpStep, EndStep,
       PublishStep, PublishNowStep, PublishedStep, DiscardStep, CrashStep DEF operate
  <2> QED
    BY <2>1, DoneKeeps, CreatesKeeps
<1> QED
  BY <1>1, <1>2, <1>3 DEF Next

\* Nothing is planned in the beginning, and the target may be there.
LEMMA FileBegins == Init => FileInv
<1> SUFFICES ASSUME Init PROVE FileInv
  OBVIOUS
<1>1. /\ dir \in [Names -> {0, 1}] /\ (\A n \in Names \ {Target} : dir[n] = 0) /\ text = [i \in {1} |-> 1] /\ fresh = 2
      /\ \A p \in Procs : op[p] = Start
  BY DEF Init
<1>2. DOMAIN text = {1} /\ text[1] = 1
  BY <1>1
<1>3. Files
  BY <1>1, <1>2 DEF Files
<1>4. Start \in Operation
  BY DEF Start, Operation, Pcs, Planning, Errors, Names
<1>5. op \in [Procs -> Operation]
  BY <1>4 DEF Init
<1>6. /\ Start.pc = "plan" /\ Start.kind = "none" /\ Start.expected = Absent /\ Start.planned = Absent /\ Start.temp = Absent
      /\ Start.err = "none" /\ Start.failures = {}
  BY DEF Start
<1>7. ASSUME NEW p \in Procs
      PROVE  Local(p)
  <2>1. \A n \in namesOf(p) : dir[n] = 0
    BY <1>1, OwnNames
  <2>2. empty(tmp(p)) /\ empty(quarantine(p)) /\ empty(rollback(p))
    BY <2>1, OwnNames DEF empty
  <2>3. op[p].pc = "plan" /\ op[p].kind = "none" /\ op[p].expected = Absent /\ op[p].planned = Absent /\ op[p].temp = Absent
        /\ op[p].err = "none" /\ op[p].failures = {}
    BY <1>1, <1>6
  <2>4. Kinded(p) /\ Known(p)
    BY <2>3 DEF Kinded, Known, Planning, Changing, Publishing, Disposing, disposing
  <2>5. Reporting(p) /\ Held(p)
    BY <2>2, <2>3 DEF Reporting, Held, Unfailed, Disposing, disposing, Changing, empty
  <2>6. Temporary(p) /\ Undone(p)
    BY <2>2, <2>3 DEF Temporary, Standing, Undone, OwnOnly, Disposing, disposing, empty
  <2> QED
    BY <2>4, <2>5, <2>6 DEF Local
<1>8. Claims
  BY <1>1, <1>6 DEF Claims, claims
<1>9. Spared
  <2>1. ~doomed(Target)
    BY <1>1, <1>6 DEF doomed, removes
  <2> QED
    BY <1>1, <1>2, <2>1, OwnNames DEF Spared, linked, spared
<1> QED
  BY <1>1, <1>3, <1>5, <1>6, <1>7, <1>8, <1>9 DEF FileInv

\* What the invariant says of operations that are over: the claims make one
\* the winner.
LEMMA FileTells == FileInv => OutcomesAreTrue
<1> SUFFICES ASSUME FileInv PROVE OutcomesAreTrue
  OBVIOUS
<1>1. OneWins
  <2>1. ASSUME NEW p \in Procs, over(p), conditional(p), op[p].expected # Absent, op[p].err \in {"none", "installed"}
        PROVE  claims(p) /\ claimed(p) = op[p].expected[1]
    <3>1. op[p].pc = "over" /\ op[p].kind \in {"write", "unlink"}
      BY <2>1 DEF over, conditional
    <3>2. op[p].planned # Absent
      BY <2>1, <3>1, FileHas DEF Local, Known
    <3>3. op[p].planned[1] = op[p].expected[1]
      BY <3>2, KnownFiles
    <3> QED
      BY <2>1, <3>1, <3>2, <3>3 DEF claims, claimed, Disposing
  <2>2. ASSUME NEW p \in Procs, NEW q \in Procs, conditional(p), conditional(q), op[p].expected = op[q].expected, op[p].expected # Absent,
               over(p), over(q), op[p].err \in {"none", "installed"}, op[q].err \in {"none", "installed"}
        PROVE  p = q
    <3>1. claims(p) /\ claims(q) /\ claimed(p) = claimed(q)
      BY <2>1, <2>2
    <3> QED
      BY <3>1 DEF FileInv, Claims
  <2> QED
    BY <2>2 DEF OneWins
<1>2. FailedIsUndone
  <2>1. ASSUME NEW p \in Procs, over(p), conditional(p), op[p].err = "failed", op[p].failures = {}, op[p].temp # Absent
        PROVE  dir[Target] # op[p].temp[1]
    <3>1. OwnOnly(p)
      BY <2>1, FileHas DEF Local, Undone, over, conditional
    <3> QED
      BY <2>1, <3>1, OwnNames DEF OwnOnly
  <2> QED
    BY <2>1 DEF FailedIsUndone
<1>3. LeftoversAreReported
  <2>1. ASSUME NEW p \in Procs, over(p), op[p].kind # "replace"
        PROVE  /\ op[p].failures = {} => \A n \in namesOf(p) : dir[n] = 0
               /\ \A n \in op[p].failures \ {Unproven} : dir[n] # 0
    <3>1. op[p].pc = "over" /\ ~disposing(p, rollback(p))
      BY <2>1 DEF over, disposing, Disposing
    <3>2. op[p].failures = {} => empty(rollback(p)) /\ empty(quarantine(p)) /\ empty(tmp(p))
      BY <2>1, <3>1, FileHas DEF Local, Held, Temporary
    <3>3. \A n \in op[p].failures : n = Unproven \/ dir[n] # 0
      BY FileHas DEF Local, Reporting
    <3> QED
      BY <3>2, <3>3, OwnNames DEF empty
  <2> QED
    BY <2>1 DEF LeftoversAreReported
<1> QED
  BY <1>1, <1>2, <1>3 DEF OutcomesAreTrue

(***************************************************************************)
(* Of conditional operations on the same expected bytes one at most takes  *)
(* effect; one that fails and reports nothing has not left its new file in *)
(* the target's place; one that reports nothing has left nothing behind,   *)
(* and what one reports is there: for any number of operations, edits,     *)
(* failing calls and crashes.                                              *)
(***************************************************************************)
THEOREM OutcomesTrue == Spec => []OutcomesAreTrue
<1>1. FileInv /\ [Next]_vars => FileInv'
  BY StepKeeps
<1> QED
  BY <1>1, FileBegins, FileTells, PTL DEF Spec

(***************************************************************************)
(* No step removes the last name of a file whose bytes nobody replaced,    *)
(* planned to replace or delete, or made as a temporary.                   *)
(***************************************************************************)
THEOREM NothingIsLost == Spec => NothingLost
<1> DEFINE Keeps == \A i \in DOMAIN text : linked(i) /\ ~linked(i)' => <<i, text[i]>> \in givenUp'
<1>1. FileInv /\ [Next]_vars => FileInv'
  BY StepKeeps
<1>2. FileInv /\ [Next]_vars => [Keeps]_vars
  BY StepKeeps DEF Lost
<1>3. []FileInv /\ [][Next]_vars => [][Keeps]_vars
  BY <1>2, PTL
<1>4. Spec => [][Keeps]_vars
  BY <1>1, <1>3, FileBegins, PTL DEF Spec
<1> QED
  BY <1>4 DEF NothingLost
=================================================================================
