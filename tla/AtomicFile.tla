----------------------------- MODULE AtomicFile -----------------------------
(***************************************************************************)
(* Changing a file that others may change at the same time                 *)
(* (src/src/agent-file/atomic-write.ts): atomicWriteTextIfUnchanged and    *)
(* unlinkRegularFileIfUnchanged move the target to a quarantine, look at   *)
(* what they have got, install with a link that never overwrites, and undo *)
(* or report what cannot be finished; atomicReplaceTextWithGuard and       *)
(* atomicWriteText publish with one rename.                                *)
(* A step is one file-system call that changes something, with the reads   *)
(* that were made since the last one.  The user, an editor or another tool *)
(* acts between any two steps; a process may die between any two; a call   *)
(* may fail.  The directory and its ancestors are fixed: their identity    *)
(* checks fail only as a fault does.                                       *)
(***************************************************************************)
EXTENDS Naturals, FiniteSets

CONSTANTS
  Procs,      \* operations, one per process
  Kinds,      \* the kinds: "write", "unlink", "replace", "overwrite"
  Nobody, Absent,
  MaxEdits,   \* bound: changes made by the user
  MaxFaults,  \* bound: file-system calls that fail
  MaxCrashes  \* bound: processes that die

\* What is absent is neither a file nor a snapshot, and nobody no process.
ASSUME AtomicAssumption ==
  /\ IsFiniteSet(Procs) /\ Nobody \notin Procs
  /\ Kinds \subseteq {"write", "unlink", "replace", "overwrite"}
  /\ Absent \notin Nat \X Nat /\ Absent \notin Nat \X Nat \X Nat

VARIABLES
  dir,     \* dir[n]: the inode name n is bound to, or 0
  text,    \* text[i]: the bytes and mode of inode i
  fresh,   \* the next unused inode, and bytes nobody has written yet
  op,      \* op[p]: the local variables of the operation
  given,   \* history: what the user removed or replaced, and what the rename
           \* of an operation that promises no comparison overwrote
  edits, faults, crashes

vars == <<dir, text, fresh, op, given, edits, faults, crashes>>

----------------------------------------------------------------------------
Target == <<Nobody, "target">>
Alt == <<Nobody, "alternate">>
tmp(p) == <<p, "tmp">>
quarantine(p) == <<p, "quarantine">>  \* .previous or .deleted
rollback(p) == <<p, "rollback">>
\* The disposal name under which cleanupBoundArtifact unlinks n.
disposal(n) == <<n[1], CASE n[2] = "tmp" -> "tmp.cleanup"
                         [] n[2] = "quarantine" -> "quarantine.cleanup"
                         [] n[2] = "rollback" -> "rollback.cleanup">>
namesOf(p) == {tmp(p), quarantine(p), rollback(p), disposal(tmp(p)),
               disposal(quarantine(p)), disposal(rollback(p))}
Names == {Target, Alt} \cup UNION {namesOf(p) : p \in Procs}

linkCount(i) == Cardinality({n \in Names : dir[n] = i})

\* readRegularFile and readBoundArtifact: identity, bytes and mode, and for an
\* artifact the number of links.
snapshot(n) == IF dir[n] = 0 THEN Absent ELSE <<dir[n], text[dir[n]]>>
artifact(n) == IF dir[n] = 0 THEN Absent ELSE <<dir[n], text[dir[n]], linkCount(dir[n])>>
snapshotOf(a) == IF a = Absent THEN Absent ELSE <<a[1], a[2]>>
withLinkCount(a, k) == <<a[1], a[2], k>>

Start == [pc |-> "plan", kind |-> "none", guards |-> FALSE, expected |-> Absent, planned |-> Absent, temp |-> Absent,
          links |-> 1, err |-> "none", failures |-> {},
          victim |-> Target, bound |-> Absent, ret |-> "end"]

Init ==
  /\ dir \in [Names -> {0, 1}] /\ \A n \in Names \ {Target} : dir[n] = 0
  /\ text = [i \in {1} |-> 1]
  /\ fresh = 2
  /\ op = [p \in Procs |-> Start]
  /\ given = {}
  /\ edits = 0 /\ faults = 0 /\ crashes = 0

----------------------------------------------------------------------------
(* The user and other tools (external) edit the target in place, put       *)
(* another file in its place, remove it, or create the alternate.          *)
editInPlace ==
  /\ dir[Target] # 0
  /\ text' = [text EXCEPT ![dir[Target]] = fresh]
  /\ fresh' = fresh + 1
  /\ UNCHANGED <<dir, given>>

newFile(i) == [j \in DOMAIN text \cup {i} |-> IF j = i THEN i ELSE text[j]]

saveAs ==
  /\ dir' = [dir EXCEPT ![Target] = fresh]
  /\ given' = given \cup {snapshot(Target)}
  /\ text' = newFile(fresh)
  /\ fresh' = fresh + 1

removeTarget ==
  /\ dir[Target] # 0
  /\ dir' = [dir EXCEPT ![Target] = 0]
  /\ given' = given \cup {snapshot(Target)}
  /\ UNCHANGED <<text, fresh>>

createAlternate ==
  /\ dir[Alt] = 0
  /\ dir' = [dir EXCEPT ![Alt] = fresh]
  /\ text' = newFile(fresh)
  /\ fresh' = fresh + 1
  /\ UNCHANGED given

user ==
  /\ edits < MaxEdits
  /\ edits' = edits + 1
  /\ editInPlace \/ saveAs \/ removeTarget \/ createAlternate
  /\ UNCHANGED <<op, faults, crashes>>

----------------------------------------------------------------------------
(* The outcome of a call or of a series of reads that should find cond: it *)
(* does not, or a call fails (an I/O error, a replaced directory).         *)
succeeds(ok, cond) ==
  \/ ok = cond /\ UNCHANGED faults
  \/ ~ok /\ cond /\ faults < MaxFaults /\ faults' = faults + 1

at(p, pc) == op[p].pc = pc
stays == UNCHANGED <<dir, text, fresh>>
moves(p, o) == op' = [op EXCEPT ![p] = o] /\ UNCHANGED <<edits, crashes>>
becomes(p, o) == moves(p, o) /\ UNCHANGED given
goes(p, pc) == becomes(p, [op[p] EXCEPT !.pc = pc])

conditional(p) == op[p].kind \in {"write", "unlink"}
quarantined(p) == op[p].planned # Absent

expectationHolds(p) ==
  snapshot(Target) = op[p].expected /\ (op[p].guards => dir[Alt] = 0)

\* Where an operation goes to remove its temporary, if it has one: the guarded
\* replacement unlinks it in its catch block, the others dispose of it.
unwound(p, o) ==
  IF o.kind = "unlink" THEN [o EXCEPT !.pc = "end"]
  ELSE IF o.kind = "replace" THEN [o EXCEPT !.pc = "discard"]
  ELSE [o EXCEPT !.pc = "dispose", !.victim = tmp(p), !.ret = "end",
                 !.bound = withLinkCount(o.temp, o.links)]

fails(p, err) == becomes(p, unwound(p, [op[p] EXCEPT !.err = err]))

\* bindOwnedCleanupFailure: a name is reported when it still holds the file
\* with the bytes the operation knows, otherwise a failure without a name.
Unproven == <<Nobody, "unproven">>
bindOwned(ns, bound) ==
  LET found == {n \in ns : dir[n] # 0 /\ snapshot(n) = snapshotOf(bound)} IN
  IF found = {} THEN {Unproven} ELSE found

reports(o, ns, bound) == [o EXCEPT !.failures = @ \cup bindOwned(ns, bound)]

----------------------------------------------------------------------------
(* The caller's plan: it reads the target; mustRemainAbsent names an       *)
(* alternate that is absent.  Deletion is planned for a file that exists.  *)
plan(p) ==
  /\ at(p, "plan")
  /\ \E k \in Kinds, guards \in BOOLEAN :
       /\ guards => k \in {"write", "unlink"} /\ dir[Alt] = 0
       /\ k = "unlink" => dir[Target] # 0
       /\ becomes(p, [Start EXCEPT !.kind = k, !.guards = guards, !.expected = snapshot(Target),
                                   !.pc = IF k = "unlink" THEN "check" ELSE "prepare"])
  /\ stays /\ UNCHANGED faults

(* The temporary is created, written, synced and read back.  A write with  *)
(* a known parent and a guarded replacement check the expectation before;  *)
(* an error in between removes the temporary again (cleanupBeforeCommit).  *)
prepare(p) ==
  /\ at(p, "prepare")
  /\ \/ /\ op[p].kind # "overwrite" /\ ~expectationHolds(p)
        /\ becomes(p, [op[p] EXCEPT !.pc = "end", !.err = "failed"])
        /\ stays /\ UNCHANGED faults
     \/ /\ op[p].kind = "replace" => expectationHolds(p)
        /\ dir' = [dir EXCEPT ![tmp(p)] = fresh]
        /\ text' = newFile(fresh)
        /\ fresh' = fresh + 1
        /\ LET o == [op[p] EXCEPT !.temp = <<fresh, fresh, 1>>] IN
           \E ok \in BOOLEAN :
             /\ succeeds(ok, TRUE)
             /\ becomes(p, IF ok THEN [o EXCEPT !.pc = IF conditional(p) THEN "check" ELSE "publish"]
                           ELSE unwound(p, [o EXCEPT !.err = "failed"]))

(* conditionalInstall and unlinkRegularFileIfUnchanged check what was      *)
(* planned against what is there, ...                                      *)
check(p) ==
  /\ at(p, "check")
  /\ \E ok \in BOOLEAN :
       /\ succeeds(ok, expectationHolds(p))
       /\ IF ~ok THEN fails(p, "failed")
          ELSE becomes(p, [op[p] EXCEPT !.planned = artifact(Target),
                             !.pc = IF op[p].expected = Absent THEN "preinstall" ELSE "rename"])
  /\ stays

\* Slip: what the rename brought into the quarantine is taken for the file
\* that was planned.
renameTrusting(p) ==
  /\ at(p, "rename")
  /\ dir[Target] # 0
  /\ dir' = [dir EXCEPT ![quarantine(p)] = dir[Target], ![Target] = 0]
  /\ becomes(p, [op[p] EXCEPT !.pc = "verify",
                   !.planned = <<dir[Target], text[dir[Target]], linkCount(dir[Target])>>])
  /\ UNCHANGED <<text, fresh, faults>>

\* ... and rename the target, which may be another file by now, away.
rename(p) ==
  /\ at(p, "rename")
  /\ \E ok \in BOOLEAN :
       /\ succeeds(ok, dir[Target] # 0)
       /\ IF ok THEN /\ dir' = [dir EXCEPT ![quarantine(p)] = dir[Target], ![Target] = 0]
                     /\ goes(p, "verify") /\ UNCHANGED <<text, fresh>>
          ELSE fails(p, "failed") /\ stays

\* Slip: an unexpected file in the quarantine is left there in silence.
verifySilently(p) ==
  /\ at(p, "verify")
  /\ IF artifact(quarantine(p)) = op[p].planned /\ dir[Target] = 0
     THEN goes(p, IF op[p].kind = "unlink" THEN "alternates" ELSE "preinstall")
     ELSE fails(p, "unlinked")
  /\ stays /\ UNCHANGED faults

(* After the rename there is no way back but a committed outcome: another  *)
(* file in the quarantine, or a target that is there again, is reported.   *)
verify(p) ==
  /\ at(p, "verify")
  /\ \E ok \in BOOLEAN :
       /\ succeeds(ok, artifact(quarantine(p)) = op[p].planned /\ dir[Target] = 0)
       /\ IF ok THEN goes(p, IF op[p].kind = "unlink" THEN "alternates" ELSE "preinstall")
          ELSE becomes(p, unwound(p, [reports(op[p], {quarantine(p)}, op[p].planned)
                                        EXCEPT !.err = "unlinked"]))
  /\ stays

givesBack(p) == IF quarantined(p) THEN goes(p, "restore") ELSE fails(p, "failed")

\* validatePreInstall, before and after the quarantine hook.
preinstall(p) ==
  /\ at(p, "preinstall")
  /\ \E ok \in BOOLEAN :
       /\ succeeds(ok, /\ artifact(tmp(p)) = op[p].temp
                       /\ dir[Target] = 0
                       /\ quarantined(p) => artifact(quarantine(p)) = op[p].planned)
       /\ IF ok THEN goes(p, "link") ELSE givesBack(p)
  /\ stays

\* Slip: the temporary is renamed onto the target.
linkByRename(p) ==
  /\ at(p, "link")
  /\ dir' = [dir EXCEPT ![Target] = dir[tmp(p)]]
  /\ becomes(p, [op[p] EXCEPT !.links = 2, !.pc = "validate"])
  /\ UNCHANGED <<text, fresh, faults>>

\* link() installs and never overwrites: EEXIST is a conflict.
link(p) ==
  /\ at(p, "link")
  /\ \E ok \in BOOLEAN :
       /\ succeeds(ok, dir[Target] = 0)
       /\ IF ok THEN /\ dir' = [dir EXCEPT ![Target] = dir[tmp(p)]]
                     /\ becomes(p, [op[p] EXCEPT !.links = 2, !.pc = "validate"])
                     /\ UNCHANGED <<text, fresh>>
          ELSE givesBack(p) /\ stays

linkedTemporary(p) == withLinkCount(op[p].temp, 2)

\* Where the operation ends with the new file in place.
installedAnyway(p) ==
  becomes(p, unwound(p,
    [op[p] EXCEPT !.err = "installed",
       !.failures = IF quarantined(p) THEN @ \cup bindOwned({quarantine(p)}, op[p].planned) ELSE @]))

validate(p) ==
  /\ at(p, "validate")
  /\ \E ok \in BOOLEAN :
       /\ succeeds(ok, /\ artifact(tmp(p)) = linkedTemporary(p)
                       /\ artifact(Target) = linkedTemporary(p)
                       /\ quarantined(p) => artifact(quarantine(p)) = op[p].planned)
       /\ IF ok THEN goes(p, "alternates") ELSE installedAnyway(p)
  /\ stays

\* cleanupBoundArtifact(n, bound), then on at ret.
disposes(p, n, bound, ret) ==
  becomes(p, [op[p] EXCEPT !.pc = "dispose", !.victim = n, !.bound = bound, !.ret = ret])

\* Slip: an alternate that has appeared is an ordinary conflict.
alternatesGiveUp(p) ==
  /\ at(p, "alternates")
  /\ IF op[p].guards /\ dir[Alt] # 0 THEN givesBack(p)
     ELSE IF quarantined(p) THEN disposes(p, quarantine(p), op[p].planned,
                                   IF op[p].kind = "unlink" THEN "end" ELSE "disposeTmp")
     ELSE fails(p, "none")
  /\ stays /\ UNCHANGED faults

(* mustRemainAbsent is checked again: an alternate that has appeared undoes*)
(* the change, otherwise the quarantined original is removed.              *)
alternates(p) ==
  /\ at(p, "alternates")
  /\ \E ok \in BOOLEAN :
       /\ IF op[p].guards THEN succeeds(ok, dir[Alt] = 0) ELSE ok /\ UNCHANGED faults
       /\ \/ /\ ok
             /\ IF quarantined(p)
                THEN disposes(p, quarantine(p), op[p].planned,
                              IF op[p].kind = "unlink" THEN "end" ELSE "disposeTmp")
                ELSE fails(p, "none")
          \/ /\ ~ok /\ op[p].kind = "unlink" /\ goes(p, "restore")
          \/ /\ ~ok /\ op[p].kind = "write"
             /\ IF op[p].guards /\ dir[Alt] # 0 THEN goes(p, "uninstall") ELSE installedAnyway(p)
  /\ stays

----------------------------------------------------------------------------
(* conditionalUnlinkInstalled: the new file is moved out of the way again, *)
(* if it is still the one that was installed.                              *)
uninstall(p) ==
  /\ at(p, "uninstall")
  /\ \E ok \in BOOLEAN :
       /\ succeeds(ok, artifact(Target) = linkedTemporary(p))
       /\ IF ok THEN goes(p, "uninstallRename") ELSE installedAnyway(p)
  /\ stays

uninstallRename(p) ==
  /\ at(p, "uninstallRename")
  /\ \E ok \in BOOLEAN :
       /\ succeeds(ok, dir[Target] # 0)
       /\ IF ok THEN /\ dir' = [dir EXCEPT ![rollback(p)] = dir[Target], ![Target] = 0]
                     /\ goes(p, "uninstallVerify") /\ UNCHANGED <<text, fresh>>
          ELSE installedAnyway(p) /\ stays

\* The number of links the temporary is known to have after a failed rollback.
recount(p, o) == IF snapshot(tmp(p)) = snapshotOf(o.temp)
                 THEN [o EXCEPT !.links = linkCount(dir[tmp(p)])] ELSE o

uninstallVerify(p) ==
  /\ at(p, "uninstallVerify")
  /\ \E ok \in BOOLEAN :
       /\ succeeds(ok, artifact(rollback(p)) = linkedTemporary(p) /\ dir[Target] = 0)
       /\ IF ok THEN disposes(p, rollback(p), linkedTemporary(p), "uninstalled")
          ELSE LET o == recount(p, reports(op[p], {rollback(p)}, linkedTemporary(p))) IN
               becomes(p, IF quarantined(p) THEN [o EXCEPT !.pc = "restore"]
                          ELSE unwound(p, [o EXCEPT !.err = "failed"]))
  /\ stays

uninstalled(p) ==
  /\ at(p, "uninstalled")
  /\ LET o == IF dir[rollback(p)] = 0 /\ dir[disposal(rollback(p))] = 0
              THEN [op[p] EXCEPT !.links = 1] ELSE recount(p, op[p]) IN
     becomes(p, IF quarantined(p) THEN [o EXCEPT !.pc = "restore"]
                ELSE unwound(p, [o EXCEPT !.err = "failed"]))
  /\ stays /\ UNCHANGED faults

----------------------------------------------------------------------------
relinked(p) == withLinkCount(op[p].planned, op[p].planned[3] + 1)

\* restoreQuarantinedTarget links the original back, if nothing is in its
\* place.
restore(p) ==
  /\ at(p, "restore")
  /\ \E ok \in BOOLEAN :
       /\ succeeds(ok, artifact(quarantine(p)) = op[p].planned /\ dir[Target] = 0)
       /\ becomes(p, IF ok THEN [op[p] EXCEPT !.pc = "relink"]
                     ELSE [reports(op[p], {quarantine(p)}, op[p].planned) EXCEPT !.pc = "restored"])
  /\ stays

relink(p) ==
  /\ at(p, "relink")
  /\ \E ok \in BOOLEAN :
       /\ succeeds(ok, dir[Target] = 0)
       /\ IF ok THEN /\ dir' = [dir EXCEPT ![Target] = dir[quarantine(p)]]
                     /\ goes(p, "relinked") /\ UNCHANGED <<text, fresh>>
          ELSE /\ becomes(p, [reports(op[p], {quarantine(p)}, op[p].planned) EXCEPT !.pc = "restored"])
               /\ stays

relinkedVerify(p) ==
  /\ at(p, "relinked")
  /\ \E ok \in BOOLEAN :
       /\ succeeds(ok, artifact(quarantine(p)) = relinked(p) /\ artifact(Target) = relinked(p))
       /\ IF ok THEN disposes(p, quarantine(p), relinked(p), "restoredVerify")
          ELSE becomes(p, [reports(op[p], {quarantine(p)}, op[p].planned) EXCEPT !.pc = "restored"])
  /\ stays

restoredVerify(p) ==
  /\ at(p, "restoredVerify")
  /\ LET disposed == dir[quarantine(p)] = 0 /\ dir[disposal(quarantine(p))] = 0 IN
     \E ok \in BOOLEAN :
       /\ IF disposed THEN succeeds(ok, artifact(Target) = op[p].planned)
          ELSE ok /\ UNCHANGED faults
       /\ becomes(p, IF ok THEN [op[p] EXCEPT !.pc = "restored"]
                     ELSE [reports(op[p], {quarantine(p)}, op[p].planned) EXCEPT !.pc = "restored"])
  /\ stays

\* throwAfterOriginalRestoreAttempt: only a target that is the original again
\* makes this an operation that has changed nothing.
restored(p) ==
  /\ at(p, "restored")
  /\ \E ok \in BOOLEAN :
       /\ succeeds(ok, snapshot(Target) = op[p].expected)
       /\ fails(p, IF ok THEN "failed" ELSE "unlinked")
  /\ stays

----------------------------------------------------------------------------
disposalFails(p) ==
  becomes(p, [reports(op[p], {disposal(op[p].victim), op[p].victim}, op[p].bound)
                EXCEPT !.pc = op[p].ret])

(* cleanupBoundArtifact: a name is unlinked only after it was moved to a   *)
(* name of its own and read once more there, links included.               *)
dispose(p) ==
  /\ at(p, "dispose")
  /\ \E ok \in BOOLEAN :
       /\ succeeds(ok, artifact(op[p].victim) = op[p].bound)
       /\ IF ok THEN /\ dir' = [dir EXCEPT ![disposal(op[p].victim)] = dir[op[p].victim],
                                           ![op[p].victim] = 0]
                     /\ goes(p, "disposeVerify") /\ UNCHANGED <<text, fresh>>
          ELSE disposalFails(p) /\ stays

disposeVerify(p) ==
  /\ at(p, "disposeVerify")
  /\ \E ok \in BOOLEAN :
       /\ succeeds(ok, artifact(disposal(op[p].victim)) = op[p].bound)
       /\ IF ok THEN goes(p, "disposeUnlink") ELSE disposalFails(p)
  /\ stays

disposeUnlink(p) ==
  /\ at(p, "disposeUnlink")
  /\ \E ok \in BOOLEAN :
       /\ succeeds(ok, TRUE)
       /\ IF ok THEN /\ dir' = [dir EXCEPT ![disposal(op[p].victim)] = 0]
                     /\ goes(p, op[p].ret) /\ UNCHANGED <<text, fresh>>
          ELSE disposalFails(p) /\ stays

\* conditionalInstall is through: the temporary is one link too many.
disposeTmp(p) ==
  /\ at(p, "disposeTmp")
  /\ \E ok \in BOOLEAN : succeeds(ok, TRUE) /\ fails(p, IF ok THEN "none" ELSE "installed")
  /\ stays

\* The last look at the directory and, when the temporary is gone, at an
\* installed target that should have one link again.
end(p) ==
  /\ at(p, "end")
  /\ LET looks == op[p].kind = "write" /\ dir[tmp(p)] = 0 /\ dir[disposal(tmp(p))] = 0
         committed == IF op[p].kind = "unlink" THEN "unlinked" ELSE "installed" IN
     \E ok \in BOOLEAN :
       /\ IF op[p].err = "none" THEN succeeds(ok, looks => artifact(Target) = op[p].temp)
          ELSE ok /\ UNCHANGED faults
       /\ becomes(p, [op[p] EXCEPT !.pc = "over", !.err = IF ok THEN @ ELSE committed])
  /\ stays

----------------------------------------------------------------------------
(* atomicReplaceTextWithGuard checks again and publishes with a link for a *)
(* new file and a rename for an existing one; atomicWriteText renames.     *)
publish(p) ==
  /\ at(p, "publish")
  /\ \E ok \in BOOLEAN :
       /\ succeeds(ok, op[p].kind = "replace" => expectationHolds(p))
       /\ IF ok THEN goes(p, "publishNow") ELSE fails(p, "failed")
  /\ stays

publishNow(p) ==
  /\ at(p, "publishNow")
  /\ LET links == op[p].kind = "replace" /\ op[p].expected = Absent IN
     \E ok \in BOOLEAN :
       /\ succeeds(ok, links => dir[Target] = 0)
       /\ IF ok THEN /\ dir' = [dir EXCEPT ![Target] = dir[tmp(p)],
                                           ![tmp(p)] = IF links THEN @ ELSE 0]
                     /\ given' = given \cup {snapshot(Target)}
                     /\ moves(p, [op[p] EXCEPT !.pc = "published"]) /\ UNCHANGED <<text, fresh>>
          ELSE fails(p, "failed") /\ stays

(* What was published is read: other bytes are a committed outcome.  A     *)
(* guarded replacement that cannot read them, or cannot unlink its         *)
(* temporary, throws what it met.                                          *)
published(p) ==
  /\ at(p, "published")
  /\ \/ /\ op[p].kind = "overwrite"
        /\ \E ok \in BOOLEAN :
             /\ succeeds(ok, artifact(Target) = op[p].temp)
             /\ becomes(p, IF ok THEN [op[p] EXCEPT !.pc = "over"]
                           ELSE [op[p] EXCEPT !.pc = "over", !.err = "installed",
                                   !.failures = IF artifact(Target) = op[p].temp THEN @
                                                ELSE @ \cup {Unproven}])
     \/ /\ op[p].kind = "replace"
        /\ \E ok \in BOOLEAN :
             /\ succeeds(ok, TRUE)
             /\ becomes(p, [op[p] EXCEPT !.pc = "discard",
                  !.err = IF ~ok THEN "failed"
                          ELSE IF snapshot(Target) = snapshotOf(op[p].temp) THEN "none"
                          ELSE "installed"])
  /\ stays

\* The temporary of a guarded replacement is unlinked if it is there; what
\* goes wrong with that is not reported.
discard(p) ==
  /\ at(p, "discard")
  /\ \E ok \in BOOLEAN :
       /\ succeeds(ok, TRUE)
       /\ dir' = IF ok THEN [dir EXCEPT ![tmp(p)] = 0] ELSE dir
  /\ goes(p, "over")
  /\ UNCHANGED <<text, fresh>>

crash(p) ==
  /\ crashes < MaxCrashes
  /\ op[p].pc \notin {"plan", "over", "dead"}
  /\ crashes' = crashes + 1
  /\ op' = [op EXCEPT ![p].pc = "dead"]
  /\ UNCHANGED <<dir, text, fresh, given, edits, faults>>

operate(p) ==
  \/ plan(p) \/ prepare(p) \/ check(p) \/ rename(p) \/ verify(p) \/ preinstall(p)
  \/ link(p) \/ validate(p) \/ alternates(p)
  \/ uninstall(p) \/ uninstallRename(p) \/ uninstallVerify(p) \/ uninstalled(p)
  \/ restore(p) \/ relink(p) \/ relinkedVerify(p) \/ restoredVerify(p) \/ restored(p)
  \/ dispose(p) \/ disposeVerify(p) \/ disposeUnlink(p) \/ disposeTmp(p) \/ end(p)
  \/ publish(p) \/ publishNow(p) \/ published(p) \/ discard(p)

Next == user \/ \E p \in Procs : operate(p) \/ crash(p)

Spec == Init /\ [][Next]_vars

----------------------------------------------------------------------------
over(p) == op[p].pc = "over"
linked(i) == \E n \in Names : dir[n] = i

\* Bytes that somebody gave up: others were put in their place, or an
\* operation was planned to replace or delete them, or wrote them itself.
givenUp == given \cup {op[p].expected : p \in Procs} \cup {snapshotOf(op[p].temp) : p \in Procs}

(* The last name of a file goes away only when somebody gave its bytes up: *)
(* a file that slips under the target's name between check and rename      *)
(* survives in a quarantine, and an edit of the installed file survives    *)
(* the removal of the temporary that shares its inode.                     *)
NothingLost ==
  [][\A i \in DOMAIN text : linked(i) /\ ~linked(i)' => <<i, text[i]>> \in givenUp']_vars

(* Conditional operations compare and swap: of two that were planned on    *)
(* the same file at most one takes effect, whatever a user does meanwhile. *)
OneWins ==
  \A p, q \in Procs :
    /\ p # q /\ conditional(p) /\ conditional(q)
    /\ op[p].expected = op[q].expected /\ op[p].expected # Absent
    /\ over(p) /\ over(q)
    => ~(op[p].err \in {"none", "installed"} /\ op[q].err \in {"none", "installed"})

(* An operation that lives to its end and reports no cleanup failure       *)
(* leaves nothing beside the target, and a name it reports is really there *)
(* for the user to look at.                                                *)
LeftoversAreReported ==
  \A p \in Procs : over(p) /\ op[p].kind # "replace" =>
    /\ op[p].failures = {} => \A n \in namesOf(p) : dir[n] = 0
    /\ \A n \in op[p].failures \ {Unproven} : dir[n] # 0

(* An operation that ends with an ordinary error, neither committed nor    *)
(* with artifacts to report, has not left its new file in the target's     *)
(* place: callers roll back only what is reported as committed.            *)
FailedIsUndone ==
  \A p \in Procs :
    over(p) /\ conditional(p) /\ op[p].err = "failed" /\ op[p].failures = {}
    => op[p].temp = Absent \/ dir[Target] # op[p].temp[1]
=============================================================================
