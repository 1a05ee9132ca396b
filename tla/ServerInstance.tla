--------------------------- MODULE ServerInstance ---------------------------
(***************************************************************************)
(* One HTTP server per database and per runtime descriptor: the lock file  *)
(* of src/src/server/instance-lock.ts, the descriptor file of              *)
(* src/src/server/runtime-descriptor.ts, and the order in which            *)
(* startHttpServer and close() use them (src/src/server/http.ts).  Every   *)
(* file-system call is a step of its own, and a process may die between    *)
(* any two of them.                                                        *)
(***************************************************************************)
EXTENDS Naturals

CONSTANTS
  Processes,    \* starts of the server; a start has its own pid and instance id
  Databases,    \* the databases servers are started on
  DatabaseOf,   \* DatabaseOf[p]: the database process p is started on
  NoProcess,    \* no record: the file is absent
  MaxCrashes    \* bound: how many processes die without cleaning up

VARIABLES
  lockFile,    \* lockFile[d]: the lock file of database d: its creator and
               \* whether the record has been written into it
  descriptor,  \* whose record the runtime descriptor holds
  pc,          \* pc[p]: the file-system call process p makes next
  seen,        \* seen[p]: the record p's last read of the lock returned
  attempt,     \* attempt[p]: the turn of acquireInstanceLock's loop
  crashes

Absent == [by |-> NoProcess, written |-> FALSE]

vars == <<lockFile, descriptor, pc, seen, attempt, crashes>>

Init ==
  /\ lockFile = [d \in Databases |-> Absent]
  /\ descriptor = NoProcess
  /\ pc = [p \in Processes |-> "unstarted"]
  /\ seen = [p \in Processes |-> NoProcess]
  /\ attempt = [p \in Processes |-> 0]
  /\ crashes = 0

\* isPidAlive: process.kill(pid, 0)
alive(p) == p \in Processes /\ pc[p] \notin {"stopped", "dead"}
lock(p) == lockFile[DatabaseOf[p]]
own(p) == [by |-> p, written |-> TRUE]
setLock(p, file) == lockFile' = [lockFile EXCEPT ![DatabaseOf[p]] = file]

goes(p, to) == pc' = [pc EXCEPT ![p] = to]
----------------------------------------------------------------------------
start(p) ==
  /\ pc[p] = "unstarted"
  /\ goes(p, "check")
  /\ UNCHANGED <<lockFile, descriptor, seen, attempt, crashes>>

(* assertDescriptorAvailable: a live holder of the descriptor refuses the  *)
(* start; before the lock is taken there is nothing to roll back.          *)
checkDescriptor(p) ==
  /\ pc[p] = "check"
  /\ IF alive(descriptor) THEN goes(p, "stopped") ELSE goes(p, "create")
  /\ UNCHANGED <<lockFile, descriptor, seen, attempt, crashes>>

(* acquireInstanceLock, its writeFile with flag 'wx': the file is created  *)
(* exclusively, its content follows.                                       *)
createLock(p) ==
  /\ pc[p] = "create"
  /\ IF lock(p) = Absent
     THEN /\ setLock(p, [by |-> p, written |-> FALSE])
          /\ goes(p, "write")
     ELSE /\ goes(p, "read")
          /\ UNCHANGED lockFile
  /\ UNCHANGED <<descriptor, seen, attempt, crashes>>

\* The content is written through the descriptor that created the file, so
\* it is lost when the file has been unlinked in the meantime.
writeLock(p) ==
  /\ pc[p] = "write"
  /\ IF lock(p).by = p THEN setLock(p, own(p)) ELSE UNCHANGED lockFile
  /\ goes(p, "open")
  /\ UNCHANGED <<descriptor, seen, attempt, crashes>>

\* readLockRecord: an empty record is a CONFLICT, an absent one an error.
readLock(p) ==
  /\ pc[p] = "read"
  /\ seen' = [seen EXCEPT ![p] = lock(p).by]
  /\ IF lock(p).written THEN goes(p, "liveness") ELSE goes(p, "stopped")
  /\ UNCHANGED <<lockFile, descriptor, attempt, crashes>>

\* Slip: a lock is taken over whoever holds it.
takeOverAnyway(p) == pc[p] = "liveness" /\ goes(p, "unlink")
                     /\ UNCHANGED <<lockFile, descriptor, seen, attempt, crashes>>

checkLiveness(p) ==
  /\ pc[p] = "liveness"
  /\ IF alive(seen[p]) THEN goes(p, "stopped") ELSE goes(p, "unlink")
  /\ UNCHANGED <<lockFile, descriptor, seen, attempt, crashes>>

\* The stale lock is unlinked by name and the loop turns, at most twice.
unlinkStale(p) ==
  /\ pc[p] = "unlink"
  /\ setLock(p, Absent)
  /\ attempt' = [attempt EXCEPT ![p] = @ + 1]
  /\ IF attempt[p] = 0 THEN goes(p, "create") ELSE goes(p, "stopped")
  /\ UNCHANGED <<descriptor, seen, crashes>>

(* Opening the database, the runtime and the listening socket either fails *)
(* and is rolled back, or the descriptor is checked a second time.         *)
openServer(p) ==
  /\ pc[p] = "open"
  /\ goes(p, "recheck") \/ goes(p, "readLock")
  /\ UNCHANGED <<lockFile, descriptor, seen, attempt, crashes>>

\* Slip: a start refused by the second check keeps its lock.
recheckKeepsLock(p) ==
  /\ pc[p] = "recheck"
  /\ IF alive(descriptor) THEN goes(p, "stopped") ELSE goes(p, "publish")
  /\ UNCHANGED <<lockFile, descriptor, seen, attempt, crashes>>

recheckDescriptor(p) ==
  /\ pc[p] = "recheck"
  /\ IF alive(descriptor) THEN goes(p, "readLock") ELSE goes(p, "publish")
  /\ UNCHANGED <<lockFile, descriptor, seen, attempt, crashes>>

\* writeRuntimeDescriptor renames a complete temporary file into place.
publishDescriptor(p) ==
  /\ pc[p] = "publish"
  /\ descriptor' = p
  /\ goes(p, "serving")
  /\ UNCHANGED <<lockFile, seen, attempt, crashes>>

----------------------------------------------------------------------------
close(p) ==
  /\ pc[p] = "serving"
  /\ goes(p, "readOwn")
  /\ UNCHANGED <<lockFile, descriptor, seen, attempt, crashes>>

(* removeRuntimeDescriptor reads the record and unlinks the file only when *)
(* the record carries its own instance id.                                 *)
readOwnDescriptor(p) ==
  /\ pc[p] = "readOwn"
  /\ IF descriptor = p THEN goes(p, "removeDescriptor") ELSE goes(p, "readLock")
  /\ UNCHANGED <<lockFile, descriptor, seen, attempt, crashes>>

removeDescriptor(p) ==
  /\ pc[p] = "removeDescriptor"
  /\ descriptor' = NoProcess
  /\ goes(p, "readLock")
  /\ UNCHANGED <<lockFile, seen, attempt, crashes>>

(* releaseInstanceLock: the same read, compare and unlink for the lock.    *)
readOwnLock(p) ==
  /\ pc[p] = "readLock"
  /\ IF lock(p) = own(p) THEN goes(p, "release") ELSE goes(p, "stopped")
  /\ UNCHANGED <<lockFile, descriptor, seen, attempt, crashes>>

releaseLock(p) ==
  /\ pc[p] = "release"
  /\ setLock(p, Absent)
  /\ goes(p, "stopped")
  /\ UNCHANGED <<descriptor, seen, attempt, crashes>>

\* The process is killed.
crash(p) ==
  /\ crashes < MaxCrashes
  /\ pc[p] \notin {"unstarted", "stopped", "dead"}
  /\ goes(p, "dead")
  /\ crashes' = crashes + 1
  /\ UNCHANGED <<lockFile, descriptor, seen, attempt>>

AllStopped == (\A p \in Processes : pc[p] \in {"stopped", "dead"}) /\ UNCHANGED vars

acquire(p) == createLock(p) \/ writeLock(p) \/ readLock(p) \/ checkLiveness(p) \/ unlinkStale(p)
serve(p) == checkDescriptor(p) \/ openServer(p) \/ recheckDescriptor(p) \/ publishDescriptor(p)
stop(p) == readOwnDescriptor(p) \/ removeDescriptor(p) \/ readOwnLock(p) \/ releaseLock(p)

Next ==
  \/ \E p \in Processes : start(p) \/ acquire(p) \/ serve(p) \/ close(p) \/ stop(p) \/ crash(p)
  \/ AllStopped

Spec == Init /\ [][Next]_vars

----------------------------------------------------------------------------

\* p believes it owns its database.
owns(p) == pc[p] \in {"open", "recheck", "publish", "serving",
                      "readOwn", "removeDescriptor", "readLock", "release"}

\* The starts that may race for a lock.  With a third contender a takeover can
\* unlink the lock another takeover has just created in place of the stale one.
AtMostTwoContend ==
  \A p, q, r \in Processes :
    DatabaseOf[p] = DatabaseOf[q] /\ DatabaseOf[q] = DatabaseOf[r] => p = q \/ q = r \/ p = r

(* Two servers that contend for a database never both own it, whatever     *)
(* lock a crash has left behind.                                           *)
OneOwner ==
  AtMostTwoContend =>
    \A p, q \in Processes : p # q /\ DatabaseOf[p] = DatabaseOf[q] => ~(owns(p) /\ owns(q))

(* A server that owns its database still has its record in the lock file:  *)
(* nobody else's release or takeover removed it.                           *)
OwnerHoldsItsLock ==
  AtMostTwoContend => \A p \in Processes : owns(p) => lock(p) = own(p)

(* A server that stopped in good order leaves neither lock nor descriptor  *)
(* behind, so it never stands in the way of the next start.                *)
CleanStopLeavesNothing ==
  \A p \in Processes : pc[p] = "stopped" => lock(p).by # p /\ descriptor # p

=============================================================================
