----------------------------- MODULE HttpServer -----------------------------
(***************************************************************************)
(* Shutdown of the loopback HTTP server (src/src/server/http.ts): requests *)
(* that are being served, the embedding worker's drain and close() share   *)
(* one WriteQueue and one database connection.  close() may be called      *)
(* while requests are active, runs its steps in order, collects the steps  *)
(* that fail, and may be called again to retry just those.                 *)
(***************************************************************************)
EXTENDS WriteQueue

CONSTANTS
  Requests,        \* requests clients may send; each performs one write
  WorkerWrites,    \* the writes the embedding worker's drains perform
  Closer,          \* the caller behind queue.close()
  MaxFailures      \* bound: how often a cleanup step may throw

\* The server is the only user of its queue; a write is that of a request or
\* of a drain.
ASSUME ServerAssumption ==
  /\ Ops = Requests \cup WorkerWrites /\ Requests \cap WorkerWrites = {}
  /\ Drainers = {Closer}
  /\ MaxFailures \in Nat

VARIABLES
  phase,       \* phase[r]: where the handler of request r stands
  active,      \* the admissions that are active: activeRequests is its size
  late,        \* history: requests admitted after close() was called
  worker,      \* the embedding worker: none, idle, draining, stopping or stopped
  closing,     \* close() has been called
  pc,          \* the step of the current close() attempt
  released,    \* the resources whose release has completed
  failures,    \* steps of the current attempt that threw
  thrown       \* failures so far, bounded by MaxFailures

serverVars == <<phase, active, late, worker, closing, pc, released, failures, thrown>>
vars == <<queueVars, serverVars>>

Resources == {"server", "worker", "queue", "database", "descriptor", "lock"}
\* The steps of close() in the order the attempt takes them.
Steps == <<"server", "worker", "requests", "queue", "database", "descriptor", "lock">>

ServerInit ==
  /\ Init
  /\ phase = [r \in Requests |-> "unsent"]
  /\ active = {}
  /\ late = {}
  /\ worker \in {"none", "idle"}
  /\ closing = FALSE
  /\ pc = 0
  /\ released = {}
  /\ failures = {}
  /\ thrown = 0

quiet == UNCHANGED queueVars
databaseOpen == "database" \notin released
----------------------------------------------------------------------------
(* requestListener: a request is admitted while the server still has a     *)
(* connection to deliver it on; a handler then runs.                       *)
admit(r) ==
  /\ phase[r] = "unsent"
  /\ "server" \notin released
  /\ phase' = [phase EXCEPT ![r] = "handling"]
  /\ active' = active \cup {r}
  /\ late' = IF closing THEN late \cup {r} ELSE late
  /\ quiet
  /\ UNCHANGED <<worker, closing, pc, released, failures, thrown>>

(* enqueueWrite: once close() has been called only a request whose         *)
(* admission is still active reaches the queue.                            *)
enqueueWrite(r) ==
  /\ phase[r] = "handling"
  /\ phase' = [phase EXCEPT ![r] = "writing"]
  /\ IF closing /\ r \notin active
     THEN /\ outcome' = [outcome EXCEPT ![r] = "closed"]
          /\ UNCHANGED <<items, running, accepting, waiters, drained, accepted, started>>
     ELSE enqueue(r)
  /\ UNCHANGED <<active, late, worker, closing, pc, released, failures, thrown>>

\* The handler answers once the promise of its write has settled, or at once
\* when it fails before writing; 'finish' settles the admission.
respond(r) ==
  /\ \/ phase[r] = "handling"
     \/ phase[r] = "writing" /\ outcome[r] \notin {"unasked", "waiting"}
  /\ phase' = [phase EXCEPT ![r] = "answered"]
  /\ active' = active \ {r}
  /\ quiet
  /\ UNCHANGED <<late, worker, closing, pc, released, failures, thrown>>

\* The client goes away: 'close' settles the admission, the handler goes on.
disconnect(r) ==
  /\ r \in active
  /\ active' = active \ {r}
  /\ quiet
  /\ UNCHANGED <<phase, late, worker, closing, pc, released, failures, thrown>>

----------------------------------------------------------------------------
(* The embedding worker: a drain performs its writes one after the other   *)
(* through enqueueRuntimeWrite, which does not look at closing.            *)
beginDrain ==
  /\ worker = "idle"
  /\ worker' = "draining"
  /\ quiet
  /\ UNCHANGED <<phase, active, late, closing, pc, released, failures, thrown>>

enqueueRuntimeWrite(w) ==
  /\ worker \in {"draining", "stopping"}
  /\ \A v \in WorkerWrites : outcome[v] # "waiting"
  /\ enqueue(w)
  /\ UNCHANGED serverVars

endDrain ==
  /\ worker \in {"draining", "stopping"}
  /\ \A v \in WorkerWrites : outcome[v] # "waiting"
  /\ worker' = IF worker = "draining" THEN "idle" ELSE "stopped"
  /\ quiet
  /\ UNCHANGED <<phase, active, late, closing, pc, released, failures, thrown>>

----------------------------------------------------------------------------
stopped(w) == CASE w = "idle" -> "stopped" [] w = "draining" -> "stopping" [] OTHER -> w

\* Slip: the queue is closed early although the worker may be draining.
closeQueueEarlyAnyway == active = {}

(* close(): the first call stops the worker's timer and closes the queue   *)
(* at once when nothing can still need it; a call after a failed attempt   *)
(* starts over with the resources that are left.                           *)
mayCloseQueueEarly == active = {} /\ worker = "none"

\* Slip: the retry takes the released flags from the attempt, not from the
\* steps that completed.
closeForgetsFailures ==
  /\ pc = 0
  /\ released # Resources
  /\ closing' = TRUE
  /\ worker' = stopped(worker)
  /\ pc' = IF thrown > 0 THEN Len(Steps) + 1 ELSE 1
  /\ failures' = {}
  /\ IF mayCloseQueueEarly /\ Closer \notin waiters \cup drained
     THEN close(Closer)
     ELSE quiet
  /\ UNCHANGED <<phase, active, late, released, thrown>>

closeServer ==
  /\ pc = 0
  /\ released # Resources
  /\ closing' = TRUE
  /\ worker' = stopped(worker)
  /\ pc' = 1
  /\ failures' = {}
  /\ IF mayCloseQueueEarly /\ Closer \notin waiters \cup drained
     THEN close(Closer)
     ELSE quiet
  /\ UNCHANGED <<phase, active, late, released, thrown>>

\* Slips: the database does not wait for the queue; the attempt does not
\* wait for the requests; a step that failed is not retried.
stepReadyImpatient(s) ==
  CASE s = "server"   -> active = {}
    [] s = "worker"   -> worker \in {"none", "stopped"}
    [] s = "requests" -> active = {}
    [] OTHER          -> TRUE

stepReadyUncounted(s) ==
  CASE s = "worker"   -> worker \in {"none", "stopped"}
    [] s = "queue"    -> Closer \in drained
    [] OTHER          -> TRUE

(* What each step awaits: closeServer every connection, worker.close() the *)
(* running drain, waitForAcceptedRequests the admissions, closeQueue the   *)
(* promise of queue.close().                                               *)
stepReady(s) ==
  CASE s = "server"   -> active = {}
    [] s = "worker"   -> worker \in {"none", "stopped"}
    [] s = "requests" -> active = {}
    [] s = "queue"    -> Closer \in drained
    [] OTHER          -> TRUE

\* closeQueue calls queue.close() when the early call has not been made.
askQueue ==
  /\ pc \in 1..Len(Steps) /\ Steps[pc] = "queue"
  /\ "queue" \notin released
  /\ close(Closer)
  /\ UNCHANGED serverVars

(* One awaited step of the attempt: already released resources are passed  *)
(* over, a step completes and is recorded, or throws and is collected.     *)
advance == pc' = pc + 1

closeStep ==
  /\ pc \in 1..Len(Steps)
  /\ LET s == Steps[pc] IN
       \/ /\ s \in released
          /\ UNCHANGED <<released, failures, thrown>>
       \/ /\ s \notin released /\ stepReady(s)
          /\ released' = released \cup ({s} \cap Resources)
          /\ UNCHANGED <<failures, thrown>>
       \/ /\ s \in {"database", "descriptor", "lock"} \ released
          /\ thrown < MaxFailures
          /\ failures' = failures \cup {s}
          /\ thrown' = thrown + 1
          /\ UNCHANGED released
  /\ advance
  /\ quiet
  /\ UNCHANGED <<phase, active, late, worker, closing>>

\* Slip: a failed attempt stays the memoised close promise.
closeKeepsPromise ==
  /\ pc = Len(Steps) + 1
  /\ failures = {}
  /\ pc' = 0
  /\ quiet
  /\ UNCHANGED <<phase, active, late, worker, closing, released, failures, thrown>>

\* The attempt settles; a rejection forgets the promise so that close() may
\* be called again.
closeSettles ==
  /\ pc = Len(Steps) + 1
  /\ pc' = 0
  /\ quiet
  /\ UNCHANGED <<phase, active, late, worker, closing, released, failures, thrown>>

operationSettles ==
  /\ settles
  /\ UNCHANGED serverVars

\* The process has shut down and nothing is left to do.
Stopped ==
  /\ released = Resources /\ pc = 0
  /\ \A r \in Requests : phase[r] \in {"unsent", "answered"}
  /\ UNCHANGED vars

ServerNext ==
  \/ \E r \in Requests : admit(r) \/ enqueueWrite(r) \/ respond(r) \/ disconnect(r)
  \/ beginDrain \/ endDrain
  \/ \E w \in WorkerWrites : enqueueRuntimeWrite(w)
  \/ closeServer \/ askQueue \/ closeStep \/ closeSettles
  \/ operationSettles
  \/ Stopped

(* Fairness: handlers, operations and the awaits of close() make progress, *)
(* and whoever owns the handle calls close() again after a failed attempt. *)
(* No client has to send, or to disconnect.                                *)
Fairness ==
  /\ WF_vars(operationSettles)
  /\ WF_vars(endDrain)
  /\ WF_vars(askQueue)
  /\ WF_vars(closeStep)
  /\ WF_vars(closeSettles)
  /\ WF_vars(closing /\ closeServer)
  /\ \A r \in Requests : WF_vars(enqueueWrite(r)) /\ WF_vars(respond(r))

ServerSpec == ServerInit /\ [][ServerNext]_vars /\ Fairness

----------------------------------------------------------------------------

(* No write runs on a closed connection: the database is closed only after *)
(* the queue has drained, whatever requests and drains were in flight when *)
(* close() was called and however often close() was retried.               *)
WritesOnOpenDatabase == running # NoOp \/ items # <<>> => databaseOpen

(* A request that was being served when close() was called, and whose      *)
(* client is still there, is never told that the write queue is closed.    *)
AdmittedAreServed ==
  \A r \in active : outcome[r] = "closed" => r \in late

(* A drain of the embedding worker never loses a write to the shutdown.    *)
DrainKeepsItsWrites == \A w \in WorkerWrites : outcome[w] # "closed"

(* An attempt that settles without a failure has released every resource:  *)
(* the retry of a failed attempt does not skip what is still held.         *)
CleanCloseReleasesAll ==
  pc = Len(Steps) + 1 /\ failures = {} => released = Resources

(* The HTTP server closes in order: writes find the database open, whoever *)
(* was being served is served, a drain keeps its writes, and a close       *)
(* without errors has released everything.                                 *)
ClosesInOrder ==
  WritesOnOpenDatabase /\ AdmittedAreServed /\ DrainKeepsItsWrites /\ CleanCloseReleasesAll

(* Once close() is called the server comes to have released everything.    *)
CloseCompletes == closing ~> (released = Resources /\ pc = 0)
=============================================================================
