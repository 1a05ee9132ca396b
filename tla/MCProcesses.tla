---------------------------- MODULE MCProcesses -----------------------------
(***************************************************************************)
(* The long-lived processes for TLC: the HTTP server with its write queue, *)
(* the starts and stops of servers around the instance lock, and the MCP   *)
(* process.  They share no state, so each behaviour is one of them.        *)
(***************************************************************************)
EXTENDS HttpServer

CONSTANTS r1, r2, w1, p1, p2, p3, d1, d2, Processes, Databases, DatabaseOf,
          NoProcess, MaxCrashes, Calls, MaxInitFailures

\* Every start is on a database, and an absent record is nobody's.
ASSUME ProcessesAssumption ==
  NoProcess \notin Processes /\ DatabaseOf \in [Processes -> Databases]

VARIABLES scenario,
          lockFile, descriptor, lockPc, seen, attempt, crashes,
          initialization, state, handles, mcpClosing, closed, closePc,
          initFailures, call, reply

Writes == {r1, r2, w1}
OneCloser == {Closer}
LastApart == [p \in Processes |-> IF p = p3 THEN d2 ELSE d1]

Locks == INSTANCE ServerInstance WITH pc <- lockPc
Mcp == INSTANCE McpRuntime WITH closing <- mcpClosing

lockVars == <<lockFile, descriptor, lockPc, seen, attempt, crashes>>
mcpVars == <<initialization, state, handles, mcpClosing, closed, closePc,
             initFailures, call, reply>>
all == <<scenario, vars, lockVars, mcpVars>>

AllInit == /\ scenario \in {"http", "locks", "mcp"}
           /\ ServerInit /\ Locks!Init /\ Mcp!Init
           /\ scenario # "http" => worker = "none"

Http == scenario = "http" /\ UNCHANGED <<scenario, lockVars, mcpVars>>
InLocks == scenario = "locks" /\ UNCHANGED <<scenario, vars, mcpVars>>
InMcp == scenario = "mcp" /\ UNCHANGED <<scenario, vars, lockVars>>

AllNext ==
  \/ \E r \in Requests : Http /\ admit(r)
  \/ \E r \in Requests : Http /\ enqueueWrite(r)
  \/ \E r \in Requests : Http /\ respond(r)
  \/ \E r \in Requests : Http /\ disconnect(r)
  \/ Http /\ beginDrain
  \/ Http /\ endDrain
  \/ \E w \in WorkerWrites : Http /\ enqueueRuntimeWrite(w)
  \/ Http /\ closeServer
  \/ Http /\ askQueue
  \/ Http /\ closeStep
  \/ Http /\ closeSettles
  \/ Http /\ operationSettles
  \/ Http /\ Stopped
  \/ \E p \in Processes : InLocks /\ Locks!start(p)
  \/ \E p \in Processes : InLocks /\ Locks!createLock(p)
  \/ \E p \in Processes : InLocks /\ Locks!writeLock(p)
  \/ \E p \in Processes : InLocks /\ Locks!readLock(p)
  \/ \E p \in Processes : InLocks /\ Locks!checkLiveness(p)
  \/ \E p \in Processes : InLocks /\ Locks!unlinkStale(p)
  \/ \E p \in Processes : InLocks /\ Locks!checkDescriptor(p)
  \/ \E p \in Processes : InLocks /\ Locks!openServer(p)
  \/ \E p \in Processes : InLocks /\ Locks!recheckDescriptor(p)
  \/ \E p \in Processes : InLocks /\ Locks!publishDescriptor(p)
  \/ \E p \in Processes : InLocks /\ Locks!close(p)
  \/ \E p \in Processes : InLocks /\ Locks!readOwnDescriptor(p)
  \/ \E p \in Processes : InLocks /\ Locks!removeDescriptor(p)
  \/ \E p \in Processes : InLocks /\ Locks!readOwnLock(p)
  \/ \E p \in Processes : InLocks /\ Locks!releaseLock(p)
  \/ \E p \in Processes : InLocks /\ Locks!crash(p)
  \/ InLocks /\ Locks!AllStopped
  \/ \E c \in Calls : InMcp /\ Mcp!receive(c)
  \/ \E c \in Calls : InMcp /\ Mcp!dispatch(c)
  \/ \E c \in Calls : InMcp /\ Mcp!resume(c)
  \/ \E c \in Calls : InMcp /\ Mcp!finish(c)
  \/ \E c \in Calls : InMcp /\ Mcp!expire(c, "timeout")
  \/ \E c \in Calls : InMcp /\ Mcp!expire(c, "cancelled")
  \/ InMcp /\ Mcp!open
  \/ InMcp /\ Mcp!initialized
  \/ InMcp /\ Mcp!initializeFails
  \/ InMcp /\ Mcp!transportCloses
  \/ InMcp /\ Mcp!closeAwaits
  \/ InMcp /\ Mcp!closeDisposes
  \/ InMcp /\ Mcp!closeDatabase
  \/ InMcp /\ Mcp!Over

\* What is fair in one process is disabled in the initial state of another.
ProcessesSpec == AllInit /\ [][AllNext]_all /\ Fairness /\ Mcp!Fairness

-----------------------------------------------------------------------------
(* The instance lock admits one owner of a database, whose record is in    *)
(* the lock file until it releases it, and the MCP process never has a     *)
(* second connection, nor any after close().                               *)
OneHolder == Locks!OneOwner /\ Locks!OwnerHoldsItsLock /\ Mcp!OneConnection

(* close() of both servers ends with everything released, and a tool call  *)
(* is answered once and within its deadline.                               *)
ClosesAndAnswers == CloseCompletes /\ Mcp!EveryCallAnswered /\ Mcp!SettledOnce
=============================================================================
