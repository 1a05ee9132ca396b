----------------------------- MODULE McpRuntime -----------------------------
(***************************************************************************)
(* The MCP process: one lazily opened database and runtime shared by all   *)
(* tool calls (src/src/mcp/runtime-owner.ts), each call run under a        *)
(* deadline (src/src/mcp/request-deadline.ts), and the close that the end  *)
(* of the stdio transport causes at any time                               *)
(* (src/src/mcp/bounded-stdio-transport.ts, src/src/mcp/server.ts).        *)
(***************************************************************************)
EXTENDS Naturals

CONSTANTS
  Calls,           \* tool calls
  MaxInitFailures  \* bound: how often opening the runtime fails

VARIABLES
  initialization, \* #initialization: "none", or the pending promise's phase
  state,          \* #state is defined
  handles,        \* open SQLite connections of this process
  closing,        \* #closing
  closed,         \* #closed
  closePc,        \* the step of close()
  initFailures,
  call,           \* call[c]: where the operation of call c stands
  reply           \* reply[c]: how the promise of runWithMcpDeadline settled

vars == <<initialization, state, handles, closing, closed, closePc,
          initFailures, call, reply>>

callVars == <<call, reply>>
ownerVars == <<initialization, state, handles, closing, closed, closePc, initFailures>>

Init ==
  /\ initialization = "none"
  /\ state = FALSE
  /\ handles = 0
  /\ closing = FALSE
  /\ closed = FALSE
  /\ closePc = 0
  /\ initFailures = 0
  /\ call = [c \in Calls |-> "unsent"]
  /\ reply = [c \in Calls |-> "pending"]

moves(c, to) == call' = [call EXCEPT ![c] = to]
\* Slip: a later settlement replaces the first.
settleAgain(c, how) == reply' = [reply EXCEPT ![c] = how]

\* settle(): the first settlement wins, the later ones are ignored.
settle(c, how) ==
  reply' = IF reply[c] = "pending" THEN [reply EXCEPT ![c] = how] ELSE reply
aborted(c) == reply[c] \in {"timeout", "cancelled"}
----------------------------------------------------------------------------
\* A tool call arrives; runWithMcpDeadline arms the timer and schedules the
\* operation for the next turn.
receive(c) ==
  /\ call[c] = "unsent"
  /\ ~closing
  /\ moves(c, "scheduled")
  /\ UNCHANGED <<reply, ownerVars>>

\* Slip: the scheduled operation does not look at the abort signal.
dispatchAborted(c) ==
  /\ call[c] = "scheduled"
  /\ IF closing THEN moves(c, "ended") /\ settle(c, "error")
                ELSE moves(c, "awaiting") /\ UNCHANGED reply
  /\ initialization' = IF ~closing /\ ~state /\ initialization = "none"
                       THEN "initializing" ELSE initialization
  /\ UNCHANGED <<state, handles, closing, closed, closePc, initFailures>>

(* The operation starts unless the signal is aborted, and asks for the     *)
(* database: refused once close() was called, else the shared state, else  *)
(* the one initialization, which the first caller starts.                  *)
dispatch(c) ==
  /\ call[c] = "scheduled"
  /\ IF aborted(c) \/ closing
     THEN /\ moves(c, "ended")
          /\ settle(c, "error")
          /\ UNCHANGED initialization
     ELSE /\ moves(c, "awaiting")
          /\ initialization' = IF ~state /\ initialization = "none"
                               THEN "initializing" ELSE initialization
          /\ UNCHANGED reply
  /\ UNCHANGED <<state, handles, closing, closed, closePc, initFailures>>

\* withDatabase resumes with the shared state, or with the failure of the
\* initialization it awaited.
resume(c) ==
  /\ \/ call[c] = "awaiting" /\ state /\ moves(c, "running") /\ UNCHANGED reply
     \/ call[c] = "failed" /\ moves(c, "ended") /\ settle(c, "error")
  /\ UNCHANGED ownerVars

\* The operation ends; its own failure and a database that close() has closed
\* under it look the same.
finish(c) ==
  /\ call[c] = "running"
  /\ moves(c, "ended")
  /\ settle(c, "value") \/ settle(c, "error")
  /\ UNCHANGED ownerVars

(* The timer fires or the caller aborts: the reply is settled at once and  *)
(* the operation is left to run out.                                       *)
expire(c, how) ==
  /\ call[c] \notin {"unsent"}
  /\ reply[c] = "pending"
  /\ settle(c, how)
  /\ UNCHANGED <<call, ownerVars>>

----------------------------------------------------------------------------
\* #initialize opens the connection ...
open ==
  /\ initialization = "initializing"
  /\ handles' = handles + 1
  /\ initialization' = "opened"
  /\ UNCHANGED <<state, closing, closed, closePc, initFailures, callVars>>

\* ... and builds and starts the workers.
initialized ==
  /\ initialization = "opened"
  /\ state' = TRUE
  /\ initialization' = "ready"
  /\ UNCHANGED <<handles, closing, closed, closePc, initFailures, callVars>>

\* The rejection forgets the promise and reaches everyone who awaits it: the
\* calls, and a close() that then rejects without having marked the runtime
\* closed.
initializationRejects ==
  /\ initialization' = "none"
  /\ call' = [c \in Calls |-> IF call[c] = "awaiting" THEN "failed" ELSE call[c]]
  /\ closePc' = 0

\* Slip: the failure path forgets the connection.
initializeLeaks ==
  /\ initialization \in {"initializing", "opened"}
  /\ initFailures < MaxInitFailures
  /\ initFailures' = initFailures + 1
  /\ initializationRejects
  /\ UNCHANGED <<state, handles, closing, closed, reply>>

(* A failure before or after the connection opened: the cleanup closes     *)
(* what was opened before the promise rejects, so that the fresh           *)
(* initialization of a later call starts from nothing.                     *)
initializeFails ==
  /\ initialization \in {"initializing", "opened"}
  /\ initFailures < MaxInitFailures
  /\ initFailures' = initFailures + 1
  /\ handles' = IF initialization = "opened" THEN handles - 1 ELSE handles
  /\ initializationRejects
  /\ UNCHANGED <<state, closing, closed, reply>>

----------------------------------------------------------------------------
\* The transport ends (stdin closed, protocol error): close() is called.
transportCloses ==
  /\ ~closing
  /\ closing' = TRUE
  /\ closePc' = 1
  /\ UNCHANGED <<initialization, state, handles, closed, initFailures, callVars>>

\* Slip: close() waits for a runtime that may never come to be.
closeAwaitsState ==
  /\ closePc = 1
  /\ state
  /\ closePc' = 2
  /\ UNCHANGED <<initialization, state, handles, closing, closed, initFailures, callVars>>

(* close() takes the state or awaits the initialization under way; without *)
(* either there is nothing to close.                                       *)
closeAwaits ==
  /\ closePc = 1
  /\ state \/ initialization = "none"
  /\ IF state THEN closePc' = 2 /\ UNCHANGED closed
              ELSE closePc' = 0 /\ closed' = TRUE
  /\ UNCHANGED <<initialization, state, handles, closing, initFailures, callVars>>

(* The disposals in order: discovery, orchestration worker, embedding      *)
(* worker and write queue; an error is collected and the next one follows. *)
closeDisposes ==
  /\ closePc \in 2..5
  /\ closePc' = closePc + 1
  /\ UNCHANGED <<initialization, state, handles, closing, closed, initFailures, callVars>>

closeDatabase ==
  /\ closePc = 6
  /\ handles' = handles - 1
  /\ closed' = TRUE
  /\ closePc' = 0
  /\ UNCHANGED <<initialization, state, closing, initFailures, callVars>>

Over ==
  /\ closing /\ closePc = 0
  /\ \A c \in Calls : call[c] \in {"unsent", "ended"}
  /\ UNCHANGED vars

Next ==
  \/ \E c \in Calls : receive(c) \/ dispatch(c) \/ resume(c) \/ finish(c)
                      \/ expire(c, "timeout") \/ expire(c, "cancelled")
  \/ open \/ initialized \/ initializeFails
  \/ transportCloses \/ closeAwaits \/ closeDisposes \/ closeDatabase
  \/ Over

(* Promise turns and the timer happen; an operation need not ever return.  *)
Fairness ==
  /\ \A c \in Calls : WF_vars(dispatch(c)) /\ WF_vars(resume(c)) /\ WF_vars(expire(c, "timeout"))
  /\ WF_vars(open \/ initialized \/ initializeFails)
  /\ WF_vars(closeAwaits) /\ WF_vars(closeDisposes) /\ WF_vars(closeDatabase)

Spec == Init /\ [][Next]_vars /\ Fairness

----------------------------------------------------------------------------

(* However calls, failed initializations and close() interleave, the       *)
(* process never holds a second connection, and once close() has settled,  *)
(* in whatever way, it holds none and none is being opened.                *)
OneConnection ==
  /\ handles <= 1
  /\ closing /\ closePc = 0 => handles = 0 /\ initialization \notin {"initializing", "opened"}

(* A reply settles once: the late end of an operation that timed out or    *)
(* was cancelled never turns into a second answer.                         *)
SettledOnce ==
  [][\A c \in Calls : reply[c] # "pending" => reply'[c] = reply[c]]_vars

(* A call that was cancelled or timed out before its operation began never *)
(* begins it.                                                              *)
AbortedNeverBegin ==
  [][\A c \in Calls : call[c] = "scheduled" /\ aborted(c) => call'[c] # "awaiting"]_vars

(* Every call that was received is answered within its deadline, even when *)
(* the operation hangs, and close() always ends.                           *)
EveryCallAnswered ==
  /\ \A c \in Calls : call[c] # "unsent" ~> reply[c] # "pending"
  /\ closing ~> closePc = 0
=============================================================================
