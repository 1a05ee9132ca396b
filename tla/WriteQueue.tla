----------------------------- MODULE WriteQueue -----------------------------
(***************************************************************************)
(* The bounded, serial write queue of src/src/server/write-queue.ts.  One  *)
(* operation runs at a time; at most WaitingCapacity operations wait       *)
(* behind it; close() refuses new operations and drain() resolves when the *)
(* queue has gone idle.  A step of the model is one turn of the event loop *)
(* that touches the queue: JavaScript runs each of them to completion.     *)
(***************************************************************************)
EXTENDS Naturals, Sequences

CONSTANTS
  Ops,             \* the operations callers may hand to enqueue
  Drainers,        \* the callers of close() and drain()
  WaitingCapacity, \* the constructor's bound on waiting operations
  NoOp             \* no operation is running

\* The constructor rejects a capacity that is not a positive integer.
ASSUME QueueAssumption ==
  /\ WaitingCapacity \in Nat \ {0}
  /\ NoOp \notin Ops

VARIABLES
  items,      \* #items: the operations that wait
  running,    \* the operation between #startNext and #finishCurrent, or NoOp
  accepting,  \* #accepting
  outcome,    \* what the promise returned by enqueue(op) says
  waiters,    \* #drainWaiters
  drained,    \* the drain promises that have resolved
  accepted,   \* history: the operations enqueue accepted, in order
  started     \* history: the operations #startNext started, in order

queueVars == <<items, running, accepting, outcome, waiters, drained,
               accepted, started>>

\* "waiting" covers the operation that runs: its promise is pending too.
Outcomes == {"unasked", "waiting", "resolved", "rejected",
             "closed", "backpressure"}

Init ==
  /\ items = <<>>
  /\ running = NoOp
  /\ accepting = TRUE
  /\ outcome = [op \in Ops |-> "unasked"]
  /\ waiters = {}
  /\ drained = {}
  /\ accepted = <<>>
  /\ started = <<>>

----------------------------------------------------------------------------
\* Slip: the started operation is not shifted off the backlog.
startNextUnshifted(busy, backlog) ==
  IF busy # NoOp \/ backlog = <<>>
  THEN items' = backlog /\ running' = busy /\ started' = started
  ELSE items' = backlog /\ running' = Head(backlog) /\ started' = Append(started, Head(backlog))

(* #startNext over a given backlog: nothing when an operation runs, else   *)
(* the head of the backlog is shifted and becomes the running operation.   *)
startNext(busy, backlog) ==
  IF busy # NoOp \/ backlog = <<>>
  THEN /\ items' = backlog
       /\ running' = busy
       /\ started' = started
  ELSE /\ items' = Tail(backlog)
       /\ running' = Head(backlog)
       /\ started' = Append(started, Head(backlog))

(* enqueue(operation): refused when closed, refused with BACKPRESSURE when *)
(* the waiting room is full, else pushed and, if nothing runs, started.    *)
enqueueClosed(op) ==
  /\ ~accepting
  /\ outcome' = [outcome EXCEPT ![op] = "closed"]
  /\ UNCHANGED <<items, running, accepting, waiters, drained, accepted, started>>

enqueueFull(op) ==
  /\ accepting
  /\ Len(items) >= WaitingCapacity
  /\ outcome' = [outcome EXCEPT ![op] = "backpressure"]
  /\ UNCHANGED <<items, running, accepting, waiters, drained, accepted, started>>

enqueuePush(op) ==
  /\ accepting
  /\ Len(items) < WaitingCapacity
  /\ outcome' = [outcome EXCEPT ![op] = "waiting"]
  /\ accepted' = Append(accepted, op)
  /\ startNext(running, Append(items, op))
  /\ UNCHANGED <<accepting, waiters, drained>>

enqueue(op) ==
  /\ outcome[op] = "unasked"
  /\ enqueueClosed(op) \/ enqueueFull(op) \/ enqueuePush(op)

(* drain(): resolves at once when idle, else waits for #finishCurrent.     *)
drainFor(d) ==
  IF running = NoOp /\ items = <<>>
  THEN /\ drained' = drained \cup {d}
       /\ waiters' = waiters
  ELSE /\ waiters' = waiters \cup {d}
       /\ drained' = drained

drain(d) ==
  /\ d \notin waiters \cup drained
  /\ drainFor(d)
  /\ UNCHANGED <<items, running, accepting, outcome, accepted, started>>

close(d) ==
  /\ d \notin waiters \cup drained
  /\ accepting' = FALSE
  /\ drainFor(d)
  /\ UNCHANGED <<items, running, outcome, accepted, started>>

\* Slip: waiters released while operations wait.
releaseEarly ==
  /\ drained' = drained \cup waiters
  /\ waiters' = {}

(* The running operation settles: its promise is resolved or rejected, the *)
(* next one starts, and only a queue gone idle releases the drain waiters. *)
releaseWaiters ==
  IF items = <<>>
  THEN /\ drained' = drained \cup waiters
       /\ waiters' = {}
  ELSE UNCHANGED <<drained, waiters>>

finishCurrent(result) ==
  /\ running # NoOp
  /\ outcome' = [outcome EXCEPT ![running] = result]
  /\ startNext(NoOp, items)
  /\ releaseWaiters
  /\ UNCHANGED <<accepting, accepted>>

settles == finishCurrent("resolved") \/ finishCurrent("rejected")

Next ==
  \/ \E op \in Ops : enqueue(op)
  \/ \E d \in Drainers : drain(d) \/ close(d)
  \/ settles

\* An operation handed to the queue is a promise that settles.
Spec == Init /\ [][Next]_queueVars /\ WF_queueVars(settles)

----------------------------------------------------------------------------
TypeOK ==
  /\ items \in Seq(Ops)
  /\ running \in Ops \cup {NoOp}
  /\ accepting \in BOOLEAN
  /\ outcome \in [Ops -> Outcomes]
  /\ waiters \subseteq Drainers
  /\ drained \subseteq Drainers
  /\ accepted \in Seq(Ops)
  /\ started \in Seq(Ops)

(* Writes start in the order they were accepted, none is lost and none     *)
(* runs twice: what has started, followed by what waits, is exactly what   *)
(* enqueue accepted, and an idle queue has nothing waiting.                *)
SerialOrder ==
  /\ accepted = started \o items
  /\ running = NoOp => items = <<>>
  /\ running # NoOp => started # <<>> /\ running = started[Len(started)]

(* The waiting room never holds more than the constructor's capacity.      *)
WithinCapacity == Len(items) <= WaitingCapacity

(* A drain promise that resolves in a step resolves into an idle queue:    *)
(* whoever awaited close() may dispose of what the operations use.         *)
DrainMeansIdle ==
  [][drained' # drained => running' = NoOp /\ items' = <<>>]_queueVars

(* Once close() has been called and has drained, no operation ever runs    *)
(* again: the queue cannot reopen, and a late enqueue is refused.          *)
ClosedStaysIdle ==
  [][~accepting /\ running = NoOp /\ items = <<>>
       => ~accepting' /\ running' = NoOp /\ items' = <<>>]_queueVars
=============================================================================
