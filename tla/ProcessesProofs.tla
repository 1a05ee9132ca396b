--------------------------- MODULE ProcessesProofs ---------------------------
(***************************************************************************)
(* Proofs about the long-lived processes MCProcesses puts together.        *)
(*                                                                         *)
(* The write queue, for every set of operations, every set of callers and  *)
(* every capacity.  Its inductive invariant is TypeOK, SerialOrder and     *)
(* WithinCapacity together, with the fact that a drain promise is either   *)
(* pending or resolved.                                                    *)
(*                                                                         *)
(* The HTTP server, for any number of requests and of writes of the        *)
(* embedding worker, any capacity of the queue and any number of failing   *)
(* cleanup steps: close() releases what the writes use only after the last *)
(* of them, however often it is retried.  ShutdownInv is inductive: what   *)
(* an attempt has passed is released or has failed, and only the last      *)
(* three steps can fail; the queue is released before the database and     *)
(* once it has drained; a queue that has drained is closed and idle; and a *)
(* queue that is closed has no user left, for the embedding worker has     *)
(* stopped and whoever is still being served was admitted late.  The       *)
(* queue's own invariant holds because every step of the server is one of  *)
(* its steps, or refuses a write before it.                                *)
(*                                                                         *)
(* The instance lock, for any number of starts of which no more than two   *)
(* are on one database: LockInv says that a start about to unlink a lock   *)
(* has seen the other contender dead, so a lock that is being written or   *)
(* is owned is its owner's, and the second owner would have the same       *)
(* record in the same file.                                                *)
(*                                                                         *)
(* The MCP process, for any number of calls: OwnerInv counts its           *)
(* connection from the initialization that opened it to the end of         *)
(* close().                                                                *)
(***************************************************************************)
EXTENDS MCProcesses, SequenceTheorems, TLAPS

IInv == TypeOK /\ SerialOrder /\ WithinCapacity

\* The head of the backlog moved to the end of what has started leaves their
\* concatenation as it was.
LEMMA HeadMoves ==
  ASSUME NEW S, NEW a \in Seq(S), NEW b \in Seq(S), b # <<>>
  PROVE  /\ Append(a, Head(b)) \in Seq(S)
         /\ Tail(b) \in Seq(S)
         /\ Head(b) \in S
         /\ Append(a, Head(b)) \o Tail(b) = a \o b
         /\ Append(a, Head(b)) # <<>>
         /\ Append(a, Head(b))[Len(Append(a, Head(b)))] = Head(b)
         /\ Len(Tail(b)) = Len(b) - 1
<1>1. Head(b) \in S /\ Tail(b) \in Seq(S) /\ Len(Tail(b)) = Len(b) - 1
  BY HeadTailProperties
<1>2. Append(a, Head(b)) \in Seq(S) /\ Append(a, Head(b)) # <<>>
      /\ Append(a, Head(b))[Len(Append(a, Head(b)))] = Head(b)
  BY <1>1, AppendProperties
<1>3. Append(a, Head(b)) \o Tail(b) = a \o b
  BY <1>1, <1>2
<1> QED
  BY <1>1, <1>2, <1>3

\* What is accepted comes last, in the backlog as in the history.
LEMMA AppendMoves ==
  ASSUME NEW S, NEW a \in Seq(S), NEW b \in Seq(S), NEW e \in S
  PROVE  /\ Append(b, e) \in Seq(S)
         /\ Append(b, e) # <<>>
         /\ a \o Append(b, e) = Append(a \o b, e)
         /\ a \o b \in Seq(S)
  OBVIOUS

\* enqueuePush and finishCurrent go through startNext: what it does to a
\* backlog that continues the started operations.
LEMMA StartNextKeepsOrder ==
  ASSUME started \in Seq(Ops), NEW backlog \in Seq(Ops), NEW busy \in Ops \cup {NoOp},
         busy # NoOp => started # <<>> /\ busy = started[Len(started)],
         startNext(busy, backlog)
  PROVE  /\ items' \in Seq(Ops)
         /\ running' \in Ops \cup {NoOp}
         /\ started' \in Seq(Ops)
         /\ started' \o items' = started \o backlog
         /\ running' = NoOp => items' = <<>>
         /\ running' # NoOp => started' # <<>> /\ running' = started'[Len(started')]
         /\ Len(items') <= Len(backlog)
         /\ busy = NoOp /\ backlog # <<>> => Len(items') = Len(backlog) - 1 /\ running' # NoOp
         /\ backlog = <<>> => items' = <<>> /\ running' = busy
<1>1. CASE busy # NoOp
  BY <1>1 DEF startNext
<1>2. CASE busy = NoOp /\ backlog = <<>>
  BY <1>2 DEF startNext
<1>3. CASE busy = NoOp /\ backlog # <<>>
  <2>1. /\ items' = Tail(backlog)
        /\ running' = Head(backlog)
        /\ started' = Append(started, Head(backlog))
    BY <1>3 DEF startNext
  <2>2. /\ Head(backlog) \in Ops
        /\ Tail(backlog) \in Seq(Ops)
        /\ Append(started, Head(backlog)) \in Seq(Ops)
        /\ Append(started, Head(backlog)) \o Tail(backlog) = started \o backlog
        /\ Append(started, Head(backlog)) # <<>>
        /\ Append(started, Head(backlog))[Len(Append(started, Head(backlog)))] = Head(backlog)
        /\ Len(Tail(backlog)) = Len(backlog) - 1
    BY <1>3, HeadMoves
  <2>3. running' # NoOp
    BY <2>1, <2>2, QueueAssumption
  <2>4. Len(items') <= Len(backlog)
    BY <2>1, <2>2
  <2> QED
    BY <1>3, <2>1, <2>2, <2>3, <2>4
<1> QED
  BY <1>1, <1>2, <1>3

\* A new queue is open and empty.
LEMMA InitIInv == Init => IInv
  BY QueueAssumption DEF Init, IInv, TypeOK, SerialOrder, WithinCapacity, Outcomes

\* IInv is inductive.
LEMMA NextIInv == IInv /\ [Next]_queueVars => IInv'
<1> SUFFICES ASSUME IInv, [Next]_queueVars PROVE IInv'
  OBVIOUS
<1> USE QueueAssumption
<1>1. ASSUME NEW op \in Ops, enqueueClosed(op) \/ enqueueFull(op) PROVE IInv'
  BY <1>1 DEF IInv, TypeOK, SerialOrder, WithinCapacity, enqueueClosed, enqueueFull, Outcomes
<1>2. ASSUME NEW op \in Ops, enqueuePush(op) PROVE IInv'
  <2>1. /\ Append(items, op) \in Seq(Ops)
        /\ Append(items, op) # <<>>
        /\ started \o Append(items, op) = Append(started \o items, op)
    BY AppendMoves DEF IInv, TypeOK
  <2>2. Len(Append(items, op)) = Len(items) + 1
    BY DEF IInv, TypeOK
  <2>3. /\ items' \in Seq(Ops) /\ running' \in Ops \cup {NoOp} /\ started' \in Seq(Ops)
        /\ started' \o items' = started \o Append(items, op)
        /\ running' = NoOp => items' = <<>>
        /\ running' # NoOp => started' # <<>> /\ running' = started'[Len(started')]
        /\ Len(items') <= Len(Append(items, op))
    BY <1>2, <2>1, StartNextKeepsOrder DEF IInv, TypeOK, SerialOrder, enqueuePush
  <2>4. WithinCapacity'
    BY <1>2, <2>2, <2>3 DEF IInv, TypeOK, enqueuePush, WithinCapacity
  <2>5. accepted' = started' \o items'
    BY <1>2, <2>1, <2>3 DEF IInv, SerialOrder, enqueuePush
  <2>6. TypeOK'
    BY <1>2, <2>3 DEF IInv, TypeOK, enqueuePush, Outcomes
  <2> QED
    BY <2>3, <2>4, <2>5, <2>6 DEF IInv, SerialOrder
<1>3. ASSUME NEW d \in Drainers, drain(d) \/ close(d) PROVE IInv'
  BY <1>3 DEF IInv, TypeOK, SerialOrder, WithinCapacity, drain, close, drainFor, Outcomes
<1>4. ASSUME NEW result \in {"resolved", "rejected"}, finishCurrent(result) PROVE IInv'
  <2>1. /\ items' \in Seq(Ops) /\ running' \in Ops \cup {NoOp} /\ started' \in Seq(Ops)
        /\ started' \o items' = started \o items
        /\ running' = NoOp => items' = <<>>
        /\ running' # NoOp => started' # <<>> /\ running' = started'[Len(started')]
        /\ Len(items') <= Len(items)
    BY <1>4, StartNextKeepsOrder DEF IInv, TypeOK, SerialOrder, finishCurrent
  <2>2. TypeOK'
    BY <1>4, <2>1 DEF IInv, TypeOK, finishCurrent, releaseWaiters, Outcomes
  <2>3. WithinCapacity'
    BY <2>1 DEF IInv, TypeOK, WithinCapacity
  <2>4. accepted' = started' \o items'
    BY <1>4, <2>1 DEF IInv, SerialOrder, finishCurrent
  <2> QED
    BY <2>1, <2>2, <2>3, <2>4 DEF IInv, SerialOrder
<1>5. CASE UNCHANGED queueVars
  BY <1>5 DEF queueVars, IInv, TypeOK, SerialOrder, WithinCapacity
<1> QED
  BY <1>1, <1>2, <1>3, <1>4, <1>5 DEF Next, enqueue, settles

\* The write queue keeps its types and never lets more operations wait than
\* its capacity (the constructor's bound and enqueue's test).
THEOREM QueueTypeCorrect == Spec => [](TypeOK /\ WithinCapacity)
<1>1. IInv => TypeOK /\ WithinCapacity
  BY DEF IInv
<1> QED
  BY InitIInv, NextIInv, <1>1, PTL DEF Spec

\* Writes start in the order enqueue accepted them, one at a time, none lost
\* and none twice (#startNext and #finishCurrent).
THEOREM QueueSerial == Spec => []SerialOrder
<1>1. IInv => SerialOrder
  BY DEF IInv
<1> QED
  BY InitIInv, NextIInv, <1>1, PTL DEF Spec

\* A drain promise resolves only into an idle queue (#finishCurrent's test
\* after #startNext, drain's test before it waits).
THEOREM QueueDrainMeansIdle == Spec => DrainMeansIdle
<1>1. IInv /\ [Next]_queueVars
        => [drained' # drained => running' = NoOp /\ items' = <<>>]_queueVars
  <2> SUFFICES ASSUME IInv, Next, drained' # drained
               PROVE  running' = NoOp /\ items' = <<>>
    OBVIOUS
  <2>1. ASSUME NEW op \in Ops, enqueue(op) PROVE FALSE
    BY <2>1 DEF enqueue, enqueueClosed, enqueueFull, enqueuePush
  <2>2. ASSUME NEW d \in Drainers, drain(d) \/ close(d)
        PROVE  running' = NoOp /\ items' = <<>>
    BY <2>2 DEF drain, close, drainFor
  <2>3. ASSUME NEW result \in {"resolved", "rejected"}, finishCurrent(result)
        PROVE  running' = NoOp /\ items' = <<>>
    BY <2>3 DEF finishCurrent, releaseWaiters, startNext
  <2> QED
    BY <2>1, <2>2, <2>3 DEF Next, settles
<1> QED
  BY InitIInv, NextIInv, <1>1, PTL DEF Spec, DrainMeansIdle

\* A closed queue that has gone idle never runs an operation again: enqueue
\* refuses and nothing sets #accepting.
THEOREM QueueClosedStaysIdle == Spec => ClosedStaysIdle
<1>1. [Next]_queueVars
        => [~accepting /\ running = NoOp /\ items = <<>>
              => ~accepting' /\ running' = NoOp /\ items' = <<>>]_queueVars
  <2> SUFFICES ASSUME Next, ~accepting, running = NoOp, items = <<>>
               PROVE  ~accepting' /\ running' = NoOp /\ items' = <<>>
    OBVIOUS
  <2>1. ASSUME NEW op \in Ops, enqueue(op)
        PROVE  ~accepting' /\ running' = NoOp /\ items' = <<>>
    BY <2>1 DEF enqueue, enqueueClosed, enqueueFull, enqueuePush
  <2>2. ASSUME NEW d \in Drainers, drain(d) \/ close(d)
        PROVE  ~accepting' /\ running' = NoOp /\ items' = <<>>
    BY <2>2 DEF drain, close
  <2> QED
    BY <2>1, <2>2 DEF Next, settles, finishCurrent
<1> QED
  BY <1>1, PTL DEF Spec, ClosedStaysIdle
-----------------------------------------------------------------------------
Fallible == {"database", "descriptor", "lock"}
Phases == {"unsent", "handling", "writing", "answered"}

\* The attempt of close() and what it has released.
AttemptInv ==
  /\ pc \in 0..8 /\ (pc # 0 => closing)
  /\ released \subseteq Resources
  /\ failures \subseteq Fallible
  /\ \A i \in 1..7 : i < pc => Steps[i] \in released \cup failures \cup {"requests"}
  /\ "database" \in released => "queue" \in released

\* What is released had no user left when it was, and finds none again.
UsersInv ==
  /\ active \subseteq Requests
  /\ "server" \in released => active = {}
  /\ "worker" \in released => worker \in {"none", "stopped"}
  /\ "queue" \in released => Closer \in drained

QueueInv ==
  /\ waiters \cup drained # {} => ~accepting
  /\ drained # {} => running = NoOp /\ items = <<>>
  /\ ~accepting => closing /\ active \subseteq late /\ worker \in {"none", "stopped"}

OutcomeInv ==
  /\ outcome \in [Ops -> Outcomes] /\ phase \in [Requests -> Phases]
  /\ \A r \in Requests : phase[r] \in {"unsent", "handling"} => outcome[r] # "closed"
  /\ AdmittedAreServed
  /\ DrainKeepsItsWrites

ShutdownInv == AttemptInv /\ UsersInv /\ QueueInv /\ OutcomeInv
-----------------------------------------------------------------------------
\* The steps of an attempt by their place.
LEMMA StepsAre ==
  /\ Len(Steps) = 7
  /\ Steps[1] = "server" /\ Steps[2] = "worker" /\ Steps[3] = "requests" /\ Steps[4] = "queue"
  /\ Steps[5] = "database" /\ Steps[6] = "descriptor" /\ Steps[7] = "lock"
BY DEF Steps

\* A closed queue that is asked refuses, and an open one is not drained.
LEMMA Enqueued ==
  ASSUME QueueInv, OutcomeInv, NEW op \in Ops, enqueue(op)
  PROVE  /\ \E o \in Outcomes : outcome' = [outcome EXCEPT ![op] = o] /\ (o = "closed" => ~accepting)
         /\ UNCHANGED <<accepting, waiters, drained>>
         /\ drained # {} => UNCHANGED <<items, running>>
<1>1. CASE enqueueClosed(op)
  BY <1>1 DEF enqueueClosed, Outcomes
<1>2. CASE enqueueFull(op)
  BY <1>2 DEF enqueueFull, Outcomes
<1>3. CASE enqueuePush(op)
  BY <1>3 DEF enqueuePush, Outcomes, QueueInv
<1> QED
  BY <1>1, <1>2, <1>3 DEF enqueue

\* Nobody has called close() yet.
LEMMA ShutdownInit ==
  ASSUME ServerInit
  PROVE  ShutdownInv
<1>1. AttemptInv /\ UsersInv
  BY DEF ServerInit, AttemptInv, UsersInv
<1>2. QueueInv
  BY DEF ServerInit, Init, QueueInv
<1>3. outcome \in [Ops -> Outcomes] /\ phase \in [Requests -> Phases] /\ \A op \in Ops : outcome[op] # "closed"
  BY DEF ServerInit, Init, Outcomes, Phases
<1>4. DrainKeepsItsWrites /\ \A r \in Requests : outcome[r] # "closed"
  BY <1>3, ServerAssumption DEF DrainKeepsItsWrites
<1>5. AdmittedAreServed
  BY DEF ServerInit, AdmittedAreServed
<1> QED
  BY <1>1, <1>2, <1>3, <1>4, <1>5 DEF ShutdownInv, OutcomeInv

\* ShutdownInv is inductive.
LEMMA ShutdownStep ==
  ASSUME ShutdownInv, [ServerNext]_vars
  PROVE  ShutdownInv'
<1> USE DEF quiet, queueVars, serverVars
<1>0. /\ AttemptInv /\ UsersInv /\ QueueInv /\ OutcomeInv
      /\ Ops = Requests \cup WorkerWrites /\ Requests \cap WorkerWrites = {} /\ Drainers = {Closer}
  BY ServerAssumption DEF ShutdownInv
\* Requests, drains and settling operations leave the attempt alone.
<1>a. ASSUME UNCHANGED <<closing, pc, released, failures>>
      PROVE  AttemptInv'
  BY <1>0, <1>a DEF AttemptInv
<1>1. ASSUME NEW r \in Requests, admit(r)
      PROVE  ShutdownInv'
  <2>1. AttemptInv'
    BY <1>1, <1>a DEF admit
  <2>2. UsersInv'
    BY <1>0, <1>1 DEF admit, UsersInv
  <2>3. QueueInv'
    BY <1>0, <1>1 DEF admit, QueueInv
  <2>4. OutcomeInv'
    <3>1. phase[r] = "unsent" /\ phase' \in [Requests -> Phases] /\ phase'[r] = "handling"
          /\ \A q \in Requests \ {r} : phase'[q] = phase[q]
      BY <1>0, <1>1 DEF admit, OutcomeInv, Phases
    <3>2. outcome[r] # "closed" /\ UNCHANGED outcome /\ late \subseteq late' /\ active' = active \cup {r}
      BY <1>0, <1>1 DEF admit, OutcomeInv
    <3> QED
      BY <1>0, <3>1, <3>2 DEF OutcomeInv, AdmittedAreServed, DrainKeepsItsWrites
  <2> QED
    BY <2>1, <2>2, <2>3, <2>4 DEF ShutdownInv
<1>2. ASSUME NEW r \in Requests, enqueueWrite(r)
      PROVE  ShutdownInv'
  <2>1. /\ phase[r] = "handling" /\ phase' = [phase EXCEPT ![r] = "writing"]
        /\ UNCHANGED <<active, late, worker, closing, pc, released, failures, thrown>>
    BY <1>2 DEF enqueueWrite
  <2>2. /\ UNCHANGED <<accepting, waiters, drained>>
        /\ drained # {} => UNCHANGED <<items, running>>
        /\ \E o \in Outcomes : outcome' = [outcome EXCEPT ![r] = o]
                              /\ (o = "closed" => ~accepting \/ r \notin active)
    <3>1. CASE closing /\ r \notin active
      BY <1>2, <3>1 DEF enqueueWrite, Outcomes
    <3>2. CASE ~(closing /\ r \notin active)
      <4>1. enqueue(r) /\ r \in Ops
        BY <1>0, <1>2, <3>2 DEF enqueueWrite
      <4> QED
        BY <1>0, <4>1, Enqueued
    <3> QED
      BY <3>1, <3>2
  <2>3. AttemptInv'
    BY <1>a, <2>1
  <2>4. UsersInv'
    BY <1>0, <2>1, <2>2 DEF UsersInv
  <2>5. QueueInv'
    BY <1>0, <2>1, <2>2 DEF QueueInv
  <2>6. OutcomeInv'
    <3>1. PICK o \in Outcomes : outcome' = [outcome EXCEPT ![r] = o]
                                /\ (o = "closed" => ~accepting \/ r \notin active)
      BY <2>2
    <3>2. outcome' \in [Ops -> Outcomes] /\ phase' \in [Requests -> Phases]
      BY <1>0, <2>1, <3>1 DEF OutcomeInv, Phases
    <3>3. outcome'[r] = o /\ \A op \in Ops \ {r} : outcome'[op] = outcome[op]
      BY <1>0, <3>1 DEF OutcomeInv
    <3>4. phase'[r] = "writing" /\ \A q \in Requests \ {r} : phase'[q] = phase[q]
      BY <1>0, <2>1 DEF OutcomeInv
    <3>5. \A q \in Requests : phase'[q] \in {"unsent", "handling"} => outcome'[q] # "closed"
      BY <1>0, <3>3, <3>4 DEF OutcomeInv
    <3>6. AdmittedAreServed'
      BY <1>0, <2>1, <3>1, <3>3 DEF OutcomeInv, QueueInv, AdmittedAreServed, AttemptInv
    <3>7. DrainKeepsItsWrites'
      BY <1>0, <3>3 DEF OutcomeInv, DrainKeepsItsWrites
    <3> QED
      BY <3>2, <3>5, <3>6, <3>7 DEF OutcomeInv
  <2> QED
    BY <2>3, <2>4, <2>5, <2>6 DEF ShutdownInv
<1>3. ASSUME NEW r \in Requests, respond(r) \/ disconnect(r)
      PROVE  ShutdownInv'
  BY <1>0, <1>3, <1>a
  DEF respond, disconnect, ShutdownInv, UsersInv, QueueInv, OutcomeInv, AdmittedAreServed, DrainKeepsItsWrites,
      Phases
<1>4. CASE beginDrain \/ endDrain
  BY <1>0, <1>4, <1>a
  DEF beginDrain, endDrain, ShutdownInv, UsersInv, QueueInv, OutcomeInv, AdmittedAreServed, DrainKeepsItsWrites
<1>5. ASSUME NEW w \in WorkerWrites, enqueueRuntimeWrite(w)
      PROVE  ShutdownInv'
  <2>1. enqueue(w) /\ w \in Ops /\ worker \in {"draining", "stopping"} /\ UNCHANGED serverVars
    BY <1>0, <1>5 DEF enqueueRuntimeWrite
  <2>2. accepting
    BY <1>0, <2>1 DEF QueueInv
  <2>3. /\ UNCHANGED <<accepting, waiters, drained>>
        /\ drained # {} => UNCHANGED <<items, running>>
        /\ \E o \in Outcomes \ {"closed"} : outcome' = [outcome EXCEPT ![w] = o]
    BY <1>0, <2>1, <2>2, Enqueued
  <2>4. AttemptInv'
    BY <1>a, <2>1
  <2>5. UsersInv'
    BY <1>0, <2>1, <2>3 DEF UsersInv
  <2>6. QueueInv'
    BY <1>0, <2>1, <2>3 DEF QueueInv
  <2>7. OutcomeInv'
    BY <1>0, <2>1, <2>3 DEF OutcomeInv, AdmittedAreServed, DrainKeepsItsWrites, UsersInv
  <2> QED
    BY <2>4, <2>5, <2>6, <2>7 DEF ShutdownInv
<1>6. CASE closeServer
  <2>1. /\ pc' = 1 /\ failures' = {} /\ closing' /\ worker' = stopped(worker)
        /\ UNCHANGED <<phase, active, late, released, thrown>>
    BY <1>6 DEF closeServer
  <2>2. \/ UNCHANGED queueVars
        \/ close(Closer) /\ active = {} /\ worker = "none"
    BY <1>6 DEF closeServer, mayCloseQueueEarly
  <2>3. worker \in {"none", "stopped"} => worker' \in {"none", "stopped"}
    BY <2>1 DEF stopped
  <2>4. AttemptInv'
    BY <1>0, <2>1 DEF AttemptInv, Fallible
  <2>5. UNCHANGED outcome /\ drained \subseteq drained'
    BY <2>2 DEF close, drainFor
  <2>6. UsersInv'
    BY <1>0, <2>1, <2>3, <2>5 DEF UsersInv
  <2>7. QueueInv'
    BY <1>0, <2>1, <2>2, <2>3 DEF QueueInv, close, drainFor
  <2>8. OutcomeInv'
    BY <1>0, <2>1, <2>5 DEF OutcomeInv, AdmittedAreServed, DrainKeepsItsWrites
  <2> QED
    BY <2>4, <2>6, <2>7, <2>8 DEF ShutdownInv
<1>7. CASE askQueue
  <2>1. /\ pc \in 1..7 /\ Steps[pc] = "queue" /\ close(Closer) /\ UNCHANGED serverVars
    BY <1>7, StepsAre DEF askQueue
  <2>2. pc = 4
    BY <2>1, StepsAre
  <2>3. "server" \in released /\ "worker" \in released
    <3>1. /\ Steps[1] \in released \cup failures \cup {"requests"}
          /\ Steps[2] \in released \cup failures \cup {"requests"}
      BY <1>0, <2>2 DEF AttemptInv
    <3> QED
      BY <1>0, <3>1, StepsAre DEF AttemptInv, Fallible
  <2>4. closing
    BY <1>0, <2>2 DEF AttemptInv
  <2>5. AttemptInv'
    BY <1>a, <2>1
  <2>6. UNCHANGED outcome /\ drained \subseteq drained'
    BY <2>1 DEF close, drainFor
  <2>7. UsersInv'
    BY <1>0, <2>1, <2>6 DEF UsersInv
  <2>8. QueueInv'
    BY <1>0, <2>1, <2>3, <2>4 DEF QueueInv, UsersInv, close, drainFor
  <2>9. OutcomeInv'
    BY <1>0, <2>1, <2>6 DEF OutcomeInv, AdmittedAreServed, DrainKeepsItsWrites
  <2> QED
    BY <2>5, <2>7, <2>8, <2>9 DEF ShutdownInv
<1>8. CASE closeStep
  <2> DEFINE s == Steps[pc]
  <2>1. /\ pc \in 1..7 /\ pc' = pc + 1
        /\ UNCHANGED queueVars /\ UNCHANGED <<phase, active, late, worker, closing>>
        /\ \/ s \in released /\ UNCHANGED <<released, failures>>
           \/ stepReady(s) /\ released' = released \cup ({s} \cap Resources) /\ UNCHANGED failures
           \/ s \in Fallible /\ failures' = failures \cup {s} /\ UNCHANGED released
    BY <1>8, StepsAre DEF closeStep, advance, Fallible
  <2>2. s \in Resources \cup {"requests"}
    BY <2>1, StepsAre DEF Resources
  <2>3. s = "database" => pc = 5
    BY <2>1, StepsAre
  <2> HIDE DEF s
  <2>4. /\ released \subseteq released' /\ released' \subseteq Resources
        /\ failures \subseteq failures' /\ failures' \subseteq Fallible
        /\ s \in released' \cup failures' \cup {"requests"}
        /\ \A x \in released' \ released : x = s /\ stepReady(s)
    BY <1>0, <2>1, <2>2 DEF AttemptInv
  <2>5. "database" \in released' => "queue" \in released'
    <3>1. CASE "database" \in released
      BY <1>0, <2>4, <3>1 DEF AttemptInv
    <3>2. CASE pc = 5
      <4>1. Steps[4] \in released \cup failures \cup {"requests"}
        BY <1>0, <3>2 DEF AttemptInv
      <4> QED
        BY <1>0, <2>4, <4>1, StepsAre DEF AttemptInv, Fallible
    <3> QED
      BY <2>3, <2>4, <3>1, <3>2
  <2>6. \A i \in 1..7 : i < pc' => Steps[i] \in released' \cup failures' \cup {"requests"}
    <3> SUFFICES ASSUME NEW i \in 1..7, i < pc'
                 PROVE  Steps[i] \in released' \cup failures' \cup {"requests"}
      OBVIOUS
    <3>1. i < pc \/ i = pc
      BY <2>1
    <3> QED
      BY <1>0, <2>4, <3>1 DEF AttemptInv, s
  <2>7. AttemptInv'
    BY <1>0, <2>1, <2>4, <2>5, <2>6 DEF AttemptInv
  <2>8. UsersInv'
    BY <1>0, <2>1, <2>4 DEF UsersInv, stepReady
  <2>9. QueueInv' /\ OutcomeInv'
    BY <1>0, <2>1 DEF QueueInv, OutcomeInv, AdmittedAreServed, DrainKeepsItsWrites
  <2> QED
    BY <2>7, <2>8, <2>9 DEF ShutdownInv
<1>9. CASE closeSettles
  <2>1. AttemptInv'
    BY <1>0, <1>9 DEF closeSettles, AttemptInv
  <2> QED
    BY <1>0, <1>9, <2>1
    DEF closeSettles, ShutdownInv, UsersInv, QueueInv, OutcomeInv, AdmittedAreServed, DrainKeepsItsWrites
<1>10. CASE operationSettles
  <2>1. /\ running # NoOp /\ UNCHANGED serverVars /\ UNCHANGED accepting
        /\ startNext(NoOp, items) /\ releaseWaiters
        /\ \E result \in {"resolved", "rejected"} : outcome' = [outcome EXCEPT ![running] = result]
    BY <1>10 DEF operationSettles, settles, finishCurrent
  <2>2. drained \subseteq drained' /\ waiters' \cup drained' \subseteq waiters \cup drained
    BY <2>1 DEF releaseWaiters
  <2>3. drained' # {} => running' = NoOp /\ items' = <<>>
    <3>1. drained = {}
      BY <1>0, <2>1 DEF QueueInv
    <3>2. CASE items = <<>>
      BY <2>1, <3>2 DEF startNext
    <3>3. CASE items # <<>>
      BY <2>1, <3>1, <3>3 DEF releaseWaiters
    <3> QED
      BY <3>2, <3>3
  <2>4. AttemptInv'
    BY <1>a, <2>1
  <2>5. UsersInv'
    BY <1>0, <2>1, <2>2 DEF UsersInv
  <2>6. QueueInv'
    BY <1>0, <2>1, <2>2, <2>3 DEF QueueInv
  <2>7. outcome' \in [Ops -> Outcomes] /\ \A op \in Ops : outcome'[op] = "closed" => outcome[op] = "closed"
    BY <1>0, <2>1 DEF OutcomeInv, Outcomes
  <2>8. OutcomeInv'
    BY <1>0, <2>1, <2>7 DEF OutcomeInv, UsersInv, AdmittedAreServed, DrainKeepsItsWrites
  <2> QED
    BY <2>4, <2>5, <2>6, <2>8 DEF ShutdownInv
<1>11. CASE Stopped \/ UNCHANGED vars
  BY <1>0, <1>11, <1>a
  DEF Stopped, vars, ShutdownInv, UsersInv, QueueInv, OutcomeInv, AdmittedAreServed, DrainKeepsItsWrites
<1> QED
  BY <1>1, <1>2, <1>3, <1>4, <1>5, <1>6, <1>7, <1>8, <1>9, <1>10, <1>11 DEF ServerNext

(* Writes of requests and of drains run only on an open database, whoever  *)
(* was being served when close() was called is served, no drain loses a    *)
(* write to the shutdown, and an attempt of close() without an error has   *)
(* released everything, also after attempts that failed half way.          *)
THEOREM ServerClosesInOrder == ServerSpec => []ClosesInOrder
<1>1. ShutdownInv => ClosesInOrder
  <2> SUFFICES ASSUME ShutdownInv
               PROVE  ClosesInOrder
    OBVIOUS
  <2>1. WritesOnOpenDatabase
    <3>1. "database" \in released => running = NoOp /\ items = <<>>
      BY DEF ShutdownInv, AttemptInv, UsersInv, QueueInv
    <3> QED
      BY <3>1 DEF WritesOnOpenDatabase, databaseOpen
  <2>2. CleanCloseReleasesAll
    <3> SUFFICES ASSUME pc = 8, failures = {}
                 PROVE  released = Resources
      BY StepsAre DEF CleanCloseReleasesAll
    <3>1. released \subseteq Resources /\ \A i \in 1..7 : Steps[i] \in released \cup {"requests"}
      BY DEF ShutdownInv, AttemptInv
    <3>2. /\ Steps[1] \in released \cup {"requests"} /\ Steps[2] \in released \cup {"requests"}
          /\ Steps[4] \in released \cup {"requests"} /\ Steps[5] \in released \cup {"requests"}
          /\ Steps[6] \in released \cup {"requests"} /\ Steps[7] \in released \cup {"requests"}
      BY <3>1
    <3>3. Resources \subseteq released
      BY <3>2, StepsAre DEF Resources
    <3> QED
      BY <3>1, <3>3
  <2> QED
    BY <2>1, <2>2 DEF ShutdownInv, OutcomeInv, ClosesInOrder
<1>2. ServerInit => ShutdownInv
  BY ShutdownInit
<1>3. ShutdownInv /\ [ServerNext]_vars => ShutdownInv'
  BY ShutdownStep
<1> QED
  BY <1>1, <1>2, <1>3, PTL DEF ServerSpec

\* The server uses its queue as WriteQueue lets any caller use it; a request
\* that enqueueWrite refuses itself does not reach it.
LEMMA ServerUsesQueue ==
  ASSUME IInv, [ServerNext]_vars
  PROVE  IInv'
<1> USE DEF quiet, serverVars
<1>0. /\ Requests \subseteq Ops /\ WorkerWrites \subseteq Ops /\ Closer \in Drainers
  BY ServerAssumption
<1>1. ASSUME NEW r \in Requests, enqueueWrite(r)
      PROVE  IInv'
  <2>1. CASE closing /\ r \notin active
    BY <1>1, <2>1 DEF enqueueWrite, IInv, TypeOK, SerialOrder, WithinCapacity, Outcomes
  <2>2. CASE ~(closing /\ r \notin active)
    <3>1. enqueue(r) /\ r \in Ops
      BY <1>0, <1>1, <2>2 DEF enqueueWrite
    <3> QED
      BY <3>1, NextIInv DEF Next
  <2> QED
    BY <2>1, <2>2
<1>2. ASSUME NEW w \in WorkerWrites, enqueueRuntimeWrite(w)
      PROVE  IInv'
  <2>1. enqueue(w) /\ w \in Ops
    BY <1>0, <1>2 DEF enqueueRuntimeWrite
  <2> QED
    BY <2>1, NextIInv DEF Next
<1>3. CASE closeServer \/ askQueue
  <2>1. close(Closer) \/ UNCHANGED queueVars
    BY <1>3 DEF closeServer, askQueue
  <2> QED
    BY <1>0, <2>1, NextIInv DEF Next
<1>4. CASE operationSettles
  BY <1>4, NextIInv DEF operationSettles, Next
<1>5. CASE UNCHANGED queueVars
  BY <1>5, NextIInv
<1> QED
  BY <1>1, <1>2, <1>3, <1>4, <1>5
  DEF ServerNext, admit, respond, disconnect, beginDrain, endDrain, closeStep, closeSettles, Stopped, vars

(* The writes of requests and of drains start in the order in which the    *)
(* server's queue accepted them, none is lost and none runs twice, before  *)
(* and during a shutdown.                                                  *)
THEOREM ServerKeepsOrder == ServerSpec => []SerialOrder
<1>1. ServerInit => IInv
  BY InitIInv DEF ServerInit
<1>2. IInv /\ [ServerNext]_vars => IInv'
  BY ServerUsesQueue
<1>3. IInv => SerialOrder
  BY DEF IInv
<1> QED
  BY <1>1, <1>2, <1>3, PTL DEF ServerSpec
-----------------------------------------------------------------------------
(* One holder.  Two contenders for a database suffice for the argument: a  *)
(* start that has decided to unlink a lock has seen the other contender    *)
(* dead, so nobody else can have put a lock in its place.                  *)

LockStates == {"unstarted", "check", "create", "write", "read", "liveness", "unlink",
               "open", "recheck", "publish", "serving", "readOwn", "removeDescriptor",
               "readLock", "release", "stopped", "dead"}

\* A start in one of these has not created a lock file.
NotCreated == {"unstarted", "check", "create", "read", "liveness", "unlink"}

LockTypes ==
  /\ lockFile \in [Databases -> [by : Processes \cup {NoProcess}, written : BOOLEAN]]
  /\ lockPc \in [Processes -> LockStates]
  /\ seen \in [Processes -> Processes \cup {NoProcess}]

\* A record stands in the file of its process's database, and only what has
\* been written is ever the record of somebody.
LockRecords ==
  /\ \A d \in Databases : /\ lockFile[d].by \in Processes => DatabaseOf[lockFile[d].by] = d
                          /\ lockFile[d].written => lockFile[d].by \in Processes
  /\ \A p \in Processes : lockPc[p] \in NotCreated => /\ Locks!lock(p).by # p
                                                      /\ \A q \in Processes : seen[q] # p

\* What a contender has seen is the other one, dead once it takes over.
LockSeen ==
  \A p \in Processes :
    /\ lockPc[p] \in {"liveness", "unlink"} =>
         seen[p] \in Processes \ {p} /\ DatabaseOf[seen[p]] = DatabaseOf[p]
    /\ lockPc[p] = "unlink" => lockPc[seen[p]] \in {"stopped", "dead"}

\* A lock being written is there, and a lock that is owned is its owner's.
LockHeld ==
  \A p \in Processes :
    /\ lockPc[p] = "write" => Locks!lock(p) = [by |-> p, written |-> FALSE]
    /\ Locks!owns(p) => Locks!lock(p) = Locks!own(p)

LockInv == LockTypes /\ LockRecords /\ LockSeen /\ (Locks!AtMostTwoContend => LockHeld)

\* Before the first start there is no lock.
LEMMA LockInit == Locks!Init => LockInv
<1> SUFFICES ASSUME Locks!Init PROVE LockInv
  OBVIOUS
<1> USE ProcessesAssumption
<1>1. LockTypes
  BY DEF Locks!Init, Locks!Absent, LockTypes, LockStates
<1>2. LockRecords
  BY DEF Locks!Init, Locks!Absent, LockRecords, Locks!lock, NotCreated
<1>3. LockSeen /\ LockHeld
  BY DEF Locks!Init, LockSeen, LockHeld, Locks!owns
<1> QED
  BY <1>1, <1>2, <1>3 DEF LockInv

\* A step that leaves files and readings alone and moves one start keeps the
\* invariant when the move itself does.
LEMMA LockMove ==
  ASSUME LockInv, NEW p \in Processes, NEW to \in LockStates, Locks!goes(p, to),
         UNCHANGED <<lockFile, seen>>,
         to \in NotCreated => lockPc[p] \in NotCreated,
         to = "liveness" => seen[p] \in Processes \ {p} /\ DatabaseOf[seen[p]] = DatabaseOf[p],
         to = "unlink" => lockPc[p] = "liveness" /\ lockPc[seen[p]] \in {"stopped", "dead"},
         to # "write",
         to \in {"stopped", "dead"} \/ lockPc[p] \notin {"stopped", "dead"},
         to \in NotCreated \cup {"stopped", "dead"} \/ Locks!lock(p) = Locks!own(p)
           \/ Locks!owns(p)
  PROVE  LockInv'
<1> USE ProcessesAssumption
<1>1. lockPc \in [Processes -> LockStates] /\ lockPc' = [lockPc EXCEPT ![p] = to]
  BY DEF LockInv, LockTypes, Locks!goes
<1>2. LockTypes'
  BY <1>1 DEF LockInv, LockTypes
<1>3. LockRecords'
  BY <1>1 DEF LockInv, LockRecords, LockTypes, Locks!lock
<1>4. LockSeen'
  BY <1>1 DEF LockInv, LockSeen, LockTypes
<1>5. ASSUME LockHeld PROVE LockHeld'
  <2>1. Locks!owns(p)' => Locks!lock(p) = Locks!own(p)
    BY <1>1, <1>5 DEF LockHeld, Locks!owns, NotCreated
  <2> QED
    BY <1>1, <1>5, <2>1 DEF LockHeld, Locks!lock, Locks!own, Locks!owns
<1> QED
  BY <1>2, <1>3, <1>4, <1>5 DEF LockInv, Locks!AtMostTwoContend

\* A start that writes a lock file and moves: nobody else's lock is there, or
\* it is the lock of a contender that is dead.
LEMMA LockWrite ==
  ASSUME LockInv, NEW p \in Processes, NEW to \in LockStates, Locks!goes(p, to),
         NEW file \in [by : {p, NoProcess}, written : BOOLEAN], Locks!setLock(p, file),
         file.written => file.by = p,
         UNCHANGED seen,
         lockPc[p] \notin {"stopped", "dead", "liveness"}, to \notin {"liveness", "unlink"},
         to \in NotCreated => file.by = NoProcess /\ lockPc[p] \in NotCreated,
         to = "write" => file = [by |-> p, written |-> FALSE],
         to \notin NotCreated \cup {"stopped", "dead", "write"} => file = Locks!own(p),
         Locks!AtMostTwoContend /\ LockHeld => \A q \in Processes \ {p} :
           DatabaseOf[q] = DatabaseOf[p] => lockPc[q] # "write" /\ ~Locks!owns(q)
  PROVE  LockInv'
<1> USE ProcessesAssumption
<1>1. lockPc \in [Processes -> LockStates] /\ lockPc' = [lockPc EXCEPT ![p] = to]
  BY DEF LockInv, LockTypes, Locks!goes
<1>2. /\ lockFile \in [Databases -> [by : Processes \cup {NoProcess}, written : BOOLEAN]]
      /\ lockFile' = [lockFile EXCEPT ![DatabaseOf[p]] = file]
      /\ DatabaseOf[p] \in Databases
  BY DEF LockInv, LockTypes, Locks!setLock
<1>3. LockTypes'
  <2>1. lockFile' \in [Databases -> [by : Processes \cup {NoProcess}, written : BOOLEAN]]
    BY <1>2
  <2> QED
    BY <1>1, <2>1 DEF LockInv, LockTypes
<1>4. LockRecords'
  <2>1. ASSUME NEW d \in Databases
        PROVE  /\ lockFile'[d].by \in Processes => DatabaseOf[lockFile'[d].by] = d
               /\ lockFile'[d].written => lockFile'[d].by \in Processes
    BY <1>2 DEF LockInv, LockRecords
  <2>2. ASSUME NEW q \in Processes, lockPc'[q] \in NotCreated
        PROVE  lockFile'[DatabaseOf[q]].by # q /\ \A r \in Processes : seen'[r] # q
    <3>1. lockPc[q] \in NotCreated
      BY <1>1, <2>2
    <3>2. Locks!lock(q).by # q /\ \A r \in Processes : seen[r] # q
      BY <3>1 DEF LockInv, LockRecords
    <3>3. CASE DatabaseOf[q] = DatabaseOf[p]
      <4>1. file.by # q
        BY <1>1, <2>2
      <4> QED
        BY <1>2, <3>2, <3>3, <4>1
    <3>4. CASE DatabaseOf[q] # DatabaseOf[p]
      BY <1>2, <3>2, <3>4 DEF Locks!lock
    <3> QED
      BY <3>3, <3>4
  <2> QED
    BY <2>1, <2>2 DEF LockRecords, Locks!lock
<1>5. LockSeen'
  BY <1>1 DEF LockInv, LockSeen, LockTypes
<1>6. ASSUME Locks!AtMostTwoContend, LockHeld PROVE LockHeld'
  <2>1. ASSUME NEW q \in Processes, q # p
        PROVE  /\ lockPc'[q] = "write" => Locks!lock(q)' = [by |-> q, written |-> FALSE]
               /\ Locks!owns(q)' => Locks!lock(q)' = Locks!own(q)
    <3>1. lockPc'[q] = lockPc[q]
      BY <1>1, <2>1
    <3>2. CASE DatabaseOf[q] = DatabaseOf[p]
      BY <1>6, <2>1, <3>1, <3>2 DEF Locks!owns
    <3>3. CASE DatabaseOf[q] # DatabaseOf[p]
      BY <1>2, <1>6, <3>1, <3>3 DEF Locks!owns, Locks!lock, LockHeld
    <3> QED
      BY <3>2, <3>3
  <2>2. /\ lockPc'[p] = "write" => Locks!lock(p)' = [by |-> p, written |-> FALSE]
        /\ Locks!owns(p)' => Locks!lock(p)' = Locks!own(p)
    <3>1. lockPc'[p] = to /\ Locks!lock(p)' = file
      BY <1>1, <1>2 DEF Locks!lock
    <3> QED
      BY <3>1 DEF Locks!owns, NotCreated
  <2> QED
    BY <2>1, <2>2 DEF LockHeld, Locks!own
<1> QED
  BY <1>3, <1>4, <1>5, <1>6 DEF LockInv, Locks!AtMostTwoContend

\* When a lock file is absent, being written by p, taken over by p or p's own,
\* no other contender writes or owns it.
LEMMA NobodyElse ==
  ASSUME LockInv, Locks!AtMostTwoContend, LockHeld, NEW p \in Processes,
         \/ Locks!lock(p) = Locks!Absent
         \/ lockPc[p] = "write"
         \/ lockPc[p] = "unlink"
         \/ Locks!owns(p)
  PROVE  \A q \in Processes \ {p} :
           DatabaseOf[q] = DatabaseOf[p] => lockPc[q] # "write" /\ ~Locks!owns(q)
<1> SUFFICES ASSUME NEW q \in Processes \ {p}, DatabaseOf[q] = DatabaseOf[p],
                    lockPc[q] = "write" \/ Locks!owns(q)
             PROVE  FALSE
  OBVIOUS
<1>1. Locks!lock(q) = Locks!lock(p) /\ Locks!lock(q).by = q
  <2>1. Locks!lock(q) = [by |-> q, written |-> FALSE] \/ Locks!lock(q) = Locks!own(q)
    BY DEF LockHeld
  <2>2. Locks!lock(q).by = q
    BY <2>1 DEF Locks!own
  <2> QED
    BY <2>2 DEF Locks!lock
<1>2. CASE Locks!lock(p) = Locks!Absent
  BY <1>1, <1>2, ProcessesAssumption DEF Locks!Absent
<1>3. CASE lockPc[p] = "write" \/ Locks!owns(p)
  BY <1>1, <1>3 DEF LockHeld, Locks!own
<1>4. CASE lockPc[p] = "unlink"
  <2>1. /\ seen[p] \in Processes \ {p} /\ DatabaseOf[seen[p]] = DatabaseOf[p]
        /\ lockPc[seen[p]] \in {"stopped", "dead"}
    BY <1>4 DEF LockInv, LockSeen
  <2>2. seen[p] = q
    BY <2>1 DEF Locks!AtMostTwoContend
  <2> QED
    BY <2>1, <2>2 DEF Locks!owns
<1> QED
  BY <1>2, <1>3, <1>4

\* LockInv is inductive.
LEMMA LockStep == LockInv /\ [Locks!Next]_lockVars => LockInv'
<1> SUFFICES ASSUME LockInv, [Locks!Next]_lockVars PROVE LockInv'
  OBVIOUS
<1> USE ProcessesAssumption
<1>1. ASSUME NEW p \in Processes, Locks!start(p) \/ Locks!checkDescriptor(p)
      PROVE  LockInv'
  BY <1>1, LockMove DEF Locks!start, Locks!checkDescriptor, Locks!goes, LockStates, NotCreated
<1>2. ASSUME NEW p \in Processes, Locks!createLock(p) PROVE LockInv'
  <2>1. CASE Locks!lock(p) = Locks!Absent
    <3> DEFINE file == [by |-> p, written |-> FALSE]
    <3>1. /\ Locks!goes(p, "write") /\ Locks!setLock(p, file) /\ UNCHANGED seen
          /\ lockPc[p] = "create" /\ file \in [by : {p, NoProcess}, written : BOOLEAN]
      BY <1>2, <2>1 DEF Locks!createLock
    <3>2. Locks!AtMostTwoContend /\ LockHeld => \A q \in Processes \ {p} :
            DatabaseOf[q] = DatabaseOf[p] => lockPc[q] # "write" /\ ~Locks!owns(q)
      BY <2>1, NobodyElse
    <3>3. file.written = FALSE /\ file.by = p
      OBVIOUS
    <3> HIDE DEF file
    <3> QED
      BY <3>1, <3>2, <3>3, LockWrite DEF LockStates, NotCreated, file
  <2>2. CASE Locks!lock(p) # Locks!Absent
    BY <1>2, <2>2, LockMove DEF Locks!createLock, LockStates, NotCreated
  <2> QED
    BY <2>1, <2>2
<1>3. ASSUME NEW p \in Processes, Locks!writeLock(p) PROVE LockInv'
  <2>1. lockPc[p] = "write" /\ Locks!goes(p, "open") /\ UNCHANGED seen
    BY <1>3 DEF Locks!writeLock
  <2>2. CASE Locks!lock(p).by = p
    <3>1. /\ Locks!setLock(p, Locks!own(p))
          /\ Locks!own(p) \in [by : {p, NoProcess}, written : BOOLEAN]
          /\ Locks!own(p).by = p
      BY <1>3, <2>2 DEF Locks!writeLock, Locks!own
    <3>2. Locks!AtMostTwoContend /\ LockHeld => \A q \in Processes \ {p} :
            DatabaseOf[q] = DatabaseOf[p] => lockPc[q] # "write" /\ ~Locks!owns(q)
      BY <2>1, NobodyElse
    <3> QED
      BY <2>1, <3>1, <3>2, LockWrite DEF LockStates, NotCreated
  <2>3. CASE Locks!lock(p).by # p
    <3>1. UNCHANGED lockFile
      BY <1>3, <2>3 DEF Locks!writeLock
    <3>2. ~LockHeld
      BY <2>1, <2>3 DEF LockHeld
    <3>3. lockPc' = [lockPc EXCEPT ![p] = "open"] /\ lockPc \in [Processes -> LockStates]
      BY <2>1 DEF Locks!goes, LockInv, LockTypes
    <3>4. LockTypes' /\ LockRecords' /\ LockSeen'
      BY <2>1, <3>1, <3>3 DEF LockInv, LockTypes, LockStates, LockRecords, LockSeen, NotCreated,
                              Locks!lock
    <3> QED
      BY <3>2, <3>4 DEF LockInv, Locks!AtMostTwoContend
  <2> QED
    BY <2>2, <2>3
<1>4. ASSUME NEW p \in Processes, Locks!readLock(p) PROVE LockInv'
  <2>1. /\ lockPc[p] = "read" /\ UNCHANGED lockFile
        /\ seen' = [seen EXCEPT ![p] = Locks!lock(p).by]
        /\ lockPc' = [lockPc EXCEPT ![p] = IF Locks!lock(p).written THEN "liveness" ELSE "stopped"]
    BY <1>4 DEF Locks!readLock, Locks!goes
  <2>2. /\ DatabaseOf[p] \in Databases /\ Locks!lock(p).by \in Processes \cup {NoProcess}
        /\ Locks!lock(p).by # p
        /\ Locks!lock(p).by \in Processes => DatabaseOf[Locks!lock(p).by] = DatabaseOf[p]
        /\ Locks!lock(p).written => Locks!lock(p).by \in Processes
    BY <2>1 DEF LockInv, LockTypes, LockRecords, NotCreated, Locks!lock
  <2>3. LockTypes'
    BY <2>1, <2>2 DEF LockInv, LockTypes, LockStates
  <2>4. LockRecords'
    <3>1. ASSUME NEW q \in Processes, lockPc'[q] \in NotCreated
          PROVE  Locks!lock(q).by # q /\ \A r \in Processes : seen'[r] # q
      <4>1. lockPc[q] \in NotCreated
        BY <2>1, <3>1 DEF LockInv, LockTypes, NotCreated
      <4>2. Locks!lock(q).by # q /\ \A r \in Processes : seen[r] # q
        BY <4>1 DEF LockInv, LockRecords
      <4>3. Locks!lock(p).by # q
        BY <2>2, <4>2 DEF Locks!lock
      <4> QED
        BY <2>1, <4>2, <4>3 DEF LockInv, LockTypes
    <3> QED
      BY <2>1, <3>1 DEF LockInv, LockRecords, Locks!lock
  <2>5. LockSeen'
    BY <2>1, <2>2 DEF LockInv, LockSeen, LockTypes
  <2>6. LockHeld => LockHeld'
    BY <2>1 DEF LockInv, LockTypes, LockHeld, Locks!lock, Locks!own, Locks!owns
  <2> QED
    BY <2>3, <2>4, <2>5, <2>6 DEF LockInv, Locks!AtMostTwoContend
<1>5. ASSUME NEW p \in Processes, Locks!checkLiveness(p) PROVE LockInv'
  <2>1. lockPc[p] = "liveness" /\ UNCHANGED <<lockFile, seen>>
    BY <1>5 DEF Locks!checkLiveness
  <2>2. seen[p] \in Processes \ {p} /\ DatabaseOf[seen[p]] = DatabaseOf[p]
    BY <2>1 DEF LockInv, LockSeen
  <2>3. CASE Locks!alive(seen[p])
    BY <1>5, <2>1, <2>3, LockMove DEF Locks!checkLiveness, LockStates, NotCreated
  <2>4. CASE ~Locks!alive(seen[p])
    BY <1>5, <2>1, <2>2, <2>4, LockMove DEF Locks!checkLiveness, LockStates, NotCreated, Locks!alive
  <2> QED
    BY <2>3, <2>4
<1>6. ASSUME NEW p \in Processes, Locks!unlinkStale(p) \/ Locks!releaseLock(p) PROVE LockInv'
  <2>1. /\ lockPc[p] \in {"unlink", "release"} /\ Locks!setLock(p, Locks!Absent)
        /\ UNCHANGED seen
        /\ Locks!goes(p, "stopped") \/ (lockPc[p] = "unlink" /\ Locks!goes(p, "create"))
    BY <1>6 DEF Locks!unlinkStale, Locks!releaseLock
  <2>2. /\ Locks!Absent \in [by : {p, NoProcess}, written : BOOLEAN]
        /\ Locks!Absent.by = NoProcess /\ ~Locks!Absent.written
    BY DEF Locks!Absent
  <2>3. Locks!AtMostTwoContend /\ LockHeld => \A q \in Processes \ {p} :
          DatabaseOf[q] = DatabaseOf[p] => lockPc[q] # "write" /\ ~Locks!owns(q)
    BY <2>1, NobodyElse DEF Locks!owns
  <2>4. CASE Locks!goes(p, "stopped")
    BY <2>1, <2>2, <2>3, <2>4, LockWrite DEF LockStates, NotCreated
  <2>5. CASE lockPc[p] = "unlink" /\ Locks!goes(p, "create")
    BY <2>1, <2>2, <2>3, <2>5, LockWrite DEF LockStates, NotCreated
  <2> QED
    BY <2>1, <2>4, <2>5
<1>7. ASSUME NEW p \in Processes,
             \/ Locks!openServer(p) \/ Locks!recheckDescriptor(p) \/ Locks!publishDescriptor(p)
             \/ Locks!close(p) \/ Locks!readOwnDescriptor(p) \/ Locks!removeDescriptor(p)
             \/ Locks!readOwnLock(p)
      PROVE  LockInv'
  <2>1. PICK to \in {"recheck", "publish", "serving", "readOwn", "removeDescriptor", "readLock",
                     "release", "stopped"} :
          Locks!goes(p, to) /\ UNCHANGED <<lockFile, seen>> /\ Locks!owns(p)
    BY <1>7 DEF Locks!openServer, Locks!recheckDescriptor, Locks!publishDescriptor, Locks!close,
                Locks!readOwnDescriptor, Locks!removeDescriptor, Locks!readOwnLock, Locks!owns
  <2> QED
    BY <2>1, LockMove DEF LockStates, NotCreated, Locks!owns
<1>8. ASSUME NEW p \in Processes, Locks!crash(p) PROVE LockInv'
  BY <1>8, LockMove DEF Locks!crash, LockStates, NotCreated
<1>9. CASE UNCHANGED lockVars
  BY <1>9 DEF lockVars, LockInv, LockTypes, LockRecords, LockSeen, LockHeld, Locks!AtMostTwoContend,
              Locks!lock, Locks!own, Locks!owns
<1>10. CASE Locks!AllStopped
  BY <1>9, <1>10 DEF Locks!AllStopped, Locks!vars, lockVars
<1> QED
  BY <1>1, <1>2, <1>3, <1>4, <1>5, <1>6, <1>7, <1>8, <1>9, <1>10
     DEF Locks!Next, Locks!acquire, Locks!serve, Locks!stop

-----------------------------------------------------------------------------
\* The MCP process: its connection is open from the initialization's first half
\* to the end of close().
OwnerInv ==
  /\ initialization \in {"none", "initializing", "opened", "ready"} /\ closePc \in 0..6
  /\ state <=> initialization = "ready"
  /\ closePc # 0 => mcpClosing
  /\ closePc \in 2..6 => state
  /\ handles = IF initialization = "opened" \/ (state /\ ~(mcpClosing /\ closePc = 0)) THEN 1 ELSE 0
  /\ mcpClosing /\ closePc = 0 => initialization \notin {"initializing", "opened"}

\* OwnerInv is inductive.
LEMMA OwnerStep == OwnerInv /\ [Mcp!Next]_mcpVars => OwnerInv'
<1> SUFFICES ASSUME OwnerInv, [Mcp!Next]_mcpVars PROVE OwnerInv'
  OBVIOUS
<1>1. ASSUME NEW c \in Calls,
             \/ Mcp!receive(c) \/ Mcp!resume(c) \/ Mcp!finish(c) \/ Mcp!expire(c, "timeout")
             \/ Mcp!expire(c, "cancelled")
      PROVE  OwnerInv'
  BY <1>1 DEF OwnerInv, Mcp!receive, Mcp!resume, Mcp!finish, Mcp!expire, Mcp!ownerVars
<1>2. ASSUME NEW c \in Calls, Mcp!dispatch(c) PROVE OwnerInv'
  BY <1>2 DEF OwnerInv, Mcp!dispatch
<1>3. CASE Mcp!open \/ Mcp!initialized
  BY <1>3 DEF OwnerInv, Mcp!open, Mcp!initialized
<1>4. CASE Mcp!initializeFails
  BY <1>4 DEF OwnerInv, Mcp!initializeFails, Mcp!initializationRejects
<1>5. CASE Mcp!transportCloses \/ Mcp!closeAwaits
  BY <1>5 DEF OwnerInv, Mcp!transportCloses, Mcp!closeAwaits
<1>6. CASE Mcp!closeDisposes \/ Mcp!closeDatabase
  BY <1>6 DEF OwnerInv, Mcp!closeDisposes, Mcp!closeDatabase
<1>7. CASE UNCHANGED mcpVars \/ Mcp!Over
  BY <1>7 DEF OwnerInv, mcpVars, Mcp!Over, Mcp!vars
<1> QED
  BY <1>1, <1>2, <1>3, <1>4, <1>5, <1>6, <1>7 DEF Mcp!Next

-----------------------------------------------------------------------------
\* The processes together.
HolderInv == LockInv /\ OwnerInv

\* A step of one process is a step of it alone.
LEMMA ProcessesStep ==
  [AllNext]_all => [Locks!Next]_lockVars /\ [Mcp!Next]_mcpVars
BY DEF AllNext, all, Http, InLocks, InMcp, Locks!Next, Locks!acquire, Locks!serve, Locks!stop,
       Mcp!Next

\* Two servers never own the same database, an owner's record is in its lock
\* file until it releases it, and the MCP process has at most one connection and
\* none after close() (acquireInstanceLock and releaseInstanceLock, #initialize
\* and close() of the runtime owner).
THEOREM ProcessesOneHolder == ProcessesSpec => []OneHolder
<1>1. AllInit => HolderInv
  BY LockInit DEF AllInit, HolderInv, Mcp!Init, OwnerInv
<1>2. HolderInv /\ [AllNext]_all => HolderInv'
  BY ProcessesStep, LockStep, OwnerStep DEF HolderInv
<1>3. HolderInv => OneHolder
  <2> SUFFICES ASSUME HolderInv PROVE OneHolder
    OBVIOUS
  <2>1. Locks!OwnerHoldsItsLock
    BY DEF HolderInv, LockInv, LockHeld, Locks!OwnerHoldsItsLock
  <2>2. ASSUME Locks!AtMostTwoContend, NEW p \in Processes, NEW q \in Processes, p # q,
               DatabaseOf[p] = DatabaseOf[q], Locks!owns(p), Locks!owns(q)
        PROVE  FALSE
    <3>1. Locks!lock(p) = Locks!own(p) /\ Locks!lock(q) = Locks!own(q)
      BY <2>1, <2>2 DEF Locks!OwnerHoldsItsLock
    <3>2. Locks!lock(p) = Locks!lock(q)
      BY <2>2 DEF Locks!lock
    <3>3. Locks!own(p).by = p /\ Locks!own(q).by = q
      BY DEF Locks!own
    <3> QED
      BY <2>2, <3>1, <3>2, <3>3
  <2>3. Locks!OneOwner
    BY <2>2 DEF Locks!OneOwner
  <2>4. Mcp!OneConnection
    BY DEF HolderInv, OwnerInv, Mcp!OneConnection
  <2> QED
    BY <2>1, <2>3, <2>4 DEF OneHolder
<1> QED
  BY <1>1, <1>2, <1>3, PTL DEF ProcessesSpec
=============================================================================
