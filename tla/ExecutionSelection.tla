-------------------------- MODULE ExecutionSelection --------------------------
(***************************************************************************)
(* How a run is executed: the selection a user makes for it, and the       *)
(* reservation of every model call that the OpenCode plugin makes under    *)
(* the selection.                                                          *)
(*                                                                         *)
(* The plugin asks the database for permission before a model call, with   *)
(* a command that may fail before or after it commits, and reports the end *)
(* of the call with another.  It can be restarted at any time and forgets  *)
(* its calls then.  The call id is new for every tool call, the prompt may *)
(* be the same.  The roles of a contract come one after another; a step of *)
(* the contract raises its revision.                                       *)
(***************************************************************************)
EXTENDS Naturals, FiniteSets

CONSTANTS
    Calls,         \* tool calls of the client
    Prompts,
    Operations,    \* idempotency keys of selections
    None,
    MaxRevision    \* bound on the revisions of selection and contract

VARIABLES
    run,           \* status of the ledger run: active or ended
    selection,     \* task_execution_selections: choice and revision
    contract,      \* enno_contracts: None, or live or ended with its revision
    lease,         \* a WorkUnit lease is live
    receipts,      \* task_execution_receipts: operation -> choice and revision
    dispatches,    \* task_execution_dispatches: invocation -> call and status
    flight,        \* flight[c]: None, or what the plugin knows of call c
    failures,      \* the plugin refuses calls until a new selection
    ran            \* model calls that were really made: call -> invocation

selectionVars == <<run, selection, contract, lease, receipts, dispatches, flight, failures, ran>>

Init ==
    /\ run = "active"
    /\ selection \in [choice : {"pending", "ordinary"}, revision : {0}]
    /\ contract = None /\ lease = FALSE
    /\ receipts = <<>> /\ dispatches = <<>> /\ ran = <<>>
    /\ flight = [c \in Calls |-> None] /\ failures = FALSE

with(f, k, v) == [x \in DOMAIN f \cup {k} |-> IF x = k THEN v ELSE f[x]]

-------------------------------------------------------------------------------
(* The contract and the run, as other modules have them.                   *)

\* The contract starts, moves on to its next step, or ends.
contractStep ==
    /\ run = "active" /\ selection.choice = "enno"
    /\ \/ contract = None /\ contract' = [status |-> "live", revision |-> 1]
       \/ contract # None /\ contract.status = "live" /\ contract.revision < MaxRevision
          /\ contract' \in {[status |-> "live", revision |-> contract.revision + 1], [contract EXCEPT !.status = "ended"]}
    /\ UNCHANGED <<run, selection, lease, receipts, dispatches, flight, failures, ran>>

leaseChanges ==
    /\ lease \/ (contract # None /\ contract.status = "live")
    /\ lease' = ~lease
    /\ UNCHANGED <<run, selection, contract, receipts, dispatches, flight, failures, ran>>

\* A checkpoint ends the run and leaves the contract as it is.
checkpoint ==
    /\ run = "active" /\ run' = "ended"
    /\ UNCHANGED <<selection, contract, lease, receipts, dispatches, flight, failures, ran>>

-------------------------------------------------------------------------------
(* Selection.                                                              *)

\* The hook of task_execution_select forgets the failure before the tool
\* runs; an operation with a receipt changes nothing.
selectExecution(op, choice) ==
    /\ failures' = FALSE
    /\ IF /\ op \notin DOMAIN receipts
          /\ run = "active" /\ selection.choice # "cancelled" /\ ~lease /\ selection.revision < MaxRevision
          /\ choice = "enno" => contract = None \/ contract.status = "live"
       THEN /\ selection' = [choice |-> choice, revision |-> selection.revision + 1]
            /\ contract' = IF choice = "enno" \/ contract = None THEN contract ELSE [contract EXCEPT !.status = "ended"]
            /\ run' = IF choice = "cancelled" THEN "ended" ELSE run
            /\ receipts' = with(receipts, op, [choice |-> choice, revision |-> selection'.revision])
       ELSE UNCHANGED <<run, selection, contract, receipts>>
    /\ UNCHANGED <<lease, dispatches, flight, ran>>

\* What a repeated selection is answered with, if it is not refused.
retryAnswer(op) == IF receipts[op].revision = selection.revision THEN selection.choice ELSE None

-------------------------------------------------------------------------------
(* Model calls.                                                            *)

\* The run still is on the route that call was planned for.
routed(revision) ==
    /\ run = "active" /\ selection.choice = "enno" /\ selection.revision = revision
    /\ contract # None /\ contract.status = "live"

invocation(prompt) == [selection |-> selection.revision, contract |-> contract.revision, prompt |-> prompt]

hasExecutionFailure == \E i \in DOMAIN dispatches : i.selection = selection.revision /\ dispatches[i].status = "failed"

\* Slip: a reservation that is not finished can be taken over.
reservableAgain(i) == i \in DOMAIN dispatches => dispatches[i].status = "started"

\* recordExecutionDispatch, stage begin: an invocation is reserved once.
reservable(i) == i \notin DOMAIN dispatches

\* The plugin reserves the call.  When the answer is lost the tool is not
\* run and the reservation stays.
beginDispatch(c, prompt, answered) ==
    /\ flight[c] = None /\ ~failures /\ c \notin DOMAIN ran
    /\ routed(selection.revision) /\ ~hasExecutionFailure /\ reservable(invocation(prompt))
    /\ dispatches' = with(dispatches, invocation(prompt), [call |-> c, status |-> "started"])
    /\ flight' = [flight EXCEPT ![c] = [invocation |-> invocation(prompt), phase |-> IF answered THEN "begun" ELSE "dropped"]]
    /\ UNCHANGED <<run, selection, contract, lease, receipts, failures, ran>>

runModel(c) ==
    /\ flight[c] # None /\ flight[c].phase = "begun"
    /\ flight' = [flight EXCEPT ![c].phase = "called"]
    /\ ran' = with(ran, c, flight[c].invocation)
    /\ UNCHANGED <<run, selection, contract, lease, receipts, dispatches, failures>>

\* Stages complete and failed: refused when the route has changed; the key
\* is the invocation under the contract's present revision.
reportEnd(c, status, reached) ==
    LET i == [flight[c].invocation EXCEPT !.contract = contract.revision] IN
    /\ flight[c] # None /\ flight[c].phase = "called"
    /\ flight' = [flight EXCEPT ![c].phase = "dropped"]
    /\ failures' = (failures \/ status = "failed")
    /\ IF reached /\ routed(flight[c].invocation.selection) /\ i \in DOMAIN dispatches
            /\ dispatches[i].call = c /\ dispatches[i].status = "started"
       THEN dispatches' = [dispatches EXCEPT ![i].status = status]
       ELSE UNCHANGED dispatches
    /\ UNCHANGED <<run, selection, contract, lease, receipts, ran>>

\* OpenCode ends: the plugin forgets its calls, and those under way are lost.
restartPlugin ==
    /\ failures \/ \E c \in Calls : flight[c] # None /\ flight[c].phase # "dropped"
    /\ failures' = FALSE
    /\ flight' = [c \in Calls |-> IF flight[c] = None THEN None ELSE [flight[c] EXCEPT !.phase = "dropped"]]
    /\ UNCHANGED <<run, selection, contract, lease, receipts, dispatches, ran>>

Next ==
    \/ contractStep \/ leaseChanges \/ checkpoint \/ restartPlugin
    \/ \E op \in Operations, choice \in {"ordinary", "enno", "cancelled"} : selectExecution(op, choice)
    \/ \E c \in Calls : runModel(c)
    \/ \E c \in Calls, prompt \in Prompts, answered \in BOOLEAN : beginDispatch(c, prompt, answered)
    \/ \E c \in Calls, status \in {"completed", "failed"}, reached \in BOOLEAN : reportEnd(c, status, reached)

Spec == Init /\ [][Next]_selectionVars

-------------------------------------------------------------------------------
(* An invocation is run at most once: the same prompt for the same step of *)
(* the contract under the same selection never reaches a model twice, even *)
(* when answers are lost, the plugin restarts or the contract moves on. A  *)
(* selection that is repeated is answered with what that selection chose.  *)
RanOnce ==
    /\ \A c, d \in DOMAIN ran : ran[c] = ran[d] => c = d
    /\ \A op \in DOMAIN receipts : retryAnswer(op) \in {None, receipts[op].choice}
===============================================================================
