------------------------- MODULE OpenCodeContinuation -------------------------
(***************************************************************************)
(* The OpenCode plugin that continues a session: when a turn of a tracked  *)
(* session has succeeded, the hook decides whether the run goes on, and    *)
(* the plugin prompts the session with the directive.                      *)
(*                                                                         *)
(* What the plugin knows of a terminal message is an outbox in the storage *)
(* of OpenCode.  Two activities write it: a flight, one at a time for the  *)
(* session, begun by an event or by a timer, and the reconciliation of the *)
(* timer, which works on outboxes it has read earlier.  Every await is a   *)
(* point where the user, the run, the other activity or the end of the     *)
(* plugin comes in between.  The storage has no compare-and-set.           *)
(*                                                                         *)
(* Revision, mutation revision and route epoch of the run are one number,  *)
(* the binding.  The identity of the session does not change.  A new       *)
(* instance of the plugin starts when the disposal of the last one has     *)
(* drained its operations, or after a crash.                               *)
(***************************************************************************)
EXTENDS Naturals, FiniteSets

CONSTANTS
    None,
    MaxTurns,       \* bound on the turns of the session
    MaxBinding,     \* bound on the changes of the run
    MaxInputs,      \* bound on the inputs of the user
    MaxFaults       \* bound on crashes, disposals and failed reads

MaxHookAttempts == 3    \* attempts of the hook for one terminal message

VARIABLES
    session,        \* the last terminal message, the last input, idle or not
    binding,        \* what the database says of the run, None if untracked
    receipts,       \* continuation receipts, by terminal message
    outbox,         \* storage of the plugin, by terminal message
    prompted,       \* calls of session.prompt, by terminal message
    message,        \* what has become of the prompt: "none", "queued", "in"
    drained,        \* a flight was under way when the plugin was disposed of
    events,         \* succeeded events that have not been acted on
    alive, faults,
    flight,         \* the run of reconcileOne under way, or None
    sending,        \* localSending
    scan            \* the reconciliation under way, or None

pluginVars == <<flight, sending, scan>>
continuationVars == <<session, binding, receipts, outbox, prompted, message, drained, events, alive, faults, flight, sending, scan>>

Turns == 1..MaxTurns
Final == {"accepted", "stopped", "quarantined"}

Init ==
    /\ session = [terminal |-> 0, input |-> 0, idle |-> FALSE]
    /\ binding = 1 /\ events = 0 /\ alive = TRUE /\ faults = 0
    /\ receipts = [t \in Turns |-> None] /\ outbox = [t \in Turns |-> None]
    /\ prompted = [t \in Turns |-> 0] /\ message = [t \in Turns |-> "none"] /\ drained = FALSE
    /\ flight = None /\ sending = {} /\ scan = None

------------------------------------------------------------------------------
(* The session, the run and the user.                                      *)

\* The turn ends; only a success makes an event and a boundary.
turnEnds ==
    /\ ~session.idle /\ session.terminal < MaxTurns
    /\ session' = [session EXCEPT !.terminal = @ + 1, !.idle = TRUE]
    /\ events' = events + 1
    /\ UNCHANGED <<binding, receipts, outbox, prompted, message, drained, alive, faults, pluginVars>>

userPrompts ==
    /\ session.input < MaxInputs
    /\ session' = [session EXCEPT !.input = @ + 1, !.idle = FALSE]
    /\ UNCHANGED <<binding, receipts, outbox, prompted, message, drained, events, alive, faults, pluginVars>>

\* The run moves on, or ends and is no longer tracked.
runChanges ==
    /\ binding # None
    /\ binding' \in {None} \cup {b \in {binding + 1} : b <= MaxBinding}
    /\ UNCHANGED <<session, receipts, outbox, prompted, message, drained, events, alive, faults, pluginVars>>

------------------------------------------------------------------------------
(* Helpers of the plugin.                                                  *)

\* save: nothing is written once the plugin is disposed of.
save(t, box) == outbox' = IF alive THEN [outbox EXCEPT ![t] = box] ELSE outbox

quarantine(t, box) == save(t, [box EXCEPT !.phase = "quarantined"])

sameBinding(box, b) == b # None /\ box.binding = b

receiptMatches(box, receipt) == receipt # None /\ receipt = box.binding

\* readContextBoundary: a finished turn that no input follows.
boundary == IF session.idle THEN [terminal |-> session.terminal, input |-> session.input] ELSE None

sameBoundary(t, box) == boundary # None /\ boundary.terminal = t /\ boundary.input = box.input

\* A message may be behind the latest compaction and then is not found.
messageFound(t) == {FALSE, message[t] = "in"}

at(pc) == flight # None /\ flight.pc = pc
goto(pc, box) == flight' = [flight EXCEPT !.pc = pc, !.box = box]
landed == flight' = None

------------------------------------------------------------------------------
(* reconcileOne, from await to await.                                      *)

\* run: by a succeeded event, which may never arrive, or by the timer.
startRun(allowNewHook) ==
    /\ alive /\ flight = None /\ session.terminal > 0
    /\ IF allowNewHook THEN events > 0 /\ events' = events - 1 ELSE events' = events
    /\ flight' = IF binding = None THEN None
                 ELSE [pc |-> "boundary", allow |-> allowNewHook, binding |-> binding, boundary |-> None, box |-> None]
    /\ UNCHANGED <<session, binding, receipts, outbox, prompted, message, drained, alive, faults, sending, scan>>

readBoundary ==
    /\ at("boundary")
    /\ IF boundary = None \/ ~alive THEN landed
       ELSE flight' = [flight EXCEPT !.pc = "open", !.boundary = boundary]
    /\ UNCHANGED <<session, binding, receipts, outbox, prompted, message, drained, events, alive, faults, sending, scan>>

newOutbox == [phase |-> "hook_pending", input |-> flight.boundary.input, binding |-> flight.binding, attempts |-> 0]

\* The outbox of the terminal message decides what is left to do.
openOutbox ==
    LET t == flight.boundary.terminal
        box == IF outbox[t] = None THEN newOutbox ELSE outbox[t]
    IN
    /\ at("open")
    /\ \/ /\ outbox[t] = None /\ ~flight.allow
          /\ landed /\ UNCHANGED outbox
       \/ /\ outbox[t] # None \/ flight.allow
          /\ IF ~sameBinding(box, flight.binding) THEN landed /\ quarantine(t, box)
             ELSE IF box.phase \in Final THEN landed /\ UNCHANGED outbox
             ELSE IF box.input # flight.boundary.input THEN landed /\ quarantine(t, box)
             ELSE IF box.phase = "sending"
             THEN /\ landed
                  /\ \E found \in messageFound(t) :
                        IF found THEN save(t, [box EXCEPT !.phase = "accepted"]) ELSE quarantine(t, box)
             ELSE goto(box.phase, box) /\ save(t, box)
    /\ UNCHANGED <<session, binding, receipts, prompted, message, drained, events, alive, faults, sending, scan>>

\* Slip: the attempt is not counted.
attemptUncounted == [flight.box EXCEPT !.attempts = @]

\* One more attempt.
attempt == [flight.box EXCEPT !.attempts = @ + 1]

\* The attempt is stored before the hook is called.
attemptHook ==
    LET t == flight.boundary.terminal IN
    /\ at("hook_pending")
    /\ \/ /\ ~alive /\ landed /\ UNCHANGED outbox
       \/ /\ alive
          /\ IF flight.box.attempts >= MaxHookAttempts \/ ~sameBinding(flight.box, binding)
             THEN landed /\ quarantine(t, flight.box)
             ELSE goto("hook", attempt) /\ save(t, attempt)
    /\ UNCHANGED <<session, binding, receipts, prompted, message, drained, events, alive, faults, sending, scan>>

\* claimContinuation: one receipt for a terminal message; a repeated call
\* for the same state is answered again, another state is an error, and the
\* limit of continuations stops.
claimContinuation(t) ==
    {[kind |-> "stop", receipt |-> receipts[t]]} \cup
    (IF binding = None THEN {}
     ELSE IF receipts[t] = None \/ receipts[t] = binding THEN {[kind |-> "continue", receipt |-> binding]}
     ELSE {[kind |-> "retry", receipt |-> receipts[t]]})

\* The command 'enno hook': the decision, or an error as a failure.
hookCommand(t) == claimContinuation(t) \cup {[kind |-> failure, receipt |-> receipts[t]] : failure \in {"retry", "fail"}}

\* runKiokukoHook: the process answers, or its answer is lost, late or
\* refused although it may have claimed the receipt.
callHook ==
    LET t == flight.boundary.terminal IN
    /\ at("hook")
    /\ \/ \E decision \in hookCommand(t), failure \in {None, "retry", "fail"} :
            /\ receipts' = [receipts EXCEPT ![t] = decision.receipt]
            /\ goto(IF failure = None THEN decision.kind ELSE failure, flight.box)
       \/ \E failure \in {"retry", "fail"} : goto(failure, flight.box) /\ UNCHANGED receipts
    /\ UNCHANGED <<session, binding, outbox, prompted, message, drained, events, alive, faults, sending, scan>>

\* What the flight does with the decision.
decide ==
    LET t == flight.boundary.terminal
        box == flight.box
    IN
    /\ \E pc \in {"stop", "retry", "fail", "continue"} : at(pc)
    /\ IF ~alive THEN landed /\ UNCHANGED outbox
       ELSE CASE at("stop") -> landed /\ save(t, [box EXCEPT !.phase = "stopped"])
              [] at("fail") -> landed /\ quarantine(t, box)
              [] at("retry") -> landed /\ (IF box.attempts >= MaxHookAttempts THEN quarantine(t, box) ELSE UNCHANGED outbox)
              [] at("continue") ->
                    IF receiptMatches(box, receipts[t])
                    THEN goto("prompt_pending", [box EXCEPT !.phase = "prompt_pending"]) /\ save(t, [box EXCEPT !.phase = "prompt_pending"])
                    ELSE landed /\ quarantine(t, box)
    /\ UNCHANGED <<session, binding, receipts, prompted, message, drained, events, alive, faults, sending, scan>>

\* The run and the receipt are read once more before the prompt.
preflight ==
    LET t == flight.boundary.terminal IN
    /\ at("prompt_pending")
    /\ \/ /\ ~alive /\ landed /\ UNCHANGED outbox
       \/ /\ alive
          /\ IF sameBinding(flight.box, binding) /\ receiptMatches(flight.box, receipts[t])
             THEN goto("latest", flight.box) /\ UNCHANGED outbox
             ELSE landed /\ quarantine(t, flight.box)
    /\ UNCHANGED <<session, binding, receipts, prompted, message, drained, events, alive, faults, sending, scan>>

\* Slip: the intent is not stored before the prompt.
markNothing(t, box) == UNCHANGED outbox

\* Sending is stored before the prompt is sent.
markSending(t, box) == save(t, [box EXCEPT !.phase = "sending"])

\* The last look at the session.
readLatest ==
    LET t == flight.boundary.terminal IN
    /\ at("latest")
    /\ IF sameBoundary(t, flight.box)
       THEN goto("send", [flight.box EXCEPT !.phase = "sending"]) /\ markSending(t, flight.box)
       ELSE landed /\ quarantine(t, flight.box)
    /\ UNCHANGED <<session, binding, receipts, prompted, message, drained, events, alive, faults, sending, scan>>

\* The message has an id of its own: a second prompt is the same message.
callPrompt ==
    LET t == flight.boundary.terminal IN
    /\ at("send")
    /\ goto("sent", flight.box)
    /\ sending' = sending \cup {t}
    /\ prompted' = [prompted EXCEPT ![t] = @ + 1]
    /\ message' = [message EXCEPT ![t] = IF @ = "none" THEN "queued" ELSE @]
    /\ UNCHANGED <<session, binding, receipts, outbox, drained, events, alive, faults, scan>>

\* The session takes the message as its input, or never does.  The caller
\* may have lost its answer long before.
admit(t) ==
    /\ message[t] = "queued"
    /\ \/ /\ message' = [message EXCEPT ![t] = "in"]
          /\ session' = [session EXCEPT !.input = MaxInputs + t, !.idle = FALSE]
       \/ message' = [message EXCEPT ![t] = "none"] /\ UNCHANGED session
    /\ UNCHANGED <<binding, receipts, outbox, prompted, drained, events, alive, faults, pluginVars>>

\* session.prompt: admitted, or refused, late or failed.
promptReturns ==
    LET t == flight.boundary.terminal IN
    /\ at("sent")
    /\ \/ message[t] = "in" /\ save(t, [flight.box EXCEPT !.phase = "accepted"])
       \/ quarantine(t, flight.box)
    /\ landed /\ sending' = sending \ {t}
    /\ UNCHANGED <<session, binding, receipts, prompted, message, drained, events, alive, faults, scan>>

------------------------------------------------------------------------------
(* reconcileTracked, with what it has read.                                *)

startScan ==
    /\ alive /\ scan = None /\ \E t \in Turns : outbox[t] # None
    /\ scan' = [binding |-> binding, boxes |-> outbox, todo |-> {t \in Turns : outbox[t] # None},
                doing |-> None, verdict |-> None]
    /\ UNCHANGED <<session, binding, receipts, outbox, prompted, message, drained, events, alive, faults, flight, sending>>

done(t) == scan' = IF scan.todo = {t} THEN None ELSE [scan EXCEPT !.todo = @ \ {t}, !.doing = None, !.verdict = None]

\* An entry that is being sent here, or is settled, is left alone; one of
\* another binding is quarantined; for the others the session is read.
examine(t) ==
    LET box == scan.boxes[t] IN
    /\ scan # None /\ scan.doing = None /\ t \in scan.todo
    /\ IF t \in sending \/ box.phase \in Final \/ ~alive THEN done(t) /\ UNCHANGED outbox
       ELSE IF ~sameBinding(box, scan.binding) THEN done(t) /\ quarantine(t, box)
       ELSE scan' = [scan EXCEPT !.doing = t] /\ UNCHANGED outbox
    /\ UNCHANGED <<session, binding, receipts, prompted, message, drained, events, alive, faults, flight, sending>>

readSession(t) ==
    LET box == scan.boxes[t] IN
    /\ scan # None /\ scan.doing = t /\ scan.verdict = None
    /\ scan' \in {[scan EXCEPT !.verdict = v] : v \in
            IF box.phase = "sending" THEN {IF found THEN "accepted" ELSE "quarantined" : found \in messageFound(t)}
            ELSE IF sameBoundary(t, box) THEN {"run"} ELSE {"quarantined"}}
    /\ UNCHANGED <<session, binding, receipts, outbox, prompted, message, drained, events, alive, faults, flight, sending>>

\* A verdict is written over whatever the flight has stored meanwhile.
reconcileSaved(t) ==
    /\ scan # None /\ scan.doing = t /\ scan.verdict # None
    /\ IF scan.verdict = "run" THEN UNCHANGED outbox ELSE save(t, [scan.boxes[t] EXCEPT !.phase = scan.verdict])
    /\ done(t)
    /\ UNCHANGED <<session, binding, receipts, prompted, message, drained, events, alive, faults, flight, sending>>

------------------------------------------------------------------------------
(* The end of an instance of the plugin.                                   *)

\* What is under way runs on, but stores nothing more.
dispose ==
    /\ alive /\ faults < MaxFaults
    /\ alive' = FALSE /\ faults' = faults + 1 /\ drained' = (drained \/ flight # None)
    /\ UNCHANGED <<session, binding, receipts, outbox, prompted, message, events, pluginVars>>

setup ==
    /\ ~alive /\ flight = None /\ scan = None
    /\ alive' = TRUE /\ events' = 0 /\ sending' = {}
    /\ UNCHANGED <<session, binding, receipts, outbox, prompted, message, drained, faults, flight, scan>>

crash ==
    /\ faults < MaxFaults /\ faults' = faults + 1
    /\ flight # None \/ scan # None
    /\ flight' = None /\ scan' = None /\ sending' = {} /\ events' = 0 /\ alive' = TRUE
    /\ UNCHANGED <<session, binding, receipts, outbox, prompted, message, drained>>

\* A read of the session or of the run throws and ends the activity; the
\* outbox stays as it is stored.
readFails ==
    /\ faults < MaxFaults /\ faults' = faults + 1
    /\ \/ \E pc \in {"boundary", "open", "hook_pending", "continue", "prompt_pending", "latest"} : at(pc) /\ landed /\ UNCHANGED scan
       \/ scan # None /\ scan' = None /\ UNCHANGED flight
    /\ UNCHANGED <<session, binding, receipts, outbox, prompted, message, drained, events, alive, sending>>

fly == readBoundary \/ openOutbox \/ attemptHook \/ callHook \/ decide \/ preflight \/ readLatest \/ callPrompt \/ promptReturns
reconcileTracked == startScan \/ \E t \in Turns : examine(t) \/ readSession(t) \/ reconcileSaved(t)

Next ==
    \/ turnEnds \/ userPrompts \/ runChanges \/ startRun(TRUE) \/ startRun(FALSE)
    \/ (\E t \in Turns : admit(t)) \/ fly \/ reconcileTracked \/ dispose \/ setup \/ crash \/ readFails

\* Awaits end, the timer runs every second and a disposed plugin is replaced.
Fairness == WF_continuationVars(fly) /\ WF_continuationVars(reconcileTracked) /\ SF_continuationVars(startRun(FALSE)) /\ WF_continuationVars(setup)

Spec == Init /\ [][Next]_continuationVars /\ Fairness

------------------------------------------------------------------------------
(* A session is prompted at most once for a terminal message, whatever     *)
(* events, timers, crashes, failed reads and lost answers surround it; only*)
(* a prompt sent while a disposal drains, which cannot be stored, may be   *)
(* repeated, as the same message.  What the outbox calls accepted is in    *)
(* the session, and the run had given its receipt for every prompt.        *)
PromptedOnce ==
    /\ \A t \in Turns : prompted[t] <= 1 \/ drained
    /\ \A t \in Turns : outbox[t] # None /\ outbox[t].phase = "accepted" => message[t] = "in"
    /\ \A t \in Turns : prompted[t] > 0 => receipts[t] # None

(* Every outbox is settled in the end, even when the hook keeps failing,   *)
(* the user goes on typing or the run is gone.                             *)
OutboxSettles ==
    \A t \in Turns : outbox[t] # None ~> outbox[t] # None /\ outbox[t].phase \in Final
==============================================================================
