---------------------------- MODULE MCEnnoReview ----------------------------
(***************************************************************************)
(* The review of an Enno-Oduno run and the OpenCode plugin that continues  *)
(* its session, for TLC.  The plugin sees of the run a number, so each     *)
(* behaviour is one of the two.                                            *)
(***************************************************************************)
EXTENDS MCEnnoRun

CONSTANTS MaxTurns, MaxBinding, MaxInputs, MaxFaults

VARIABLES scenario,
          session, binding, receipts, outbox, prompted, message, drained,
          events, alive, faults, flight, sending, scan

Plugin == INSTANCE OpenCodeContinuation

Box == [phase : {"hook_pending", "prompt_pending", "sending"} \cup Plugin!Final, input : Nat, binding : Nat, attempts : Nat]
ContextBoundary == [terminal : Plugin!Turns, input : Nat]
FlightSteps == {"boundary", "open", "hook_pending", "hook", "stop", "retry", "fail", "continue", "prompt_pending", "latest", "send", "sent"}
Flight == [pc : FlightSteps, allow : BOOLEAN, binding : Nat, boundary : ContextBoundary \cup {None}, box : Box \cup {None}]
ScanRow == [binding : Nat \cup {None}, boxes : [Plugin!Turns -> Box \cup {None}], todo : SUBSET Plugin!Turns,
            doing : Plugin!Turns \cup {None}, verdict : {None, "run", "accepted", "quarantined"}]

\* What is absent is no number, no outbox and no activity of the plugin.
ASSUME ReviewAssumption ==
  /\ MaxTurns \in Nat /\ MaxInputs \in Nat
  /\ None \notin Nat /\ None \notin ContextBoundary /\ None \notin Box /\ None \notin Flight /\ None \notin ScanRow
  /\ None \notin {"run", "accepted", "quarantined"}

pluginVars == <<session, binding, receipts, outbox, prompted, message, drained,
                events, alive, faults, flight, sending, scan>>
all == <<scenario, vars, pluginVars>>

\* A scenario that is not run starts where it can.
ReviewInit ==
  /\ scenario \in {"enno", "plugin"}
  /\ Init /\ Plugin!Init
  /\ scenario = "plugin" => bound = Provisional

InEnno == scenario = "enno" /\ UNCHANGED <<scenario, pluginVars>>
InPlugin == scenario = "plugin" /\ UNCHANGED <<scenario, vars>>

ReviewNext ==
  \/ InEnno /\ submitEnnoAdvice
  \/ InEnno /\ submitOdunoIdeal
  \/ InEnno /\ answerEnno
  \/ InEnno /\ submitOdunoMeditation
  \/ \E p \in Plans : InEnno /\ submitEnnoPlan(p)
  \/ \E limit \in ClaimLimits : InEnno /\ claimEnnoWork(limit)
  \/ \E c \in issued : InEnno /\ reportFailed(c)
  \/ \E p \in Procs, c \in issued, mutated \in BOOLEAN : InEnno /\ reportBegins(p, c, mutated)
  \/ \E p \in Procs : InEnno /\ reportPasses(p)
  \/ \E p \in Procs : InEnno /\ reportRejected(p)
  \/ \E p \in Procs : InEnno /\ prepareReads(p)
  \/ \E p \in Procs : InEnno /\ prepareBegins(p)
  \/ \E p \in Procs : InEnno /\ runVerifiers(p)
  \/ \E p \in Procs : InEnno /\ captureAfter(p)
  \/ \E p \in Procs : InEnno /\ prepareEnds(p)
  \/ \E p \in Procs : InEnno /\ breaksOff(p)
  \/ \E decision \in {"accept", "revise"} : InEnno /\ finishEnno(decision)
  \/ \E s \in Sessions, allowed \in BOOLEAN : InEnno /\ continuation(s, allowed)
  \/ \E choice \in {"ordinary", "cancelled"} : InEnno /\ selectExecution(choice)
  \/ \E outcome \in Outcomes : InEnno /\ checkpoint(outcome)
  \/ \E l \in leases : InEnno /\ leaseExpires(l)
  \/ InEnno /\ receiptExpires
  \/ \E version \in 1..MaxEdits : InEnno /\ editRepository(version)
  \/ InPlugin /\ Plugin!turnEnds
  \/ InPlugin /\ Plugin!userPrompts
  \/ InPlugin /\ Plugin!runChanges
  \/ InPlugin /\ Plugin!startRun(TRUE)
  \/ InPlugin /\ Plugin!startRun(FALSE)
  \/ InPlugin /\ Plugin!readBoundary
  \/ InPlugin /\ Plugin!openOutbox
  \/ InPlugin /\ Plugin!attemptHook
  \/ InPlugin /\ Plugin!callHook
  \/ InPlugin /\ Plugin!decide
  \/ InPlugin /\ Plugin!preflight
  \/ InPlugin /\ Plugin!readLatest
  \/ InPlugin /\ Plugin!callPrompt
  \/ InPlugin /\ Plugin!promptReturns
  \/ InPlugin /\ Plugin!startScan
  \/ InPlugin /\ Plugin!dispose
  \/ InPlugin /\ Plugin!setup
  \/ InPlugin /\ Plugin!crash
  \/ InPlugin /\ Plugin!readFails
  \/ \E t \in Plugin!Turns : InPlugin /\ Plugin!admit(t)
  \/ \E t \in Plugin!Turns : InPlugin /\ Plugin!examine(t)
  \/ \E t \in Plugin!Turns : InPlugin /\ Plugin!readSession(t)
  \/ \E t \in Plugin!Turns : InPlugin /\ Plugin!reconcileSaved(t)

\* What is fair in one scenario is disabled in the initial state of the other.
ReviewSpec == ReviewInit /\ [][ReviewNext]_all /\ Fairness /\ Plugin!Fairness

-----------------------------------------------------------------------------
(* The plugin prompts a session at most once for a terminal message: see   *)
(* OpenCodeContinuation.                                                   *)
PromptedOnce == Plugin!PromptedOnce

(* Every outbox of the plugin is settled in the end.                       *)
OutboxSettles == Plugin!OutboxSettles
=============================================================================
