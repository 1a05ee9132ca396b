--------------------------- MODULE OpenCodeLearning ---------------------------
(***************************************************************************)
(* Recall for an OpenCode session: the plugin asks the memory for what     *)
(* concerns the prompt of the user, in the background, and gives whatever  *)
(* answer has come by then to the model with every context of the session. *)
(*                                                                         *)
(* No hook waits for an answer, so operations of several prompts and model *)
(* switches overlap and end in any order.  A request is an object of the   *)
(* process: asking the same text again at once keeps the object, asking it *)
(* after another text makes a new one.                                     *)
(*                                                                         *)
(* One session.  A text is a model value, Unusable one without public      *)
(* prose.  Private data in an answer counts as no answer.                  *)
(***************************************************************************)
EXTENDS Naturals, FiniteSets

CONSTANTS
    Texts,          \* the prompts of the user
    Unusable,       \* the prompt that has no safe text
    None,
    MaxPending,     \* limit of owned operations (64 in the code)
    MaxAsked        \* bound: prompts and model switches

VARIABLES
    request,        \* the object requests holds for the session, or None
    recalled,       \* the context kept for the session, or None
    summary,        \* number of the request the public handoff was read for
    operations,     \* the operations under way
    asked,          \* number of prompts and model switches so far
    running         \* lifecycle.isActive()

learningVars == <<request, recalled, summary, operations, asked, running>>

Init ==
    /\ request = None /\ recalled = None /\ summary = 0
    /\ operations = {} /\ asked = 0 /\ running = TRUE

\* owned: an operation beyond the limit is not begun.
owned(operation) ==
    operations' = IF running /\ Cardinality(operations) < MaxPending
                  THEN operations \cup {operation} ELSE operations

newRequest(text) == [object |-> asked + 1, text |-> text, issued |-> 0, applied |-> 0]

\* The hook 'prompt'.
prompt(text) ==
    LET same == request # None /\ text # Unusable /\ request.text = text
        kept == IF same THEN request ELSE newRequest(text)
        next == [kept EXCEPT !.issued = @ + 1]
    IN
    /\ asked < MaxAsked /\ asked' = asked + 1
    /\ recalled' = IF same THEN recalled ELSE None
    /\ IF text = Unusable
       THEN request' = kept /\ UNCHANGED operations
       ELSE /\ request' = next
            /\ owned([kind |-> "prompt", object |-> next.object, sequence |-> next.issued,
                      text |-> text, at |-> asked + 1, answer |-> None])
    /\ UNCHANGED <<summary, running>>

\* The event session.model.selected; a session without a prompt gets an
\* empty request.
modelSelected ==
    LET kept == IF request = None THEN newRequest(Unusable) ELSE request
        next == [kept EXCEPT !.issued = @ + 1]
    IN
    /\ asked < MaxAsked /\ asked' = asked + 1
    /\ request' = next
    /\ owned([kind |-> "switch", object |-> next.object, sequence |-> next.issued,
              text |-> next.text, at |-> asked + 1, answer |-> None])
    /\ UNCHANGED <<recalled, summary, running>>

\* The events of an execution that ended and of a compaction.
ended ==
    /\ asked < MaxAsked /\ asked' = asked + 1
    /\ request # None
    /\ owned([kind |-> "handoff", object |-> request.object, sequence |-> 0,
              text |-> request.text, at |-> asked + 1, answer |-> None])
    /\ UNCHANGED <<request, recalled, summary, running>>

current(o) == running /\ request # None /\ request.object = o.object

\* The public handoff, unless another request has come; a model switch goes
\* on to recall.
readMessages(o) ==
    /\ o \in operations /\ o.kind \in {"switch", "handoff"} /\ o.answer = None
    /\ IF current(o)
       THEN /\ summary' = o.object
            /\ operations' = IF o.kind = "handoff" THEN operations \ {o}
                             ELSE (operations \ {o}) \cup {[o EXCEPT !.answer = "asking"]}
       ELSE operations' = operations \ {o} /\ UNCHANGED summary
    /\ UNCHANGED <<request, recalled, asked, running>>

\* Slip: any answer for the same text is good.
acceptsSame(o) == running /\ request # None /\ request.text = o.text

\* applyRecall: only for the request that is current, and never after a
\* later operation has been applied.
accepts(o) == current(o) /\ o.sequence >= request.applied

\* What the memory answers for the text, or None when it fails.
runKiokukoMemoryOperation(o) == {None, [text |-> o.text, at |-> o.at]}

\* The answer is taken, or what was recalled is dropped.
recallEnds(o) ==
    /\ o \in operations
    /\ o.kind = "prompt" \/ o.answer = "asking"
    /\ operations' = operations \ {o}
    /\ IF accepts(o)
       THEN /\ request' = [request EXCEPT !.applied = o.sequence]
            /\ recalled' \in runKiokukoMemoryOperation(o)
       ELSE UNCHANGED <<request, recalled>>
    /\ UNCHANGED <<summary, asked, running>>

\* sessionMatches fails, or a read throws: nothing is applied.
gives(o) ==
    /\ o \in operations /\ operations' = operations \ {o}
    /\ UNCHANGED <<request, recalled, summary, asked, running>>

dispose ==
    /\ running /\ running' = FALSE /\ operations' = {}
    /\ UNCHANGED <<request, recalled, summary, asked>>

Next ==
    \/ \E text \in Texts \cup {Unusable} : prompt(text)
    \/ modelSelected \/ ended \/ dispose
    \/ \E o \in operations : readMessages(o) \/ recallEnds(o) \/ gives(o)

Spec == Init /\ [][Next]_learningVars

------------------------------------------------------------------------------
(* What the model is told was recalled for the text of the last prompt,    *)
(* whatever answers of earlier prompts and model switches are still to     *)
(* come, and it is never replaced by what was asked for earlier.           *)
RecallFollowsPrompt ==
    /\ [](recalled # None => request # None /\ recalled.text = request.text)
    /\ [][recalled # None /\ recalled' # None => recalled'.at >= recalled.at]_learningVars
==============================================================================
