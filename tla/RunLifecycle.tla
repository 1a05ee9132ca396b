---------------------------- MODULE RunLifecycle ----------------------------
(***************************************************************************)
(* What src/ledger promises about a task run, whatever requests, answers,  *)
(* appends, outcomes and purges do to it: it is opened once, its log only  *)
(* grows while it is open, its end is final, and what was purged does not  *)
(* come back.  TaskRuns implements this.                                   *)
(***************************************************************************)
EXTENDS Integers, Sequences

CONSTANTS Runs, Ends   \* Ends: the outcomes a run may have

VARIABLES phase,   \* Runs -> "absent", "open", "purged" or how it ended
          log      \* Runs -> its events, oldest first

Extends(s, t) == Len(t) <= Len(s) /\ SubSeq(s, 1, Len(t)) = t

Init == /\ phase = [r \in Runs |-> "absent"]
        /\ log = [r \in Runs |-> <<>>]

\* A run appears with its first events.
Open(r) == /\ phase[r] = "absent" /\ phase' = [phase EXCEPT ![r] = "open"]
           /\ log'[r] # <<>> /\ \A q \in Runs \ {r} : log'[q] = log[q]

Extend(r) == /\ phase[r] = "open" /\ UNCHANGED phase
             /\ Extends(log'[r], log[r]) /\ \A q \in Runs \ {r} : log'[q] = log[q]

End(r) == /\ phase[r] = "open" /\ \E e \in Ends : phase' = [phase EXCEPT ![r] = e]
          /\ UNCHANGED log

\* One purge, or the cleanup of all unfinished runs at once.
Purge(S) == /\ \A r \in S : phase[r] \notin {"absent", "purged"}
            /\ phase' = [r \in Runs |-> IF r \in S THEN "purged" ELSE phase[r]]
            /\ log' = [r \in Runs |-> IF r \in S THEN <<>> ELSE log[r]]

Next == \/ \E r \in Runs : Open(r) \/ Extend(r) \/ End(r)
        \/ \E S \in SUBSET Runs : Purge(S)

Spec == Init /\ [][Next]_<<phase, log>>
=============================================================================
