---------------------------- MODULE MCAtomicFile ----------------------------
\* The instance of AtomicFile for TLC: operations are interchangeable.
EXTENDS AtomicFile, TLC

Symmetry == Permutations(Procs)

(* What an operation reports is what happened: of two that expect the same *)
(* bytes one succeeds, a failure is undone, and what could not be undone   *)
(* or removed is named.                                                    *)
OutcomesAreTrue == OneWins /\ FailedIsUndone /\ LeftoversAreReported
=============================================================================
