----------------------------- MODULE MCEnnoRun -----------------------------
\* Instances of EnnoRun for TLC.
EXTENDS EnnoRun, TLC

CONSTANTS u1, u2, u3, s1, s2

\* Two units that may run together, and one that needs both and runs alone.
Fork == [rank |-> (u1 :> 1 @@ u2 :> 2 @@ u3 :> 3),
         needs |-> (u1 :> {} @@ u2 :> {} @@ u3 :> {u1, u2}),
         isolation |-> (u1 :> "isolated_worktree" @@ u2 :> "read_only" @@ u3 :> "shared_serial"),
         claims |-> (u1 :> [k \in {"a"} |-> "write"] @@ u2 :> [k \in {"b"} |-> "read"]
                     @@ u3 :> [k \in {"a", "b"} |-> "write"])]
\* Two units that want the same file.
Clash == [rank |-> (u1 :> 1 @@ u2 :> 2),
          needs |-> (u1 :> {} @@ u2 :> {}),
          isolation |-> (u1 :> "shared_serial" @@ u2 :> "read_only"),
          claims |-> (u1 :> [k \in {"a"} |-> "write"] @@ u2 :> [k \in {"a"} |-> "read"])]
\* One unit.
Single == [rank |-> (u1 :> 1), needs |-> (u1 :> {}), isolation |-> (u1 :> "shared_serial"),
           claims |-> (u1 :> [k \in {"a"} |-> "write"])]

Symmetry == Permutations(Procs)

ForkAndClash == {Fork, Clash}
ClashThenSingle == {Clash, Single}
OnlyClash == {Clash}
OnlyFork == {Fork}
OnlySingle == {Single}
=============================================================================
