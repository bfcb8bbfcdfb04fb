----------------------------- MODULE MCTaskGraph -----------------------------
(* Small instances of TaskGraph for TLC. *)
EXTENDS TaskGraph, TLC

CONSTANTS alice, bob

Symmetry == Permutations({alice, bob})

T(deps) == [kind |-> "task", deps |-> deps]
G(deps) == [kind |-> "gate", deps |-> deps]

\* A single task, a gate that waits on a task listed after it, and the batches
\* validate_batch refuses: out of range, waiting on itself, two in a loop.
SomeBatches ==
    { <<T({})>>, <<G({2}), T({})>>,
      << >>, <<T({2})>>, <<T({1})>>, <<T({2}), T({1})>> }

\* The same for deep plans, where every batch gets a gate anyway.
DeepBatches == { <<T({})>>, <<T({}), T({1})>>, <<T({1})>> }
=============================================================================
