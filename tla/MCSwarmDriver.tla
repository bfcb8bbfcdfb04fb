---------------------------- MODULE MCSwarmDriver ----------------------------
(* Small instances of SwarmDriver for TLC. *)
EXTENDS SwarmDriver

T(deps) == [kind |-> "task", deps |-> deps]
G(deps) == [kind |-> "gate", deps |-> deps]

Everyone == 0..(MaxMembers - 1)

\* A task and a review gate: over the task, or waiting on nothing, so that it
\* can never show evidence.
GatedWorks == { <<T({}), G({1})>>, <<T({}), G({})>> }

\* A chain and a fan-out.
PlainWorks == { <<T({}), T({1})>>, <<T({}), T({}), T({})>> }
=============================================================================
