------------------------------- MODULE PlanOps -------------------------------
(****************************************************************************)
(* The task graph of localpilot-taskgraph as a value, and its operations as *)
(* operators from plans to plans.  The crate is pure (a TaskPlan is mutated *)
(* only by the functions of ops.rs and schedule.rs), so this module has no  *)
(* variables: TaskGraph turns the operators into actions, SwarmDriver       *)
(* applies them under the registry's lock.                                  *)
(*                                                                          *)
(* A plan is the sequence of its nodes: ids are minted by next_id and no    *)
(* node is ever removed, so node id i is element i.  Titles, prompts, model *)
(* names and reasons are left out, and so is the version counter, which     *)
(* nothing reads back: no operation's outcome depends on it.                *)
(****************************************************************************)
EXTENDS Integers, FiniteSets, Sequences

CONSTANTS
    Actors,         \* the ActorIds that may own or work on a task
    NoActor,        \* the absent assignee
    Deep,           \* PlanMode: TRUE for Deep, FALSE for Light
    ReclaimLimit    \* how often a task may be taken back before it fails

ASSUME PlanConstants ==
    /\ NoActor \notin Actors
    /\ Deep \in BOOLEAN
    /\ ReclaimLimit \in Nat

Kinds == {"task", "gate"}
BadEnd == {"failed", "abandoned"}
Terminal == {"complete"} \cup BadEnd
Statuses == {"pending", "assigned"} \cup Terminal

\* One TaskNode.  assignee is the payload of TaskStatus::Assigned; artifact
\* says whether a handoff is stored, not what it says.
Node == [kind : Kinds, owner : Actors, status : Statuses,
         assignee : Actors \cup {NoActor}, upstream : SUBSET (Nat \ {0}),
         artifact : BOOLEAN, reclaims : Nat]

Plan == Seq(Node)

\* One NodeSpec; deps are the 1-based positions of depends_on_batch.
NodeSpec == [kind : Kinds, deps : SUBSET (Nat \ {0})]

\* A handoff, reduced to which of its parts are non-blank.
Artifacts == [findings : BOOLEAN, gaps : BOOLEAN,
              validation : BOOLEAN, evidence : BOOLEAN]

----------------------------------------------------------------------------
(* Reading a plan. *)

Ids(p) == 1..Len(p)

IsTerminal(p, n) == p[n].status \in Terminal

IsSettled(p) == \A n \in Ids(p) : IsTerminal(p, n)

\* Mutant of IsBlocked: an abandoned dependency is not a bad end.
IsBlockedByFailure(p, n) ==
    /\ p[n].status = "pending"
    /\ \E u \in p[n].upstream : u \notin Ids(p) \/ p[u].status = "failed"

\* readiness() = Blocked: pending behind something that ended badly, or behind
\* an id that is not in the plan.
IsBlocked(p, n) ==
    /\ p[n].status = "pending"
    /\ \E u \in p[n].upstream : u \notin Ids(p) \/ p[u].status \in BadEnd

\* readiness() = Ready: pending with every dependency complete.
IsReady(p, n) ==
    /\ p[n].status = "pending"
    /\ \A u \in p[n].upstream : u \in Ids(p) /\ p[u].status = "complete"

ReadyNodes(p) == {n \in Ids(p) : IsReady(p, n)}
BlockedNodes(p) == {n \in Ids(p) : IsBlocked(p, n)}

\* The dependencies whose handoff assemble_input puts into n's input.
Hydrated(p, n) == {u \in p[n].upstream \cap Ids(p) : p[u].artifact}

\* A set of nodes that contains everything its members depend on.
IsUpClosed(p, S) == \A m \in S : p[m].upstream \subseteq S

\* depends_transitively_on: the walk from `from' over one or more dependency
\* edges meets `to'.  The nodes it meets are the least up-closed set that
\* holds the direct dependencies.
DependsTransitivelyOn(p, from, to) ==
    \A S \in SUBSET Ids(p) :
        p[from].upstream \subseteq S /\ IsUpClosed(p, S) => to \in S

\* ensure_no_cycle, negated: the edge dependent -> dependency is refused.
WouldCycle(p, dependent, dependency) ==
    \/ dependency = dependent
    \/ DependsTransitivelyOn(p, dependency, dependent)

\* Mutant of MayChange: what has ended may be changed.
MayChangeEnded(p, n, actor) ==
    /\ n \in Ids(p)
    /\ p[n].owner = actor \/ p[n].assignee = actor

\* require_mutable.
MayChange(p, n, actor) ==
    /\ n \in Ids(p)
    /\ ~IsTerminal(p, n)
    /\ p[n].owner = actor \/ p[n].assignee = actor

----------------------------------------------------------------------------
(* What holds of every plan the operations below build. *)

\* Dependencies name nodes of the plan, a holder is recorded exactly while a
\* task is assigned, a handoff exactly when it is complete, and no task is
\* reclaimed past the limit.
WellFormed(p) ==
    /\ p \in Plan
    /\ \A n \in Ids(p) :
           /\ p[n].upstream \subseteq Ids(p)
           /\ p[n].status = "assigned" <=> p[n].assignee # NoActor
           /\ p[n].artifact <=> p[n].status = "complete"
           /\ p[n].reclaims <= ReclaimLimit

\* Every non-empty set of tasks has a member that waits on none of the others.
IsAcyclic(p) ==
    \A S \in SUBSET Ids(p) : S # {} => \E n \in S : p[n].upstream \cap S = {}

\* What is running or finished has every dependency complete.
HasInputs(p) ==
    \A n \in Ids(p) :
        p[n].status \in {"assigned", "complete"} =>
            \A u \in p[n].upstream : p[u].status = "complete"

----------------------------------------------------------------------------
(* Building a plan. *)

NewNode(kind, owner, upstream) ==
    [kind |-> kind, owner |-> owner, status |-> "pending",
     assignee |-> NoActor, upstream |-> upstream, artifact |-> FALSE,
     reclaims |-> 0]

\* Mutant of ValidBatch: the range check alone.
ValidBatchInRange(specs) ==
    /\ specs # << >>
    /\ \A i \in 1..Len(specs) : specs[i].deps \subseteq 1..Len(specs)

\* A batch that may be created: not empty, and accepted by validate_batch, for
\* which every in-batch dependency is in range and the batch's own graph has
\* no loop.  BatchCheck models the depth-first walk that decides it.
ValidBatch(specs) ==
    /\ specs # << >>
    /\ \A i \in 1..Len(specs) : specs[i].deps \subseteq 1..Len(specs)
    /\ \A S \in SUBSET (1..Len(specs)) :
           S # {} => \E i \in S : specs[i].deps \cap S = {}

\* The ids insert_batch mints for a batch of k tasks.
BatchIds(p, k) == (Len(p) + 1)..(Len(p) + k)

\* Mutant of InsertBatch: new tasks forget what the task they replace waited on.
InsertBatchDetached(p, owner, specs, inherited) ==
    [i \in 1..(Len(p) + Len(specs)) |->
        IF i <= Len(p)
        THEN p[i]
        ELSE NewNode(specs[i - Len(p)].kind, owner,
                     {Len(p) + d : d \in specs[i - Len(p)].deps})]

InsertBatch(p, owner, specs, inherited) ==
    [i \in 1..(Len(p) + Len(specs)) |->
        IF i <= Len(p)
        THEN p[i]
        ELSE NewNode(specs[i - Len(p)].kind, owner,
                     inherited \cup {Len(p) + d : d \in specs[i - Len(p)].deps})]

AppendGate(p, owner, over) ==
    [i \in 1..(Len(p) + 1) |->
        IF i <= Len(p) THEN p[i] ELSE NewNode("gate", owner, over)]

\* A batch of new tasks, with the review gate over it that deep mode adds.
InsertReviewed(p, owner, specs, inherited) ==
    LET q == InsertBatch(p, owner, specs, inherited)
    IN  IF Deep THEN AppendGate(q, owner, BatchIds(p, Len(specs))) ELSE q

\* seed, past the replay and the validation.
Seeded(p, actor, specs) == InsertReviewed(p, actor, specs, {})

\* Mutant of Requeued: the task keeps its holder while it waits.
RequeuedStillHeld(p, n, upstream) ==
    [p EXCEPT ![n] = [@ EXCEPT !.upstream = upstream]]

\* The node waits on `upstream' from now on, and runs again after it.
Requeued(p, n, upstream) ==
    [p EXCEPT ![n] = [@ EXCEPT !.upstream = upstream, !.status = "pending",
                               !.assignee = NoActor]]

\* Mutant of JoinInputs: the last child alone.
JoinInputsLast(p, k) == {Len(p) + k}

\* What an expanded node waits on: its children, or the gate over them.
JoinInputs(p, k) == IF Deep THEN {Len(p) + k + 1} ELSE BatchIds(p, k)

\* expand_node.  The children are already in the plan when an edge is refused:
\* the early return of ensure_no_cycle leaves them there.
Expanded(p, n, actor, specs) ==
    LET q     == InsertReviewed(p, actor, specs, p[n].upstream)
        waits == JoinInputs(p, Len(specs))
    IN  IF \E up \in waits : WouldCycle(q, n, up)
        THEN q
        ELSE Requeued(q, n, waits)

\* Mutant of Injected: the gate does not wait on what it asked for.
InjectedUnawaited(p, gate, actor, specs) ==
    Requeued(InsertBatch(p, actor, specs, p[gate].upstream), gate, p[gate].upstream)

\* inject_from_gate, with the same early return.
Injected(p, gate, actor, specs) ==
    LET q   == InsertBatch(p, actor, specs, p[gate].upstream)
        new == BatchIds(p, Len(specs))
    IN  IF \E up \in new : WouldCycle(q, gate, up)
        THEN q
        ELSE Requeued(q, gate, p[gate].upstream \cup new)

----------------------------------------------------------------------------
(* Running a plan. *)

\* dispatch, for a ready task.
Dispatched(p, n, actor) ==
    [p EXCEPT ![n] = [@ EXCEPT !.status = "assigned", !.assignee = actor]]

\* validate_artifact.
AcceptableArtifact(kind, a) ==
    /\ a.findings
    /\ Deep => a.gaps
    /\ kind = "gate" => a.validation /\ a.evidence

\* complete_node's checks on node and actor.
MayComplete(p, n, actor) ==
    /\ n \in Ids(p)
    /\ ~IsTerminal(p, n)
    /\ p[n].assignee = actor

Completed(p, n) ==
    [p EXCEPT ![n] = [@ EXCEPT !.status = "complete", !.assignee = NoActor,
                               !.artifact = TRUE]]

\* fail_node and abandon_node, past their checks.
Ended(p, n, status) ==
    [p EXCEPT ![n] = [@ EXCEPT !.status = status, !.assignee = NoActor]]

\* Mutant of SalvagedNode: `>' for `>='.
SalvagedNodeLate(node) ==
    IF node.reclaims > ReclaimLimit
    THEN [node EXCEPT !.status = "failed", !.assignee = NoActor]
    ELSE [node EXCEPT !.status = "pending", !.assignee = NoActor,
                      !.reclaims = node.reclaims + 1]

\* salvage_assignment on one node: requeued, or failed at the limit.
SalvagedNode(node) ==
    IF node.reclaims >= ReclaimLimit
    THEN [node EXCEPT !.status = "failed", !.assignee = NoActor]
    ELSE [node EXCEPT !.status = "pending", !.assignee = NoActor,
                      !.reclaims = node.reclaims + 1]

Salvaged(p, S) ==
    [i \in Ids(p) |-> IF i \in S THEN SalvagedNode(p[i]) ELSE p[i]]

\* The tasks salvage_actor takes back.
Stranded(p, actor) == {n \in Ids(p) : ~IsTerminal(p, n) /\ p[n].assignee = actor}

\* Mutant of Doomed: a single wave.
DoomedFirstWave(p) == BlockedNodes(p)

\* The pending nodes the waves of cascade_blocked reach: the least set that
\* holds every pending node behind a bad end or behind a member.
Doomed(p) ==
    LET pending == {n \in Ids(p) : p[n].status = "pending"}
        HoldsItsWaves(S) ==
            \A n \in pending :
                IsBlocked(p, n) \/ p[n].upstream \cap S # {} => n \in S
    IN  {n \in pending : \A S \in SUBSET pending : HoldsItsWaves(S) => n \in S}

Cascaded(p) ==
    LET doomed == Doomed(p)
    IN  [i \in Ids(p) |->
            IF i \in doomed THEN [p[i] EXCEPT !.status = "abandoned"] ELSE p[i]]

=============================================================================
