------------------------------ MODULE TaskGraph ------------------------------
(****************************************************************************)
(* The shared plan of a swarm as a state machine: every public operation of *)
(* localpilot-taskgraph, called in any order by any actor.  A call that the *)
(* code refuses leaves the plan alone and is a disabled action here.        *)
(****************************************************************************)
EXTENDS PlanOps

CONSTANTS
    Keys,       \* idempotency keys of seed
    Batches,    \* the batches of NodeSpecs that callers submit
    MaxNodes    \* bound: nodes a plan may grow to

ASSUME TaskGraphConstants == Batches \subseteq Seq(NodeSpec) /\ MaxNodes \in Nat

VARIABLES
    plan,   \* the nodes, in id order
    seeds,  \* applied_seeds: key -> what the seed produced and what it answered
    joins   \* history: expanded node -> the children of its last expansion

vars == <<plan, seeds, joins>>

NoGate == 0

\* The answer to a first seed of k tasks.
SeedReply(p, k) ==
    [nodes |-> BatchIds(p, k), gate |-> IF Deep THEN Len(p) + k + 1 ELSE NoGate]

\* The ids recorded for a key: the batch, then deep mode's gate.
Produced(p, k) == BatchIds(p, k) \cup (IF Deep THEN {Len(p) + k + 1} ELSE {})

\* Mutant of ReplayReply: everything the seed produced, unsplit.
ReplayReplyUnsplit(key) == [nodes |-> seeds[key].produced, gate |-> NoGate]

\* The answer to a repeated seed, split by the kind of the recorded nodes; the
\* first gate is the one with the lowest id.
ReplayReply(key) ==
    LET gates == {n \in seeds[key].produced : plan[n].kind = "gate"}
    IN  [nodes |-> seeds[key].produced \ gates,
         gate  |-> IF gates = {} THEN NoGate
                   ELSE CHOOSE g \in gates : \A h \in gates : g <= h]

Init ==
    /\ plan = << >>
    /\ seeds = << >>
    /\ joins = << >>

\* A key that was seen is answered by ReplayReply and changes nothing.
Seed(actor, key, specs) ==
    /\ key \notin DOMAIN seeds
    /\ ValidBatch(specs)
    /\ plan' = Seeded(plan, actor, specs)
    /\ Len(plan') <= MaxNodes
    /\ seeds' = [k \in DOMAIN seeds \cup {key} |->
                    IF k = key
                    THEN [produced |-> Produced(plan, Len(specs)),
                          reply |-> SeedReply(plan, Len(specs))]
                    ELSE seeds[k]]
    /\ UNCHANGED joins

ExpandNode(n, actor, specs) ==
    /\ MayChange(plan, n, actor)
    /\ ValidBatch(specs)
    /\ plan' = Expanded(plan, n, actor, specs)
    /\ Len(plan') <= MaxNodes
    /\ joins' = [j \in DOMAIN joins \cup {n} |->
                    IF j = n THEN BatchIds(plan, Len(specs)) ELSE joins[j]]
    /\ UNCHANGED seeds

InjectFromGate(gate, actor, specs) ==
    /\ MayChange(plan, gate, actor)
    /\ plan[gate].kind = "gate"
    /\ ValidBatch(specs)
    /\ plan' = Injected(plan, gate, actor, specs)
    /\ Len(plan') <= MaxNodes
    /\ UNCHANGED <<seeds, joins>>

Dispatch(n, actor) ==
    /\ n \in ReadyNodes(plan)
    /\ plan' = Dispatched(plan, n, actor)
    /\ UNCHANGED <<seeds, joins>>

CompleteNode(n, actor) ==
    /\ MayComplete(plan, n, actor)
    /\ \E a \in Artifacts : AcceptableArtifact(plan[n].kind, a)
    /\ plan' = Completed(plan, n)
    /\ UNCHANGED <<seeds, joins>>

FailNode(n, actor) ==
    /\ MayChange(plan, n, actor)
    /\ plan' = Ended(plan, n, "failed")
    /\ UNCHANGED <<seeds, joins>>

AbandonNode(n, actor) ==
    /\ n \in Ids(plan)
    /\ ~IsTerminal(plan, n)
    /\ plan[n].owner = actor
    /\ plan' = Ended(plan, n, "abandoned")
    /\ UNCHANGED <<seeds, joins>>

SalvageAssignment(n) ==
    /\ n \in Ids(plan)
    /\ ~IsTerminal(plan, n)
    /\ plan' = Salvaged(plan, {n})
    /\ UNCHANGED <<seeds, joins>>

SalvageActor(actor) ==
    /\ Stranded(plan, actor) # {}
    /\ plan' = Salvaged(plan, Stranded(plan, actor))
    /\ UNCHANGED <<seeds, joins>>

CascadeBlocked ==
    /\ BlockedNodes(plan) # {}
    /\ plan' = Cascaded(plan)
    /\ UNCHANGED <<seeds, joins>>

Next ==
    \/ \E actor \in Actors, key \in Keys, specs \in Batches : Seed(actor, key, specs)
    \/ \E n \in Ids(plan), actor \in Actors :
           \/ \E specs \in Batches : ExpandNode(n, actor, specs)
           \/ \E specs \in Batches : InjectFromGate(n, actor, specs)
           \/ Dispatch(n, actor)
           \/ CompleteNode(n, actor)
           \/ FailNode(n, actor)
           \/ AbandonNode(n, actor)
    \/ \E n \in Ids(plan) : SalvageAssignment(n)
    \/ \E actor \in Actors : SalvageActor(actor)
    \/ CascadeBlocked

Spec == Init /\ [][Next]_vars

----------------------------------------------------------------------------
(* Properties. *)

\* Type invariant: the plan is well formed (see WellFormed) and the recorded
\* seeds and joins name nodes of the plan.
TypeOK ==
    /\ WellFormed(plan)
    /\ DOMAIN seeds \subseteq Keys
    /\ \A key \in DOMAIN seeds :
           /\ seeds[key].produced \subseteq Ids(plan)
           /\ seeds[key].reply.nodes \subseteq Ids(plan)
           /\ seeds[key].reply.gate \in Ids(plan) \cup {NoGate}
    /\ DOMAIN joins \subseteq Ids(plan)
    /\ \A n \in DOMAIN joins : joins[n] \subseteq Ids(plan)

\* The graph has no cycle (what ensure_no_cycle and validate_batch are for),
\* across any series of seeds, expansions and injections.
Acyclic == IsAcyclic(plan)

\* A task that is running or finished had, and still has, every dependency
\* complete: no expansion, injection, salvage or failure elsewhere takes an
\* input away from under it.
InputsComplete == HasInputs(plan)

\* The scheduler cannot be stuck: in an unfinished plan some task is in flight,
\* can start, or can be written off by cascade_blocked.
NoStall ==
    \/ IsSettled(plan)
    \/ \E n \in Ids(plan) : plan[n].status = "assigned"
    \/ ReadyNodes(plan) # {}
    \/ BlockedNodes(plan) # {}

\* No task is created that nobody asked for or waits on: a task that no seed
\* produced is a dependency of another one (expand_node and inject_from_gate
\* never return half-way, with the batch inserted and not waited on).
WorkIsAwaited ==
    \A n \in Ids(plan) :
        \/ \E key \in DOMAIN seeds : n \in seeds[key].produced
        \/ \E m \in Ids(plan) : n \in plan[m].upstream

\* "A deep plan cannot finish without something having reviewed it": once the
\* gate a deep seed added is complete, so is every task of the seed, however
\* the tasks and the gate itself were expanded or added to in between.
GateReviewsSeed ==
    \A key \in DOMAIN seeds :
        LET reply == seeds[key].reply
        IN  reply.gate # NoGate /\ plan[reply.gate].status = "complete" =>
                \A n \in reply.nodes : plan[n].status = "complete"

\* A join reads all of its children: a task that was expanded is handed out
\* again only with the handoff of every child of its last expansion.
JoinSeesChildren ==
    \A n \in DOMAIN joins :
        plan[n].status = "assigned" => joins[n] \subseteq Hydrated(plan, n)

\* What makes GateReviewsSeed inductive: whatever holds the gate and all that
\* its members wait on holds the tasks of the seed.
GateCoversSeed ==
    \A key \in DOMAIN seeds :
        LET reply == seeds[key].reply
        IN  reply.gate # NoGate =>
                \A S \in SUBSET Ids(plan) :
                    reply.gate \in S /\ IsUpClosed(plan, S) => reply.nodes \subseteq S

\* What makes JoinSeesChildren inductive, in light plans.
JoinsAwaitChildren ==
    ~Deep => \A n \in DOMAIN joins : joins[n] \subseteq plan[n].upstream

\* The inductive invariant.
PlanInv ==
    /\ TypeOK
    /\ Acyclic
    /\ InputsComplete
    /\ WorkIsAwaited
    /\ GateCoversSeed
    /\ JoinsAwaitChildren

\* A replayed seed answers what the first call answered, however far the plan
\* has grown since, unless the caller put gates of its own into the batch: the
\* replay reports the first of those as the gate.
ReplaysAgree ==
    \A key \in DOMAIN seeds :
        (\A n \in seeds[key].reply.nodes : plan[n].kind = "task") =>
            ReplayReply(key) = seeds[key].reply

\* This step removes no task and leaves ended ones alone.
EndsKept ==
    /\ Len(plan') >= Len(plan)
    /\ \A n \in Ids(plan) : IsTerminal(plan, n) => plan'[n] = plan[n]

\* A task that has ended stays as it ended, dependencies included, and no task
\* disappears: rework enters as new tasks.
EndsAreFinal == [][EndsKept]_vars

\* This step leaves nothing behind a bad end, and what it changes is behind one.
NothingLeftBehind ==
    /\ BlockedNodes(plan') = {}
    /\ \A n \in Ids(plan) :
           plan'[n] # plan[n] =>
               \E u \in plan[n].upstream : plan'[u].status \in BadEnd

\* cascade_blocked is exact: it writes off everything that can never start, and
\* nothing else.
CascadeIsExact == [][CascadeBlocked => NothingLeftBehind]_vars

=============================================================================
