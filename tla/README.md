# TLA+ models of LocalPilot

LocalPilot is a coding agent written in Rust. Its concurrent parts are the
*swarm*, several agent sessions in one process that work through a shared plan,
where workers hang, die, answer late, and are replaced; the *pair*, two sessions
that converge on one artifact; the *hosted session*, which several clients submit
to, stop and command at once; and the *stored session*, which several processes
claim, hand over and prune. This directory holds TLA+ models of these parts, TLC
configurations that check them on small instances, and TLAPS proofs for any
instance.

Source paths below are relative to `src/crates/`.

## 1. Inventory

### The task graph (`localpilot-taskgraph`: `plan.rs`, `ops.rs`, `schedule.rs`, `artifact.rs`)

*State.* A plan: numbered nodes (tasks and review gates), each with the nodes it
waits on (`upstream`), an owner, a status (`pending`, `assigned` to somebody,
`complete`, `failed`, `abandoned`), a handoff and a reclaim counter; the mode
(light or deep) and the record of seeds already applied.

*Operations.* `seed` inserts a batch and, in deep mode, a gate over it, once per
idempotency key. `expand_node` turns a task into a join over new children.
`inject_from_gate` lets a review add work it then waits for. `dispatch` assigns a
ready task with the handoffs of its dependencies; `complete_node`, `fail_node`,
`abandon_node` end it; `salvage_assignment`/`salvage_actor` take work back from a
lost worker, a bounded number of times; `cascade_blocked` writes off what can
never start.

*Interactions.* It is a passive data structure under the swarm registry's lock.
Anybody may call anything in any order.

*What is hard.* The graph is edited while it runs. Each operation is simple; a
long series of legal ones must not close a cycle, strand a task, let a gate pass
unreviewed work, or take an input from under a running task.

*Correct means:* acyclic; nothing runs or finishes with an incomplete input; an
unfinished plan is never stuck; no work is created that nobody waits for; a deep
seed is reviewed whole; a join reads all its children; ended tasks stay ended; a
cascade is exact; a repeated seed is answered as before.

### The swarm driver (`localpilot-server/src/swarm/driver.rs`)

*State.* The futures in flight, `dispatched`, `exhausted`, and whatever it has
read from the registry between two awaits.

*Operations.* `run_plan`: cascade, fill the free places (choose a ready task,
spawn a worker, dispatch), await one worker, settle its answer or salvage it,
repeat; at the end count and reap.

*Interactions.* Calls the registry (one lock per call), the spawner and the
lifecycle. A sweep and the plan's owner act in the gaps.

*What is hard.* Everything read before an await may be stale after it: the task
chosen may have been abandoned, the worker answering may have been presumed
dead and its task given to somebody else, a timeout may race the answer.

*Correct means:* the plan changes only as the task graph allows; no task is left
assigned to a worker nobody waits for; a retry gets a fresh worker; one loss costs
one try; the run ends, and not while there is work.

### Registry, spawning and lifecycle (`swarm/registry.rs`, `spawn.rs`, `lifecycle.rs`)

*State.* Per swarm: its shape (hierarchical or pair), members with role, status
and report-back edge, reserved slots, settled idempotency keys, the count ever
admitted, the coordinator. Also heartbeats and, on disk, snapshots.

*Operations.* `join_as_root`, `join_as_pair`, `reserve`/`confirm`/`release`
around the building of a session, `record_completion`, `set_status`,
`reparent_children`, `elect_coordinator`, `set_plan`, `remove`, `restore`;
`spawn`, `run`, `finish`; `salvage`, `sweep`, `reap_terminal`.

*What is hard.* Single operations are atomic, but a spawn spans three locks and a
salvage five, and several run at once.

*Correct means:* caps hold counting what is still being built; one worker per
key; pair and hierarchy never mix; at most one active coordinator, and a departed
one is replaced; report-back edges, wherever a spawn first points them, are moved
only away from a member that is gone and only inside the swarm, and form a tree.

### The pair driver (`swarm/converge.rs`, `pair_endpoints.rs`)

*State.* The current candidate (revision, text, digest), the next revision, who
has agreed; the slot and round counters; of the slot, whether its repair is spent,
its tokens and its deadline; the published progress.

*Operations.* In each slot the current candidate is delivered to one peer
(`notify`), the peer is driven, and its envelope is a proposal, a revision or an
agreement. An unusable envelope earns one repair. `PairAbort` stops the pair from
anywhere; a deadline, a token budget and a round cap bound it.

*What is hard.* Peers are language models: they may reply anything, agree to what
was replaced, or repeat themselves. The abort and the deadline fire while a call
is awaited that returns later.

*Correct means:* a pair converges only on what both saw and both agreed to; what
observers are told is true; it always ends.

### The hosted session (`localpilot-server/src/host.rs`, the reaper and commands in `localpilot-cli/src/server_cmd.rs`)

*State.* The runtime behind an async mutex held for a whole turn; the admission
state (`running`, `follow_ups`, `starting`, `closed`, `command`) and the slot with
the running turn's token, each behind a short mutex of its own.

*Operations.* `submit_from` starts a turn, queues a follow-up or refuses; the loop
of `spawn_admitted` drives what was admitted; `drive` runs a turn from outside
admission (a worker's, a peer's); `cancel_all` stops everything;
`reserve_command` holds the session for a command; the reaper calls
`close_admission` and closes the session.

*What is hard.* An input passes through the queue, the loop, the wait for the
runtime and the turn, under three different locks, while Stop, commands and the
reaper look at one lock after the other. A drive from outside may be dropped by its
caller's timeout where it awaits.

*Correct means:* the token slot names the turn that runs; admitted work, commands
and closing exclude each other; Stop reaches every input admitted before it;
accepted input is never left behind.

### The stored session (`localpilot-store/src/ownership.rs`, `lib.rs`; `localpilot-harness/src/session.rs`, `session/transfer.rs`)

*State.* On disk: the lock file, the owner record (generation, transfer), the
event log, the index with the session's name. In each process: the table of
leases shared by all clones of a store handle, and the runtime's claim and
admission state (owned, preparing, released, lost, closed).

*Operations.* `SessionClaim::take`, `commit_transfer`, `release`, `drop`;
`session_write` with its two kinds of authority; `claim_fresh`, `load_session`,
`record_event`, `close`, moving to another session; `prepare_transfer`,
`abort_transfer`, `release_transfer`; `prune`.

*What is hard.* Several processes, each of which may end at any moment, and
several handles inside each, of which one may hold a lease it looked up before the
claim changed hands.

*Correct means:* at most one writer and at most one owner at any time; a released
session stays as its record describes it; logs of successive owners never mix.

### The rest

| Component | What it does | Hard behaviour |
|---|---|---|
| Messaging, scope, touches (`swarm/`) | routing between members, file-conflict alerts | order of delivery, stale membership |
| Daemon (`daemon.rs`, `attach.rs`, `wire.rs`) | one server per endpoint, clients attaching with replay | lock file and socket are two steps |
| Mailbox (`localpilot-mesh`) | a journal shared with other programs on one tree | lock files reaped by age |
| Quota, patch generation, self-development | waiting for a quota window; apply and roll back; build and install | retries, partial failure |
| Harness turn loop, providers, tools, UI, knowledge | HTTP, files and processes, presentation, indexing | mostly I/O and text |

`PROJECT.json` lists every component with its status, and under `hazards` the
places, by line, where this code is hard to test.

## 2. Modules

| Module | Models | Kind |
|---|---|---|
| `PlanOps` | the plan as a sequence of node records, and every operation as an operator from plan to plan | definitions |
| `TaskGraph` | those operations as a state machine, called in any order by any actor | specification |
| `BatchCheck` | the explicit-stack depth-first walk of `validate_batch`, step by step | specification |
| `SwarmDriver` | `run_plan` with workers, a sweep and an owner; implements `TaskGraph` | specification |
| `SwarmRegistry` | admission, spawn slots, the spawn tree, election | specification |
| `PairConverge` | the pair driver with arbitrary peers, aborts and deadlines | specification |
| `SessionHost` | one hosted session: admission, turns, Stop, commands, the reaper | specification |
| `SessionOwnership` | one stored session under several processes that crash, hand over and prune | specification |
| `PlanOps_proofs`, `TaskGraph_proofs` | lemmas about the operators; the theorems about the plan | proofs |
| `BatchCheck_proofs`, `SwarmDriver_proofs`, `SwarmRegistry_proofs`, `PairConverge_proofs`, `SessionHost_proofs`, `SessionOwnership_proofs` | the theorems about each of these | proofs |
| `MCTaskGraph`, `MCBatchCheck`, `MCSwarmDriver`, `MCSwarmRegistry`, `MCPairConverge`, `MCSessionHost`, `MCSessionOwnership` | values of the constants for TLC | model checking |

### PlanOps and TaskGraph

`plan` is the sequence of nodes in id order: ids are minted from 1 and no
operation deletes a node, so a sequence is the `BTreeMap` and its `next_id`. A
node keeps `kind`, `status`, `assignee`, `owner`, `upstream`, `reclaims` and
whether it has a handoff. A handoff is four Booleans, one for each part that
`validate_artifact` wants to be non-blank. Titles, prompts, reasons, and the
`version` counter, which no operation reads, are left out; `set_coordinator` has
no caller outside tests.

Each public operation is one action. Its guard is the conjunction of the code's
refusals; a refused call leaves the plan unchanged (this is an obligation, not an
assumption, for the two operations that check edges *after* inserting the batch:
`Expanded` and `Injected` return the half-built plan when `WouldCycle` refuses,
and `WorkIsAwaited` shows that this never happens). `TaskGraph` uses the
declarative `ValidBatch` (in range, no loop) where the code walks the batch;
`BatchCheck` shows that the walk decides exactly that. `seeds` is
`applied_seeds` with the answer given the first time added; `joins` is a history
variable for `JoinSeesChildren`.

`MaxNodes` bounds the size of a plan for TLC. The theorems hold for every value.

### BatchCheck

One action per iteration of `validate_batch`: choose an unvisited start, follow
the next dependency of the frame on top, or leave it. The walk ends in
`Accept`, `RefuseRange` or `RefuseCycle`. The order in which a spec lists its
dependencies, and duplicates among them, matter to the walk and are kept.

### SwarmDriver

`pc` names the point of `run_plan` between two acquisitions of the registry's
lock; `node`, `worker` and `answer` are its locals, `flight` its
`FuturesUnordered`. Futures are polled only while the driver awaits, so
`TurnEnds` and `Resolve` are enabled only there. A future may resolve by its
timeout at any time, also after its member has been marked finished: the answer
is then lost. `SpawnFails` stands for a full cap, an unavailable model, or a
session that cannot be built. A sweep finds an active worker stale, marks it, and
takes its tasks back, in three steps that interleave with everything. The owner
may abandon the tasks in `Meddled`.

Workers are numbered by admission, because session ids are fresh and the driver
never compares them. Workers here have no children and the coordinator stays
active, so the reparenting and electing parts of `salvage` do nothing; they are
modelled in `SwarmRegistry`. The report's counts are derived from the plan and
not stored.

`Shared` instantiates `TaskGraph` with the plan of the driver; `PlanIsShared`
says that every step of the driver, the sweep and the owner is a step of the task
graph or leaves the plan alone. That alone would let any actor explain a step: a late
answer of one worker that completed the task of another would pass for the other's
own completion. `PlanIsShared` therefore also demands `HoldersKept`: a task being
worked on changes only by an answer of the worker that holds it, by the loss of that
worker, or because the owner abandons it.

### SwarmRegistry

`members` and `by_session` change under one lock and are one function from
session to member record. `Reservations` are the spawn calls that hold a slot
(`reserved` or `built`). A spawn call is `Reserve`, `Build`, then `Confirm` or
`Release`. `reserve` takes any swarm, a new one too, and the request names a parent
that nobody looks up: in the model it is any session whose id somebody can know
(`Known`), a member of this swarm, of another, or of none. A session is built under
an id nobody has seen (`Unseen`), and its id is known only once it is confirmed; that
of a call that gave up belongs to nobody. A salvage is `SalvageBegins` (which reads `was_coordinator`),
`SalvageMarks`, `SalvageReparents` and, if it read true, `SalvageElects`. Names,
reports and heartbeat times are left out: any active member may be found stale.
`remove` and `restore` have no caller outside tests and are left out.

### PairConverge

The driver awaits one endpoint call at a time; `at` says which, and everything
between two awaits is one step. A call returns one of the replies of
`NotifyReply`, `TurnReply` and `EndpointError`; an envelope may propose any text,
agree to any revision and digest, or be malformed. A text is a content and whether
its lines end in CR LF, so that `canonicalize` does something; a digest stands for
the canonical text it is the hash of. `Abort` may happen at any time, `Deadline`
while a call is awaited; the call returns afterwards and its reply is discarded,
an abort outranking the deadline. `MaxRevision` is where `checked_add` refuses.
`turns`, `seen` and `consent` are history: the slots a peer completed, what was
delivered to it, and what it last agreed to.

### SessionHost

Each section under the admission lock or the token slot's lock is one step, and
the steps between them interleave: `cancel_all` is three steps, the start of a
turn two, its end two. A cancellation token belongs to one turn and is named by
it, so `starting`, `turnCancel` and `cancelled` hold inputs and outside drivers.
`stage` is how far an input or an outside turn has come. An outside drive may be
dropped where it awaits (`DropDrive`): a worker's by `worker_timeout`, a peer's, while it waits, by
its endpoint. In mid-turn that releases the runtime, and the statement that clears
`turn_cancel` is never reached: the dead turn's token stays in the slot until the
next turn publishes its own. `TokenNamesTurn` excepts exactly this token (section 5).
Admitted input runs on a task of its own that nobody drops. The command's
reservation may be dropped at any time (its connection goes away). The origin
gate answers either way. Inputs and outside turns happen once each, which bounds
the model without bounding what they do to each other.

`stop[s].covers` is history: the input that was admitted and not over when the
Stop began. `forgotten` is history: input whose token another turn wiped from
`starting`. `run_locked` clears `starting` whoever it belongs to; when a turn
driven outside admission starts while an admitted input waits behind it, a Stop
no longer reaches that input. `StopMeansStop` excepts exactly this case. (Without
the exception TLC finds it in nine states: submit, outside drive, the drive gets
the runtime and starts, Stop; the input then runs uncancelled.)

Two Stops may overlap: one takes the token out of `starting`, and before it has
cancelled it the other passes through all of its locks, finds nothing and
returns. What holds then is that the input is `Doomed`: cancelled, or in the hands
of a Stop that is about to cancel it. `StopMeansStop` says that. The `host` run has
one Stop; the theorem is for any number of them.

### SessionOwnership

A claim is `TakeLock`, `PublishClaim`, `BecomeOwner`; giving it up is `DropClaim`
(in `Close` or `Leave`) and `Unlock`, or the hand-over `PrepareTransfer`,
`CheckTransfer`, `ReleaseTransfer`, `Unlock`. A process may end between any two of
them; the operating system then frees its lock, and its leases, table and handles
are gone. A lease is named by the number of its claim. A write takes its authority
in one step (`BeginEvent`, `BeginRename`) and changes the file in another, so that
whatever could overlap is seen to or not to. `BecomeOwner` arms the lease, reads the
log and appends the event that opens the session in one step: what a clone with that
lease could write in between is a rename, which touches the index and not the log, so
no property tells the order apart. A clone's rename looks the lease up in
a third step before. The log holds, for each event, the claim under which it was
written; `tail` is the log's length, standing for the id of its last event.
Waiting for the lock is left out (`TakeLock` happens when the lock is free), and
so is `lose_ownership`: `OneOwner` shows that an owner is never refused.

## 3. Runs

State counts are for the bounds in the `.cfg` files.

| Run | Bounds | States | Checks |
|---|---|---|---|
| `plan_light` | 2 actors, 1 key, seeds of up to 2 tasks, growth to 4, 1 reclaim | 254 thousand | `TypeOK Acyclic InputsComplete NoStall WorkIsAwaited JoinSeesChildren EndsAreFinal CascadeIsExact` |
| `plan_deep` | 2 actors, 1 key, growth to 5 with gates, no reclaim | 16 thousand | `GateReviewsSeed ReplaysAgree` |
| `batch_check` | every batch of up to 3 specs with up to 2 listed dependencies, out-of-range ones included | 24 thousand | `TypeOK VerdictIsRight BlameIsRight Answers` |
| `driver` | 2 tasks (one a gate), 2 at a time, 4 workers ever, 4 dispatches, reclaim limit 2, a sweep, the owner abandoning the gate | 291 thousand | `TypeOK AssignedIsAttended FreshWorker StopsWhenIdle ReclaimsAreLosses RunEnds PlanIsShared` |
| `registry` | 1 swarm, 3 sessions, 3 spawn calls with any parent, 1 key, 2 salvagers, 3 members, 2 active | 1.1 million | `TypeOK WithinCaps OneWorkerPerKey ShapesNeverMix OneLeader EdgesMoveInside` |
| `host` | 3 inputs (one from a device), 1 outside turn that may be dropped, 1 Stop, a command, the reaper, a queue of 1 | 127 thousand | `TypeOK TokenNamesTurn WorkExcludes StopMeansStop AdmittedSettles` |
| `ownership` | 2 processes, 1 clone of a handle, 3 claims, 4 events, 1 prune, crashes | 718 thousand | `TypeOK OneWriter OneOwner HandOverIsFrozen` |
| `pair` | 4 rounds, 2 contents, 7 revisions, costs 0 and 2 against a budget of 3 | 13 thousand | `TypeOK InformedConsent ProgressIsTrue PairEnds` |
| `driver_stranded`, `driver_budget`, `registry_seat`, `registry_cycle` | see section 5 | | one violated property each |

Why the bounds suffice for the cases that matter:

* *Plans.* Four light nodes allow a seed, an expansion, an expansion of a child
  or an injection into a gate of the seed; five deep nodes allow a reviewed seed
  whose gate is itself expanded (child and nested gate). Two actors are enough
  for ownership and assignment to differ. Reclaim limit 1 reaches both the
  requeue and the failure. Larger plans are covered by the theorems.
* *Batches.* Three specs contain every shape the walk distinguishes: self-loop,
  two- and three-cycles, a diamond's re-visit of a finished node, duplicates,
  indices out of range, and every order of listing.
* *Driver.* Two tasks at a time is the least with a refill while another worker
  runs; four dispatches allow each task a retry, or one task more retries than
  the reclaim limit admits, so that the limit, the member cap and the dispatch
  ceiling all bind. `max_active` is `concurrency + 1`, as the swarm command sets
  it.
* *Registry.* Three sessions hold a coordinator, its worker and the worker's
  worker, or a pair and an outsider; three calls race for the last slot and for one
  key, also on a swarm that has no member yet; two salvagers race each other. With
  one active slot fewer than members, the two caps bind separately. Every property
  speaks of one swarm at a time and no operation touches two, so one swarm is
  enough; a parent outside it is a session that has not joined. The theorems are for
  any number of swarms.
* *Hosted session.* One input runs, one waits, one finds the queue full; the
  outside turn comes before, between and behind them, and may be dropped in any of
  these places. Inputs differ only in
  whether the gate is asked, so more of them repeat the same positions.
* *Stored session.* Three claims are a hand-over and a return, or a claim after a
  crash and another; the clone can hold a lease across one and across two of them.
  One prune can stop halfway and leave a record without its log.
* *Pair.* Four rounds let each peer agree, see the agreement undone by a revision,
  and agree again; the revision space ends before the rounds do, so that its
  exhaustion happens; one expensive turn fits the budget and two do not, so that a
  repair's cost counts.

TLC's deadlock check is off in all of them: a settled plan, an answered batch, a
finished run, a full registry, a closed session and an ended pair are states in which nothing need happen. That
work does not stop *early* is what `NoStall`, `Answers`, `RunEnds`,
`StopsWhenIdle`, `AdmittedSettles` and `PairEnds` say.

*Fairness.* `BatchCheck` assumes weak fairness of its loop, which is sequential
code. `SwarmDriver` assumes weak fairness of the driver's own steps: an async
runtime polls a woken task, and `worker_timeout` ends every turn. Of sweeps and
the owner nothing is assumed. `PairConverge` assumes weak fairness of the driver:
every endpoint call returns, because the slot's deadline cancels it through a token
that a session's turn observes. `SessionHost` assumes that a task that can proceed
does (turns end, by their own limits; a command and the reaper leave the runtime;
of the dropping of a drive nothing is assumed),
and strong fairness of `TakeRuntime`: tokio's mutex is granted in the order it was
asked for, so nobody waits for ever while others pass. `TaskGraph`,
`SwarmRegistry` and `SessionOwnership` assume none.

*Symmetry.* Actors in the plan runs; swarms, calls and salvagers in the
registry runs. Sessions are not symmetric: the election compares them. Runs with
liveness properties use no symmetry.

## 4. Proofs

Each of the seven components below has an inductive invariant, checked by TLC before
it was proved; every step of the specification is one case of the proof that it is
kept, and the properties follow from it.

### The plan

For **every** set of actors, keys and batches, every reclaim limit and plan size,
and both modes (assumptions `PlanConstants` and `TaskGraphConstants`: the limit
and the bound are natural numbers, batches are sequences of specs, `NoActor` is
not an actor), `TaskGraph_proofs` proves of `TaskGraph!Spec`:

| Theorem | Property |
|---|---|
| `PlanInvariant` | `PlanInv`, the inductive invariant |
| `PlanTyped`, `PlanAcyclic`, `PlanSupplied`, `PlanAwaited` | `TypeOK`, `Acyclic`, `InputsComplete`, `WorkIsAwaited` |
| `PlanNeverStalls` | `NoStall` |
| `SeedReviewed` | `GateReviewsSeed` |
| `LightJoinSeesChildren` | `JoinSeesChildren`, in light mode |
| `SeedsReplay` | `ReplaysAgree` |
| `PlanEndsAreFinal`, `PlanCascadeIsExact` | `EndsAreFinal`, `CascadeIsExact` |

*The argument.* Acyclicity is stated without paths: every non-empty set of nodes
has a member none of whose dependencies is in the set. That form needs no
induction over path lengths: a batch is acyclic by `ValidBatch`, everything older
than it cannot wait on it, and the expanded node is handled by the choice of the
set. With it,

* `WorkIsAwaited` needs `Acyclic`: `ensure_no_cycle` cannot refuse an edge to a
  node just inserted, because a loop would be a set contradicting `Acyclic`;
  hence no batch is left inserted and unattached.
* `NoStall` follows from `Acyclic` and `TypeOK`: the set of nodes that have not
  ended has a member whose dependencies have all ended; it is running, ready or
  blocked.
* `GateReviewsSeed` is not inductive: after the gate is expanded, its edges to the
  seed are gone. `GateCoversSeed` is: any set that holds the gate and is closed
  under dependencies holds the seed. Children of an expansion inherit their
  parent's dependencies, which keeps it. The nodes on which a completed gate
  rests form such a set, and by `InputsComplete` they are complete.
* `InputsComplete` is kept because expanding a task that runs puts it back to
  pending, and because ended tasks are never changed.
* `JoinSeesChildren` rests on `JoinsAwaitChildren` (the children are still among
  the dependencies) and `InputsComplete` (they are complete, so hydrated).
* `ReplaysAgree` rests on `SeedsSplit`: what a seed produced is its reply's tasks and
  its gate, and no operation changes a task's kind.

`PlanOps_proofs` holds the lemmas about the operators, one group per operation:
what it keeps of `WellFormed`, `IsAcyclic` and `HasInputs`, and which nodes it
touches.

### The pair

Of `PairConverge!Spec`, for **every** set of contents and costs, every budget,
round cap and revision space (assumption `PairConstants`: the peers differ, the cap
is not zero), `PairConverge_proofs` proves:

| Theorem | Property |
|---|---|
| `PairSafe` | `PairInv`, the inductive invariant |
| `PairTyped` | `TypeOK` |
| `Consent` | `InformedConsent` |
| `Truth` | `ProgressIsTrue` |

*The argument.* `InformedConsent` is not inductive: when a peer agrees, it must
already have been shown the candidate, and nothing in the property says so.
`Informed` adds that a peer being driven on a candidate has seen that candidate,
which `BeginSlot` keeps by delivering first, and that only an ended pair has
converged. That the rounds published are the turns both completed needs `Counted`:
while the pair goes on, `slot` is twice `rounds` plus the half-played slot, the
first peer is one turn ahead exactly in that half, and `rounds` is below the cap.

### The batch walk

Of `BatchCheck!Spec`, for **every** batch (assumption `BatchConstants`: each spec
lists positive indices, in any order and as often as it likes), `BatchCheck_proofs`
proves:

| Theorem | Property |
|---|---|
| `WalkSafe` | `WalkInv`, the inductive invariant |
| `WalkTyped` | `TypeOK` |
| `WalkIsValidBatch` | `VerdictIsRight`: the walk answers what `ValidBatch` says |
| `BlameIsOnLoop` | `BlameIsRight` |

*The argument.* The nodes on the stack are the `visiting` ones, each once
(`PathIsVisiting`), and each frame's node is a dependency of the one below
(`PathIsChain`). What a frame has followed is settled or is the frame above
(`FollowedSoFar`), so a node that is left has only settled dependencies. Hence the
settled nodes are closed under dependencies and have no loop (`SettledIsSound`):
of a set with the newly settled node in it, either that node alone is the set, or
the rest has a member as required and cannot wait on the new one. When the outer
loop has passed every node, all are settled, which is `ValidBatch`. A dependency
found `visiting` closes a loop through the chain above it. "Waits on, in any
number of steps" is again said with closed sets, which saves the induction.

### The swarm driver

Of `SwarmDriver!Spec`, for **every** set of plan files, number of workers,
concurrency, dispatch ceiling, caps and reclaim limit, in both modes (assumptions
`PlanConstants`, `DriverConstants`), `SwarmDriver_proofs` proves:

| Theorem | Property |
|---|---|
| `DriverSafe` | `DriverInv`, the inductive invariant |
| `DriverTyped` | `TypeOK` |
| `WorkIsAttended` | `AssignedIsAttended` |
| `WorkersAreFresh` | `FreshWorker` |
| `RunsStopIdle` | `StopsWhenIdle` |
| `ReclaimsAreHandOuts` | `ReclaimsAreLosses` |
| `PlanRefined` | `PlanIsShared`: the driver implements `TaskGraph`, and running tasks are changed only for their holders |

*The argument.* The plan stays `Sound` (well formed, supplied, acyclic, owned by
the coordinator): the seed makes it so, and every other step is `Quiet`, that is,
changes no edge and each task legally. All steps but the dispatch are also `Calm`:
they hand nothing out and what they take back costs at most one try. With it,

* `FreshWorker` needs to know where an existing key can come from (`KeyTold`): a
  key with the current dispatch number belongs to a task that has ended or is being
  refused, because every successful dispatch moves the number on. The task chosen
  next is ready, so its key is none of these.
* `ReclaimsAreLosses` is not inductive: it does not say that a task in flight has a
  hand-out left to lose. `LossesTold` counts the open hand-out: reclaims plus one if
  assigned are at most the keys of past dispatches. A second salvage finds nothing
  assigned to the worker and adds nothing.
* `AssignedIsAttended` needs that a worker about to be given a task is not in
  flight (`PlacesTold`), since `flight` would lose the task it had. `PlacesTold` also
  says that a task being started or refused is not assigned to anybody, which
  `HoldersKept` needs.
* `StopsWhenIdle` needs that sweeps and the owner, acting after the last round,
  ready nothing: nothing is assigned then, so a sweep has nothing to requeue, and
  a task that is abandoned readies no other.

*The refinement.* `Shared` maps the driver's state to `TaskGraph`'s: the plan is the
plan, the record of seeds is what the first seed of `drive` recorded. `SeedPlan`
maps to `Seed`, `Assign` to `Dispatch`, `Settle` to `CompleteNode`, `Refuse` to
`FailNode` by the coordinator (who owns every task: part of `Sound`),
`OwnerAbandons` to `AbandonNode`, `Reclaim` and `SweepReclaims` to `SalvageActor` or,
with nothing to take back, to a stutter, `Cascade` to `CascadeBlocked` or a stutter;
every other step leaves the plan alone. `HoldersKept` is the same case split with the
actor kept (`StepKeepsHolders`): `Settle` completes only the task that its worker
still holds, a salvage takes only what is assigned to the worker it lost, and
`Refuse` and `Cascade` touch nothing that is assigned. So whatever `TaskGraph_proofs` proves holds
of the driver's plan. `TaskGraph` bounds its plans, so the mapping gives it
`PlanSize`, and the refinement alone assumes `LongestWork`: the plan files have a
largest size.

### The registry

Of `SwarmRegistry!Spec`, for **any** number of swarms, sessions, concurrent spawns
and salvages, and any caps (assumption `RegistryConstants`: sessions are numbers,
as the election compares them), `SwarmRegistry_proofs` proves:

| Theorem | Property |
|---|---|
| `RegistrySafe` | `RegInv`, the inductive invariant |
| `RegistryTyped` | `TypeOK` |
| `CapsHold` | `WithinCaps` |
| `KeysAreIdempotent` | `OneWorkerPerKey` |
| `ShapesAreKept` | `ShapesNeverMix` |
| `LeaderIsUnique` | `OneLeader` |
| `EdgesMoved` | `EdgesMoveInside` |

*The argument.* The properties support each other; what they lack is the state of
calls in progress. `CallTold`: a slot belongs to a hierarchical swarm, so that a
confirmed worker cannot join a pair; of its parent nothing is said, as nobody looks
it up. `SessionsApart`: two calls never build the same session. `SalvageTold` and
`SeatTold`: a salvage works on, and a seat names, a member. `Tallied`: `admitted`
counts the members. `EdgesMoveInside` needs more of a salvage than that it works on a
member: between marking it and moving its children other locks are taken, and a
member once marked is never active again (a completion may make it finished, nothing
makes it active), which is the rest of `SalvageTold`; the new parent is an active
grandparent or the holder of the seat, hence a member. The sets of members and of slots are finite, which
`Cardinality` needs: each step adds one element at most.

### The hosted session

Of `SessionHost!Spec`, for **any** inputs, outside turns, Stops and queue capacity
(assumption `HostConstants`: the names of inputs, outside turns, the command and
the reaper differ), `SessionHost_proofs` proves:

| Theorem | Property |
|---|---|
| `HostSafe` | `HostInv`, the inductive invariant |
| `HostTyped` | `TypeOK` |
| `TokenIsTurns` | `TokenNamesTurn` |
| `Exclusion` | `WorkExcludes` |
| `StopReaches` | `StopMeansStop` |

*The argument.* `Holders` ties the runtime mutex and the token slot to the stages
of turns; a dropped turn has given up the mutex and may still be in the slot. `Queue` ties the follow-ups to the inputs that are queued, each once, and `Loop`
says that the loop runs exactly while one input is in hand, and excludes a command
and closing. `Reached` is what `StopMeansStop` needs: input in hand whose turn has
not begun is found in `starting`, or is doomed already; so a Stop finds it there, or
in the token slot. What a Stop covers and has not yet doomed is running, and the
Stop still has the token slot to look at.

### The stored session

Of `SessionOwnership!Spec`, for **any** processes, clones, claims, generations,
events and prunes (assumption `OwnershipConstants`: the names differ, each clone
belongs to one process's handle, and the absent holder `None` is not a lease
number), `SessionOwnership_proofs` proves:

| Theorem | Property |
|---|---|
| `OwnershipSafe` | `OwnInv`, the inductive invariant |
| `OwnershipTyped` | `TypeOK` |
| `SessionHasOneWriter` | `OneWriter` |
| `SessionHasOneOwner` | `OneOwner` |
| `HandOversAreFrozen` | `HandOverIsFrozen` |

*The argument.* `LockTold` reads the holder of the lock file off everybody's state,
`ClaimTold` ties a claim to admission, table, record and log. The crucial part is
`LeaseTold`: at most the latest lease is live, exactly while its claim is complete,
and no two runtimes remember the same one. A clone that looked a lease up earlier
therefore either finds it dead or belongs to the present owner (`CloneTold`), and
the mutex of the lease (`MutexTold`) and the death of the lease under that mutex
exclude the rest. A crash clears a process's part of all of them at once.

### What is only model-checked

Liveness (`Answers`, `RunEnds`, `AdmittedSettles`, `PairEnds`): fairness and
`ENABLED` are outside what the installed provers do. The four properties of
section 5 are false. `JoinSeesChildren` holds, and is proved, in light mode only: in
deep mode a join waits on the gate over its children and is given the gate's handoff.
Every other property of the runs is stated by a theorem.

## 5. Where the code and its documents disagree

Four runs are expected to end in a violation.

* `driver_stranded` (`NothingStranded`). A task that cannot be started is failed
  inside the fill loop, after the cascade of its round. With nothing in flight
  the loop ends there: dependents stay pending, the report says the plan did not
  settle, and they are not counted as abandoned. The comment at `driver.rs:109`
  promises that what is stranded is settled first.
* `driver_budget` (`BudgetOnlyDelays`). `driver.rs:39` says concurrency is also
  bounded by the swarm's budget, `registry.rs:50` that queuing refused spawns is
  the driver's job. The driver fails the task instead (its comment at line 137
  says so). With both defaults, 4 and 4, the coordinator occupies one slot and a
  fourth parallel task is failed for good. The swarm command avoids this by
  setting `max_active` to `concurrency + 1`.
* `registry_seat` (`SalvageVacatesSeat`). `salvage` reads `was_coordinator`
  before it marks the member departed. If another salvage elects that very member
  in between, it departs in the seat and nobody is elected. The doc comment of
  `salvage` says that racing sweeps do no harm.
* `registry_cycle` (`SpawnTreeAcyclic`). Children of a departed member whose own
  parent is gone are attached to the coordinator, which may be a descendant of
  theirs. Only the loop of length one is excluded, with a comment that cycles
  must not arise. In TLC's trace worker 3 is being built under the coordinator 1
  while a sweep marks 1 and moves its children, of which there are none yet; 3 is
  confirmed and spawns 2; the sweep's election chooses 2, the lowest active id; a
  second sweep, which had also found 1 stale, salvages it again and hands 3 to the
  coordinator 2, who reports to 3. Without any race it takes one step more: roots 1
  and 4, 3 under 4, 2 under 3; 1 departs and 2 is elected; 4 departs and 3 is handed
  to 2.

Two more disagreements are in `SessionHost`, where a passing property states them as
its exception.

* *A dead token in the slot.* `host.rs:130` says that the slot holds "the current
  turn's cancellation token, or `None` when idle", `host.rs:258` that "the slot
  always names the turn that actually holds the mutex". A worker's drive gets the
  runtime, publishes its token and runs; `worker_timeout` (`driver.rs:250`) drops it
  (`Drive`, `TakeRuntime`, `PublishToken`, `StartTurn`, `DropDrive`). The mutex is
  free and the slot names the dead turn. Until the next turn, `turn_in_flight` is
  true of an idle session: input that may not queue is refused as busy, commands are
  refused, and the reaper does not close the session. `TokenNamesTurn` allows this
  token and no other.
* *Input that a Stop misses.* `host.rs:402` says of `cancel_all` that queued work
  does not start the moment the cancelled turn ends. Input whose token another turn
  wiped from `starting` does (`forgotten`, section 2). `StopMeansStop` allows this
  input and no other.

Smaller observations, most of them also hazards in `PROJECT.json`: a batch with
gates of its own is answered differently when it is replayed; a second `run_plan`
over the same swarm would count its dispatches from zero and so repeat keys; a worker
whose task vanished before dispatch keeps its slot; `fail_node` may be refused in
the fill loop if the coordinator does not own the task; a refused `confirm` leaks
its reservation; a worker may be confirmed under a parent that has departed, or
that never was a member;
`exhausted` is reported also when the plan ended exactly at the ceiling; a rename between `release_transfer`'s comparison and the death of the
lease leaves the destination a session that differs from its manifest; a prune
that stops after removing a log leaves a released record whose tail is gone; a
daemon that has its lock file but not yet its socket is taken for dead.

## 6. Not modelled, and the plan

Done, in this order: `PlanOps`, `TaskGraph` and their proofs, `BatchCheck`,
`SwarmDriver`, `SwarmRegistry`; then `PairConverge`, `SessionHost` and
`SessionOwnership`; then proofs of all of them.

Proofs planned: what `PlanRefined` gives the driver, stated of the driver itself (a
deep run's gate completes only after the whole seed; ended tasks stay ended); action
properties of the hosted and the stored session (a closed admission never reopens,
generations only grow).

Candidates for further models: the daemon's acquisition of its endpoint; the
mailbox's lock files and journals; `SessionHost` composed with `PairConverge`
through `pair_endpoints.rs`; quota waits; patch apply and roll back.

Left out with a reason: a second `run_plan` over one swarm, because the swarm command
makes one per process; more than one Stop in the `host` run (that Stops may overlap
is covered by the theorem); `restore`, `remove` and the snapshot store of the swarm,
because nothing outside tests calls them; the event fanout, steering and
interventions of a host, which deliver what a broadcast channel or a queue holds.

Left out for good: transports, providers, the turn loop, tools and sandboxing,
terminal UI, rendering, indexing and configuration. They are I/O, text or data
types with little state of their own, and they are most of the repository: the
terminal UI, the command line, research and indexing alone are more than half of
its lines. The modelled files are the ones with shared state and more than one
actor, so the share of lines behind a definition is small and will stay so.
