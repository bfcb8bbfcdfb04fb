----------------------------- MODULE SwarmDriver -----------------------------
(****************************************************************************)
(* run_plan: the loop that hands a swarm's plan out to workers.  One step   *)
(* per acquisition of the registry's lock, since the driver awaits between  *)
(* them and others act in the gaps: a sweep that presumes a quiet worker    *)
(* dead (lifecycle.rs), and the plan's owner abandoning a task.             *)
(*                                                                          *)
(* Workers are numbered in the order in which the swarm admits them, the    *)
(* coordinator being 0: session ids are fresh and the driver never compares *)
(* them.  A worker's answer is reduced to whether it says anything.         *)
(****************************************************************************)
EXTENDS PlanOps

CONSTANTS
    Works,          \* the batches a plan file may seed
    Concurrency,    \* DriverConfig.concurrency
    MaxDispatches,  \* DriverConfig.max_dispatches
    MaxActive,      \* SwarmLimits.max_active; the coordinator counts
    MaxMembers,     \* SwarmLimits.max_members; the coordinator counts
    Meddled         \* the tasks the owner may abandon while the plan runs

Lead == 0
Workers == 1..(MaxMembers - 1)

ASSUME DriverConstants ==
    /\ Works \subseteq Seq(NodeSpec)
    /\ Concurrency \in Nat \ {0}
    /\ MaxDispatches \in Nat
    /\ MaxActive \in Nat \ {0}
    /\ MaxMembers \in Nat \ {0}
    /\ Actors = Workers \cup {Lead}

\* Plan files have some largest size.
ASSUME LongestWork ==
    \E longest \in Works : \A specs \in Works : Len(specs) <= Len(longest)

VARIABLES
    plan,       \* the swarm's plan
    member,     \* MemberStatus of every worker, "none" before it is admitted
    hosted,     \* workers whose session is being served
    keys,       \* settled_keys: <<task, sequence>> -> worker
    sweep,      \* what a concurrent sweep is doing, and to whom
    pc,         \* where run_plan is
    node,       \* the task being started or settled
    worker,     \* the worker it is started on or settled for
    answer,     \* what that worker answered: "text", "blank" or "none"
    flight,     \* in_flight: worker -> its task and what its turn has got to
    dispatched, exhausted   \* as in run_plan

vars == <<plan, member, hosted, keys, sweep, pc, node, worker, answer, flight,
          dispatched, exhausted>>

swarmVars == <<member, hosted, keys, sweep>>
loopVars == <<node, worker, answer, flight, dispatched, exhausted>>

Turns == [task : Nat \ {0}, phase : {"running", "text", "blank"}]

Init ==
    /\ plan = << >>
    /\ member = [w \in Workers |-> "none"]
    /\ hosted = {}
    /\ keys = << >>
    /\ sweep = [stage |-> "idle", who |-> Lead]
    /\ pc = "seed"
    /\ node = 0 /\ worker = Lead /\ answer = "none"
    /\ flight = << >>
    /\ dispatched = 0 /\ exhausted = FALSE

\* drive: the coordinator seeds the plan it owns, then runs it.
SeedPlan(specs) ==
    /\ pc = "seed"
    /\ ValidBatch(specs)
    /\ plan' = Seeded(plan, Lead, specs)
    /\ pc' = "cascade"
    /\ UNCHANGED <<swarmVars, loopVars>>

\* The top of the outer loop.  What the last round settled goes out of scope.
Cascade ==
    /\ pc = "cascade"
    /\ plan' = Cascaded(plan)
    /\ pc' = "fill"
    /\ node' = 0 /\ worker' = Lead /\ answer' = "none"
    /\ UNCHANGED <<swarmVars, flight, dispatched, exhausted>>

----------------------------------------------------------------------------
(* Filling the free places. *)

\* Mutant of Full: `>' for `>='.
FullOffByOne == Cardinality(DOMAIN flight) > Concurrency

Full == Cardinality(DOMAIN flight) >= Concurrency
Spent == dispatched >= MaxDispatches

\* next_ready: ready_nodes lists them in id order.
NextReady == CHOOSE n \in ReadyNodes(plan) : \A m \in ReadyNodes(plan) : n <= m

FillPick ==
    /\ pc = "fill"
    /\ ~Full /\ ~Spent
    /\ ReadyNodes(plan) # {}
    /\ node' = NextReady
    /\ pc' = "spawn"
    /\ UNCHANGED <<plan, swarmVars, worker, answer, flight, dispatched, exhausted>>

\* The inner loop ends; with nothing in flight the outer one does too.
FillStop ==
    /\ pc = "fill"
    /\ Full \/ Spent \/ ReadyNodes(plan) = {}
    /\ exhausted' = (exhausted \/ (~Full /\ Spent))
    /\ pc' = IF DOMAIN flight = {} THEN "reap" ELSE "await"
    /\ node' = 0 /\ worker' = Lead
    /\ UNCHANGED <<plan, swarmVars, answer, flight, dispatched>>

\* Mutant of Key: one key for all attempts at a task.
KeyPerTask == <<node, 0>>

\* The idempotency key: the task and the attempt.
Key == <<node, dispatched>>
Admitted == {w \in Workers : member[w] # "none"}
Active == {w \in Workers : member[w] = "active"}

\* check_caps for one more member; no reservation outlives a spawn.
MayAdmit ==
    /\ Cardinality(Admitted) + 1 < MaxMembers
    /\ Cardinality(Active) + 1 < MaxActive

\* spawn finds the key settled and answers its worker, or builds a new one.
Spawn ==
    /\ pc = "spawn"
    /\ IF Key \in DOMAIN keys
       THEN /\ worker' = keys[Key]
            /\ UNCHANGED swarmVars
       ELSE /\ MayAdmit
            /\ worker' = Cardinality(Admitted) + 1
            /\ member' = [member EXCEPT ![worker'] = "active"]
            /\ hosted' = hosted \cup {worker'}
            /\ keys' = [k \in DOMAIN keys \cup {Key} |->
                           IF k = Key THEN worker' ELSE keys[k]]
            /\ UNCHANGED sweep
    /\ pc' = "assign"
    /\ UNCHANGED <<plan, node, answer, flight, dispatched, exhausted>>

\* spawn fails: a cap is reached, the model is not available or not the one
\* asked for, or the session cannot be built.  The reservation is released.
SpawnFails ==
    /\ pc = "spawn"
    /\ Key \notin DOMAIN keys
    /\ pc' = "refuse"
    /\ UNCHANGED <<plan, swarmVars, loopVars>>

\* dispatch succeeds and the worker's turn goes in flight.
Assign ==
    /\ pc = "assign"
    /\ node \in ReadyNodes(plan)
    /\ plan' = Dispatched(plan, node, worker)
    /\ flight' = [w \in DOMAIN flight \cup {worker} |->
                     IF w = worker THEN [task |-> node, phase |-> "running"]
                     ELSE flight[w]]
    /\ dispatched' = dispatched + 1
    /\ pc' = "fill"
    /\ UNCHANGED <<swarmVars, node, worker, answer, exhausted>>

\* dispatch finds the task no longer ready; the new worker is left as it is.
AssignFails ==
    /\ pc = "assign"
    /\ node \notin ReadyNodes(plan)
    /\ pc' = "refuse"
    /\ UNCHANGED <<plan, swarmVars, loopVars>>

\* Mutant of Refuse: the frontier is left as it is.
RefuseNothing ==
    /\ pc = "refuse"
    /\ pc' = "fill"
    /\ UNCHANGED <<plan, swarmVars, loopVars>>

\* The task that could not be started is failed, if it has not ended already.
Refuse ==
    /\ pc = "refuse"
    /\ plan' = IF MayChange(plan, node, Lead) THEN Ended(plan, node, "failed") ELSE plan
    /\ pc' = "fill"
    /\ UNCHANGED <<swarmVars, loopVars>>

----------------------------------------------------------------------------
(* Waiting.  The futures in flight are polled only here. *)

\* The turn ends, its text is read and record_completion marks the member.
TurnEnds(w, phase) ==
    /\ pc = "await"
    /\ w \in DOMAIN flight /\ flight[w].phase = "running"
    /\ w \in hosted
    /\ flight' = [flight EXCEPT ![w].phase = phase]
    /\ member' = [member EXCEPT ![w] = "finished"]
    /\ UNCHANGED <<plan, hosted, keys, sweep, pc, node, worker, answer, dispatched,
                   exhausted>>

\* in_flight.next(): a future resolves, with an answer or by its timeout.
Resolve(w) ==
    /\ pc = "await"
    /\ w \in DOMAIN flight
    /\ \/ flight[w].phase # "running" /\ answer' = flight[w].phase
       \/ answer' = "none"
    /\ node' = flight[w].task
    /\ worker' = w
    /\ flight' = [v \in DOMAIN flight \ {w} |-> flight[v]]
    /\ pc' = "settle"
    /\ UNCHANGED <<plan, swarmVars, dispatched, exhausted>>

\* artifact_from: the text is the finding, the gap is always stated, and a
\* gate's evidence is what it waits on.
ArtifactFrom(p, n) ==
    [findings |-> TRUE, gaps |-> TRUE, validation |-> p[n].kind = "gate",
     evidence |-> p[n].kind = "gate" /\ p[n].upstream # {}]

\* Mutant of Acceptable: whoever answers may complete a task that is running.
AcceptableFromAnyone ==
    /\ answer = "text"
    /\ plan[node].status = "assigned"
    /\ AcceptableArtifact(plan[node].kind, ArtifactFrom(plan, node))

\* The answer says something and complete_node takes it.
Acceptable ==
    /\ answer = "text"
    /\ MayComplete(plan, node, worker)
    /\ AcceptableArtifact(plan[node].kind, ArtifactFrom(plan, node))

\* Mutant of Settle: a refused completion is dropped.
SettleDropping ==
    /\ pc = "settle"
    /\ IF Acceptable
       THEN plan' = Completed(plan, node) /\ pc' = "cascade"
       ELSE UNCHANGED plan /\ pc' = IF answer = "text" THEN "cascade" ELSE "salvage"
    /\ UNCHANGED <<swarmVars, loopVars>>

Settle ==
    /\ pc = "settle"
    /\ IF Acceptable
       THEN plan' = Completed(plan, node) /\ pc' = "cascade"
       ELSE UNCHANGED plan /\ pc' = "salvage"
    /\ UNCHANGED <<swarmVars, loopVars>>

\* salvage, first lock: the worker is marked departed, whatever it was.
MarkDeparted ==
    /\ pc = "salvage"
    /\ member' = [member EXCEPT ![worker] = "departed"]
    /\ pc' = "reclaim"
    /\ UNCHANGED <<plan, hosted, keys, sweep, loopVars>>

\* Mutants of Reclaim: no refill after a loss; the task is taken back by its
\* number, whoever holds it now.
ReclaimWithoutRefill ==
    /\ pc = "reclaim"
    /\ plan' = Salvaged(plan, Stranded(plan, worker))
    /\ pc' = IF DOMAIN flight = {} THEN "reap" ELSE "await"
    /\ UNCHANGED <<swarmVars, loopVars>>
ReclaimByTask ==
    /\ pc = "reclaim"
    /\ plan' = IF IsTerminal(plan, node) THEN plan ELSE Salvaged(plan, {node})
    /\ pc' = "cascade"
    /\ UNCHANGED <<swarmVars, loopVars>>

\* salvage, second lock: its tasks come back.
Reclaim ==
    /\ pc = "reclaim"
    /\ plan' = Salvaged(plan, Stranded(plan, worker))
    /\ pc' = "cascade"
    /\ UNCHANGED <<swarmVars, loopVars>>

----------------------------------------------------------------------------
(* The end of the run. *)

\* The counts are read for the report, which changes nothing, and reap_terminal
\* stops serving whoever is done; workers have no children of their own here.
Reap ==
    /\ pc = "reap"
    /\ hosted' = hosted \cap Active
    /\ pc' = "done"
    /\ UNCHANGED <<plan, member, keys, sweep, loopVars>>

----------------------------------------------------------------------------
(* Everybody else. *)

\* sweep reads the stale members, then salvages them one by one: three locks
\* for each.
SweepFinds(w) ==
    /\ sweep.stage = "idle"
    /\ w \in Active
    /\ sweep' = [stage |-> "found", who |-> w]
    /\ UNCHANGED <<plan, member, hosted, keys, pc, loopVars>>

SweepMarks ==
    /\ sweep.stage = "found"
    /\ sweep' = [sweep EXCEPT !.stage = "marked"]
    /\ member' = [member EXCEPT ![sweep.who] = "departed"]
    /\ UNCHANGED <<plan, hosted, keys, pc, loopVars>>

SweepReclaims ==
    /\ sweep.stage = "marked"
    /\ sweep' = [stage |-> "idle", who |-> Lead]
    /\ plan' = Salvaged(plan, Stranded(plan, sweep.who))
    /\ UNCHANGED <<member, hosted, keys, pc, loopVars>>

\* abandon_node by the plan's owner.
OwnerAbandons(n) ==
    /\ n \in Ids(plan) \cap Meddled
    /\ ~IsTerminal(plan, n)
    /\ plan[n].owner = Lead
    /\ plan' = Ended(plan, n, "abandoned")
    /\ UNCHANGED <<swarmVars, pc, loopVars>>

Driver ==
    \/ \E specs \in Works : SeedPlan(specs)
    \/ Cascade \/ FillPick \/ FillStop \/ Spawn \/ SpawnFails \/ Assign
    \/ AssignFails \/ Refuse \/ Settle \/ MarkDeparted \/ Reclaim \/ Reap
    \/ \E w \in Workers :
           Resolve(w) \/ \E phase \in {"text", "blank"} : TurnEnds(w, phase)

Others ==
    \/ \E w \in Workers : SweepFinds(w)
    \/ SweepMarks \/ SweepReclaims
    \/ \E n \in Meddled : OwnerAbandons(n)

Next == Driver \/ Others

\* The driver's task is polled while it can move, and a turn in flight ends or
\* runs into worker_timeout.  Nothing is assumed of the others.
Spec == Init /\ [][Next]_vars /\ WF_vars(Driver)

----------------------------------------------------------------------------
(* Properties. *)

\* Type invariant.
TypeOK ==
    /\ WellFormed(plan)
    /\ member \in [Workers -> {"none", "active", "finished", "departed"}]
    /\ hosted \subseteq Workers
    /\ \A k \in DOMAIN keys : keys[k] \in Workers
    /\ sweep \in [stage : {"idle", "found", "marked"}, who : Workers \cup {Lead}]
    /\ pc \in {"seed", "cascade", "fill", "spawn", "assign", "refuse", "await",
               "settle", "salvage", "reclaim", "reap", "done"}
    /\ node \in Nat /\ worker \in Workers \cup {Lead}
    /\ answer \in {"text", "blank", "none"}
    /\ DOMAIN flight \subseteq Admitted
    /\ Cardinality(DOMAIN flight) <= Concurrency
    /\ \A w \in DOMAIN flight : flight[w] \in Turns
    /\ dispatched \in 0..MaxDispatches
    /\ exhausted \in BOOLEAN

\* The task is being worked on by this worker, or its answer is being settled.
Attended(n, w) ==
    \/ w \in DOMAIN flight /\ flight[w].task = n
    \/ pc \in {"settle", "salvage", "reclaim"} /\ node = n /\ worker = w

\* No task is left assigned to a worker that nobody waits for: a refused
\* completion, a silent worker and a swept one all give the task back.
AssignedIsAttended ==
    \A n \in Ids(plan) : plan[n].status = "assigned" => Attended(n, plan[n].assignee)

\* "Each ready task gets a fresh worker": the key of a spawn was never used
\* before, so a retry after a salvage cannot be given the dead worker back.
FreshWorker == pc = "spawn" => Key \notin DOMAIN keys

\* A run that was not cut off by its dispatch ceiling stops only when nothing
\* is assigned and nothing is ready.
StopsWhenIdle ==
    pc = "done" /\ ~exhausted =>
        /\ ReadyNodes(plan) = {}
        /\ \A n \in Ids(plan) : plan[n].status # "assigned"

\* No task is taken back more often than it was handed out, so one lost worker
\* costs a task one of its ReclaimLimit tries even when the driver and a sweep
\* both salvage it.
ReclaimsAreLosses ==
    \A n \in Ids(plan) :
        plan[n].reclaims <= Cardinality({k \in DOMAIN keys : k[1] = n})

\* The run comes to an end: every worker lost, every spawn refused and every
\* task reopened brings it nearer.
RunEnds == <>(pc = "done")

\* The largest plan a seed makes.
PlanSize == 1 + (CHOOSE k \in {Len(specs) : specs \in Works} :
                    \A specs \in Works : Len(specs) <= k)
Batch == Len(plan) - (IF Deep THEN 1 ELSE 0)
Shared ==
    INSTANCE TaskGraph WITH
        Keys <- {"seed"}, Batches <- Works, MaxNodes <- PlanSize, joins <- << >>,
        seeds <- IF plan = << >> THEN << >>
                 ELSE [k \in {"seed"} |->
                          [produced |-> 1..Len(plan),
                           reply |-> [nodes |-> 1..Batch,
                                      gate |-> IF Deep THEN Batch + 1 ELSE 0]]]

\* A task that is being worked on changes only by an answer of the worker that
\* holds it, by the loss of that worker, or because the owner gives it up.
HoldersKept ==
    \A n \in Ids(plan) :
        plan[n].status = "assigned" /\ plan'[n] # plan[n] =>
            \/ /\ plan'[n].status = "complete"
               /\ pc = "settle" /\ answer = "text" /\ node = n /\ worker = plan[n].assignee
            \/ /\ plan'[n].status \in {"pending", "failed"}
               /\ \/ pc = "reclaim" /\ worker = plan[n].assignee
                  \/ sweep.stage = "marked" /\ sweep.who = plan[n].assignee
            \/ plan'[n].status = "abandoned" /\ n \in Meddled

\* Whatever the interleaving, the plan only changes by operations that the task
\* graph allows at that moment, and made by the right one: no late answer and no
\* second salvage completes, fails or requeues a task that has meanwhile gone to
\* another worker or ended.
PlanIsShared == Shared!Init /\ [][Shared!Next /\ HoldersKept]_(Shared!vars)

\* Nothing is left waiting when the run is over: whatever is stranded behind a
\* bad end was written off, so that the report says settled and counts it.
NothingStranded == pc = "done" => BlockedNodes(plan) = {}

\* The swarm's budget only bounds how many workers run: while all of its slots
\* are taken by workers that are in flight, no waiting task is failed.
BudgetOnlyDelays ==
    [][Refuse /\ DOMAIN flight # {} /\ Active = DOMAIN flight /\ ~MayAdmit
           /\ Cardinality(Admitted) + 1 < MaxMembers
       => plan' = plan]_vars

=============================================================================
