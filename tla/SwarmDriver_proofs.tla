------------------------- MODULE SwarmDriver_proofs -------------------------
(****************************************************************************)
(* run_plan keeps its promises for any plan, any number of workers and any  *)
(* limits, whatever sweeps and the plan's owner do between its steps.       *)
(****************************************************************************)
EXTENDS SwarmDriver, PlanOps_proofs, FiniteSetTheorems, WellFoundedInduction

\* The plan that one coordinator owns.
Sound(p) ==
    /\ WellFormed(p) /\ HasInputs(p) /\ IsAcyclic(p)
    /\ \A n \in Ids(p) : p[n].owner = Lead

\* The plan is sound, and not there before it is seeded.
PlanTold == Sound(plan) /\ (pc = "seed" => plan = << >>)

\* The types of the driver's own state.
Typed ==
    /\ member \in [Workers -> {"none", "active", "finished", "departed"}]
    /\ hosted \subseteq Workers
    /\ sweep \in [stage : {"idle", "found", "marked"}, who : Workers \cup {Lead}]
    /\ pc \in {"seed", "cascade", "fill", "spawn", "assign", "refuse", "await",
               "settle", "salvage", "reclaim", "reap", "done"}
    /\ node \in Nat /\ worker \in Workers \cup {Lead}
    /\ answer \in {"text", "blank", "none"}
    /\ \A w \in DOMAIN flight : flight[w] \in Turns
    /\ exhausted \in BOOLEAN

\* Workers are admitted one after the other; only admitted ones are waited for
\* and swept.
MembersTold ==
    /\ \E a \in 0..(MaxMembers - 1) : Admitted = 1..a
    /\ DOMAIN flight \subseteq Admitted
    /\ pc \in {"assign", "settle", "salvage", "reclaim"} => worker \in Admitted
    /\ sweep.stage # "idle" => sweep.who \in Admitted

\* A task is started only while there is a place and a dispatch left, on a
\* worker that is not in flight, and is held by nobody until then.
PlacesTold ==
    /\ IsFiniteSet(DOMAIN flight) /\ Cardinality(DOMAIN flight) <= Concurrency
    /\ dispatched \in 0..MaxDispatches
    /\ pc \in {"spawn", "assign"} =>
           Cardinality(DOMAIN flight) < Concurrency /\ dispatched < MaxDispatches
    /\ pc = "assign" => worker \notin DOMAIN flight
    /\ pc \in {"spawn", "assign", "refuse"} =>
           node \in Ids(plan) /\ plan[node].status # "assigned"

\* A key belongs to a dispatch that has been made, or to a task that could not
\* be handed out and has ended or is about to.
KeyTold(k) ==
    /\ k \in (Nat \X Nat) /\ k[2] <= dispatched
    /\ k[2] = dispatched =>
           \/ k[1] \in Ids(plan) /\ IsTerminal(plan, k[1])
           \/ pc \in {"assign", "refuse"} /\ k[1] = node

\* A spawn is made under a new key, which the dispatch then finds settled.
KeysTold ==
    /\ IsFiniteSet(DOMAIN keys)
    /\ \A k \in DOMAIN keys : keys[k] \in Workers /\ KeyTold(k)
    /\ pc = "spawn" => Key \notin DOMAIN keys
    /\ pc = "assign" => Key \in DOMAIN keys

\* What a task has cost so far: reclaims, and the hand-out that is still open.
Held(node_) == IF node_.status = "assigned" THEN 1 ELSE 0
Tries(n) == {k \in DOMAIN keys : k[1] = n /\ k[2] < dispatched}
LossesTold == \A n \in Ids(plan) : plan[n].reclaims + Held(plan[n]) <= Cardinality(Tries(n))

\* The loop ends with nothing in flight and, unless it was cut off, nothing to do.
IdleTold ==
    pc \in {"reap", "done"} =>
        DOMAIN flight = {} /\ (exhausted \/ ReadyNodes(plan) = {})

\* The inductive invariant.
DriverInv ==
    /\ PlanTold /\ Typed /\ MembersTold /\ PlacesTold /\ KeysTold /\ LossesTold
    /\ AssignedIsAttended /\ IdleTold
----------------------------------------------------------------------------
(* What the operations of the plan do, as the driver uses them. *)

\* q is p after an operation that leaves the graph alone.
Quiet(p, q) ==
    /\ DOMAIN q = Ids(p) /\ q = [i \in Ids(p) |-> q[i]]
    /\ \A n \in Ids(p) : LegalChange(p, n, q[n])

\* ... and that hands nothing out: what it takes back costs one try.
Calm(p, q) ==
    /\ Quiet(p, q)
    /\ \A n \in Ids(p) :
           /\ q[n].status = "assigned" => p[n].status = "assigned" /\ q[n].assignee = p[n].assignee
           /\ q[n].reclaims + Held(q[n]) <= p[n].reclaims + Held(p[n])

\* Such an operation keeps the plan sound, its ids, and what has ended.
LEMMA QuietKeeps ==
  ASSUME NEW p, Sound(p), NEW q, Quiet(p, q)
  PROVE  /\ Sound(q) /\ Ids(q) = Ids(p) /\ Len(q) = Len(p)
         /\ \A n \in Ids(p) : IsTerminal(p, n) => IsTerminal(q, n)
<1>1. Len(q) = Len(p) /\ Ids(q) = Ids(p) /\ WellFormed(q) /\ HasInputs(q) /\ IsAcyclic(q)
  BY StatusesPreserve DEF Sound, Quiet
<1>2. \A n \in Ids(p) : q[n].owner = Lead
  BY DEF Sound, Quiet, LegalChange
<1>3. \A n \in Ids(p) : IsTerminal(p, n) => IsTerminal(q, n)
  BY DEF Quiet, LegalChange, IsTerminal
<1> QED  BY <1>1, <1>2, <1>3 DEF Sound

\* What a sound plan is made of.
LEMMA SoundParts ==
  ASSUME NEW p, Sound(p)
  PROVE  /\ WellFormed(p) /\ DOMAIN p = Ids(p) /\ Len(p) \in Nat /\ p = [i \in Ids(p) |-> p[i]]
         /\ \A n \in Ids(p) :
                /\ p[n] \in Node /\ p[n].reclaims \in Nat
                /\ p[n].status = "assigned" <=> p[n].assignee # NoActor
<1>1. WellFormed(p) /\ p \in Seq(Node)
  BY DEF Sound, WellFormed, Plan
<1>2. DOMAIN p = Ids(p) /\ Len(p) \in Nat /\ p = [i \in Ids(p) |-> p[i]]
  BY <1>1 DEF Ids
<1>3. \A n \in Ids(p) : p[n] \in Node
  BY <1>1 DEF Ids
<1>4. \A x \in Node : x.reclaims \in Nat
  BY DEF Node
<1> QED  BY <1>1, <1>2, <1>3, <1>4 DEF WellFormed

\* Nothing changes.
LEMMA SameIsCalm ==
  ASSUME NEW p, Sound(p)
  PROVE  Calm(p, p)
<1>1. Quiet(p, p)
  BY SoundParts, SameIsLegal DEF Quiet
<1>2. \A n \in Ids(p) : p[n].reclaims + Held(p[n]) <= p[n].reclaims + Held(p[n])
  BY SoundParts DEF Held
<1> QED  BY <1>1, <1>2 DEF Calm

\* One task changes, for good.
LEMMA OneIsCalm ==
  ASSUME NEW p, Sound(p), NEW n \in Ids(p), NEW q, DOMAIN q = Ids(p),
         q = [i \in Ids(p) |-> q[i]], \A i \in Ids(p) : i # n => q[i] = p[i],
         LegalChange(p, n, q[n]), q[n].status # "assigned", q[n].reclaims = p[n].reclaims
  PROVE  Calm(p, q)
<1>1. Quiet(p, q)
  BY SoundParts, SameIsLegal DEF Quiet
<1>2. ASSUME NEW i \in Ids(p)
      PROVE  /\ q[i].status = "assigned" => p[i].status = "assigned" /\ q[i].assignee = p[i].assignee
             /\ q[i].reclaims + Held(q[i]) <= p[i].reclaims + Held(p[i])
  <2>1. CASE i = n
    BY <2>1, SoundParts DEF Held
  <2>2. CASE i # n
    BY <2>2, SoundParts DEF Held
  <2> QED  BY <2>1, <2>2
<1> QED  BY <1>1, <1>2 DEF Calm

\* complete_node, fail_node and abandon_node.
LEMMA EndingIsCalm ==
  ASSUME NEW p, Sound(p), NEW n \in Ids(p), ~IsTerminal(p, n)
  PROVE  /\ p[n].status = "assigned" => Calm(p, Completed(p, n))
         /\ \A status \in BadEnd : Calm(p, Ended(p, n, status))
<1>0. WellFormed(p) /\ DOMAIN p = Ids(p) /\ p[n] \in Node
  BY SoundParts
<1>1. ASSUME p[n].status = "assigned" PROVE Calm(p, Completed(p, n))
  <2>1. LegalChange(p, n, Completed(p, n)[n])
    BY <1>0, <1>1, RunningIsLegal
  <2>2. /\ DOMAIN Completed(p, n) = Ids(p)
        /\ Completed(p, n) = [i \in Ids(p) |-> Completed(p, n)[i]]
        /\ \A i \in Ids(p) : i # n => Completed(p, n)[i] = p[i]
    BY <1>0 DEF Completed
  <2>3. Completed(p, n)[n].status # "assigned" /\ Completed(p, n)[n].reclaims = p[n].reclaims
    BY <1>0 DEF Completed, Node
  <2> QED  BY <2>1, <2>2, <2>3, OneIsCalm
<1>2. ASSUME NEW status \in BadEnd PROVE Calm(p, Ended(p, n, status))
  <2>1. LegalChange(p, n, Ended(p, n, status)[n])
    BY <1>0, RunningIsLegal
  <2>2. /\ DOMAIN Ended(p, n, status) = Ids(p)
        /\ Ended(p, n, status) = [i \in Ids(p) |-> Ended(p, n, status)[i]]
        /\ \A i \in Ids(p) : i # n => Ended(p, n, status)[i] = p[i]
    BY <1>0 DEF Ended
  <2>3. /\ Ended(p, n, status)[n].status # "assigned"
        /\ Ended(p, n, status)[n].reclaims = p[n].reclaims
    BY <1>0 DEF Ended, Node, BadEnd
  <2> QED  BY <2>1, <2>2, <2>3, OneIsCalm
<1> QED  BY <1>1, <1>2

\* salvage_actor: each task it takes back was handed out, and the hand-out is
\* turned into one reclaim.
LEMMA SalvageIsCalm ==
  ASSUME NEW p, Sound(p), NEW actor \in Actors
  PROVE  /\ Calm(p, Salvaged(p, Stranded(p, actor)))
         /\ \A n \in Ids(p) : Salvaged(p, Stranded(p, actor))[n].status = "assigned" =>
                p[n].assignee # actor
<1>0. WellFormed(p) /\ DOMAIN p = Ids(p)
  BY SoundParts
<1> DEFINE q == Salvaged(p, Stranded(p, actor))
<1>1. /\ DOMAIN q = Ids(p) /\ q = [i \in Ids(p) |-> q[i]]
      /\ \A i \in Ids(p) : q[i] = IF i \in Stranded(p, actor) THEN SalvagedNode(p[i]) ELSE p[i]
  BY DEF Salvaged
<1> HIDE DEF q
<1>2. \A i \in Stranded(p, actor) : ~IsTerminal(p, i) /\ p[i].assignee = actor /\ i \in Ids(p)
  BY DEF Stranded
<1>3. Quiet(p, q)
  BY <1>0, <1>1, <1>2, SalvageIsLegal, SameIsLegal DEF Quiet
<1>4. ASSUME NEW n \in Ids(p)
      PROVE  /\ q[n].status = "assigned" => p[n].status = "assigned" /\ q[n].assignee = p[n].assignee
             /\ q[n].reclaims + Held(q[n]) <= p[n].reclaims + Held(p[n])
             /\ q[n].status = "assigned" => p[n].assignee # actor
  <2>0. /\ p[n] \in Node /\ p[n].reclaims \in Nat
        /\ p[n].status = "assigned" <=> p[n].assignee # NoActor
    BY SoundParts
  <2>1. CASE n \in Stranded(p, actor)
    <3>1. p[n].status = "assigned"
      BY <1>2, <2>0, <2>1, PlanConstants
    <3>2. q[n] = SalvagedNode(p[n]) /\ ReclaimLimit \in Nat
      BY <1>1, <2>1, PlanConstants
    <3>3. /\ SalvagedNode(p[n]).status # "assigned"
          /\ SalvagedNode(p[n]).reclaims \in {p[n].reclaims, p[n].reclaims + 1}
      BY <2>0, <3>2 DEF SalvagedNode, Node
    <3> QED  BY <2>0, <3>1, <3>2, <3>3 DEF Held
  <2>2. CASE n \notin Stranded(p, actor)
    <3>1. q[n] = p[n]
      BY <1>1, <2>2
    <3>2. p[n].status = "assigned" => p[n].assignee # actor
      BY <2>2 DEF Stranded, IsTerminal, Terminal, BadEnd
    <3> QED  BY <2>0, <3>1, <3>2 DEF Held
  <2> QED  BY <2>1, <2>2
<1>5. Calm(p, q) /\ \A n \in Ids(p) : q[n].status = "assigned" => p[n].assignee # actor
  BY <1>3, <1>4 DEF Calm
<1> QED  BY <1>5 DEF q

\* cascade_blocked writes pending tasks off.
LEMMA CascadeIsCalm ==
  ASSUME NEW p, Sound(p)
  PROVE  Calm(p, Cascaded(p))
<1>0. WellFormed(p)
  BY SoundParts
<1>1. Quiet(p, Cascaded(p))
  BY <1>0, CascadeExact DEF Quiet
<1>2. ASSUME NEW n \in Ids(p)
      PROVE  /\ Cascaded(p)[n].status = "assigned" =>
                    p[n].status = "assigned" /\ Cascaded(p)[n].assignee = p[n].assignee
             /\ Cascaded(p)[n].reclaims + Held(Cascaded(p)[n]) <= p[n].reclaims + Held(p[n])
  <2>0. p[n] \in Node /\ p[n].reclaims \in Nat
    BY SoundParts
  <2>1. CASE n \in Doomed(p)
    <3>1. Cascaded(p)[n] = [p[n] EXCEPT !.status = "abandoned"] /\ p[n].status = "pending"
      BY <1>0, <2>1, DoomedIsExact DEF Cascaded
    <3> QED  BY <2>0, <3>1 DEF Held, Node
  <2>2. CASE n \notin Doomed(p)
    <3>1. Cascaded(p)[n] = p[n]
      BY <2>2 DEF Cascaded
    <3> QED  BY <2>0, <3>1 DEF Held
  <2> QED  BY <2>1, <2>2
<1> QED  BY <1>1, <1>2 DEF Calm

\* dispatch hands one ready task out.
LEMMA DispatchIsQuiet ==
  ASSUME NEW p, Sound(p), NEW n \in ReadyNodes(p), NEW actor \in Actors
  PROVE  /\ Quiet(p, Dispatched(p, n, actor))
         /\ \A i \in Ids(p) : i # n => Dispatched(p, n, actor)[i] = p[i]
         /\ n \in Ids(p) /\ p[n].status = "pending"
         /\ Dispatched(p, n, actor)[n].assignee = actor
         /\ Dispatched(p, n, actor)[n].reclaims = p[n].reclaims
         /\ Held(Dispatched(p, n, actor)[n]) = 1 /\ Held(p[n]) = 0
<1>0. WellFormed(p) /\ DOMAIN p = Ids(p)
  BY SoundParts
<1>1. n \in Ids(p) /\ IsReady(p, n) /\ p[n].status = "pending" /\ ~IsTerminal(p, n) /\ p[n] \in Node
  BY SoundParts DEF ReadyNodes, IsReady, IsTerminal, Terminal, BadEnd
<1>2. LegalChange(p, n, Dispatched(p, n, actor)[n])
  BY <1>0, <1>1, RunningIsLegal
<1>3. /\ DOMAIN Dispatched(p, n, actor) = Ids(p)
      /\ Dispatched(p, n, actor) = [i \in Ids(p) |-> Dispatched(p, n, actor)[i]]
      /\ \A i \in Ids(p) : i # n => Dispatched(p, n, actor)[i] = p[i]
      /\ Dispatched(p, n, actor)[n] = [p[n] EXCEPT !.status = "assigned", !.assignee = actor]
  BY <1>0, <1>1 DEF Dispatched
<1>4. Quiet(p, Dispatched(p, n, actor))
  BY <1>0, <1>1, <1>2, <1>3, SameIsLegal DEF Quiet
<1>5. /\ Dispatched(p, n, actor)[n].assignee = actor
      /\ Dispatched(p, n, actor)[n].reclaims = p[n].reclaims
      /\ Dispatched(p, n, actor)[n].status = "assigned"
  BY <1>1, <1>3 DEF Node
<1> QED  BY <1>1, <1>3, <1>4, <1>5 DEF Held

\* seed, for a plan that has nothing in it yet.
LEMMA SeedIsSound ==
  ASSUME NEW specs \in Seq(NodeSpec), ValidBatch(specs)
  PROVE  /\ Sound(Seeded(<< >>, Lead, specs))
         /\ \A n \in Ids(Seeded(<< >>, Lead, specs)) :
                /\ Seeded(<< >>, Lead, specs)[n].reclaims = 0
                /\ Seeded(<< >>, Lead, specs)[n].status = "pending"
         /\ Len(Seeded(<< >>, Lead, specs)) = Len(specs) + (IF Deep THEN 1 ELSE 0)
         /\ Len(specs) \in Nat \ {0}
<1> DEFINE p == << >>
           b == InsertBatch(p, Lead, specs, {})
           q == Seeded(p, Lead, specs)
<1>0. /\ p \in Plan /\ Len(p) = 0 /\ Ids(p) = {} /\ Lead \in Actors /\ Deep \in BOOLEAN
      /\ {} \in SUBSET Ids(p) /\ Len(specs) \in Nat \ {0} /\ specs \in Seq(NodeSpec)
  BY DriverConstants, PlanConstants DEF Plan, Ids, ValidBatch
<1>1. WellFormed(p) /\ HasInputs(p) /\ IsAcyclic(p)
  BY <1>0 DEF WellFormed, HasInputs, IsAcyclic
<1> HIDE DEF p
<1>2. Grown(p, q, {})
  BY <1>0, ReviewedGrows DEF Seeded
<1>3. WellFormed(q) /\ HasInputs(q) /\ IsAcyclic(q)
  <2> HIDE DEF q
  <2> QED  BY <1>0, <1>1, <1>2, GrownPreserves
<1>4. Len(b) = Len(specs) /\ b \in Plan
  BY <1>0, BatchGrows, InsertBatchShape
<1>5. \A n \in 1..Len(specs) : b[n].owner = Lead
  BY <1>0 DEF InsertBatch, NewNode
<1> HIDE DEF b
<1>6. ASSUME Deep PROVE Len(q) = Len(specs) + 1 /\ \A n \in Ids(q) : q[n].owner = Lead
  <2>1. q = [i \in 1..(Len(specs) + 1) |-> IF i <= Len(specs) THEN b[i]
                 ELSE NewNode("gate", Lead, BatchIds(p, Len(specs)))]
    BY <1>4, <1>6 DEF Seeded, InsertReviewed, AppendGate, b
  <2> HIDE DEF q
  <2>2. Len(q) = Len(specs) + 1
    BY <1>0, <2>1
  <2>3. \A n \in 1..(Len(specs) + 1) : q[n].owner = Lead
    BY <1>0, <1>5, <2>1 DEF NewNode
  <2> QED  BY <1>6, <2>2, <2>3 DEF Ids
<1>7. ASSUME ~Deep PROVE Len(q) = Len(specs) /\ \A n \in Ids(q) : q[n].owner = Lead
  <2>1. q = b
    BY <1>7 DEF Seeded, InsertReviewed, b
  <2> HIDE DEF q
  <2> QED  BY <1>0, <1>4, <1>5, <1>7, <2>1 DEF Ids
<1>8. \A n \in Ids(q) : q[n].owner = Lead
  <2> HIDE DEF q
  <2> QED  BY <1>6, <1>7
<1>9. \A n \in Ids(q) : q[n].reclaims = 0 /\ q[n].status = "pending"
  <2> HIDE DEF q
  <2>1. \A n \in Ids(q) : n \in NewIds(p, q)
    BY <1>0 DEF Ids, NewIds
  <2> QED  BY <1>2, <2>1 DEF Grown, IsFresh
<1>10. Len(q) = Len(specs) + (IF Deep THEN 1 ELSE 0)
  BY <1>6, <1>7
<1> QED  BY <1>0, <1>3, <1>8, <1>9, <1>10 DEF Sound, p
----------------------------------------------------------------------------
(* The steps of the driver and of the others, one part of the invariant at a
   time. *)

\* An empty plan is sound.
LEMMA EmptyIsSound == Sound(<< >>)
<1>1. << >> \in Plan /\ Ids(<< >>) = {}
  BY DEF Plan, Ids
<1> QED  BY <1>1 DEF Sound, WellFormed, HasInputs, IsAcyclic

\* The invariant holds at the start.
LEMMA DriverInit == Init => DriverInv
<1> SUFFICES ASSUME Init PROVE DriverInv
  OBVIOUS
<1>0. /\ plan = << >> /\ Ids(plan) = {} /\ DOMAIN flight = {} /\ DOMAIN keys = {}
      /\ MaxMembers \in Nat \ {0} /\ Concurrency \in Nat \ {0} /\ MaxDispatches \in Nat
  BY DriverConstants DEF Init, Ids
<1>1. PlanTold
  BY <1>0, EmptyIsSound DEF PlanTold
<1>2. Typed
  BY <1>0 DEF Init, Typed
<1>3. MembersTold
  <2>1. Admitted = {}
    BY DEF Init, Admitted
  <2>2. Admitted = 1..0 /\ 0 \in 0..(MaxMembers - 1)
    BY <1>0, <2>1
  <2> QED  BY <1>0, <2>2 DEF Init, MembersTold
<1>4. PlacesTold
  BY <1>0, FS_EmptySet DEF Init, PlacesTold
<1>5. KeysTold /\ LossesTold
  BY <1>0, FS_EmptySet DEF Init, KeysTold, LossesTold
<1>6. AssignedIsAttended /\ IdleTold
  BY <1>0 DEF Init, AssignedIsAttended, IdleTold
<1> QED  BY <1>1, <1>2, <1>3, <1>4, <1>5, <1>6 DEF DriverInv

\* Apart from the seed and the dispatch, a step leaves the plan alone, ends
\* tasks or takes them back.
LEMMA PlanMoves ==
  ASSUME DriverInv, [Next]_vars
  PROVE  \/ \E specs \in Works : SeedPlan(specs)
         \/ Assign
         \/ Calm(plan, plan')
<1>0. /\ Sound(plan) /\ Typed /\ worker \in Actors /\ sweep.who \in Actors
      /\ NoActor \notin Actors
  BY DriverConstants, PlanConstants DEF DriverInv, PlanTold, Typed
<1>1. CASE UNCHANGED plan
  BY <1>0, <1>1, SameIsCalm
<1>2. CASE Cascade
  BY <1>0, <1>2, CascadeIsCalm DEF Cascade
<1>3. CASE Refuse
  <2>1. CASE MayChange(plan, node, Lead)
    BY <1>0, <1>3, <2>1, EndingIsCalm DEF Refuse, MayChange, BadEnd
  <2>2. CASE ~MayChange(plan, node, Lead)
    BY <1>0, <1>1, <1>3, <2>2 DEF Refuse
  <2> QED  BY <2>1, <2>2
<1>4. CASE Settle
  <2>1. CASE Acceptable
    <3>1. node \in Ids(plan) /\ ~IsTerminal(plan, node) /\ plan[node].status = "assigned"
      BY <1>0, <2>1, SoundParts DEF Acceptable, MayComplete
    <3> QED  BY <1>0, <1>4, <2>1, <3>1, EndingIsCalm DEF Settle
  <2>2. CASE ~Acceptable
    BY <1>0, <1>1, <1>4, <2>2 DEF Settle
  <2> QED  BY <2>1, <2>2
<1>5. CASE Reclaim \/ SweepReclaims
  BY <1>0, <1>5, SalvageIsCalm DEF Reclaim, SweepReclaims
<1>6. CASE \E n \in Meddled : OwnerAbandons(n)
  BY <1>0, <1>6, EndingIsCalm DEF OwnerAbandons, BadEnd
<1> QED  BY <1>1, <1>2, <1>3, <1>4, <1>5, <1>6
         DEF Next, Driver, Others, vars, FillPick, FillStop, Spawn, SpawnFails, AssignFails,
             MarkDeparted, Reap, Resolve, TurnEnds, SweepFinds, SweepMarks

\* dispatch by the driver.
LEMMA AssignMoves ==
  ASSUME DriverInv, Assign
  PROVE  /\ Quiet(plan, plan') /\ node \in Ids(plan) /\ worker \in Actors
         /\ \A i \in Ids(plan) : i # node => plan'[i] = plan[i]
         /\ plan[node].status = "pending" /\ plan'[node].assignee = worker
         /\ plan'[node].reclaims = plan[node].reclaims
         /\ Held(plan'[node]) = 1 /\ Held(plan[node]) = 0
<1>0. Sound(plan) /\ worker \in Actors /\ node \in ReadyNodes(plan)
      /\ plan' = Dispatched(plan, node, worker)
  BY DriverConstants DEF DriverInv, PlanTold, Typed, Assign
<1> QED  BY <1>0, DispatchIsQuiet

\* The plan stays sound; after the seed it keeps its tasks and what has ended.
LEMMA PlanStep ==
  ASSUME DriverInv, [Next]_vars
  PROVE  /\ PlanTold'
         /\ pc # "seed" => /\ Ids(plan') = Ids(plan) /\ Len(plan') = Len(plan)
                           /\ \A n \in Ids(plan) : IsTerminal(plan, n) => IsTerminal(plan', n)
<1>0. Sound(plan) /\ (pc = "seed" => plan = << >>)
  BY DEF DriverInv, PlanTold
<1>1. CASE \E specs \in Works : SeedPlan(specs)
  <2>1. PICK specs \in Works : SeedPlan(specs)
    BY <1>1
  <2>2. specs \in Seq(NodeSpec) /\ ValidBatch(specs) /\ plan' = Seeded(<< >>, Lead, specs)
        /\ pc = "seed" /\ pc' = "cascade"
    BY <1>0, <2>1, DriverConstants DEF SeedPlan
  <2> QED  BY <2>2, SeedIsSound DEF PlanTold
<1>2. ASSUME Quiet(plan, plan'), pc' = "seed" => pc = "seed"
      PROVE  /\ PlanTold'
             /\ Ids(plan') = Ids(plan) /\ Len(plan') = Len(plan)
             /\ \A n \in Ids(plan) : IsTerminal(plan, n) => IsTerminal(plan', n)
  <2>1. /\ Sound(plan') /\ Ids(plan') = Ids(plan) /\ Len(plan') = Len(plan)
        /\ \A n \in Ids(plan) : IsTerminal(plan, n) => IsTerminal(plan', n)
    BY <1>0, <1>2, QuietKeeps
  <2>2. pc' = "seed" => plan' = << >>
    <3>1. plan' \in Seq(Node)
      BY <2>1 DEF Sound, WellFormed, Plan
    <3>2. pc' = "seed" => Len(plan') = 0
      BY <1>0, <1>2, <2>1
    <3> QED  BY <3>1, <3>2
  <2> QED  BY <2>1, <2>2 DEF PlanTold
<1>3. CASE Assign
  BY <1>2, <1>3, AssignMoves DEF Assign
<1>4. CASE Calm(plan, plan')
  <2>1. pc' = "seed" => pc = "seed"
    BY DEF Next, Driver, Others, vars, SeedPlan, Cascade, FillPick, FillStop, Spawn,
           SpawnFails, Assign, AssignFails, Refuse, Settle, MarkDeparted, Reclaim, Reap,
           Resolve, TurnEnds, SweepFinds, SweepMarks, SweepReclaims, OwnerAbandons
  <2> QED  BY <1>2, <1>4, <2>1 DEF Calm
<1> QED  BY <1>1, <1>3, <1>4, PlanMoves

\* A set of numbers that is not empty has a least one.
LEMMA LeastOfSet ==
  ASSUME NEW S \in SUBSET Nat, S # {}
  PROVE  \E s \in S : \A t \in S : s <= t
<1>1. IsWellFoundedOn(OpToRel(<, Nat), Nat)
  BY NatLessThanWellFounded
<1>2. PICK s \in S : \A t \in S : <<t, s>> \notin OpToRel(<, Nat)
  BY <1>1, WFMin
<1>3. \A t \in S : ~ (t < s)
  BY <1>2 DEF OpToRel
<1> QED  BY <1>3

\* next_ready finds a ready task when there is one.
LEMMA NextReadyIsReady ==
  ASSUME ReadyNodes(plan) # {}
  PROVE  NextReady \in ReadyNodes(plan)
<1>1. ReadyNodes(plan) \in SUBSET Nat
  BY DEF ReadyNodes, Ids
<1>2. \E s \in ReadyNodes(plan) : \A t \in ReadyNodes(plan) : s <= t
  BY <1>1, LeastOfSet
<1> QED  BY <1>2 DEF NextReady

\* The worker that a spawn admits is the next one.
LEMMA SpawnTold ==
  ASSUME DriverInv, Spawn
  PROVE  \E a \in 0..(MaxMembers - 1) :
             /\ Admitted = 1..a /\ a + 1 \in 0..(MaxMembers - 1) /\ worker' = a + 1
             /\ a + 1 \in Workers
             /\ member' = [member EXCEPT ![a + 1] = "active"] /\ hosted' = hosted \cup {a + 1}
             /\ DOMAIN keys' = DOMAIN keys \cup {Key} /\ keys'[Key] = a + 1
             /\ \A k \in DOMAIN keys : keys'[k] = keys[k]
             /\ UNCHANGED <<sweep, plan, node, answer, flight, dispatched, exhausted>>
             /\ Key \notin DOMAIN keys /\ pc = "spawn" /\ pc' = "assign"
<1>1. Key \notin DOMAIN keys /\ MaxMembers \in Nat \ {0}
  BY DriverConstants DEF DriverInv, KeysTold, Spawn
<1>2. /\ MayAdmit /\ worker' = Cardinality(Admitted) + 1
      /\ member' = [member EXCEPT ![worker'] = "active"]
      /\ hosted' = hosted \cup {worker'}
      /\ keys' = [k \in DOMAIN keys \cup {Key} |-> IF k = Key THEN worker' ELSE keys[k]]
      /\ UNCHANGED <<sweep, plan, node, answer, flight, dispatched, exhausted>>
      /\ pc = "spawn" /\ pc' = "assign"
  BY <1>1 DEF Spawn
<1>3. PICK a \in 0..(MaxMembers - 1) : Admitted = 1..a
  BY DEF DriverInv, MembersTold
<1>4. Cardinality(Admitted) = a
  BY <1>1, <1>3, FS_Interval
<1>5. a + 1 < MaxMembers
  BY <1>2, <1>4 DEF MayAdmit
<1>6. a + 1 \in 0..(MaxMembers - 1) /\ a + 1 \in Workers
  BY <1>1, <1>5 DEF Workers
<1>7. /\ DOMAIN keys' = DOMAIN keys \cup {Key} /\ keys'[Key] = a + 1
      /\ \A k \in DOMAIN keys : keys'[k] = keys[k]
  BY <1>1, <1>2, <1>4
<1> QED  BY <1>1, <1>2, <1>3, <1>4, <1>6, <1>7

\* The variables keep their types.
LEMMA TypedStep ==
  ASSUME DriverInv, [Next]_vars
  PROVE  Typed'
<1>0. Typed
  BY DEF DriverInv
<1>1. CASE UNCHANGED <<swarmVars, loopVars>> /\ (pc' = pc \/ pc' \in {"cascade", "refuse", "fill", "salvage", "done"})
  BY <1>0, <1>1 DEF Typed, swarmVars, loopVars
<1>2. CASE Cascade
  BY <1>0, <1>2 DEF Cascade, Typed, swarmVars
<1>3. CASE FillPick
  <2>1. node' \in Nat
    BY <1>3, NextReadyIsReady DEF FillPick, ReadyNodes, Ids
  <2> QED  BY <1>0, <1>3, <2>1 DEF FillPick, Typed, swarmVars
<1>4. CASE FillStop
  <2>1. exhausted' \in BOOLEAN
    BY <1>4, Zenon DEF FillStop
  <2>2. pc' \in {"reap", "await"}
    BY <1>4 DEF FillStop
  <2> QED  BY <1>0, <1>4, <2>1, <2>2 DEF FillStop, Typed, swarmVars
<1>5. CASE Spawn
  <2>1. /\ member' \in [Workers -> {"none", "active", "finished", "departed"}]
        /\ worker' \in Workers /\ hosted' \subseteq Workers /\ pc' = "assign"
        /\ UNCHANGED <<sweep, plan, node, answer, flight, dispatched, exhausted>>
    BY <1>0, <1>5, SpawnTold DEF Typed
  <2> QED  BY <1>0, <2>1 DEF Typed
<1>6. CASE Assign
  <2>1. /\ DOMAIN flight' = DOMAIN flight \cup {worker}
        /\ \A w \in DOMAIN flight' : flight'[w] = IF w = worker THEN [task |-> node, phase |-> "running"]
                                                 ELSE flight[w]
    BY <1>6 DEF Assign
  <2>2. node \in Nat \ {0}
    BY <1>6 DEF Assign, ReadyNodes, Ids
  <2>3. [task |-> node, phase |-> "running"] \in Turns
    BY <2>2 DEF Turns
  <2>4. \A w \in DOMAIN flight' : flight'[w] \in Turns
    BY <1>0, <2>1, <2>3 DEF Typed
  <2> QED  BY <1>0, <1>6, <2>4 DEF Assign, Typed, swarmVars
<1>7. ASSUME NEW w \in Workers, Resolve(w) PROVE Typed'
  <2>1. flight[w] \in Turns /\ DOMAIN flight' = DOMAIN flight \ {w}
        /\ \A v \in DOMAIN flight' : flight'[v] = flight[v]
    BY <1>0, <1>7 DEF Resolve, Typed
  <2>2. node' \in Nat /\ answer' \in {"text", "blank", "none"}
    BY <1>7, <2>1 DEF Resolve, Turns
  <2>3. \A v \in DOMAIN flight' : flight'[v] \in Turns
    BY <1>0, <2>1 DEF Typed
  <2> QED  BY <1>0, <1>7, <2>2, <2>3 DEF Resolve, Typed, swarmVars
<1>8. ASSUME NEW w \in Workers, NEW phase \in {"text", "blank"}, TurnEnds(w, phase) PROVE Typed'
  <2>1. /\ DOMAIN flight' = DOMAIN flight
        /\ \A v \in DOMAIN flight : flight'[v] = flight[v] \/ flight'[v] = [flight[v] EXCEPT !.phase = phase]
    BY <1>8 DEF TurnEnds
  <2>2. \A turn \in Turns : [turn EXCEPT !.phase = phase] \in Turns
    BY DEF Turns
  <2>3. \A v \in DOMAIN flight' : flight'[v] \in Turns
    BY <1>0, <2>1, <2>2 DEF Typed
  <2> QED  BY <1>0, <1>8, <2>3 DEF TurnEnds, Typed
<1>9. CASE MarkDeparted
  BY <1>0, <1>9 DEF MarkDeparted, Typed, loopVars
<1>10. CASE Reap
  BY <1>0, <1>10 DEF Reap, Typed, loopVars
<1>11. ASSUME NEW w \in Workers, SweepFinds(w) PROVE Typed'
  BY <1>0, <1>11 DEF SweepFinds, Typed, loopVars
<1>12. CASE SweepMarks
  BY <1>0, <1>12 DEF SweepMarks, Typed, loopVars
<1>13. CASE SweepReclaims
  BY <1>0, <1>13 DEF SweepReclaims, Typed, loopVars
<1>14. CASE Settle
  <2>1. pc' = "cascade" \/ pc' = "salvage"
    BY <1>14 DEF Settle
  <2> QED  BY <1>1, <1>14, <2>1 DEF Settle
<1>15. CASE \/ \E specs \in Works : SeedPlan(specs)
            \/ SpawnFails \/ AssignFails \/ Refuse \/ Reclaim \/ UNCHANGED vars
            \/ \E n \in Meddled : OwnerAbandons(n)
  <2>1. UNCHANGED <<swarmVars, loopVars>>
    BY <1>15 DEF SeedPlan, SpawnFails, AssignFails, Refuse, Reclaim, OwnerAbandons, vars, swarmVars, loopVars
  <2>2. pc' = pc \/ pc' \in {"cascade", "refuse", "fill", "salvage", "done"}
    BY <1>15 DEF SeedPlan, SpawnFails, AssignFails, Refuse, Reclaim, OwnerAbandons, vars
  <2> QED  BY <1>1, <2>1, <2>2
<1> QED  BY <1>2, <1>3, <1>4, <1>5, <1>6, <1>7, <1>8, <1>9, <1>10, <1>11, <1>12, <1>13, <1>14, <1>15
         DEF Next, Driver, Others
\* A change of an admitted worker's status admits nobody.
LEMMA StatusAdmitsNobody ==
  ASSUME Typed, NEW w \in Admitted, NEW s \in {"finished", "departed"},
         member' = [member EXCEPT ![w] = s]
  PROVE  Admitted' = Admitted
BY DEF Typed, Admitted

\* Only admitted workers are waited for and swept.
LEMMA MembersStep ==
  ASSUME DriverInv, [Next]_vars
  PROVE  MembersTold'
<1>0. Typed /\ MembersTold
  BY DEF DriverInv
<1>1. ASSUME Admitted' = Admitted, DOMAIN flight' \subseteq Admitted,
             pc' \in {"assign", "settle", "salvage", "reclaim"} => worker' \in Admitted,
             sweep'.stage # "idle" => sweep'.who \in Admitted
      PROVE  MembersTold'
  BY <1>0, <1>1 DEF MembersTold
<1>2. UNCHANGED member => Admitted' = Admitted
  BY DEF Admitted
<1>3. CASE Spawn
  <2>1. PICK a \in 0..(MaxMembers - 1) :
             /\ Admitted = 1..a /\ a + 1 \in 0..(MaxMembers - 1) /\ worker' = a + 1
             /\ a + 1 \in Workers
             /\ member' = [member EXCEPT ![a + 1] = "active"]
             /\ UNCHANGED <<sweep, flight>>
    BY <1>3, SpawnTold
  <2>2. Admitted' = Admitted \cup {a + 1}
    BY <1>0, <2>1 DEF Typed, Admitted
  <2>3. Admitted' = 1..(a + 1)
    BY <2>1, <2>2
  <2> QED  BY <1>0, <2>1, <2>2, <2>3 DEF MembersTold
<1>4. CASE Assign
  BY <1>0, <1>1, <1>2, <1>4 DEF Assign, MembersTold, swarmVars
<1>5. ASSUME NEW w \in Workers, Resolve(w) PROVE MembersTold'
  BY <1>0, <1>1, <1>2, <1>5 DEF Resolve, MembersTold, swarmVars
<1>6. ASSUME NEW w \in Workers, NEW phase \in {"text", "blank"}, TurnEnds(w, phase)
      PROVE  MembersTold'
  <2>1. w \in Admitted /\ member' = [member EXCEPT ![w] = "finished"]
        /\ DOMAIN flight' = DOMAIN flight /\ UNCHANGED <<pc, worker, sweep>>
    BY <1>0, <1>6 DEF TurnEnds, MembersTold
  <2>2. Admitted' = Admitted
    BY <1>0, <2>1, StatusAdmitsNobody
  <2> QED  BY <1>0, <1>1, <2>1, <2>2 DEF MembersTold
<1>7. CASE MarkDeparted
  <2>1. worker \in Admitted /\ member' = [member EXCEPT ![worker] = "departed"]
        /\ UNCHANGED <<flight, worker, sweep>>
    BY <1>0, <1>7 DEF MarkDeparted, MembersTold, loopVars
  <2>2. Admitted' = Admitted
    BY <1>0, <2>1, StatusAdmitsNobody
  <2> QED  BY <1>0, <1>1, <2>1, <2>2 DEF MembersTold
<1>8. ASSUME NEW w \in Workers, SweepFinds(w) PROVE MembersTold'
  <2>1. w \in Admitted
    BY <1>8 DEF SweepFinds, Active, Admitted
  <2> QED  BY <1>0, <1>1, <1>2, <1>8, <2>1 DEF SweepFinds, MembersTold, loopVars
<1>9. CASE SweepMarks
  <2>1. /\ sweep.who \in Admitted /\ member' = [member EXCEPT ![sweep.who] = "departed"]
        /\ UNCHANGED <<flight, worker, pc>> /\ sweep'.who = sweep.who
    BY <1>0, <1>9 DEF SweepMarks, MembersTold, loopVars, Typed
  <2>2. Admitted' = Admitted
    BY <1>0, <2>1, StatusAdmitsNobody
  <2> QED  BY <1>0, <1>1, <2>1, <2>2 DEF MembersTold
<1>10. CASE SweepReclaims
  BY <1>0, <1>1, <1>2, <1>10 DEF SweepReclaims, MembersTold, loopVars
<1>11. CASE Reap
  BY <1>0, <1>1, <1>2, <1>11 DEF Reap, MembersTold, loopVars
<1>12. CASE Cascade \/ FillPick \/ FillStop
  <2>1. UNCHANGED <<member, flight, sweep>> /\ pc' \notin {"assign", "settle", "salvage", "reclaim"}
    BY <1>12 DEF Cascade, FillPick, FillStop, swarmVars
  <2> QED  BY <1>0, <1>1, <1>2, <2>1 DEF MembersTold
<1>13. CASE \/ (\E specs \in Works : SeedPlan(specs)) \/ SpawnFails \/ AssignFails \/ Refuse
            \/ Settle \/ Reclaim \/ (\E n \in Meddled : OwnerAbandons(n)) \/ UNCHANGED vars
  <2>1. UNCHANGED <<member, flight, sweep, worker>>
    BY <1>13 DEF SeedPlan, SpawnFails, AssignFails, Refuse, Settle, Reclaim, OwnerAbandons,
                 vars, swarmVars, loopVars
  <2>2. \/ pc' = pc \/ pc = "settle"
        \/ pc' \notin {"assign", "settle", "salvage", "reclaim"}
    BY <1>13 DEF SeedPlan, SpawnFails, AssignFails, Refuse, Settle, Reclaim, OwnerAbandons, vars
  <2> QED  BY <1>0, <1>1, <1>2, <2>1, <2>2 DEF MembersTold
<1> QED  BY <1>3, <1>4, <1>5, <1>6, <1>7, <1>8, <1>9, <1>10, <1>11, <1>12, <1>13
         DEF Next, Driver, Others

\* A place and a dispatch are left when a task is started.
LEMMA PlacesStep ==
  ASSUME DriverInv, [Next]_vars
  PROVE  PlacesTold'
<1>0. /\ Typed /\ MembersTold /\ PlacesTold /\ Concurrency \in Nat \ {0} /\ MaxDispatches \in Nat
      /\ Cardinality(DOMAIN flight) \in Nat
  BY DriverConstants, FS_CardinalityType DEF DriverInv, PlacesTold
<1>1. /\ pc # "seed" => Ids(plan') = Ids(plan)
      /\ pc \in {"spawn", "assign", "refuse"} =>
             plan'[node].status # "assigned" \/ pc' = "fill"
  <2>1. pc \in {"spawn", "assign", "refuse"} => Assign \/ Calm(plan, plan')
    BY PlanMoves DEF SeedPlan
  <2> QED  BY <1>0, <2>1, PlanStep DEF PlacesTold, Calm, Assign
<1>2. CASE Spawn
  <2>1. PICK a \in 0..(MaxMembers - 1) :
             /\ Admitted = 1..a /\ worker' = a + 1 /\ pc = "spawn" /\ pc' = "assign"
             /\ UNCHANGED <<flight, dispatched, node, plan>>
    BY <1>2, SpawnTold
  <2>2. a + 1 \notin DOMAIN flight
    BY <1>0, <2>1 DEF MembersTold
  <2> QED  BY <1>0, <2>1, <2>2 DEF PlacesTold
<1>3. CASE Assign
  <2>1. /\ DOMAIN flight' = DOMAIN flight \cup {worker} /\ dispatched' = dispatched + 1
        /\ pc = "assign" /\ pc' = "fill"
    BY <1>3 DEF Assign
  <2>2. /\ IsFiniteSet(DOMAIN flight \cup {worker})
        /\ Cardinality(DOMAIN flight \cup {worker}) = Cardinality(DOMAIN flight) + 1
    BY <1>0, <2>1, FS_AddElement DEF PlacesTold
  <2> QED  BY <1>0, <2>1, <2>2 DEF PlacesTold
<1>4. ASSUME NEW w \in Workers, Resolve(w) PROVE PlacesTold'
  <2>1. DOMAIN flight' = DOMAIN flight \ {w} /\ UNCHANGED dispatched /\ pc' = "settle"
    BY <1>4 DEF Resolve
  <2>2. /\ IsFiniteSet(DOMAIN flight \ {w})
        /\ Cardinality(DOMAIN flight \ {w}) \in {Cardinality(DOMAIN flight), Cardinality(DOMAIN flight) - 1}
    BY <1>0, FS_RemoveElement DEF PlacesTold
  <2> QED  BY <1>0, <2>1, <2>2 DEF PlacesTold
<1>5. CASE FillPick
  <2>1. node' \in Ids(plan') /\ plan'[node'].status # "assigned"
    BY <1>5, NextReadyIsReady DEF FillPick, ReadyNodes, IsReady
  <2>2. /\ ~(Cardinality(DOMAIN flight) >= Concurrency) /\ ~(dispatched >= MaxDispatches)
        /\ pc' = "spawn" /\ UNCHANGED <<flight, dispatched>>
    BY <1>5 DEF FillPick, Full, Spent
  <2> QED  BY <1>0, <2>1, <2>2 DEF PlacesTold
<1>6. ASSUME DOMAIN flight' = DOMAIN flight, UNCHANGED <<dispatched, node, worker>>,
             \/ pc' = pc
             \/ pc \in {"spawn", "assign"} /\ pc' = "refuse"
             \/ pc' \notin {"spawn", "assign", "refuse"}
      PROVE  PlacesTold'
  BY <1>0, <1>1, <1>6 DEF PlacesTold
<1>7. CASE Cascade \/ FillStop
  <2>1. UNCHANGED <<flight, dispatched>> /\ pc' \notin {"spawn", "assign", "refuse"}
    BY <1>7 DEF Cascade, FillStop
  <2> QED  BY <1>0, <2>1 DEF PlacesTold
<1>8. ASSUME NEW w \in Workers, NEW phase \in {"text", "blank"}, TurnEnds(w, phase)
      PROVE  PlacesTold'
  <2>1. DOMAIN flight' = DOMAIN flight /\ UNCHANGED <<dispatched, node, worker, pc>>
    BY <1>8 DEF TurnEnds
  <2> QED  BY <1>6, <2>1
<1>9. CASE \/ (\E specs \in Works : SeedPlan(specs)) \/ SpawnFails \/ AssignFails \/ Refuse
           \/ Settle \/ Reclaim \/ MarkDeparted \/ Reap \/ Others \/ UNCHANGED vars
  <2>1. UNCHANGED <<flight, dispatched, node, worker>>
    BY <1>9 DEF SeedPlan, SpawnFails, AssignFails, Refuse, Settle, Reclaim, MarkDeparted, Reap,
                Others, SweepFinds, SweepMarks, SweepReclaims, OwnerAbandons, vars, loopVars
  <2>2. \/ pc' = pc
        \/ pc \in {"spawn", "assign"} /\ pc' = "refuse"
        \/ pc' \notin {"spawn", "assign", "refuse"}
    BY <1>9 DEF SeedPlan, SpawnFails, AssignFails, Refuse, Settle, Reclaim, MarkDeparted, Reap,
                Others, SweepFinds, SweepMarks, SweepReclaims, OwnerAbandons, vars
  <2> QED  BY <1>6, <2>1, <2>2
<1> QED  BY <1>2, <1>3, <1>4, <1>5, <1>7, <1>8, <1>9 DEF Next, Driver
\* The steps that leave the keys, the dispatches and the task at hand alone.
QuietForKeys ==
    /\ UNCHANGED <<keys, dispatched>>
    /\ pc' \notin {"spawn", "assign"} \/ (pc' = pc /\ node' = node)
    /\ pc \in {"assign", "refuse"} => pc' \in {"assign", "refuse"} /\ node' = node

\* No attempt reuses a key.
LEMMA KeysStep ==
  ASSUME DriverInv, [Next]_vars
  PROVE  KeysTold'
<1>0. KeysTold /\ PlacesTold /\ Typed /\ Sound(plan) /\ dispatched \in Nat /\ node \in Nat
  BY DEF DriverInv, PlanTold, PlacesTold, Typed
<1>1. /\ pc # "seed" => /\ Ids(plan') = Ids(plan)
                        /\ \A n \in Ids(plan) : IsTerminal(plan, n) => IsTerminal(plan', n)
      /\ pc = "seed" => Ids(plan) = {}
  BY PlanStep DEF DriverInv, PlanTold, Ids
<1>2. \A n \in Ids(plan) : IsTerminal(plan, n) => n \in Ids(plan') /\ IsTerminal(plan', n)
  BY <1>1
<1>3. CASE QuietForKeys
  <2>1. ASSUME NEW k \in DOMAIN keys PROVE KeyTold(k)'
    BY <1>0, <1>2, <1>3 DEF KeysTold, KeyTold, QuietForKeys
  <2>2. pc' \in {"spawn", "assign"} => pc' = pc /\ Key' = Key
    BY <1>3 DEF QuietForKeys, Key
  <2> QED  BY <1>0, <1>3, <2>1, <2>2 DEF KeysTold, QuietForKeys
<1>4. CASE Spawn
  <2>1. PICK a \in Workers :
             /\ DOMAIN keys' = DOMAIN keys \cup {Key} /\ keys'[Key] = a
             /\ \A k \in DOMAIN keys : keys'[k] = keys[k]
             /\ UNCHANGED <<plan, node, dispatched>> /\ pc = "spawn" /\ pc' = "assign"
    BY <1>4, SpawnTold
  <2>2. IsFiniteSet(DOMAIN keys')
    BY <1>0, <2>1, FS_AddElement DEF KeysTold
  <2>3. \A k \in DOMAIN keys : KeyTold(k)'
    BY <1>0, <1>2, <2>1 DEF KeysTold, KeyTold
  <2>4. PICK key \in (Nat \X Nat) : key = Key /\ key[1] = node /\ key[2] = dispatched
    <3>1. Key \in (Nat \X Nat) /\ Key[1] = node /\ Key[2] = dispatched
      BY <1>0 DEF Key
    <3> QED  BY <3>1, Zenon
  <2>5. KeyTold(key)'
    BY <1>0, <2>1, <2>4 DEF KeyTold
  <2>6. Key' = Key
    BY <2>1 DEF Key
  <2> QED  BY <1>0, <2>1, <2>2, <2>3, <2>4, <2>5, <2>6 DEF KeysTold
<1>5. CASE FillPick
  <2>1. /\ pc = "fill" /\ pc' = "spawn" /\ UNCHANGED <<keys, dispatched, plan>>
        /\ node' \in Ids(plan) /\ ~IsTerminal(plan, node')
    BY <1>5, NextReadyIsReady
    DEF FillPick, ReadyNodes, IsReady, IsTerminal, Terminal, BadEnd, swarmVars
  <2>2. \A k \in DOMAIN keys : KeyTold(k)'
    BY <1>0, <1>2, <2>1 DEF KeysTold, KeyTold
  <2>3. Key' \notin DOMAIN keys
    <3>1. Key' = <<node', dispatched>> /\ Key'[1] = node' /\ Key'[2] = dispatched
      BY <2>1 DEF Key
    <3>2. \A k \in DOMAIN keys : k[2] = dispatched => IsTerminal(plan, k[1])
      BY <1>0, <2>1 DEF KeysTold, KeyTold
    <3> QED  BY <2>1, <3>1, <3>2
  <2> QED  BY <1>0, <2>1, <2>2, <2>3 DEF KeysTold
<1>6. CASE Assign
  <2>1. dispatched' = dispatched + 1 /\ UNCHANGED keys /\ pc' = "fill"
    BY <1>6 DEF Assign, swarmVars
  <2>2. ASSUME NEW k \in DOMAIN keys PROVE KeyTold(k)'
    <3>1. PICK i \in Nat, d \in Nat : k = <<i, d>>
      BY <1>0 DEF KeysTold, KeyTold
    <3>2. k[2] = d /\ d <= dispatched
      BY <1>0, <3>1 DEF KeysTold, KeyTold
    <3>3. d <= dispatched + 1 /\ d # dispatched + 1
      BY <1>0, <3>2
    <3> QED  BY <2>1, <3>1, <3>2, <3>3 DEF KeyTold
  <2> QED  BY <1>0, <2>1, <2>2 DEF KeysTold
<1>7. CASE Refuse
  <2>1. /\ pc = "refuse" /\ pc' = "fill" /\ UNCHANGED <<keys, dispatched, node>>
        /\ node \in Ids(plan)
    BY <1>0, <1>7 DEF Refuse, swarmVars, loopVars, PlacesTold
  <2>2. IsTerminal(plan', node) /\ node \in Ids(plan')
    <3>1. CASE IsTerminal(plan, node)
      BY <1>2, <2>1, <3>1
    <3>2. CASE ~IsTerminal(plan, node)
      <4>1. plan' = Ended(plan, node, "failed")
        BY <1>0, <1>7, <2>1, <3>2 DEF Refuse, MayChange, Sound
      <4>2. DOMAIN plan = Ids(plan) /\ plan[node] \in Node
        BY <1>0, <2>1, SoundParts
      <4>3. plan'[node].status = "failed"
        BY <2>1, <4>1, <4>2 DEF Ended, Node
      <4> QED  BY <1>1, <2>1, <4>3 DEF IsTerminal, Terminal, BadEnd
    <3> QED  BY <3>1, <3>2
  <2>3. \A k \in DOMAIN keys : KeyTold(k)'
    BY <1>0, <1>2, <2>1, <2>2 DEF KeysTold, KeyTold
  <2> QED  BY <1>0, <2>1, <2>3 DEF KeysTold
<1>8. CASE Cascade \/ FillStop \/ (\E w \in Workers : Resolve(w))
  BY <1>3, <1>8 DEF Cascade, FillStop, Resolve, QuietForKeys, swarmVars
<1>9. CASE \/ (\E specs \in Works : SeedPlan(specs)) \/ SpawnFails \/ AssignFails
           \/ Settle \/ Reclaim \/ MarkDeparted \/ Reap
  BY <1>3, <1>9 DEF SeedPlan, SpawnFails, AssignFails, Settle, Reclaim, MarkDeparted, Reap,
                    QuietForKeys, swarmVars, loopVars
<1>10. CASE \/ Others \/ UNCHANGED vars
            \/ \E w \in Workers, phase \in {"text", "blank"} : TurnEnds(w, phase)
  <2>1. UNCHANGED <<keys, dispatched, pc, node>>
    BY <1>10 DEF Others, SweepFinds, SweepMarks, SweepReclaims, OwnerAbandons, TurnEnds, vars,
                 swarmVars, loopVars
  <2> QED  BY <1>3, <2>1 DEF QuietForKeys
<1> QED  BY <1>4, <1>5, <1>6, <1>7, <1>8, <1>9, <1>10 DEF Next, Driver

\* A try is never forgotten.
LEMMA TriesGrow ==
  ASSUME DriverInv, [Next]_vars, NEW n
  PROVE  IsFiniteSet(Tries(n)') /\ Tries(n) \subseteq Tries(n)'
         /\ Cardinality(Tries(n)) \in Nat /\ Cardinality(Tries(n)') \in Nat
         /\ Cardinality(Tries(n)) <= Cardinality(Tries(n)') /\ IsFiniteSet(Tries(n))
<1>0. KeysTold /\ KeysTold' /\ dispatched \in Nat
  BY KeysStep DEF DriverInv, PlacesTold
<1>1. DOMAIN keys \subseteq DOMAIN keys'
  <2>1. CASE Spawn
    BY <2>1, SpawnTold
  <2>2. CASE ~Spawn
    <3>1. UNCHANGED keys
      BY <2>2 DEF Next, Driver, Others, vars, SeedPlan, Cascade, FillPick, FillStop,
           SpawnFails, Assign, AssignFails, Refuse, Settle, MarkDeparted, Reclaim, Reap,
           Resolve, TurnEnds, SweepFinds, SweepMarks, SweepReclaims, OwnerAbandons, swarmVars
    <3> QED  BY <3>1
  <2> QED  BY <2>1, <2>2
<1>2. dispatched' = dispatched \/ dispatched' = dispatched + 1
  <2>1. CASE Assign
    BY <2>1 DEF Assign
  <2>2. CASE Spawn
    BY <2>2 DEF Spawn
  <2>3. CASE ~Assign /\ ~Spawn
    BY <2>3 DEF Next, Driver, Others, vars, SeedPlan, Cascade, FillPick, FillStop,
           SpawnFails, AssignFails, Refuse, Settle, MarkDeparted, Reclaim, Reap,
           Resolve, TurnEnds, SweepFinds, SweepMarks, SweepReclaims, OwnerAbandons, loopVars
  <2> QED  BY <2>1, <2>2, <2>3
<1>3. ASSUME NEW k \in Tries(n) PROVE k \in Tries(n)'
  <2>1. k \in DOMAIN keys /\ k[1] = n /\ k[2] < dispatched /\ k \in (Nat \X Nat)
    BY <1>0 DEF Tries, KeysTold, KeyTold
  <2>2. k[2] < dispatched'
    BY <1>0, <1>2, <2>1
  <2> QED  BY <1>1, <2>1, <2>2 DEF Tries
<1>4. IsFiniteSet(DOMAIN keys') /\ Tries(n)' \subseteq DOMAIN keys' /\ IsFiniteSet(DOMAIN keys)
      /\ Tries(n) \subseteq DOMAIN keys
  BY <1>0 DEF KeysTold, Tries
<1>5. IsFiniteSet(Tries(n)') /\ IsFiniteSet(Tries(n))
  BY <1>4, FS_Subset
<1> QED  BY <1>3, <1>5, FS_Subset, FS_CardinalityType
\* A dispatch is one more try, a reclaim turns one into a loss.
LEMMA LossesStep ==
  ASSUME DriverInv, [Next]_vars
  PROVE  LossesTold'
<1>0. LossesTold /\ Sound(plan) /\ Sound(plan')
  BY PlanStep DEF DriverInv, PlanTold
<1>1. CASE \E specs \in Works : SeedPlan(specs)
  <2>1. PICK specs \in Seq(NodeSpec) : ValidBatch(specs) /\ plan' = Seeded(<< >>, Lead, specs)
    BY <1>1, DriverConstants DEF SeedPlan, DriverInv, PlanTold
  <2>2. \A n \in Ids(plan') : plan'[n].reclaims = 0 /\ Held(plan'[n]) = 0
    BY <2>1, SeedIsSound DEF Held
  <2>3. \A n \in Ids(plan') : Cardinality(Tries(n)') \in Nat
    BY TriesGrow
  <2>4. \A n \in Ids(plan') : plan'[n].reclaims + Held(plan'[n]) <= Cardinality(Tries(n)')
    BY <2>2, <2>3
  <2> QED  BY <2>4 DEF LossesTold
<1>2. CASE Assign
  <2>0. /\ \A i \in Ids(plan) : i # node => plan'[i] = plan[i]
        /\ plan'[node].reclaims = plan[node].reclaims /\ node \in Ids(plan)
        /\ Held(plan'[node]) = 1 /\ Held(plan[node]) = 0 /\ Ids(plan') = Ids(plan)
    BY <1>2, AssignMoves, PlanStep DEF Assign
  <2>1. ASSUME NEW n \in Ids(plan), n # node
        PROVE  plan'[n].reclaims + Held(plan'[n]) <= Cardinality(Tries(n)')
    <3>1. plan'[n] = plan[n] /\ plan[n].reclaims \in Nat /\ Held(plan[n]) \in Nat
      BY <1>0, <2>0, <2>1, SoundParts DEF Held
    <3>2. plan[n].reclaims + Held(plan[n]) <= Cardinality(Tries(n))
      BY <1>0 DEF LossesTold
    <3>3. /\ Cardinality(Tries(n)) \in Nat /\ Cardinality(Tries(n)') \in Nat
          /\ Cardinality(Tries(n)) <= Cardinality(Tries(n)')
      BY TriesGrow
    <3> QED  BY <3>1, <3>2, <3>3
  <2>2. plan'[node].reclaims + Held(plan'[node]) <= Cardinality(Tries(node)')
    <3>0. PICK n \in Ids(plan) : n = node
      BY <2>0
    <3>1. /\ IsFiniteSet(Tries(n)) /\ Cardinality(Tries(n)) \in Nat
          /\ IsFiniteSet(Tries(n)') /\ Tries(n) \subseteq Tries(n)' /\ Cardinality(Tries(n)') \in Nat
      BY TriesGrow
    <3>2. /\ Key \in DOMAIN keys /\ Key[1] = n /\ Key[2] = dispatched /\ dispatched \in Nat
          /\ dispatched' = dispatched + 1 /\ keys' = keys
      BY <1>2, <3>0 DEF DriverInv, KeysTold, PlacesTold, Assign, Key, swarmVars
    <3>3. Key \in Tries(n)' /\ Key \notin Tries(n)
      BY <3>2 DEF Tries
    <3>4. /\ IsFiniteSet(Tries(n) \cup {Key}) /\ Tries(n) \cup {Key} \in SUBSET (Tries(n)')
          /\ Cardinality(Tries(n) \cup {Key}) = Cardinality(Tries(n)) + 1
      BY <3>1, <3>3, FS_AddElement
    <3>5. Cardinality(Tries(n)) + 1 <= Cardinality(Tries(n)')
      BY <3>1, <3>4, FS_Subset
    <3>6. plan[n].reclaims \in Nat /\ plan[n].reclaims + Held(plan[n]) <= Cardinality(Tries(n))
      BY <1>0, SoundParts DEF LossesTold
    <3>7. plan'[n].reclaims + Held(plan'[n]) <= Cardinality(Tries(n)')
      BY <2>0, <3>0, <3>1, <3>5, <3>6
    <3>8. Tries(n)' = Tries(node)'
      BY <1>2, <3>0 DEF Assign, Tries
    <3> QED  BY <3>0, <3>7, <3>8
  <2>3. \A n \in Ids(plan') : plan'[n].reclaims + Held(plan'[n]) <= Cardinality(Tries(n)')
    <3>1. ASSUME NEW n \in Ids(plan), n = node
          PROVE  plan'[n].reclaims + Held(plan'[n]) <= Cardinality(Tries(n)')
      <4>1. Tries(n)' = Tries(node)'
        BY <1>2, <3>1 DEF Assign, Tries
      <4> QED  BY <2>2, <3>1, <4>1
    <3> QED  BY <2>0, <2>1, <3>1
  <2> QED  BY <2>3 DEF LossesTold
<1>3. CASE Calm(plan, plan')
  <2>0. Ids(plan') = Ids(plan)
    BY <1>0, <1>3, QuietKeeps DEF Calm
  <2>1. ASSUME NEW n \in Ids(plan)
        PROVE  plan'[n].reclaims + Held(plan'[n]) <= Cardinality(Tries(n)')
    <3>1. /\ plan'[n].reclaims + Held(plan'[n]) <= plan[n].reclaims + Held(plan[n])
          /\ plan[n].reclaims + Held(plan[n]) <= Cardinality(Tries(n))
      BY <1>0, <1>3 DEF Calm, LossesTold
    <3>2. /\ Cardinality(Tries(n)) \in Nat /\ Cardinality(Tries(n)') \in Nat
          /\ Cardinality(Tries(n)) <= Cardinality(Tries(n)')
      BY TriesGrow
    <3>3. plan'[n].reclaims \in Nat /\ plan[n].reclaims \in Nat
          /\ Held(plan'[n]) \in Nat /\ Held(plan[n]) \in Nat
      BY <1>0, <2>0, SoundParts DEF Held
    <3> QED  BY <3>1, <3>2, <3>3
  <2> QED  BY <2>0, <2>1 DEF LossesTold
<1> QED  BY <1>1, <1>2, <1>3, PlanMoves

\* A task that is handed out keeps somebody who waits for it.
LEMMA AttendedStep ==
  ASSUME DriverInv, [Next]_vars
  PROVE  AssignedIsAttended'
<1>0. AssignedIsAttended /\ Sound(plan) /\ Sound(plan') /\ Typed
  BY PlanStep DEF DriverInv, PlanTold
<1>1. CASE \E specs \in Works : SeedPlan(specs)
  <2>1. PICK specs \in Seq(NodeSpec) : ValidBatch(specs) /\ plan' = Seeded(<< >>, Lead, specs)
    BY <1>1, DriverConstants DEF SeedPlan, DriverInv, PlanTold
  <2>2. \A n \in Ids(plan') : plan'[n].status = "pending"
    BY <2>1, SeedIsSound
  <2> QED  BY <2>2 DEF AssignedIsAttended
<1>2. CASE Assign
  <2>0. /\ \A i \in Ids(plan) : i # node => plan'[i] = plan[i]
        /\ plan'[node].assignee = worker /\ node \in Ids(plan)
        /\ Ids(plan') = Ids(plan) /\ pc = "assign" /\ pc' = "fill" /\ worker \notin DOMAIN flight
    BY <1>2, AssignMoves, PlanStep DEF Assign, DriverInv, PlacesTold
  <2>1. /\ DOMAIN flight' = DOMAIN flight \cup {worker} /\ flight'[worker].task = node
        /\ \A w \in DOMAIN flight : flight'[w] = flight[w]
    BY <1>2, <2>0 DEF Assign
  <2>2. ASSUME NEW n \in Ids(plan), plan'[n].status = "assigned"
        PROVE  plan'[n].assignee \in DOMAIN flight' /\ flight'[plan'[n].assignee].task = n
    <3>1. CASE n = node
      BY <2>0, <2>1, <3>1
    <3>2. CASE n # node
      <4>1. plan'[n] = plan[n] /\ plan[n].assignee \in DOMAIN flight
            /\ flight[plan[n].assignee].task = n
        BY <1>0, <2>0, <2>2, <3>2 DEF AssignedIsAttended, Attended
      <4> QED  BY <2>1, <4>1
    <3> QED  BY <3>1, <3>2
  <2> QED  BY <2>0, <2>2 DEF AssignedIsAttended, Attended
<1>3. CASE Calm(plan, plan')
  <2>0. /\ Ids(plan') = Ids(plan)
        /\ \A n \in Ids(plan) : plan'[n].status = "assigned" =>
               /\ plan[n].status = "assigned" /\ plan'[n].assignee = plan[n].assignee
               /\ Attended(n, plan[n].assignee)
    BY <1>0, <1>3, QuietKeeps DEF Calm, AssignedIsAttended
  <2>1. ASSUME \A n \in Ids(plan), w \in Actors :
                   /\ plan'[n].status = "assigned" /\ plan[n].assignee = w /\ Attended(n, w)
                   => Attended(n, w)'
        PROVE  AssignedIsAttended'
    <3>1. \A n \in Ids(plan) : plan'[n].status = "assigned" => plan[n].assignee \in Actors
      <4>1. \A x \in Node : x.assignee # NoActor => x.assignee \in Actors
        BY DEF Node
      <4> QED  BY <1>0, <2>0, <4>1, SoundParts
    <3>2. ASSUME NEW n \in Ids(plan), plan'[n].status = "assigned"
          PROVE  \/ plan'[n].assignee \in DOMAIN flight' /\ flight'[plan'[n].assignee].task = n
                 \/ pc' \in {"settle", "salvage", "reclaim"} /\ node' = n /\ worker' = plan'[n].assignee
      <4>1. PICK w \in Actors : w = plan[n].assignee
        BY <3>1, <3>2
      <4>2. Attended(n, w)'
        BY <2>0, <2>1, <3>2, <4>1
      <4>3. plan'[n].assignee = w
        BY <2>0, <3>2, <4>1
      <4> QED  BY <4>2, <4>3 DEF Attended
    <3> QED  BY <2>0, <3>2 DEF AssignedIsAttended, Attended
  <2>2. ASSUME DOMAIN flight' = DOMAIN flight, \A w \in DOMAIN flight : flight'[w].task = flight[w].task,
               pc \in {"settle", "salvage", "reclaim"} =>
                   pc' \in {"settle", "salvage", "reclaim"} /\ node' = node /\ worker' = worker
        PROVE  AssignedIsAttended'
    <3>1. \A n \in Ids(plan), w \in Actors : Attended(n, w) => Attended(n, w)'
      BY <2>2 DEF Attended
    <3> QED  BY <2>1, <3>1
  <2>3. ASSUME NEW w \in Workers, Resolve(w) PROVE AssignedIsAttended'
    <3>1. /\ pc = "await" /\ DOMAIN flight' = DOMAIN flight \ {w}
          /\ \A v \in DOMAIN flight' : flight'[v] = flight[v]
          /\ node' = flight[w].task /\ worker' = w /\ pc' = "settle"
      BY <2>3 DEF Resolve
    <3>2. \A n \in Ids(plan), v \in Actors : Attended(n, v) => Attended(n, v)'
      BY <3>1 DEF Attended
    <3> QED  BY <2>1, <3>2
  <2>4. CASE Settle
    <3>1. UNCHANGED <<flight, node, worker>> /\ pc = "settle"
      BY <2>4 DEF Settle, loopVars
    <3>2. CASE pc' = "salvage"
      BY <2>2, <3>1, <3>2
    <3>3. CASE pc' # "salvage"
      <4>1. Acceptable /\ plan' = Completed(plan, node)
        BY <2>4, <3>3 DEF Settle
      <4>2. node \in Ids(plan) /\ plan'[node].status # "assigned"
        <5>1. node \in Ids(plan) /\ DOMAIN plan = Ids(plan)
          BY <1>0, <4>1, SoundParts DEF Acceptable, MayComplete
        <5>2. plan[node] \in Node
          BY <1>0, <5>1, SoundParts
        <5> QED  BY <4>1, <5>1, <5>2 DEF Completed, Node
      <4>3. \A n \in Ids(plan), v \in Actors :
                plan'[n].status = "assigned" /\ Attended(n, v) => Attended(n, v)'
        BY <3>1, <4>2 DEF Attended
      <4> QED  BY <2>1, <4>3
    <3> QED  BY <3>2, <3>3
  <2>5. CASE Reclaim
    <3>1. UNCHANGED <<flight, node, worker>> /\ plan' = Salvaged(plan, Stranded(plan, worker))
          /\ worker \in Actors
      BY <1>0, <2>5, DriverConstants DEF Reclaim, loopVars, Typed
    <3>2. \A n \in Ids(plan) : plan'[n].status = "assigned" => plan[n].assignee # worker
      BY <1>0, <3>1, SalvageIsCalm
    <3>3. \A n \in Ids(plan), v \in Actors :
              /\ plan'[n].status = "assigned" /\ plan[n].assignee = v /\ Attended(n, v)
              => Attended(n, v)'
      BY <3>1, <3>2 DEF Attended
    <3> QED  BY <2>1, <3>3
  <2>6. ASSUME NEW w \in Workers, NEW phase \in {"text", "blank"}, TurnEnds(w, phase)
        PROVE  AssignedIsAttended'
    <3>1. DOMAIN flight' = DOMAIN flight /\ UNCHANGED <<pc, node, worker>>
      BY <2>6 DEF TurnEnds
    <3>2. ASSUME NEW v \in DOMAIN flight PROVE flight'[v].task = flight[v].task
      <4>1. flight'[v] = flight[v] \/ flight'[v] = [flight[v] EXCEPT !.phase = phase]
        BY <2>6 DEF TurnEnds
      <4>2. \A turn \in Turns : [turn EXCEPT !.phase = phase].task = turn.task
        BY DEF Turns
      <4> QED  BY <1>0, <4>1, <4>2 DEF Typed
    <3> QED  BY <2>2, <3>1, <3>2
  <2>7. CASE Cascade \/ FillPick \/ FillStop \/ Spawn \/ SpawnFails \/ AssignFails \/ Refuse \/ Reap
    <3>1. flight' = flight /\ pc \notin {"settle", "salvage", "reclaim"}
      BY <2>7 DEF Cascade, FillPick, FillStop, Spawn, SpawnFails, AssignFails, Refuse, Reap, loopVars
    <3> QED  BY <2>2, <3>1
  <2>8. CASE MarkDeparted
    <3>1. UNCHANGED <<flight, node, worker>> /\ pc' = "reclaim"
      BY <2>8 DEF MarkDeparted, loopVars
    <3> QED  BY <2>2, <3>1
  <2>9. CASE Others \/ UNCHANGED vars
    <3>1. UNCHANGED <<flight, node, worker, pc>>
      BY <2>9 DEF Others, SweepFinds, SweepMarks, SweepReclaims, OwnerAbandons, vars, loopVars
    <3> QED  BY <2>2, <3>1
  <2> QED  BY <1>1, <1>2, <2>3, <2>4, <2>5, <2>6, <2>7, <2>8, <2>9 DEF Next, Driver
<1> QED  BY <1>1, <1>2, <1>3, PlanMoves
\* Ending a task badly makes no other one ready.
LEMMA EndingReadiesNothing ==
  ASSUME NEW p, Sound(p), NEW n \in Ids(p), NEW status \in BadEnd, ~IsTerminal(p, n)
  PROVE  ReadyNodes(Ended(p, n, status)) \subseteq ReadyNodes(p)
<1>0. DOMAIN p = Ids(p) /\ p[n] \in Node
  BY SoundParts
<1> DEFINE q == Ended(p, n, status)
<1>1. /\ \A i \in Ids(p) : i # n => q[i] = p[i]
      /\ q[n].status \in BadEnd /\ Ids(q) = Ids(p)
  <2>1. Ids(q) = Ids(p)
    BY EndingIsCalm, QuietKeeps DEF Calm
  <2>2. (\A i \in Ids(p) : i # n => q[i] = p[i]) /\ q[n].status = status
    BY <1>0 DEF Ended, Node
  <2> QED  BY <2>1, <2>2
<1> HIDE DEF q
<1>2. ASSUME NEW m \in Ids(p), IsReady(q, m) PROVE IsReady(p, m)
  <2>1. m # n
    BY <1>1, <1>2 DEF IsReady, BadEnd
  <2>2. \A u \in Ids(p) : q[u].status = "complete" => p[u].status = "complete"
    BY <1>1 DEF BadEnd
  <2> QED  BY <1>1, <1>2, <2>1, <2>2 DEF IsReady
<1>3. ReadyNodes(q) \subseteq ReadyNodes(p)
  BY <1>1, <1>2 DEF ReadyNodes
<1> QED  BY <1>3 DEF q

\* With nobody waited for, nothing is handed out.
LEMMA NothingHeld ==
  ASSUME DriverInv, pc \in {"fill", "reap", "done"}, DOMAIN flight = {}
  PROVE  \A n \in Ids(plan) : plan[n].status # "assigned"
BY DEF DriverInv, AssignedIsAttended, Attended

\* What was idle at the end stays so.
LEMMA IdleStep ==
  ASSUME DriverInv, [Next]_vars
  PROVE  IdleTold'
<1>0. IdleTold /\ Sound(plan) /\ Typed /\ Concurrency \in Nat \ {0}
  BY DriverConstants DEF DriverInv, PlanTold
<1> SUFFICES ASSUME pc' \in {"reap", "done"}
             PROVE  DOMAIN flight' = {} /\ (exhausted' \/ ReadyNodes(plan') = {})
  BY DEF IdleTold
<1>1. CASE FillStop
  <2>1. DOMAIN flight = {} /\ UNCHANGED <<flight, plan>>
    BY <1>1 DEF FillStop
  <2>2. ~Full
    BY <1>0, <2>1, FS_EmptySet DEF Full
  <2> QED  BY <1>1, <2>1, <2>2 DEF FillStop
<1>2. CASE pc \in {"reap", "done"} /\ UNCHANGED <<plan, flight, exhausted>>
  BY <1>0, <1>2 DEF IdleTold
<1>3. CASE SweepReclaims
  <2>0. pc \in {"reap", "done"} /\ UNCHANGED <<flight, exhausted>> /\ DOMAIN flight = {}
    BY <1>0, <1>3 DEF SweepReclaims, loopVars, IdleTold
  <2>1. \A n \in Ids(plan) : plan[n].status # "assigned"
    BY <2>0, NothingHeld
  <2>2. sweep.who \in Actors /\ NoActor \notin Actors
    BY <1>0, DriverConstants, PlanConstants DEF Typed
  <2>3. Stranded(plan, sweep.who) = {}
    BY <1>0, <2>1, <2>2, SoundParts DEF Stranded
  <2>4. plan' = [i \in Ids(plan) |-> plan[i]]
    BY <1>3, <2>3 DEF SweepReclaims, Salvaged
  <2>5. plan' = plan
    BY <1>0, <2>4, SoundParts
  <2> QED  BY <1>2, <2>0, <2>5
<1>4. ASSUME NEW n \in Meddled, OwnerAbandons(n)
      PROVE  DOMAIN flight' = {} /\ (exhausted' \/ ReadyNodes(plan') = {})
  <2>0. /\ pc \in {"reap", "done"} /\ UNCHANGED <<flight, exhausted>>
        /\ n \in Ids(plan) /\ ~IsTerminal(plan, n) /\ plan' = Ended(plan, n, "abandoned")
    BY <1>4 DEF OwnerAbandons, loopVars
  <2>1. ReadyNodes(plan') \subseteq ReadyNodes(plan)
    BY <1>0, <2>0, EndingReadiesNothing DEF BadEnd
  <2> QED  BY <1>0, <2>0, <2>1 DEF IdleTold
<1>5. CASE Reap \/ SweepMarks \/ (\E w \in Workers : SweepFinds(w)) \/ UNCHANGED vars
  BY <1>2, <1>5 DEF Reap, SweepMarks, SweepFinds, vars, loopVars
<1>6. CASE \/ (\E specs \in Works : SeedPlan(specs)) \/ Cascade \/ FillPick \/ Spawn \/ SpawnFails
           \/ Assign \/ AssignFails \/ Refuse \/ Settle \/ MarkDeparted \/ Reclaim
           \/ \E w \in Workers :
                  Resolve(w) \/ \E phase \in {"text", "blank"} : TurnEnds(w, phase)
  <2>1. FALSE
    BY <1>6 DEF SeedPlan, Cascade, FillPick, Spawn, SpawnFails, Assign, AssignFails, Refuse,
                Settle, MarkDeparted, Reclaim, Resolve, TurnEnds
  <2> QED  BY <2>1
<1> QED  BY <1>1, <1>3, <1>4, <1>5, <1>6 DEF Next, Driver, Others

\* Every step keeps the invariant.
LEMMA DriverNext == DriverInv /\ [Next]_vars => DriverInv'
<1> SUFFICES ASSUME DriverInv, [Next]_vars PROVE DriverInv'
  OBVIOUS
<1>1. PlanTold' /\ Typed' /\ MembersTold'
  BY PlanStep, TypedStep, MembersStep
<1>2. PlacesTold' /\ KeysTold' /\ LossesTold'
  BY PlacesStep, KeysStep, LossesStep
<1>3. AssignedIsAttended' /\ IdleTold'
  BY AttendedStep, IdleStep
<1> QED  BY <1>1, <1>2, <1>3 DEF DriverInv

----------------------------------------------------------------------------
(* The theorems. *)

\* The driver keeps DriverInv, whatever sweeps and the plan's owner do.
THEOREM DriverSafe == Spec => []DriverInv
  BY DriverInit, DriverNext, PTL DEF Spec

\* Type correctness of run_plan's state: no more turns in flight than
\* concurrency allows, no more dispatches than max_dispatches, and a plan that
\* is well formed.
THEOREM DriverTyped == Spec => []TypeOK
<1>1. ASSUME DriverInv PROVE TypeOK
  <2>1. WellFormed(plan)
    BY <1>1 DEF DriverInv, PlanTold, Sound
  <2>2. /\ DOMAIN flight \subseteq Admitted /\ Cardinality(DOMAIN flight) <= Concurrency
        /\ dispatched \in 0..MaxDispatches /\ \A k \in DOMAIN keys : keys[k] \in Workers
    BY <1>1 DEF DriverInv, MembersTold, PlacesTold, KeysTold
  <2> QED  BY <1>1, <2>1, <2>2 DEF DriverInv, Typed, TypeOK
<1> QED  BY <1>1, DriverSafe, PTL

\* No task stays assigned to a worker that nobody waits for.
THEOREM WorkIsAttended == Spec => []AssignedIsAttended
<1>1. DriverInv => AssignedIsAttended
  BY DEF DriverInv
<1> QED  BY <1>1, DriverSafe, PTL

\* Each attempt at a task spawns under a key that was never used.
THEOREM WorkersAreFresh == Spec => []FreshWorker
<1>1. DriverInv => FreshWorker
  BY DEF DriverInv, KeysTold, FreshWorker
<1> QED  BY <1>1, DriverSafe, PTL

\* A run that was not cut off ends with nothing assigned and nothing ready.
THEOREM RunsStopIdle == Spec => []StopsWhenIdle
<1>1. ASSUME DriverInv PROVE StopsWhenIdle
  <2>1. pc = "done" => DOMAIN flight = {} /\ (exhausted \/ ReadyNodes(plan) = {})
    BY <1>1 DEF DriverInv, IdleTold
  <2> QED  BY <1>1, <2>1, NothingHeld DEF StopsWhenIdle
<1> QED  BY <1>1, DriverSafe, PTL

\* A task is taken back at most once per hand-out, however the driver's salvage
\* and a sweep's overlap.
THEOREM ReclaimsAreHandOuts == Spec => []ReclaimsAreLosses
<1>1. ASSUME DriverInv PROVE ReclaimsAreLosses
  <2> SUFFICES ASSUME NEW n \in Ids(plan)
               PROVE  plan[n].reclaims <= Cardinality({k \in DOMAIN keys : k[1] = n})
    BY DEF ReclaimsAreLosses
  <2> DEFINE K == {k \in DOMAIN keys : k[1] = n}
  <2>1. IsFiniteSet(DOMAIN keys) /\ K \subseteq DOMAIN keys /\ Tries(n) \subseteq K
    BY <1>1 DEF DriverInv, KeysTold, Tries
  <2>2. /\ IsFiniteSet(K) /\ Cardinality(Tries(n)) <= Cardinality(K)
        /\ IsFiniteSet(Tries(n))
    BY <2>1, FS_Subset
  <2>3. Cardinality(K) \in Nat /\ Cardinality(Tries(n)) \in Nat
    BY <2>2, FS_CardinalityType
  <2>4. plan[n].reclaims + Held(plan[n]) <= Cardinality(Tries(n)) /\ plan[n].reclaims \in Nat
        /\ Held(plan[n]) \in Nat
    BY <1>1, SoundParts DEF DriverInv, PlanTold, LossesTold, Held
  <2> QED  BY <2>2, <2>3, <2>4
<1> QED  BY <1>1, DriverSafe, PTL

----------------------------------------------------------------------------
(* The run as a run of TaskGraph. *)

\* The operators that Shared brings in are the ones of PlanOps.
LEMMA SameOperators ==
  ASSUME NEW p, NEW n, NEW actor, NEW S, NEW status
  PROVE  /\ Shared!Ids(p) = Ids(p)
         /\ Shared!IsTerminal(p, n) = IsTerminal(p, n)
         /\ Shared!ReadyNodes(p) = ReadyNodes(p)
         /\ Shared!BlockedNodes(p) = BlockedNodes(p)
         /\ Shared!Dispatched(p, n, actor) = Dispatched(p, n, actor)
         /\ Shared!Completed(p, n) = Completed(p, n)
         /\ Shared!Ended(p, n, status) = Ended(p, n, status)
         /\ Shared!Stranded(p, actor) = Stranded(p, actor)
         /\ Shared!Salvaged(p, S) = Salvaged(p, S)
         /\ Shared!Cascaded(p) = Cascaded(p)
<1>1. Shared!Ids(p) = Ids(p) /\ Shared!BadEnd = BadEnd /\ Shared!Terminal = Terminal
  BY DEF Shared!Ids, Ids, Shared!BadEnd, BadEnd, Shared!Terminal, Terminal
<1>2. /\ Shared!ReadyNodes(p) = ReadyNodes(p)
      /\ Shared!BlockedNodes(p) = BlockedNodes(p)
  BY <1>1 DEF Shared!ReadyNodes, ReadyNodes, Shared!IsReady, IsReady,
              Shared!BlockedNodes, BlockedNodes, Shared!IsBlocked, IsBlocked
<1>3. /\ Shared!IsTerminal(p, n) = IsTerminal(p, n)
      /\ Shared!Stranded(p, actor) = Stranded(p, actor)
  BY <1>1 DEF Shared!IsTerminal, IsTerminal, Shared!Stranded, Stranded
<1>4. /\ Shared!Dispatched(p, n, actor) = Dispatched(p, n, actor)
      /\ Shared!Completed(p, n) = Completed(p, n)
      /\ Shared!Ended(p, n, status) = Ended(p, n, status)
  BY DEF Shared!Dispatched, Dispatched, Shared!Completed, Completed, Shared!Ended, Ended
<1>5. Shared!Salvaged(p, S) = Salvaged(p, S)
  BY <1>1 DEF Shared!Salvaged, Salvaged, Shared!SalvagedNode, SalvagedNode
<1>6. Shared!Doomed(p) = Doomed(p)
  BY <1>1 DEF Shared!Doomed, Doomed, Shared!IsBlocked, IsBlocked
<1>7. Shared!Cascaded(p) = Cascaded(p)
  BY <1>1, <1>6 DEF Shared!Cascaded, Cascaded
<1> QED  BY <1>1, <1>2, <1>3, <1>4, <1>5, <1>7

\* So are the ones that build a plan.
LEMMA SameBuilding ==
  ASSUME NEW p, NEW actor, NEW specs
  PROVE  /\ Shared!ValidBatch(specs) <=> ValidBatch(specs)
         /\ Shared!Seeded(p, actor, specs) = Seeded(p, actor, specs)
<1>1. Shared!ValidBatch(specs) <=> ValidBatch(specs)
  BY DEF Shared!ValidBatch, ValidBatch
<1>2. /\ Shared!InsertBatch(p, actor, specs, {}) = InsertBatch(p, actor, specs, {})
      /\ Shared!BatchIds(p, Len(specs)) = BatchIds(p, Len(specs))
  BY DEF Shared!InsertBatch, InsertBatch, Shared!NewNode, NewNode, Shared!BatchIds, BatchIds
<1>3. \A q, over : Shared!AppendGate(q, actor, over) = AppendGate(q, actor, over)
  BY DEF Shared!AppendGate, AppendGate, Shared!NewNode, NewNode
<1>4. Shared!InsertReviewed(p, actor, specs, {}) = InsertReviewed(p, actor, specs, {})
  BY <1>2, <1>3 DEF Shared!InsertReviewed, InsertReviewed
<1> QED  BY <1>1, <1>4 DEF Shared!Seeded, Seeded

\* An operation that leaves the graph of a plan with tasks alone leaves the
\* record of its seed alone.
LEMMA RecordKept ==
  ASSUME Sound(plan), Quiet(plan, plan'), Ids(plan) # {}
  PROVE  plan # << >> /\ plan' # << >> /\ Len(plan') = Len(plan)
<1>1. Len(plan') = Len(plan) /\ Len(plan) # 0
  BY QuietKeeps, SoundParts DEF Ids
<1> QED  BY <1>1

\* PlanSize is large enough for every plan file.
LEMMA PlanFits ==
  ASSUME NEW specs \in Works
  PROVE  Len(specs) + 1 <= PlanSize /\ PlanSize \in Int
<1> DEFINE Lengths == {Len(s) : s \in Works}
           IsLongest(k) == \A s \in Works : Len(s) <= k
<1>1. \E k \in Lengths : IsLongest(k)
  BY LongestWork
<1>2. PlanSize = 1 + (CHOOSE k \in Lengths : IsLongest(k))
  BY DEF PlanSize
<1> DEFINE top == CHOOSE k \in Lengths : IsLongest(k)
<1>3. top \in Lengths /\ IsLongest(top)
  <2> HIDE DEF Lengths, IsLongest
  <2> QED  BY <1>1
<1>4. \A s \in Works : Len(s) \in Nat
  BY DriverConstants
<1>5. top \in Nat /\ Len(specs) <= top /\ Len(specs) \in Nat
  <2> HIDE DEF top
  <2> QED  BY <1>3, <1>4
<1> HIDE DEF top
<1>6. PlanSize = 1 + top
  BY <1>2 DEF top
<1> QED  BY <1>5, <1>6

\* The seed, with the record that TaskGraph keeps of it.
LEMMA SeedShared ==
  ASSUME DriverInv, NEW specs \in Works, SeedPlan(specs)
  PROVE  Shared!Next
<1> DEFINE k == Len(specs)
<1>1. /\ plan = << >> /\ ValidBatch(specs) /\ specs \in Seq(NodeSpec)
      /\ plan' = Seeded(<< >>, Lead, specs) /\ Lead \in Actors
  BY DriverConstants DEF DriverInv, PlanTold, SeedPlan
<1>2. /\ Len(plan') = k + (IF Deep THEN 1 ELSE 0)
      /\ k \in Nat \ {0} /\ Deep \in BOOLEAN /\ k + 1 <= PlanSize /\ PlanSize \in Int
  BY <1>1, SeedIsSound, PlanFits, PlanConstants
<1>3. plan' # << >> /\ Len(plan') <= PlanSize /\ Batch' = k
  <2>1. Len(plan') # 0
    BY <1>2
  <2> QED  BY <1>2, <2>1 DEF Batch
<1>4. /\ Shared!Produced(<< >>, k) = 1..Len(plan')
      /\ Shared!SeedReply(<< >>, k) =
             [nodes |-> 1..k, gate |-> IF Deep THEN k + 1 ELSE 0]
  <2>1. Shared!BatchIds(<< >>, k) = 1..k
    BY <1>2 DEF Shared!BatchIds
  <2>2. Shared!Produced(<< >>, k) = 1..Len(plan')
    BY <1>2, <2>1 DEF Shared!Produced
  <2>3. Shared!SeedReply(<< >>, k) = [nodes |-> 1..k, gate |-> IF Deep THEN k + 1 ELSE 0]
    BY <1>2, <2>1 DEF Shared!SeedReply, Shared!NoGate
  <2> QED  BY <2>2, <2>3
<1>5. Shared!Seed(Lead, "seed", specs)
  <2>1. Shared!ValidBatch(specs) /\ plan' = Shared!Seeded(plan, Lead, specs)
    BY <1>1, SameBuilding
  <2> QED  BY <1>1, <1>3, <1>4, <2>1 DEF Shared!Seed
<1> QED  BY <1>1, <1>5 DEF Shared!Next

\* dispatch.
LEMMA AssignShared ==
  ASSUME DriverInv, Assign
  PROVE  Shared!Next
<1>1. /\ Quiet(plan, plan') /\ node \in Ids(plan) /\ worker \in Actors
      /\ node \in ReadyNodes(plan) /\ plan' = Dispatched(plan, node, worker)
  BY AssignMoves DEF Assign
<1>2. plan # << >> /\ plan' # << >> /\ Len(plan') = Len(plan)
  BY <1>1, RecordKept DEF DriverInv, PlanTold
<1>3. Shared!Dispatch(node, worker)
  BY <1>1, <1>2, SameOperators DEF Shared!Dispatch, Batch
<1> QED  BY <1>1, <1>3, SameOperators DEF Shared!Next

\* What the driver and the owner do to one task at the end.
LEMMA EndingShared ==
  ASSUME DriverInv, Calm(plan, plan'), NEW n \in Ids(plan), ~IsTerminal(plan, n)
  PROVE  /\ plan' = Ended(plan, n, "failed") => Shared!Next
         /\ plan' = Ended(plan, n, "abandoned") => Shared!Next
         /\ Acceptable /\ n = node /\ plan' = Completed(plan, n) => Shared!Next
<1>1. plan # << >> /\ plan' # << >> /\ Len(plan') = Len(plan)
  BY RecordKept DEF DriverInv, PlanTold, Calm
<1>2. plan[n].owner = Lead /\ Lead \in Actors
  BY DriverConstants DEF DriverInv, PlanTold, Sound
<1>3. ASSUME plan' = Ended(plan, n, "failed") PROVE Shared!Next
  <2>1. Shared!FailNode(n, Lead)
    BY <1>1, <1>2, <1>3, SameOperators DEF Shared!FailNode, Shared!MayChange, Batch
  <2> QED  BY <1>2, <2>1, SameOperators DEF Shared!Next
<1>4. ASSUME plan' = Ended(plan, n, "abandoned") PROVE Shared!Next
  <2>1. Shared!AbandonNode(n, Lead)
    BY <1>1, <1>2, <1>4, SameOperators DEF Shared!AbandonNode, Batch
  <2> QED  BY <1>2, <2>1, SameOperators DEF Shared!Next
<1>5. ASSUME Acceptable, n = node, plan' = Completed(plan, n) PROVE Shared!Next
  <2>1. worker \in Actors /\ plan[n].assignee = worker
    BY <1>5, DriverConstants DEF DriverInv, Typed, Acceptable, MayComplete
  <2>2. Shared!MayComplete(plan, n, worker)
    BY <2>1, SameOperators DEF Shared!MayComplete
  <2>3. \E a \in Shared!Artifacts : Shared!AcceptableArtifact(plan[n].kind, a)
    <3>1. ArtifactFrom(plan, n) \in Shared!Artifacts
      BY DEF ArtifactFrom, Shared!Artifacts
    <3>2. Shared!AcceptableArtifact(plan[n].kind, ArtifactFrom(plan, n))
      BY <1>5 DEF Acceptable, AcceptableArtifact, Shared!AcceptableArtifact
    <3> QED  BY <3>1, <3>2
  <2>4. Shared!CompleteNode(n, worker)
    BY <1>1, <1>5, <2>2, <2>3, SameOperators DEF Shared!CompleteNode, Batch
  <2> QED  BY <2>1, <2>4, SameOperators DEF Shared!Next
<1> QED  BY <1>3, <1>4, <1>5

\* salvage_actor, by the driver or by a sweep: it takes something back, or it
\* changes nothing.
LEMMA SalvageShared ==
  ASSUME DriverInv, NEW actor \in Actors, plan' = Salvaged(plan, Stranded(plan, actor))
  PROVE  Shared!Next \/ plan' = plan
<1>0. Sound(plan)
  BY DEF DriverInv, PlanTold
<1>1. CASE Stranded(plan, actor) = {}
  <2>1. plan' = [i \in Ids(plan) |-> plan[i]]
    BY <1>1 DEF Salvaged
  <2> QED  BY <1>0, <2>1, SoundParts
<1>2. CASE Stranded(plan, actor) # {}
  <2>1. Quiet(plan, plan') /\ Ids(plan) # {}
    BY <1>0, <1>2, SalvageIsCalm DEF Calm, Stranded
  <2>2. plan # << >> /\ plan' # << >> /\ Len(plan') = Len(plan)
    BY <1>0, <2>1, RecordKept
  <2>3. Shared!SalvageActor(actor)
    BY <1>2, <2>2, SameOperators DEF Shared!SalvageActor, Batch
  <2> QED  BY <2>3 DEF Shared!Next
<1> QED  BY <1>1, <1>2

\* cascade_blocked: it writes something off, or it changes nothing.
LEMMA CascadeShared ==
  ASSUME DriverInv, plan' = Cascaded(plan)
  PROVE  Shared!Next \/ plan' = plan
<1>0. Sound(plan) /\ WellFormed(plan)
  BY DEF DriverInv, PlanTold, Sound
<1>1. CASE BlockedNodes(plan) = {}
  <2>1. Doomed(plan) = {}
    <3>1. \A n \in Ids(plan) : ~IsBlocked(plan, n)
      BY <1>1 DEF BlockedNodes
    <3> DEFINE pending == {n \in Ids(plan) : plan[n].status = "pending"}
               HoldsItsWaves(S) ==
                   \A n \in pending : IsBlocked(plan, n) \/ plan[n].upstream \cap S # {} => n \in S
    <3>2. {} \in SUBSET pending /\ HoldsItsWaves({})
      BY <3>1
    <3> QED  BY <3>2 DEF Doomed
  <2>2. plan' = [i \in Ids(plan) |-> plan[i]]
    BY <2>1 DEF Cascaded
  <2> QED  BY <1>0, <2>2, SoundParts
<1>2. CASE BlockedNodes(plan) # {}
  <2>1. Quiet(plan, plan') /\ Ids(plan) # {}
    BY <1>0, <1>2, CascadeIsCalm DEF Calm, BlockedNodes
  <2>2. plan # << >> /\ plan' # << >> /\ Len(plan') = Len(plan)
    BY <1>0, <2>1, RecordKept
  <2>3. Shared!CascadeBlocked
    BY <1>2, <2>2, SameOperators DEF Shared!CascadeBlocked, Batch
  <2> QED  BY <2>3 DEF Shared!Next
<1> QED  BY <1>1, <1>2

\* Every step of the driver and of the others is one of TaskGraph, or leaves the
\* plan alone.
LEMMA StepShared == DriverInv /\ [Next]_vars => [Shared!Next]_(Shared!vars)
<1> SUFFICES ASSUME DriverInv, [Next]_vars PROVE [Shared!Next]_(Shared!vars)
  OBVIOUS
<1>0. worker \in Actors /\ sweep.who \in Actors
  BY DriverConstants DEF DriverInv, Typed
<1>1. CASE plan' = plan
  BY <1>1 DEF Shared!vars, Batch
<1>2. CASE \E specs \in Works : SeedPlan(specs)
  BY <1>2, SeedShared
<1>3. CASE Assign
  BY <1>3, AssignShared
<1>4. CASE Cascade
  BY <1>1, <1>4, CascadeShared DEF Cascade
<1>5. CASE Reclaim \/ SweepReclaims
  BY <1>0, <1>1, <1>5, SalvageShared DEF Reclaim, SweepReclaims
<1>6. CASE Calm(plan, plan') /\ Refuse
  <2>1. CASE MayChange(plan, node, Lead)
    BY <1>6, <2>1, EndingShared DEF Refuse, MayChange
  <2> QED  BY <1>1, <1>6, <2>1 DEF Refuse
<1>7. CASE Calm(plan, plan') /\ Settle
  <2>1. CASE Acceptable
    BY <1>7, <2>1, EndingShared DEF Settle, Acceptable, MayComplete
  <2> QED  BY <1>1, <1>7, <2>1 DEF Settle
<1>8. CASE Calm(plan, plan') /\ \E n \in Meddled : OwnerAbandons(n)
  BY <1>8, EndingShared DEF OwnerAbandons
<1>9. CASE Refuse \/ Settle \/ \E n \in Meddled : OwnerAbandons(n)
  <2>1. CASE Calm(plan, plan')
    BY <1>6, <1>7, <1>8, <1>9, <2>1
  <2> QED  BY <1>2, <1>3, <2>1, PlanMoves
<1> QED  BY <1>1, <1>2, <1>3, <1>4, <1>5, <1>9
         DEF Next, Driver, Others, vars, FillPick, FillStop, Spawn, SpawnFails, AssignFails,
             MarkDeparted, Reap, Resolve, TurnEnds, SweepFinds, SweepMarks

\* A running task changes only by its own worker's answer, by the loss of that
\* worker or by the owner: whoever else answers or is salvaged finds it held by
\* another, and a task that could not be started is not held at all.
LEMMA StepKeepsHolders ==
  ASSUME DriverInv, [Next]_vars
  PROVE  HoldersKept
<1>0. /\ Sound(plan) /\ Typed /\ worker \in Actors /\ sweep.who \in Actors
      /\ NoActor \notin Actors
  BY DriverConstants, PlanConstants DEF DriverInv, PlanTold, Typed
<1> SUFFICES ASSUME NEW n \in Ids(plan), plan[n].status = "assigned", plan'[n] # plan[n]
             PROVE  \/ /\ plan'[n].status = "complete"
                       /\ pc = "settle" /\ answer = "text" /\ node = n
                       /\ worker = plan[n].assignee
                    \/ /\ plan'[n].status \in {"pending", "failed"}
                       /\ \/ pc = "reclaim" /\ worker = plan[n].assignee
                          \/ sweep.stage = "marked" /\ sweep.who = plan[n].assignee
                    \/ plan'[n].status = "abandoned" /\ n \in Meddled
  BY DEF HoldersKept
<1>a. DOMAIN plan = Ids(plan) /\ plan[n] \in Node /\ plan # << >>
  BY <1>0, SoundParts DEF Ids
<1>1. CASE \E specs \in Works : SeedPlan(specs)
  BY <1>1, <1>a DEF SeedPlan, DriverInv, PlanTold
<1>2. CASE Assign
  BY <1>2, AssignMoves
<1>3. CASE Cascade
  <2>1. n \in Doomed(plan)
    BY <1>3 DEF Cascade, Cascaded
  <2> QED  BY <2>1 DEF Doomed
<1>4. CASE Refuse
  <2>1. node \in Ids(plan) /\ n # node
    BY <1>4 DEF Refuse, DriverInv, PlacesTold
  <2> QED  BY <1>4, <1>a, <2>1 DEF Refuse, Ended
<1>5. CASE Settle
  <2>1. Acceptable /\ plan' = Completed(plan, node) /\ pc = "settle"
    BY <1>5 DEF Settle
  <2>2. n = node /\ answer = "text" /\ worker = plan[n].assignee
    BY <1>a, <2>1 DEF Completed, Acceptable, MayComplete
  <2>3. plan'[n].status = "complete"
    BY <1>a, <2>1, <2>2 DEF Completed, Node
  <2> QED  BY <2>1, <2>2, <2>3
<1>6. ASSUME NEW actor \in Actors, plan' = Salvaged(plan, Stranded(plan, actor))
      PROVE  plan[n].assignee = actor /\ plan'[n].status \in {"pending", "failed"}
  <2>1. n \in Stranded(plan, actor) /\ plan'[n] = SalvagedNode(plan[n])
    BY <1>6 DEF Salvaged
  <2> QED  BY <1>a, <2>1 DEF Stranded, SalvagedNode, Node
<1>7. CASE Reclaim
  BY <1>0, <1>6, <1>7 DEF Reclaim
<1>8. CASE SweepReclaims
  BY <1>0, <1>6, <1>8 DEF SweepReclaims
<1>9. CASE \E m \in Meddled : OwnerAbandons(m)
  <2>1. PICK m \in Meddled : m \in Ids(plan) /\ plan' = Ended(plan, m, "abandoned")
    BY <1>9 DEF OwnerAbandons
  <2>2. n = m
    BY <1>a, <2>1 DEF Ended
  <2> QED  BY <1>a, <2>1, <2>2 DEF Ended, Node
<1> QED  BY <1>1, <1>2, <1>3, <1>4, <1>5, <1>7, <1>8, <1>9
         DEF Next, Driver, Others, vars, FillPick, FillStop, Spawn, SpawnFails, AssignFails,
             MarkDeparted, Reap, Resolve, TurnEnds, SweepFinds, SweepMarks

\* Refinement: whatever the interleaving of run_plan, sweeps and the owner, the
\* plan changes only by operations that the task graph allows at that moment, and
\* a task that is being worked on only by its own worker's answer or loss, or by
\* its owner.
THEOREM PlanRefined == Spec => PlanIsShared
<1>1. Init => Shared!Init
  BY DEF Init, Shared!Init
<1>2. DriverInv /\ [Next]_vars => [Shared!Next /\ HoldersKept]_(Shared!vars)
  BY StepShared, StepKeepsHolders
<1> QED  BY <1>1, <1>2, DriverSafe, PTL DEF Spec, PlanIsShared

=============================================================================
