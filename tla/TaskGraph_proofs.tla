-------------------------- MODULE TaskGraph_proofs --------------------------
(****************************************************************************)
(* The properties of TaskGraph for every set of actors and keys, plans of   *)
(* any size and batches of any shape, in light and in deep mode.            *)
(****************************************************************************)
EXTENDS TaskGraph, PlanOps_proofs

\* The parts of the invariant that speak of the plan alone.
LEMMA PlanParts ==
    ASSUME PlanInv
    PROVE  /\ WellFormed(plan) /\ HasInputs(plan) /\ IsAcyclic(plan)
           /\ plan \in Plan /\ Len(plan) \in Nat /\ DOMAIN plan = Ids(plan)
           /\ \A n \in Ids(plan) : plan[n].upstream \subseteq Ids(plan)
           /\ \A n \in Ids(plan) : plan[n] \in Node
BY DEF PlanInv, TypeOK, Acyclic, InputsComplete, WellFormed, Plan, Ids

\* Operations that leave the graph alone preserve the invariant.
LEMMA QuietStep ==
    ASSUME PlanInv, UNCHANGED <<seeds, joins>>,
           plan' = [i \in Ids(plan) |-> plan'[i]], DOMAIN plan' = Ids(plan),
           \A n \in Ids(plan) : LegalChange(plan, n, plan'[n])
    PROVE  PlanInv' /\ EndsKept
<1>0. WellFormed(plan) /\ HasInputs(plan) /\ IsAcyclic(plan)
    BY PlanParts
<1>1. /\ Ids(plan') = Ids(plan)
      /\ WellFormed(plan')
      /\ HasInputs(plan')
      /\ IsAcyclic(plan')
    BY <1>0, StatusesPreserve
<1>2. \A n \in Ids(plan) : plan'[n].upstream = plan[n].upstream
    BY DEF LegalChange
<1>3. TypeOK'
    BY <1>1 DEF PlanInv, TypeOK
<1>4. WorkIsAwaited'
    BY <1>1, <1>2 DEF PlanInv, WorkIsAwaited
<1>5. GateCoversSeed'
    BY <1>1, <1>2 DEF PlanInv, GateCoversSeed, IsUpClosed
<1>6. JoinsAwaitChildren'
    <2>1. DOMAIN joins \subseteq Ids(plan)
        BY DEF PlanInv, TypeOK
    <2> QED BY <1>2, <2>1 DEF PlanInv, JoinsAwaitChildren
<1>7. EndsKept
    <2>1. Len(plan') = Len(plan) /\ Len(plan) \in Nat
        BY <1>0, PlanParts, StatusesPreserve
    <2> QED BY <2>1 DEF EndsKept, LegalChange
<1> QED BY <1>1, <1>3, <1>4, <1>5, <1>6, <1>7 DEF PlanInv, Acyclic, InputsComplete

\* One task changes, legally.
LEMMA OneTaskStep ==
    ASSUME PlanInv, UNCHANGED <<seeds, joins>>, NEW n \in Ids(plan),
           DOMAIN plan' = Ids(plan), plan' = [i \in Ids(plan) |-> plan'[i]],
           \A i \in Ids(plan) : i # n => plan'[i] = plan[i],
           LegalChange(plan, n, plan'[n])
    PROVE  PlanInv' /\ EndsKept
<1>1. WellFormed(plan)
    BY PlanParts
<1>2. \A i \in Ids(plan) : LegalChange(plan, i, plan'[i])
    BY <1>1, SameIsLegal
<1> QED BY <1>2, QuietStep

\* dispatch hands out a task whose inputs are complete.
LEMMA DispatchStep ==
    ASSUME PlanInv, NEW n, NEW actor \in Actors, Dispatch(n, actor)
    PROVE  PlanInv' /\ EndsKept
<1>0. WellFormed(plan) /\ DOMAIN plan = Ids(plan)
    BY PlanParts
<1>1. n \in Ids(plan) /\ IsReady(plan, n) /\ ~IsTerminal(plan, n)
    BY DEF Dispatch, ReadyNodes, IsReady, IsTerminal, Terminal, BadEnd
<1>2. LegalChange(plan, n, plan'[n])
    BY <1>0, <1>1, RunningIsLegal DEF Dispatch
<1>3. /\ DOMAIN plan' = Ids(plan)
      /\ plan' = [i \in Ids(plan) |-> plan'[i]]
      /\ \A i \in Ids(plan) : i # n => plan'[i] = plan[i]
    BY <1>0, <1>1 DEF Dispatch, Dispatched
<1> QED BY <1>1, <1>2, <1>3, OneTaskStep DEF Dispatch

\* complete_node ends a running task with its handoff.
LEMMA CompleteStep ==
    ASSUME PlanInv, NEW n, NEW actor \in Actors, CompleteNode(n, actor)
    PROVE  PlanInv' /\ EndsKept
<1>0. WellFormed(plan) /\ DOMAIN plan = Ids(plan)
    BY PlanParts
<1>1. n \in Ids(plan) /\ ~IsTerminal(plan, n) /\ plan[n].status = "assigned"
    BY <1>0, PlanConstants DEF CompleteNode, MayComplete, WellFormed
<1>2. LegalChange(plan, n, plan'[n])
    BY <1>0, <1>1, RunningIsLegal DEF CompleteNode
<1>3. /\ DOMAIN plan' = Ids(plan)
      /\ plan' = [i \in Ids(plan) |-> plan'[i]]
      /\ \A i \in Ids(plan) : i # n => plan'[i] = plan[i]
    BY <1>0, <1>1 DEF CompleteNode, Completed
<1> QED BY <1>1, <1>2, <1>3, OneTaskStep DEF CompleteNode

\* fail_node and abandon_node end a task that has not ended.
LEMMA EndStep ==
    ASSUME PlanInv, NEW n, NEW actor \in Actors,
           FailNode(n, actor) \/ AbandonNode(n, actor)
    PROVE  PlanInv' /\ EndsKept
<1>0. WellFormed(plan) /\ DOMAIN plan = Ids(plan)
    BY PlanParts
<1>1. n \in Ids(plan) /\ ~IsTerminal(plan, n) /\ UNCHANGED <<seeds, joins>>
    BY DEF FailNode, AbandonNode, MayChange
<1>2. PICK status \in BadEnd : plan' = Ended(plan, n, status)
    BY DEF FailNode, AbandonNode, BadEnd
<1>3. LegalChange(plan, n, plan'[n])
    BY <1>0, <1>1, <1>2, RunningIsLegal
<1>4. /\ DOMAIN plan' = Ids(plan)
      /\ plan' = [i \in Ids(plan) |-> plan'[i]]
      /\ \A i \in Ids(plan) : i # n => plan'[i] = plan[i]
    BY <1>0, <1>1, <1>2 DEF Ended
<1> QED BY <1>1, <1>3, <1>4, OneTaskStep

\* salvage_assignment and salvage_actor take tasks back, within the limit.
LEMMA SalvageStep ==
    ASSUME PlanInv, UNCHANGED <<seeds, joins>>, NEW S \in SUBSET Ids(plan),
           \A n \in S : ~IsTerminal(plan, n), plan' = Salvaged(plan, S)
    PROVE  PlanInv' /\ EndsKept
<1>0. WellFormed(plan)
    BY PlanParts
<1>1. \A n \in Ids(plan) :
          plan'[n] = IF n \in S THEN SalvagedNode(plan[n]) ELSE plan[n]
    BY DEF Salvaged
<1>2. \A n \in Ids(plan) : LegalChange(plan, n, plan'[n])
    BY <1>0, <1>1, SalvageIsLegal, SameIsLegal
<1>3. plan' = [i \in Ids(plan) |-> plan'[i]] /\ DOMAIN plan' = Ids(plan)
    BY DEF Salvaged
<1> QED BY <1>2, <1>3, QuietStep

\* cascade_blocked writes off pending tasks only.
LEMMA CascadeStep ==
    ASSUME PlanInv, CascadeBlocked
    PROVE  PlanInv' /\ EndsKept
<1>0. WellFormed(plan)
    BY PlanParts
<1>1. /\ plan' = [i \in Ids(plan) |-> plan'[i]]
      /\ DOMAIN plan' = Ids(plan)
      /\ \A n \in Ids(plan) : LegalChange(plan, n, plan'[n])
    BY <1>0, CascadeExact DEF CascadeBlocked
<1> QED BY <1>1, QuietStep DEF CascadeBlocked

----------------------------------------------------------------------------
(* Operations that grow the graph. *)

\* seed adds a batch that waits on itself alone, and in deep mode its gate.
LEMMA SeedStep ==
    ASSUME PlanInv, NEW actor \in Actors, NEW key \in Keys, NEW specs \in Batches,
           Seed(actor, key, specs)
    PROVE  PlanInv' /\ EndsKept
<1> DEFINE k == Len(specs)
           g == Len(plan) + k + 1
<1>0. /\ WellFormed(plan) /\ HasInputs(plan) /\ IsAcyclic(plan)
      /\ plan \in Plan /\ Len(plan) \in Nat
    BY PlanParts
<1>1. specs \in Seq(NodeSpec) /\ ValidBatch(specs) /\ Deep \in BOOLEAN /\ k \in Nat
    BY TaskGraphConstants, PlanConstants DEF Seed
<1>2. {} \in SUBSET Ids(plan)
    OBVIOUS
<1>3. /\ Grown(plan, plan', {})
      /\ BatchIds(plan, k) \subseteq NewIds(plan, plan')
      /\ JoinInputs(plan, k) \subseteq NewIds(plan, plan')
      /\ NewIds(plan, plan') = BatchIds(plan, k) \cup JoinInputs(plan, k)
      /\ Deep => /\ g \in NewIds(plan, plan')
                 /\ plan'[g].upstream = BatchIds(plan, k)
    BY <1>0, <1>1, <1>2, ReviewedGrows DEF Seed, Seeded
<1>4. /\ Ids(plan) \subseteq Ids(plan')
      /\ WellFormed(plan') /\ HasInputs(plan') /\ IsAcyclic(plan')
    BY <1>0, <1>2, <1>3, GrownPreserves
<1>5. /\ Ids(plan') = Ids(plan) \cup NewIds(plan, plan')
      /\ \A i \in Ids(plan) : plan'[i] = plan[i]
      /\ Len(plan') \in Nat
    BY <1>0, <1>3 DEF Grown, Ids, NewIds
<1>6. /\ DOMAIN seeds' = DOMAIN seeds \cup {key}
      /\ \A j \in DOMAIN seeds : seeds'[j] = seeds[j]
      /\ seeds'[key].produced = Produced(plan, k)
      /\ seeds'[key].reply = SeedReply(plan, k)
      /\ joins' = joins
    BY DEF Seed
<1>7. /\ Produced(plan, k) = NewIds(plan, plan')
      /\ SeedReply(plan, k).nodes = BatchIds(plan, k)
      /\ SeedReply(plan, k).gate \in Ids(plan') \cup {NoGate}
      /\ SeedReply(plan, k).gate # NoGate => Deep /\ SeedReply(plan, k).gate = g
    <2>1. CASE Deep
        BY <1>3, <1>5, <2>1 DEF Produced, SeedReply, JoinInputs
    <2>2. CASE ~Deep
        BY <1>3, <1>5, <2>2 DEF Produced, SeedReply, JoinInputs
    <2> QED BY <1>1, <2>1, <2>2
<1>8. TypeOK'
    <2>1. DOMAIN seeds' \subseteq Keys
        BY <1>6 DEF PlanInv, TypeOK
    <2>2. ASSUME NEW j \in DOMAIN seeds'
          PROVE  /\ seeds'[j].produced \subseteq Ids(plan')
                 /\ seeds'[j].reply.nodes \subseteq Ids(plan')
                 /\ seeds'[j].reply.gate \in Ids(plan') \cup {NoGate}
        <3>1. CASE j = key
            BY <1>3, <1>5, <1>6, <1>7, <3>1
        <3>2. CASE j \in DOMAIN seeds
            BY <1>4, <1>6, <3>2 DEF PlanInv, TypeOK
        <3> QED BY <1>6, <2>2, <3>1, <3>2
    <2>3. /\ DOMAIN joins \subseteq Ids(plan')
          /\ \A n \in DOMAIN joins : joins[n] \subseteq Ids(plan')
        BY <1>4 DEF PlanInv, TypeOK
    <2> QED BY <1>4, <1>6, <2>1, <2>2, <2>3 DEF TypeOK
<1>9. WorkIsAwaited'
    <2> SUFFICES ASSUME NEW n \in Ids(plan')
                 PROVE  \/ \E j \in DOMAIN seeds' : n \in seeds'[j].produced
                        \/ \E m \in Ids(plan') : n \in plan'[m].upstream
        BY DEF WorkIsAwaited
    <2>1. CASE n \in NewIds(plan, plan')
        BY <1>6, <1>7, <2>1
    <2>2. CASE n \in Ids(plan)
        BY <1>4, <1>5, <1>6, <2>2 DEF PlanInv, WorkIsAwaited
    <2> QED BY <1>5, <2>1, <2>2
<1>10. GateCoversSeed'
    <2> SUFFICES ASSUME NEW j \in DOMAIN seeds', seeds'[j].reply.gate # NoGate,
                        NEW S \in SUBSET Ids(plan'),
                        seeds'[j].reply.gate \in S, IsUpClosed(plan', S)
                 PROVE  seeds'[j].reply.nodes \subseteq S
        BY DEF GateCoversSeed
    <2>1. CASE j = key
        BY <1>3, <1>6, <1>7, <2>1 DEF IsUpClosed
    <2>2. CASE j \in DOMAIN seeds
        <3> DEFINE T == S \cap Ids(plan)
        <3>1. IsUpClosed(plan, T)
            BY <1>0, <1>5 DEF IsUpClosed, WellFormed
        <3>2. seeds[j].reply.gate \in T
            BY <1>6, <2>2 DEF PlanInv, TypeOK
        <3>3. T \in SUBSET Ids(plan) /\ seeds[j].reply.gate # NoGate
            BY <1>6, <2>2
        <3>4. seeds[j].reply.nodes \subseteq T
            <4> HIDE DEF T
            <4> QED BY <2>2, <3>1, <3>2, <3>3 DEF PlanInv, GateCoversSeed
        <3> QED BY <1>6, <2>2, <3>4
    <2> QED BY <1>6, <2>1, <2>2
<1>11. JoinsAwaitChildren'
    BY <1>5, <1>6 DEF PlanInv, JoinsAwaitChildren, TypeOK
<1>12. EndsKept
    <2>1. Len(plan) < Len(plan')
        BY <1>3 DEF Grown
    <2> QED BY <1>0, <1>5, <2>1 DEF EndsKept
<1> QED BY <1>4, <1>8, <1>9, <1>10, <1>11, <1>12 DEF PlanInv, Acyclic, InputsComplete

\* A task that has not ended is sent back to wait on new nodes.  Two facts carry
\* the invariant over: every new node is waited on, and whoever holds all the
\* task now waits on holds all it waited on before.
LEMMA RewiredStep ==
    ASSUME PlanInv, NEW n \in Ids(plan), ~IsTerminal(plan, n),
           NEW q, Grown(plan, q, plan[n].upstream),
           NEW W \in SUBSET (plan[n].upstream \cup NewIds(plan, q)),
           plan' = Requeued(q, n, W), seeds' = seeds,
           \A i \in NewIds(plan, q) :
               i \in W \/ \E m \in NewIds(plan, q) : i \in q[m].upstream,
           \A u \in plan[n].upstream :
               u \in W \/ \E m \in NewIds(plan, q) : u \in q[m].upstream,
           \A S : W \subseteq S /\ (\A m \in NewIds(plan, q) \cap S : q[m].upstream \subseteq S)
                     => plan[n].upstream \subseteq S,
           DOMAIN joins' \subseteq DOMAIN joins \cup {n},
           \A j \in DOMAIN joins' : joins'[j] \subseteq Ids(q),
           ~Deep => \A j \in DOMAIN joins' :
                        joins'[j] \subseteq IF j = n THEN W ELSE plan[j].upstream
    PROVE  PlanInv' /\ EndsKept
<1>0. /\ WellFormed(plan) /\ HasInputs(plan) /\ IsAcyclic(plan)
      /\ plan \in Plan /\ Len(plan) \in Nat
      /\ \A i \in Ids(plan) : plan[i].upstream \subseteq Ids(plan)
    BY PlanParts
<1>1. /\ Len(plan') = Len(q)
      /\ \A i \in Ids(q) : i # n => plan'[i] = q[i]
      /\ plan'[n].upstream = W
      /\ WellFormed(plan') /\ HasInputs(plan') /\ IsAcyclic(plan')
    BY <1>0, RewiringPreserves
<1>2. /\ Ids(plan') = Ids(plan) \cup NewIds(plan, q)
      /\ Ids(plan') = Ids(q)
      /\ Ids(plan) \cap NewIds(plan, q) = {}
      /\ \A i \in Ids(plan) : q[i] = plan[i]
    <2>1. /\ Len(q) \in Nat /\ Len(plan) < Len(q)
          /\ \A i \in Ids(plan) : q[i] = plan[i]
        BY DEF Grown
    <2>2. Ids(plan') = Ids(q)
        BY <1>1 DEF Ids
    <2>3. Ids(q) = Ids(plan) \cup NewIds(plan, q) /\ Ids(plan) \cap NewIds(plan, q) = {}
        BY <1>0, <2>1 DEF Ids, NewIds
    <2> QED BY <2>1, <2>2, <2>3
<1>3. /\ plan'[n].upstream = W
      /\ \A i \in Ids(plan) : i # n => plan'[i] = plan[i]
      /\ \A i \in NewIds(plan, q) : plan'[i] = q[i]
    BY <1>1, <1>2
<1>4. TypeOK'
    <2>1. \A j \in DOMAIN seeds :
              /\ seeds[j].produced \subseteq Ids(plan')
              /\ seeds[j].reply.nodes \subseteq Ids(plan')
              /\ seeds[j].reply.gate \in Ids(plan') \cup {NoGate}
        BY <1>2 DEF PlanInv, TypeOK
    <2>2. DOMAIN joins' \subseteq Ids(plan') /\ DOMAIN seeds \subseteq Keys
        BY <1>2 DEF PlanInv, TypeOK
    <2> QED BY <1>1, <1>2, <2>1, <2>2 DEF TypeOK
<1>5. WorkIsAwaited'
    <2> SUFFICES ASSUME NEW i \in Ids(plan'),
                        \A m \in Ids(plan') : i \notin plan'[m].upstream
                 PROVE  \E key \in DOMAIN seeds : i \in seeds[key].produced
        BY DEF WorkIsAwaited
    <2>1. i \notin W /\ \A m \in NewIds(plan, q) : i \notin q[m].upstream
        BY <1>2, <1>3
    <2>2. i \in Ids(plan) /\ i \notin plan[n].upstream
        BY <1>2, <2>1
    <2>3. \A m \in Ids(plan) : i \notin plan[m].upstream
        BY <1>2, <1>3, <2>2
    <2> QED BY <2>2, <2>3 DEF PlanInv, WorkIsAwaited
<1>6. GateCoversSeed'
    <2> SUFFICES ASSUME NEW key \in DOMAIN seeds, seeds[key].reply.gate # NoGate,
                        NEW S \in SUBSET Ids(plan'),
                        seeds[key].reply.gate \in S, IsUpClosed(plan', S)
                 PROVE  seeds[key].reply.nodes \subseteq S
        BY DEF GateCoversSeed
    <2> DEFINE T == S \cap Ids(plan)
    <2>1. ASSUME NEW m \in T
          PROVE  plan[m].upstream \subseteq T
        <3>1. plan[m].upstream \subseteq Ids(plan) /\ plan'[m].upstream \subseteq S
            BY <1>0, <1>2 DEF IsUpClosed
        <3>2. CASE m # n
            BY <1>3, <3>1, <3>2
        <3>3. CASE m = n
            <4>1. W \subseteq S
                BY <1>3, <3>1, <3>3
            <4>2. \A i \in NewIds(plan, q) \cap S : q[i].upstream \subseteq S
                BY <1>3 DEF IsUpClosed
            <4> QED BY <3>1, <3>3, <4>1, <4>2
        <3> QED BY <3>2, <3>3
    <2>2. T \in SUBSET Ids(plan) /\ IsUpClosed(plan, T)
        BY <2>1 DEF IsUpClosed
    <2>3. seeds[key].reply.gate \in T
        BY DEF PlanInv, TypeOK
    <2>4. seeds[key].reply.nodes \subseteq T
        <3> HIDE DEF T
        <3> QED BY <2>2, <2>3 DEF PlanInv, GateCoversSeed
    <2> QED BY <2>4
<1>7. JoinsAwaitChildren'
    <2> SUFFICES ASSUME ~Deep, NEW j \in DOMAIN joins'
                 PROVE  joins'[j] \subseteq plan'[j].upstream
        BY DEF JoinsAwaitChildren
    <2>1. j \in Ids(plan)
        BY DEF PlanInv, TypeOK
    <2> QED BY <1>3, <2>1
<1>8. EndsKept
    <2>1. Len(q) \in Nat /\ Len(plan) < Len(q)
        BY DEF Grown
    <2> QED BY <1>0, <1>1, <1>3, <2>1 DEF EndsKept
<1> QED BY <1>1, <1>4, <1>5, <1>6, <1>7, <1>8 DEF PlanInv, Acyclic, InputsComplete

\* expand_node: the children inherit what the task waited on, and are awaited.
LEMMA ExpandStep ==
    ASSUME PlanInv, NEW n, NEW actor \in Actors, NEW specs \in Batches,
           ExpandNode(n, actor, specs)
    PROVE  PlanInv' /\ EndsKept
<1> DEFINE k == Len(specs)
           q == InsertReviewed(plan, actor, specs, plan[n].upstream)
           W == JoinInputs(plan, k)
<1>0. /\ WellFormed(plan) /\ HasInputs(plan) /\ IsAcyclic(plan)
      /\ plan \in Plan /\ Len(plan) \in Nat
      /\ \A i \in Ids(plan) : plan[i].upstream \subseteq Ids(plan)
    BY PlanParts
<1>1. /\ n \in Ids(plan) /\ ~IsTerminal(plan, n)
      /\ specs \in Seq(NodeSpec) /\ ValidBatch(specs) /\ Deep \in BOOLEAN
      /\ plan[n].upstream \in SUBSET Ids(plan)
    BY <1>0, TaskGraphConstants, PlanConstants DEF ExpandNode, MayChange
<1>2. /\ Grown(plan, q, plan[n].upstream)
      /\ BatchIds(plan, k) # {}
      /\ BatchIds(plan, k) \subseteq NewIds(plan, q)
      /\ W # {}
      /\ W \subseteq NewIds(plan, q)
      /\ NewIds(plan, q) = BatchIds(plan, k) \cup W
      /\ \A i \in BatchIds(plan, k) : plan[n].upstream \subseteq q[i].upstream
      /\ Deep => /\ Len(plan) + k + 1 \in NewIds(plan, q)
                 /\ q[Len(plan) + k + 1].upstream = BatchIds(plan, k)
    BY <1>0, <1>1, ReviewedGrows
<1>3. /\ Deep => W = {Len(plan) + k + 1}
      /\ ~Deep => W = BatchIds(plan, k)
    BY DEF JoinInputs
<1>4. plan' = Requeued(q, n, W)
    <2>1. \A up \in W : ~WouldCycle(q, n, up)
        <3> HIDE DEF q, W
        <3> QED BY <1>0, <1>1, <1>2, NeverRefused
    <2> QED BY <2>1 DEF ExpandNode, Expanded
<1>5. /\ seeds' = seeds
      /\ DOMAIN joins' = DOMAIN joins \cup {n}
      /\ joins'[n] = BatchIds(plan, k)
      /\ \A j \in DOMAIN joins : j # n => joins'[j] = joins[j]
    BY DEF ExpandNode
<1> HIDE DEF q, W
<1>6. \A i \in NewIds(plan, q) :
          i \in W \/ \E m \in NewIds(plan, q) : i \in q[m].upstream
    BY <1>1, <1>2, <1>3
<1>7. \A u \in plan[n].upstream :
          u \in W \/ \E m \in NewIds(plan, q) : u \in q[m].upstream
    BY <1>2
<1>8. ASSUME NEW S, W \subseteq S,
             \A m \in NewIds(plan, q) \cap S : q[m].upstream \subseteq S
      PROVE  plan[n].upstream \subseteq S
    <2>1. BatchIds(plan, k) \subseteq S
        BY <1>1, <1>2, <1>3, <1>8
    <2>2. PICK i \in BatchIds(plan, k) : TRUE
        BY <1>2
    <2> QED BY <1>2, <1>8, <2>1, <2>2
<1>9. \A j \in DOMAIN joins' : joins'[j] \subseteq Ids(q)
    <2>1. NewIds(plan, q) \subseteq Ids(q) /\ Ids(plan) \subseteq Ids(q)
        <3>1. Len(q) \in Nat /\ Len(plan) < Len(q)
            BY <1>2 DEF Grown
        <3> QED BY <1>0, <3>1 DEF Ids, NewIds
    <2> QED BY <1>2, <1>5, <2>1 DEF PlanInv, TypeOK
<1>10. ~Deep => \A j \in DOMAIN joins' :
                    joins'[j] \subseteq IF j = n THEN W ELSE plan[j].upstream
    BY <1>3, <1>5 DEF PlanInv, JoinsAwaitChildren
<1>11. W \in SUBSET (plan[n].upstream \cup NewIds(plan, q))
    BY <1>2
<1>12. DOMAIN joins' \subseteq DOMAIN joins \cup {n}
    BY <1>5
<1>13. seeds' = seeds
    BY <1>5
<1> QED BY <1>1, <1>2, <1>4, <1>6, <1>7, <1>8, <1>9, <1>10, <1>11, <1>12, <1>13, RewiredStep

\* inject_from_gate: the gate waits on the new work and on all it had.
LEMMA InjectStep ==
    ASSUME PlanInv, NEW n, NEW actor \in Actors, NEW specs \in Batches,
           InjectFromGate(n, actor, specs)
    PROVE  PlanInv' /\ EndsKept
<1> DEFINE k == Len(specs)
           q == InsertBatch(plan, actor, specs, plan[n].upstream)
           W == plan[n].upstream \cup BatchIds(plan, k)
<1>0. /\ WellFormed(plan) /\ HasInputs(plan) /\ IsAcyclic(plan)
      /\ plan \in Plan /\ Len(plan) \in Nat
      /\ \A i \in Ids(plan) : plan[i].upstream \subseteq Ids(plan)
    BY PlanParts
<1>1. /\ n \in Ids(plan) /\ ~IsTerminal(plan, n)
      /\ specs \in Seq(NodeSpec) /\ ValidBatch(specs)
      /\ plan[n].upstream \in SUBSET Ids(plan)
    BY <1>0, TaskGraphConstants DEF InjectFromGate, MayChange
<1>2. /\ Grown(plan, q, plan[n].upstream)
      /\ NewIds(plan, q) = BatchIds(plan, k)
    BY <1>0, <1>1, BatchGrows
<1>3. plan' = Requeued(q, n, W)
    <2>1. \A up \in BatchIds(plan, k) : ~WouldCycle(q, n, up)
        <3> HIDE DEF q
        <3> QED BY <1>0, <1>1, <1>2, NeverRefused
    <2> QED BY <2>1 DEF InjectFromGate, Injected
<1>4. seeds' = seeds /\ joins' = joins
    BY DEF InjectFromGate
<1>5. /\ W \in SUBSET (plan[n].upstream \cup NewIds(plan, q))
      /\ NewIds(plan, q) \subseteq W
      /\ plan[n].upstream \subseteq W
    BY <1>2
<1> HIDE DEF q, W
<1>6. \A j \in DOMAIN joins' : joins'[j] \subseteq Ids(q)
    <2>1. Ids(plan) \subseteq Ids(q)
        <3>1. Len(q) \in Nat /\ Len(plan) < Len(q)
            BY <1>2 DEF Grown
        <3> QED BY <1>0, <3>1 DEF Ids
    <2> QED BY <1>4, <2>1 DEF PlanInv, TypeOK
<1>7. ~Deep => \A j \in DOMAIN joins' :
                   joins'[j] \subseteq IF j = n THEN W ELSE plan[j].upstream
    BY <1>4, <1>5 DEF PlanInv, JoinsAwaitChildren
<1>8. /\ \A i \in NewIds(plan, q) :
             i \in W \/ \E m \in NewIds(plan, q) : i \in q[m].upstream
      /\ \A u \in plan[n].upstream :
             u \in W \/ \E m \in NewIds(plan, q) : u \in q[m].upstream
      /\ \A S : W \subseteq S /\ (\A m \in NewIds(plan, q) \cap S : q[m].upstream \subseteq S)
                   => plan[n].upstream \subseteq S
      /\ DOMAIN joins' \subseteq DOMAIN joins \cup {n}
    BY <1>4, <1>5
<1> QED BY <1>1, <1>2, <1>3, <1>4, <1>5, <1>6, <1>7, <1>8, RewiredStep

----------------------------------------------------------------------------
(* The theorems. *)

\* The empty plan satisfies the invariant.
LEMMA InitStep == Init => PlanInv
<1> SUFFICES ASSUME Init PROVE PlanInv
    OBVIOUS
<1>1. /\ plan \in Plan /\ Len(plan) = 0 /\ Ids(plan) = {}
      /\ DOMAIN seeds = {} /\ DOMAIN joins = {}
    BY DEF Init, Plan, Ids
<1> QED BY <1>1 DEF PlanInv, TypeOK, WellFormed, Acyclic, IsAcyclic, InputsComplete,
        HasInputs, WorkIsAwaited, GateCoversSeed, JoinsAwaitChildren

\* Every operation preserves the invariant and leaves ended tasks alone.
LEMMA NextStep == PlanInv /\ [Next]_vars => PlanInv' /\ EndsKept
<1> SUFFICES ASSUME PlanInv, [Next]_vars PROVE PlanInv' /\ EndsKept
    OBVIOUS
<1>1. ASSUME NEW actor \in Actors, NEW key \in Keys, NEW specs \in Batches,
             Seed(actor, key, specs)
      PROVE  PlanInv' /\ EndsKept
    BY <1>1, SeedStep
<1>2. ASSUME NEW n \in Ids(plan), NEW actor \in Actors, NEW specs \in Batches,
             ExpandNode(n, actor, specs) \/ InjectFromGate(n, actor, specs)
      PROVE  PlanInv' /\ EndsKept
    BY <1>2, ExpandStep, InjectStep
<1>3. ASSUME NEW n \in Ids(plan), NEW actor \in Actors,
             \/ Dispatch(n, actor) \/ CompleteNode(n, actor)
             \/ FailNode(n, actor) \/ AbandonNode(n, actor)
      PROVE  PlanInv' /\ EndsKept
    BY <1>3, DispatchStep, CompleteStep, EndStep
<1>4. ASSUME NEW n \in Ids(plan), SalvageAssignment(n)
      PROVE  PlanInv' /\ EndsKept
    <2>1. \A i \in {n} : ~IsTerminal(plan, i)
        BY <1>4 DEF SalvageAssignment
    <2> QED BY <1>4, <2>1, SalvageStep DEF SalvageAssignment
<1>5. ASSUME NEW actor \in Actors, SalvageActor(actor)
      PROVE  PlanInv' /\ EndsKept
    <2>1. /\ Stranded(plan, actor) \in SUBSET Ids(plan)
          /\ \A i \in Stranded(plan, actor) : ~IsTerminal(plan, i)
        BY DEF Stranded
    <2> QED BY <1>5, <2>1, SalvageStep DEF SalvageActor
<1>6. CASE CascadeBlocked
    BY <1>6, CascadeStep
<1>7. CASE UNCHANGED vars
    <2>1. PlanInv'
        BY <1>7 DEF vars, PlanInv, TypeOK, Acyclic, InputsComplete, WorkIsAwaited,
                GateCoversSeed, JoinsAwaitChildren
    <2>2. Len(plan) \in Nat /\ plan' = plan
        BY <1>7, PlanParts DEF vars
    <2> QED BY <2>1, <2>2 DEF EndsKept
<1> QED BY <1>1, <1>2, <1>3, <1>4, <1>5, <1>6, <1>7 DEF Next

\* The plan stays well formed, acyclic, supplied and awaited, whatever order the
\* operations of the crate are called in.
THEOREM PlanInvariant == Spec => []PlanInv
BY InitStep, NextStep, PTL DEF Spec

\* Type correctness of the plan and its records.
THEOREM PlanTyped == Spec => []TypeOK
<1>1. PlanInv => TypeOK
    BY DEF PlanInv
<1> QED BY <1>1, PlanInvariant, PTL

\* No series of seeds, expansions and injections closes a cycle.
THEOREM PlanAcyclic == Spec => []Acyclic
<1>1. PlanInv => Acyclic
    BY DEF PlanInv
<1> QED BY <1>1, PlanInvariant, PTL

\* A running or finished task never loses an input.
THEOREM PlanSupplied == Spec => []InputsComplete
<1>1. PlanInv => InputsComplete
    BY DEF PlanInv
<1> QED BY <1>1, PlanInvariant, PTL

\* No batch is ever left half-built.
THEOREM PlanAwaited == Spec => []WorkIsAwaited
<1>1. PlanInv => WorkIsAwaited
    BY DEF PlanInv
<1> QED BY <1>1, PlanInvariant, PTL

\* The scheduler is never stuck with unfinished work.
THEOREM PlanNeverStalls == Spec => []NoStall
<1>1. PlanInv => NoStall
    BY PlanParts, Schedulable DEF NoStall
<1> QED BY <1>1, PlanInvariant, PTL

\* Deep mode's promise: a seed's gate passes only after all of the seed.
THEOREM SeedReviewed == Spec => []GateReviewsSeed
<1>1. ASSUME PlanInv
      PROVE  GateReviewsSeed
    <2> SUFFICES ASSUME NEW key \in DOMAIN seeds, seeds[key].reply.gate # NoGate,
                        plan[seeds[key].reply.gate].status = "complete"
                 PROVE  \A n \in seeds[key].reply.nodes : plan[n].status = "complete"
        BY DEF GateReviewsSeed
    <2> DEFINE S == {n \in Ids(plan) : plan[n].status = "complete"}
    <2>0. HasInputs(plan) /\ \A n \in Ids(plan) : plan[n].upstream \subseteq Ids(plan)
        BY <1>1, PlanParts
    <2>1. IsUpClosed(plan, S)
        BY <2>0 DEF IsUpClosed, HasInputs
    <2>2. seeds[key].reply.gate \in S
        BY <1>1 DEF PlanInv, TypeOK
    <2>3. seeds[key].reply.nodes \subseteq S
        <3>1. S \in SUBSET Ids(plan)
            OBVIOUS
        <3> HIDE DEF S
        <3> QED BY <1>1, <2>1, <2>2, <3>1 DEF PlanInv, GateCoversSeed
    <2> QED BY <2>3
<1> QED BY <1>1, PlanInvariant, PTL

\* In a light plan a join is handed out only with all of its children's
\* handoffs.
THEOREM LightJoinSeesChildren == ASSUME ~Deep PROVE Spec => []JoinSeesChildren
<1>1. ASSUME PlanInv
      PROVE  JoinSeesChildren
    <2> SUFFICES ASSUME NEW n \in DOMAIN joins, plan[n].status = "assigned",
                        NEW c \in joins[n]
                 PROVE  c \in Hydrated(plan, n)
        BY DEF JoinSeesChildren
    <2>1. n \in Ids(plan) /\ c \in plan[n].upstream
        BY <1>1 DEF PlanInv, TypeOK, JoinsAwaitChildren
    <2>2. c \in Ids(plan) /\ plan[c].status = "complete"
        BY <1>1, <2>1, PlanParts DEF HasInputs
    <2>3. plan[c].artifact
        BY <1>1, <2>2, PlanParts DEF WellFormed
    <2> QED BY <2>1, <2>2, <2>3 DEF Hydrated
<1> QED BY <1>1, PlanInvariant, PTL

\* Ended tasks never change, and no task disappears.
THEOREM PlanEndsAreFinal == Spec => EndsAreFinal
<1>1. PlanInv /\ [Next]_vars => [EndsKept]_vars
    BY NextStep
<1> QED BY <1>1, PlanInvariant, PTL DEF Spec, EndsAreFinal

\* cascade_blocked reaches exactly what can never start.
THEOREM PlanCascadeIsExact == Spec => CascadeIsExact
<1>1. ASSUME PlanInv, CascadeBlocked
      PROVE  NothingLeftBehind
    <2>0. WellFormed(plan) /\ HasInputs(plan) /\ IsAcyclic(plan)
        BY <1>1, PlanParts
    <2>1. /\ \A n \in Ids(plan) : ~IsBlocked(plan', n)
          /\ \A n \in Ids(plan) : plan'[n] # plan[n] =>
                 \E u \in plan[n].upstream : plan'[u].status \in BadEnd
          /\ plan' = [i \in Ids(plan) |-> plan'[i]]
          /\ DOMAIN plan' = Ids(plan)
          /\ \A n \in Ids(plan) : LegalChange(plan, n, plan'[n])
        BY <1>1, <2>0, CascadeExact DEF CascadeBlocked
    <2>2. Ids(plan') = Ids(plan)
        BY <2>0, <2>1, StatusesPreserve
    <2> QED BY <2>1, <2>2 DEF NothingLeftBehind, BlockedNodes
<1>2. PlanInv /\ [Next]_vars => [CascadeBlocked => NothingLeftBehind]_vars
    BY <1>1
<1> QED BY <1>2, PlanInvariant, PTL DEF Spec, CascadeIsExact
----------------------------------------------------------------------------
(* Replayed seeds. *)

\* No operation changes the kind of a task.
LEMMA KindsStep ==
    ASSUME PlanInv, [Next]_vars
    PROVE  \A n \in Ids(plan) : plan'[n].kind = plan[n].kind
<1>0. /\ WellFormed(plan) /\ plan \in Plan /\ Len(plan) \in Nat /\ DOMAIN plan = Ids(plan)
      /\ \A n \in Ids(plan) : plan[n].upstream \subseteq Ids(plan)
      /\ \A n \in Ids(plan) : plan[n] \in Node
    BY PlanParts
<1>1. ASSUME NEW actor \in Actors, NEW key \in Keys, NEW specs \in Batches,
             Seed(actor, key, specs), NEW m \in Ids(plan)
      PROVE  plan'[m].kind = plan[m].kind
    <2>1. /\ specs \in Seq(NodeSpec) /\ ValidBatch(specs) /\ Deep \in BOOLEAN
          /\ {} \in SUBSET Ids(plan)
        BY <1>1, TaskGraphConstants, PlanConstants DEF Seed
    <2>2. Grown(plan, plan', {})
        BY <1>0, <1>1, <2>1, ReviewedGrows DEF Seed, Seeded
    <2> QED BY <2>2 DEF Grown
<1>2. ASSUME NEW n \in Ids(plan), NEW base, NEW q, NEW W, Grown(plan, q, base),
             plan' = q \/ plan' = Requeued(q, n, W), NEW m \in Ids(plan)
      PROVE  plan'[m].kind = plan[m].kind
    <2>0. q[m] = plan[m] /\ plan[m] \in Node /\ q \in Plan /\ m \in DOMAIN q
        <3>1. q[m] = plan[m] /\ q \in Plan /\ Len(q) \in Nat /\ Len(plan) < Len(q)
            BY <1>2 DEF Grown
        <3> QED BY <1>0, <3>1 DEF Ids, Plan
    <2>1. CASE plan' = q
        BY <2>0, <2>1
    <2>2. CASE plan' = Requeued(q, n, W)
        <3>1. plan'[m] = q[m]
              \/ plan'[m] = [q[m] EXCEPT !.upstream = W, !.status = "pending",
                                         !.assignee = NoActor]
            BY <2>0, <2>2 DEF Requeued
        <3>2. ASSUME NEW x \in Node
              PROVE  [x EXCEPT !.upstream = W, !.status = "pending",
                               !.assignee = NoActor].kind = x.kind
            BY DEF Node
        <3> QED BY <2>0, <3>1, <3>2
    <2> QED BY <1>2, <2>1, <2>2
<1>3. ASSUME NEW n \in Ids(plan), NEW actor \in Actors, NEW specs \in Batches,
             ExpandNode(n, actor, specs)
      PROVE  \A m \in Ids(plan) : plan'[m].kind = plan[m].kind
    <2>1. /\ specs \in Seq(NodeSpec) /\ ValidBatch(specs) /\ Deep \in BOOLEAN
          /\ plan[n].upstream \in SUBSET Ids(plan)
        BY <1>0, <1>3, TaskGraphConstants, PlanConstants DEF ExpandNode
    <2> DEFINE q == InsertReviewed(plan, actor, specs, plan[n].upstream)
               W == JoinInputs(plan, Len(specs))
    <2>2. Grown(plan, q, plan[n].upstream)
        BY <1>0, <2>1, ReviewedGrows
    <2>3. plan' = q \/ plan' = Requeued(q, n, W)
        BY <1>3 DEF ExpandNode, Expanded
    <2> HIDE DEF q, W
    <2> QED BY <1>2, <2>2, <2>3
<1>4. ASSUME NEW n \in Ids(plan), NEW actor \in Actors, NEW specs \in Batches,
             InjectFromGate(n, actor, specs)
      PROVE  \A m \in Ids(plan) : plan'[m].kind = plan[m].kind
    <2>1. /\ specs \in Seq(NodeSpec) /\ ValidBatch(specs)
          /\ plan[n].upstream \in SUBSET Ids(plan)
        BY <1>0, <1>4, TaskGraphConstants DEF InjectFromGate
    <2> DEFINE q == InsertBatch(plan, actor, specs, plan[n].upstream)
               W == plan[n].upstream \cup BatchIds(plan, Len(specs))
    <2>2. Grown(plan, q, plan[n].upstream)
        BY <1>0, <2>1, BatchGrows
    <2>3. plan' = q \/ plan' = Requeued(q, n, W)
        BY <1>4 DEF InjectFromGate, Injected
    <2> HIDE DEF q, W
    <2> QED BY <1>2, <2>2, <2>3
<1>5. ASSUME NEW n \in Ids(plan), NEW actor \in Actors,
             \/ Dispatch(n, actor) \/ CompleteNode(n, actor)
             \/ FailNode(n, actor) \/ AbandonNode(n, actor)
      PROVE  \A m \in Ids(plan) : plan'[m].kind = plan[m].kind
    <2> SUFFICES ASSUME NEW m \in Ids(plan) PROVE plan'[m].kind = plan[m].kind
        OBVIOUS
    <2>0. plan[m] \in Node
        BY <1>0
    <2>1. CASE Dispatch(n, actor)
        BY <1>0, <2>0, <2>1 DEF Dispatch, Dispatched, Node
    <2>2. CASE CompleteNode(n, actor)
        BY <1>0, <2>0, <2>2 DEF CompleteNode, Completed, Node
    <2>3. CASE FailNode(n, actor) \/ AbandonNode(n, actor)
        <3>1. PICK status \in BadEnd : plan' = Ended(plan, n, status)
            BY <2>3 DEF FailNode, AbandonNode, BadEnd
        <3> QED BY <1>0, <2>0, <3>1 DEF Ended, Node
    <2> QED BY <1>5, <2>1, <2>2, <2>3
<1>6. ASSUME NEW S, plan' = Salvaged(plan, S)
      PROVE  \A m \in Ids(plan) : plan'[m].kind = plan[m].kind
    <2> SUFFICES ASSUME NEW m \in Ids(plan) PROVE plan'[m].kind = plan[m].kind
        OBVIOUS
    <2>1. plan[m] \in Node /\ (plan'[m] = plan[m] \/ plan'[m] = SalvagedNode(plan[m]))
        BY <1>0, <1>6 DEF Salvaged
    <2>2. SalvagedNode(plan[m]).kind = plan[m].kind
        BY <2>1 DEF SalvagedNode, Node
    <2> QED BY <2>1, <2>2
<1>7. CASE CascadeBlocked
    BY <1>0, <1>7 DEF CascadeBlocked, Cascaded, Node
<1>8. CASE UNCHANGED vars
    BY <1>8 DEF vars
<1> QED BY <1>1, <1>3, <1>4, <1>5, <1>6, <1>7, <1>8
        DEF Next, SalvageAssignment, SalvageActor

\* What applied_seeds records of a seed: the tasks it answered and the gate over
\* them, told apart by their kinds alone.
SeedsSplit ==
    \A key \in DOMAIN seeds :
        /\ seeds[key].reply = [nodes |-> seeds[key].reply.nodes, gate |-> seeds[key].reply.gate]
        /\ seeds[key].reply.gate # NoGate =>
               /\ seeds[key].reply.gate \notin seeds[key].reply.nodes
               /\ seeds[key].produced = seeds[key].reply.nodes \cup {seeds[key].reply.gate}
               /\ plan[seeds[key].reply.gate].kind = "gate"
        /\ seeds[key].reply.gate = NoGate => seeds[key].produced = seeds[key].reply.nodes

\* A first seed records its answer so.
LEMMA SeedSplits ==
    ASSUME PlanInv, SeedsSplit, NEW actor \in Actors, NEW key \in Keys,
           NEW specs \in Batches, Seed(actor, key, specs)
    PROVE  SeedsSplit'
<1> DEFINE k == Len(specs)
           g == Len(plan) + k + 1
           q == InsertBatch(plan, actor, specs, {})
<1>0. WellFormed(plan) /\ plan \in Plan /\ Len(plan) \in Nat
    BY PlanParts
<1>1. /\ specs \in Seq(NodeSpec) /\ ValidBatch(specs) /\ Deep \in BOOLEAN /\ k \in Nat
      /\ {} \in SUBSET Ids(plan)
    BY TaskGraphConstants, PlanConstants DEF Seed
<1>2. /\ DOMAIN seeds' = DOMAIN seeds \cup {key}
      /\ \A j \in DOMAIN seeds : seeds'[j] = seeds[j]
      /\ seeds'[key].produced = Produced(plan, k)
      /\ seeds'[key].reply = SeedReply(plan, k)
    BY DEF Seed
<1>3. \A m \in Ids(plan) : plan'[m].kind = plan[m].kind
    BY KindsStep DEF Next
<1>4. Deep => plan'[g].kind = "gate"
    <2>1. Len(q) = Len(plan) + k
        BY <1>0, <1>1, BatchGrows
    <2>2. Deep => plan' = AppendGate(q, actor, BatchIds(plan, k))
        BY DEF Seed, Seeded, InsertReviewed
    <2> HIDE DEF q
    <2>3. g \in 1..(Len(q) + 1) /\ ~(g <= Len(q))
        BY <1>0, <1>1, <2>1
    <2> QED BY <2>2, <2>3 DEF AppendGate, NewNode
<1>5. /\ SeedReply(plan, k).nodes = BatchIds(plan, k)
      /\ SeedReply(plan, k) = [nodes |-> SeedReply(plan, k).nodes,
                               gate |-> SeedReply(plan, k).gate]
      /\ Deep => SeedReply(plan, k).gate = g /\ Produced(plan, k) = BatchIds(plan, k) \cup {g}
      /\ ~Deep => SeedReply(plan, k).gate = NoGate /\ Produced(plan, k) = BatchIds(plan, k)
      /\ g # NoGate /\ g \notin BatchIds(plan, k)
    BY <1>0, <1>1 DEF SeedReply, Produced, NoGate, BatchIds
<1> SUFFICES ASSUME NEW j \in DOMAIN seeds'
             PROVE  /\ seeds'[j].reply = [nodes |-> seeds'[j].reply.nodes,
                                          gate |-> seeds'[j].reply.gate]
                    /\ seeds'[j].reply.gate # NoGate =>
                          /\ seeds'[j].reply.gate \notin seeds'[j].reply.nodes
                          /\ seeds'[j].produced =
                                seeds'[j].reply.nodes \cup {seeds'[j].reply.gate}
                          /\ plan'[seeds'[j].reply.gate].kind = "gate"
                    /\ seeds'[j].reply.gate = NoGate =>
                          seeds'[j].produced = seeds'[j].reply.nodes
    BY DEF SeedsSplit
<1> HIDE DEF g, q, k
<1>6. CASE j = key
    BY <1>1, <1>2, <1>4, <1>5, <1>6
<1>7. CASE j \in DOMAIN seeds
    <2>1. seeds[j].reply.gate \in Ids(plan) \cup {NoGate}
        BY <1>7 DEF PlanInv, TypeOK
    <2> QED BY <1>2, <1>3, <1>7, <2>1 DEF SeedsSplit
<1> QED BY <1>2, <1>6, <1>7

\* The other operations leave the record alone, and the kinds it is read by.
LEMMA SplitsStep == PlanInv /\ SeedsSplit /\ [Next]_vars => SeedsSplit'
<1> SUFFICES ASSUME PlanInv, SeedsSplit, [Next]_vars PROVE SeedsSplit'
    OBVIOUS
<1>1. CASE seeds' = seeds
    <2>1. \A m \in Ids(plan) : plan'[m].kind = plan[m].kind
        BY KindsStep
    <2>2. \A key \in DOMAIN seeds : seeds[key].reply.gate \in Ids(plan) \cup {NoGate}
        BY DEF PlanInv, TypeOK
    <2> QED BY <1>1, <2>1, <2>2 DEF SeedsSplit
<1>2. CASE \E actor \in Actors, key \in Keys, specs \in Batches : Seed(actor, key, specs)
    BY <1>2, SeedSplits
<1> QED BY <1>1, <1>2 DEF Next, vars, ExpandNode, InjectFromGate, Dispatch, CompleteNode,
               FailNode, AbandonNode, SalvageAssignment, SalvageActor, CascadeBlocked

\* A repeated seed answers what the first one answered, however the plan has
\* grown and moved on since: seed's replay splits the recorded ids by kind.
THEOREM SeedsReplay == Spec => []ReplaysAgree
<1>1. ASSUME PlanInv, SeedsSplit PROVE ReplaysAgree
    <2> SUFFICES ASSUME NEW key \in DOMAIN seeds,
                        \A n \in seeds[key].reply.nodes : plan[n].kind = "task"
                 PROVE  ReplayReply(key) = seeds[key].reply
        BY DEF ReplaysAgree
    <2> DEFINE gates == {n \in seeds[key].produced : plan[n].kind = "gate"}
    <2>0. /\ seeds[key].reply = [nodes |-> seeds[key].reply.nodes,
                                 gate |-> seeds[key].reply.gate]
          /\ ReplayReply(key) =
                 [nodes |-> seeds[key].produced \ gates,
                  gate  |-> IF gates = {} THEN NoGate
                            ELSE CHOOSE g \in gates : \A h \in gates : g <= h]
        BY <1>1 DEF SeedsSplit, ReplayReply
    <2>1. CASE seeds[key].reply.gate = NoGate
        <3>1. seeds[key].produced = seeds[key].reply.nodes
            BY <1>1, <2>1 DEF SeedsSplit
        <3>2. gates = {}
            BY <3>1
        <3> HIDE DEF gates
        <3> QED BY <2>0, <2>1, <3>1, <3>2
    <2>2. CASE seeds[key].reply.gate # NoGate
        <3>1. PICK g \in Ids(plan) : g = seeds[key].reply.gate
            BY <1>1, <2>2 DEF PlanInv, TypeOK
        <3>2. /\ g \notin seeds[key].reply.nodes /\ plan[g].kind = "gate"
              /\ seeds[key].produced = seeds[key].reply.nodes \cup {g}
            BY <1>1, <2>2, <3>1 DEF SeedsSplit
        <3>3. gates = {g}
            BY <3>2
        <3> HIDE DEF gates
        <3>4. g <= g
            BY DEF Ids
        <3>5. (CHOOSE x \in gates : \A h \in gates : x <= h) = g
            BY <3>3, <3>4
        <3> QED BY <2>0, <3>1, <3>2, <3>3, <3>5
    <2> QED BY <2>1, <2>2
<1>2. Init => SeedsSplit
    BY DEF Init, SeedsSplit
<1> QED BY <1>1, <1>2, SplitsStep, PlanInvariant, PTL DEF Spec

=============================================================================
