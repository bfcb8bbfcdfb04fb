--------------------------- MODULE PlanOps_proofs ---------------------------
(****************************************************************************)
(* Lemmas about the operators of PlanOps: what growing a plan by a batch,   *)
(* rewiring a node onto the batch, and changing statuses preserve.  They    *)
(* hold for plans of any length and batches of any shape.                   *)
(****************************************************************************)
EXTENDS PlanOps, TLAPS

\* The ids of q that p does not have.
NewIds(p, q) == (Len(p) + 1)..Len(q)

\* A node as insert leaves it.
IsFresh(node) ==
    /\ node \in Node
    /\ node.status = "pending"
    /\ node.assignee = NoActor
    /\ node.artifact = FALSE
    /\ node.reclaims = 0

\* q is p with fresh nodes behind it that wait only on each other and on base,
\* and not in a circle.
Grown(p, q, base) ==
    /\ q \in Plan
    /\ Len(q) \in Nat
    /\ Len(p) < Len(q)
    /\ \A i \in Ids(p) : q[i] = p[i]
    /\ \A i \in NewIds(p, q) : IsFresh(q[i])
    /\ \A i \in NewIds(p, q) : q[i].upstream \subseteq base \cup NewIds(p, q)
    /\ \A S \in SUBSET NewIds(p, q) :
           S # {} => \E i \in S : q[i].upstream \cap S = {}

----------------------------------------------------------------------------
(* Lengths and types of the constructors. *)

\* A new node is fresh and waits on what it was given.
LEMMA NewNodeFresh ==
    ASSUME NEW kind \in Kinds, NEW owner \in Actors,
           NEW upstream \in SUBSET (Nat \ {0})
    PROVE  /\ IsFresh(NewNode(kind, owner, upstream))
           /\ NewNode(kind, owner, upstream).upstream = upstream
BY DEF IsFresh, NewNode, Node, Statuses, Terminal, BadEnd

\* insert_batch appends one fresh node per spec, which waits on what it
\* inherits and on its in-batch dependencies.
LEMMA InsertBatchShape ==
    ASSUME NEW p \in Plan, NEW owner \in Actors, NEW specs \in Seq(NodeSpec),
           ValidBatch(specs), NEW inherited \in SUBSET Ids(p)
    PROVE  LET q == InsertBatch(p, owner, specs, inherited)
           IN  /\ q \in Plan
               /\ Len(q) = Len(p) + Len(specs)
               /\ \A i \in Ids(p) : q[i] = p[i]
               /\ \A i \in BatchIds(p, Len(specs)) :
                      /\ IsFresh(q[i])
                      /\ q[i].upstream =
                            inherited \cup {Len(p) + d : d \in specs[i - Len(p)].deps}
<1> DEFINE q == InsertBatch(p, owner, specs, inherited)
           up(i) == inherited \cup {Len(p) + d : d \in specs[i - Len(p)].deps}
<1>0. Len(p) \in Nat /\ Len(specs) \in Nat
    BY DEF Plan
<1>1. ASSUME NEW i \in BatchIds(p, Len(specs))
      PROVE  /\ i \in 1..(Len(p) + Len(specs))
             /\ ~(i <= Len(p))
             /\ i - Len(p) \in 1..Len(specs)
             /\ specs[i - Len(p)] \in NodeSpec
    BY <1>0 DEF BatchIds
<1>2. ASSUME NEW i \in BatchIds(p, Len(specs))
      PROVE  up(i) \in SUBSET (Nat \ {0})
    BY <1>0, <1>1 DEF NodeSpec, Ids
<1>3. ASSUME NEW i \in BatchIds(p, Len(specs))
      PROVE  q[i] = NewNode(specs[i - Len(p)].kind, owner, up(i))
    BY <1>1 DEF InsertBatch
<1>4. ASSUME NEW i \in BatchIds(p, Len(specs))
      PROVE  IsFresh(q[i]) /\ q[i].upstream = up(i)
    <2>1. specs[i - Len(p)].kind \in Kinds
        BY <1>1 DEF NodeSpec
    <2> HIDE DEF up
    <2> QED BY <1>2, <1>3, <2>1, NewNodeFresh
<1>5. ASSUME NEW i \in Ids(p)
      PROVE  q[i] = p[i] /\ q[i] \in Node /\ i \in 1..(Len(p) + Len(specs))
    BY <1>0 DEF InsertBatch, Ids, Plan
<1>6. \A i \in 1..(Len(p) + Len(specs)) :
          i \in Ids(p) \/ i \in BatchIds(p, Len(specs))
    BY <1>0 DEF Ids, BatchIds
<1>7. \A i \in 1..(Len(p) + Len(specs)) : q[i] \in Node
    BY <1>4, <1>5, <1>6 DEF IsFresh
<1>8. q = [i \in 1..(Len(p) + Len(specs)) |-> q[i]]
    BY DEF InsertBatch
<1>9. q \in [1..(Len(p) + Len(specs)) -> Node]
    BY <1>7, <1>8
<1>10. q \in Plan /\ Len(q) = Len(p) + Len(specs)
    BY <1>0, <1>9 DEF Plan
<1> QED BY <1>4, <1>5, <1>10

\* append_gate appends one fresh gate over the given nodes.
LEMMA AppendGateShape ==
    ASSUME NEW p \in Plan, NEW owner \in Actors, NEW over \in SUBSET Ids(p)
    PROVE  LET q == AppendGate(p, owner, over)
           IN  /\ q \in Plan
               /\ Len(q) = Len(p) + 1
               /\ \A i \in Ids(p) : q[i] = p[i]
               /\ IsFresh(q[Len(p) + 1])
               /\ q[Len(p) + 1].upstream = over
<1> DEFINE q == AppendGate(p, owner, over)
<1>0. Len(p) \in Nat
    BY DEF Plan
<1>1. q[Len(p) + 1] = NewNode("gate", owner, over)
    BY <1>0 DEF AppendGate
<1>2. over \in SUBSET (Nat \ {0})
    BY <1>0 DEF Ids
<1>3. IsFresh(q[Len(p) + 1])
    BY <1>1, <1>2, NewNodeFresh DEF Kinds
<1>4. q[Len(p) + 1].upstream = over
    BY <1>1 DEF NewNode
<1>5. \A i \in Ids(p) : q[i] = p[i] /\ q[i] \in Node
    BY <1>0 DEF AppendGate, Ids, Plan
<1>6. \A i \in 1..(Len(p) + 1) : i \in Ids(p) \/ i = Len(p) + 1
    BY <1>0 DEF Ids
<1>7. \A i \in 1..(Len(p) + 1) : q[i] \in Node
    BY <1>3, <1>5, <1>6 DEF IsFresh
<1>8. q = [i \in 1..(Len(p) + 1) |-> q[i]]
    BY DEF AppendGate
<1>9. q \in [1..(Len(p) + 1) -> Node]
    BY <1>7, <1>8
<1>10. q \in Plan /\ Len(q) = Len(p) + 1
    BY <1>0, <1>9 DEF Plan
<1> QED BY <1>3, <1>4, <1>5, <1>10

----------------------------------------------------------------------------
(* Growing a plan. *)

\* A valid batch grows the plan, with or without the gate over it, and every
\* task of the batch waits on all that it inherits.
LEMMA BatchGrows ==
    ASSUME NEW p \in Plan, NEW owner \in Actors, NEW specs \in Seq(NodeSpec),
           ValidBatch(specs), NEW inherited \in SUBSET Ids(p)
    PROVE  LET q == InsertBatch(p, owner, specs, inherited)
           IN  /\ Grown(p, q, inherited)
               /\ Len(q) = Len(p) + Len(specs)
               /\ NewIds(p, q) = BatchIds(p, Len(specs))
               /\ BatchIds(p, Len(specs)) # {}
               /\ \A i \in BatchIds(p, Len(specs)) : inherited \subseteq q[i].upstream
<1> DEFINE q == InsertBatch(p, owner, specs, inherited)
           k == Len(specs)
<1>0. Len(p) \in Nat /\ k \in Nat /\ k # 0
    BY DEF Plan, ValidBatch
<1>1. /\ q \in Plan
      /\ Len(q) = Len(p) + k
      /\ \A i \in Ids(p) : q[i] = p[i]
      /\ \A i \in BatchIds(p, k) :
             /\ IsFresh(q[i])
             /\ q[i].upstream = inherited \cup {Len(p) + d : d \in specs[i - Len(p)].deps}
    BY InsertBatchShape
<1> HIDE DEF q
<1>2. NewIds(p, q) = BatchIds(p, k)
    BY <1>1 DEF NewIds, BatchIds
<1>3. ASSUME NEW i \in BatchIds(p, k)
      PROVE  i - Len(p) \in 1..k
    BY <1>0 DEF BatchIds
<1>4. ASSUME NEW i \in BatchIds(p, k)
      PROVE  q[i].upstream \subseteq inherited \cup BatchIds(p, k)
    <2>1. specs[i - Len(p)].deps \subseteq 1..k
        BY <1>3 DEF ValidBatch
    <2> QED BY <1>0, <1>1, <2>1 DEF BatchIds
<1>5. ASSUME NEW S \in SUBSET BatchIds(p, k), S # {}
      PROVE  \E i \in S : q[i].upstream \cap S = {}
    <2> DEFINE T == {j \in 1..k : Len(p) + j \in S}
    <2>1. T # {}
        <3>1. PICK s \in S : TRUE
            BY <1>5
        <3>2. s - Len(p) \in T
            BY <1>0, <1>3 DEF BatchIds
        <3> QED BY <3>2
    <2>2. PICK j \in T : specs[j].deps \cap T = {}
        BY <2>1 DEF ValidBatch
    <2>3. Len(p) + j \in S /\ (Len(p) + j) - Len(p) = j
        BY <1>0
    <2>4. ASSUME NEW u \in S, u \in q[Len(p) + j].upstream
          PROVE  FALSE
        <3>1. u \notin inherited
            BY <1>0, <2>4 DEF BatchIds, Ids
        <3>2. PICK d \in specs[j].deps : u = Len(p) + d
            BY <1>1, <2>3, <2>4, <3>1
        <3>3. d \in T
            BY <2>4, <3>2 DEF ValidBatch
        <3> QED BY <2>2, <3>2, <3>3
    <2> QED BY <2>3, <2>4
<1>6. Len(p) + 1 \in BatchIds(p, k)
    BY <1>0 DEF BatchIds
<1>7. Len(q) \in Nat /\ Len(p) < Len(q)
    BY <1>0, <1>1
<1>8. Grown(p, q, inherited)
    BY <1>1, <1>2, <1>4, <1>5, <1>7 DEF Grown
<1> QED BY <1>1, <1>2, <1>6, <1>8 DEF q

\* The same with deep mode's gate: the node that waits on the batch (the join)
\* waits on new nodes, and whoever holds those and all they wait on holds
\* what the batch inherits.
LEMMA ReviewedGrows ==
    ASSUME NEW p \in Plan, NEW owner \in Actors, NEW specs \in Seq(NodeSpec),
           ValidBatch(specs), NEW inherited \in SUBSET Ids(p), Deep \in BOOLEAN
    PROVE  LET q == InsertReviewed(p, owner, specs, inherited)
               k == Len(specs)
           IN  /\ Grown(p, q, inherited)
               /\ BatchIds(p, k) # {}
               /\ BatchIds(p, k) \subseteq NewIds(p, q)
               /\ JoinInputs(p, k) # {}
               /\ JoinInputs(p, k) \subseteq NewIds(p, q)
               /\ NewIds(p, q) = BatchIds(p, k) \cup JoinInputs(p, k)
               /\ \A i \in BatchIds(p, k) : inherited \subseteq q[i].upstream
               /\ Deep => /\ Len(p) + k + 1 \in NewIds(p, q)
                          /\ q[Len(p) + k + 1].upstream = BatchIds(p, k)
<1> DEFINE k == Len(specs)
           b == InsertBatch(p, owner, specs, inherited)
           q == InsertReviewed(p, owner, specs, inherited)
           g == Len(p) + k + 1
<1>0. Len(p) \in Nat /\ k \in Nat /\ k # 0
    BY DEF Plan, ValidBatch
<1>1. /\ Grown(p, b, inherited)
      /\ Len(b) = Len(p) + k
      /\ NewIds(p, b) = BatchIds(p, k)
      /\ BatchIds(p, k) # {}
      /\ \A i \in BatchIds(p, k) : inherited \subseteq b[i].upstream
    BY BatchGrows
<1>2. CASE ~Deep
    <2>1. q = b /\ JoinInputs(p, k) = BatchIds(p, k)
        BY <1>2 DEF InsertReviewed, JoinInputs
    <2> HIDE DEF b, q, k
    <2> QED BY <1>1, <1>2, <2>1 DEF q, k
<1>3. CASE Deep
    <2>1. q = AppendGate(b, owner, BatchIds(p, k)) /\ JoinInputs(p, k) = {g}
        BY <1>3 DEF InsertReviewed, JoinInputs
    <2>2. BatchIds(p, k) \subseteq Ids(b) /\ b \in Plan
        BY <1>0, <1>1 DEF BatchIds, Ids, Grown
    <2>3. /\ q \in Plan
          /\ Len(q) = g
          /\ \A i \in Ids(b) : q[i] = b[i]
          /\ IsFresh(q[g])
          /\ q[g].upstream = BatchIds(p, k)
        <3> HIDE DEF b, q
        <3> QED BY <1>0, <1>1, <2>1, <2>2, AppendGateShape
    <2> HIDE DEF b, q, k
    <2>4. /\ NewIds(p, q) = BatchIds(p, k) \cup {g}
          /\ g \notin BatchIds(p, k)
          /\ g \notin inherited
        BY <1>0, <1>1, <2>3 DEF NewIds, BatchIds, Ids
    <2>5. \A i \in Ids(p) : i \in Ids(b) /\ q[i] = p[i]
        BY <1>0, <1>1, <2>3 DEF Ids, Grown
    <2>6. \A i \in BatchIds(p, k) : q[i] = b[i]
        BY <2>2, <2>3
    <2>7. \A i \in NewIds(p, q) : IsFresh(q[i])
        BY <1>1, <2>3, <2>4, <2>6 DEF Grown
    <2>8. \A i \in NewIds(p, q) : q[i].upstream \subseteq inherited \cup NewIds(p, q)
        BY <1>1, <2>3, <2>4, <2>6 DEF Grown
    <2>9. ASSUME NEW S \in SUBSET NewIds(p, q), S # {}
          PROVE  \E i \in S : q[i].upstream \cap S = {}
        <3>1. CASE S \cap BatchIds(p, k) = {}
            BY <2>3, <2>4, <2>9, <3>1
        <3>2. CASE S \cap BatchIds(p, k) # {}
            <4> DEFINE T == S \cap BatchIds(p, k)
            <4>0. T \in SUBSET NewIds(p, b) /\ T # {}
                BY <1>1, <3>2
            <4>1. PICK i \in T : b[i].upstream \cap T = {}
                <5> HIDE DEF T
                <5> QED BY <1>1, <4>0 DEF Grown
            <4>2. b[i].upstream \subseteq inherited \cup BatchIds(p, k)
                BY <1>1, <4>1 DEF Grown
            <4>3. g \notin b[i].upstream
                BY <2>4, <4>2
            <4> QED BY <2>4, <2>6, <4>1, <4>3
        <3> QED BY <3>1, <3>2
    <2>10. Len(q) \in Nat /\ Len(p) < Len(q)
        BY <1>0, <2>3
    <2>11. Grown(p, q, inherited)
        BY <2>3, <2>5, <2>7, <2>8, <2>9, <2>10 DEF Grown
    <2> QED BY <1>1, <2>1, <2>3, <2>4, <2>6, <2>11 DEF q, k
<1> QED BY <1>2, <1>3

\* Growing keeps a plan well formed, its running tasks supplied, and acyclic.
LEMMA GrownPreserves ==
    ASSUME NEW p, NEW q, NEW base \in SUBSET Ids(p),
           WellFormed(p), HasInputs(p), IsAcyclic(p), Grown(p, q, base)
    PROVE  /\ Ids(p) \subseteq Ids(q)
           /\ WellFormed(q)
           /\ HasInputs(q)
           /\ IsAcyclic(q)
<1>0. /\ p \in Plan /\ q \in Plan
      /\ Len(p) \in Nat /\ Len(q) \in Nat /\ Len(p) < Len(q)
    BY DEF WellFormed, Plan, Grown
<1>1. /\ Ids(q) = Ids(p) \cup NewIds(p, q)
      /\ Ids(p) \cap NewIds(p, q) = {}
    BY <1>0 DEF Ids, NewIds
<1>2. WellFormed(q)
    <2>1. ASSUME NEW n \in Ids(q)
          PROVE  /\ q[n].upstream \subseteq Ids(q)
                 /\ q[n].status = "assigned" <=> q[n].assignee # NoActor
                 /\ q[n].artifact <=> q[n].status = "complete"
                 /\ q[n].reclaims <= ReclaimLimit
        <3>1. CASE n \in Ids(p)
            BY <1>1, <3>1 DEF WellFormed, Grown
        <3>2. CASE n \in NewIds(p, q)
            <4>1. IsFresh(q[n]) /\ q[n].upstream \subseteq Ids(q)
                BY <1>1, <3>2 DEF Grown
            <4> QED BY <4>1, PlanConstants DEF IsFresh
        <3> QED BY <1>1, <3>1, <3>2
    <2> QED BY <1>0, <2>1 DEF WellFormed
<1>3. HasInputs(q)
    <2> SUFFICES ASSUME NEW n \in Ids(q), q[n].status \in {"assigned", "complete"},
                        NEW u \in q[n].upstream
                 PROVE  q[u].status = "complete"
        BY DEF HasInputs
    <2>1. n \in Ids(p)
        BY <1>1 DEF Grown, IsFresh
    <2>2. q[n] = p[n] /\ u \in Ids(p)
        BY <2>1 DEF Grown, WellFormed
    <2> QED BY <2>1, <2>2 DEF HasInputs, Grown
<1>4. IsAcyclic(q)
    <2> SUFFICES ASSUME NEW S \in SUBSET Ids(q), S # {}
                 PROVE  \E n \in S : q[n].upstream \cap S = {}
        BY DEF IsAcyclic
    <2> DEFINE T == S \cap Ids(p)
    <2>1. CASE T = {}
        <3>1. S \in SUBSET NewIds(p, q)
            BY <1>1, <2>1
        <3> QED BY <3>1 DEF Grown
    <2>2. CASE T # {}
        <3>1. PICK n \in T : p[n].upstream \cap T = {}
            BY <2>2 DEF IsAcyclic
        <3>2. q[n] = p[n] /\ p[n].upstream \subseteq Ids(p)
            BY <3>1 DEF Grown, WellFormed
        <3> QED BY <3>1, <3>2
    <2> QED BY <2>1, <2>2
<1> QED BY <1>1, <1>2, <1>3, <1>4

----------------------------------------------------------------------------
(* Rewiring a node onto the batch it was given. *)

\* In an acyclic plan no task depends on itself, by however long a way: there
\* is an up-closed set that holds its dependencies and not the task.
LEMMA NoSelfDependency ==
    ASSUME NEW p, WellFormed(p), IsAcyclic(p), NEW n \in Ids(p)
    PROVE  ~DependsTransitivelyOn(p, n, n)
<1> SUFFICES ASSUME DependsTransitivelyOn(p, n, n)
             PROVE  FALSE
    OBVIOUS
<1> DEFINE B == {m \in Ids(p) : DependsTransitivelyOn(p, m, n)}
           C == Ids(p) \ B
<1>1. PICK m \in B : p[m].upstream \cap B = {}
    <2>1. B \in SUBSET Ids(p) /\ n \in B
        OBVIOUS
    <2> HIDE DEF B
    <2> QED BY <2>1 DEF IsAcyclic
<1>2. ASSUME NEW c \in C, NEW u \in p[c].upstream
      PROVE  u \in C
    <2>1. PICK S \in SUBSET Ids(p) :
                p[c].upstream \subseteq S /\ IsUpClosed(p, S) /\ n \notin S
        BY DEF DependsTransitivelyOn
    <2>2. u \in Ids(p) /\ p[u].upstream \subseteq S
        BY <2>1 DEF IsUpClosed
    <2>3. ~DependsTransitivelyOn(p, u, n)
        BY <2>1, <2>2 DEF DependsTransitivelyOn
    <2> QED BY <2>2, <2>3
<1>3. C \in SUBSET Ids(p) /\ IsUpClosed(p, C)
    BY <1>2 DEF IsUpClosed
<1>4. p[m].upstream \subseteq C /\ m \in Ids(p)
    BY <1>1 DEF WellFormed
<1>5. n \in C
    <2>1. DependsTransitivelyOn(p, m, n)
        BY <1>1
    <2> HIDE DEF C
    <2> QED BY <1>3, <1>4, <2>1 DEF DependsTransitivelyOn
<1> QED BY <1>5

\* ensure_no_cycle never refuses an edge from a task to the batch that inherits
\* its dependencies: the early return in expand_node and inject_from_gate that
\* would leave a half-built batch behind cannot be taken.
LEMMA NeverRefused ==
    ASSUME NEW p, WellFormed(p), IsAcyclic(p), NEW n \in Ids(p),
           NEW q, Grown(p, q, p[n].upstream), NEW up \in NewIds(p, q)
    PROVE  ~WouldCycle(q, n, up)
<1>0. /\ Len(p) \in Nat /\ Len(q) \in Nat /\ Len(p) < Len(q)
      /\ p[n].upstream \subseteq Ids(p)
    BY DEF WellFormed, Plan, Grown
<1>1. /\ Ids(q) = Ids(p) \cup NewIds(p, q)
      /\ n \notin NewIds(p, q)
    BY <1>0 DEF Ids, NewIds
<1>2. PICK C \in SUBSET Ids(p) :
            p[n].upstream \subseteq C /\ IsUpClosed(p, C) /\ n \notin C
    BY NoSelfDependency DEF DependsTransitivelyOn
<1> DEFINE S == C \cup NewIds(p, q)
<1>3. S \in SUBSET Ids(q) /\ n \notin S
    BY <1>1, <1>2
<1>4. ASSUME NEW m \in S
      PROVE  q[m].upstream \subseteq S
    <2>1. CASE m \in C
        BY <1>2, <2>1 DEF IsUpClosed, Grown
    <2>2. CASE m \in NewIds(p, q)
        BY <1>2, <2>2 DEF Grown
    <2> QED BY <2>1, <2>2
<1>5. ~DependsTransitivelyOn(q, up, n)
    BY <1>3, <1>4 DEF DependsTransitivelyOn, IsUpClosed
<1> QED BY <1>1, <1>5 DEF WouldCycle

\* Sending a task that has not ended back to wait on the batch, and perhaps on
\* what it waited on before, keeps all three.
LEMMA RewiringPreserves ==
    ASSUME NEW p, WellFormed(p), HasInputs(p), IsAcyclic(p),
           NEW n \in Ids(p), ~IsTerminal(p, n),
           NEW q, Grown(p, q, p[n].upstream),
           NEW W \in SUBSET (p[n].upstream \cup NewIds(p, q)),
           NEW r, r = Requeued(q, n, W)
    PROVE  /\ Len(r) = Len(q)
           /\ \A i \in Ids(q) : i # n => r[i] = q[i]
           /\ r[n].upstream = W
           /\ WellFormed(r)
           /\ HasInputs(r)
           /\ IsAcyclic(r)
<1>0. /\ p \in Plan /\ q \in Plan
      /\ Len(p) \in Nat /\ Len(q) \in Nat /\ Len(p) < Len(q)
      /\ p[n].upstream \subseteq Ids(p)
    BY DEF WellFormed, Plan, Grown
<1>1. /\ Ids(q) = Ids(p) \cup NewIds(p, q)
      /\ Ids(p) \cap NewIds(p, q) = {}
      /\ q[n] = p[n]
      /\ n \in Ids(q)
    BY <1>0 DEF Ids, NewIds, Grown
<1>2. WellFormed(q) /\ HasInputs(q)
    BY <1>0, GrownPreserves
<1>3. W \in SUBSET (Nat \ {0}) /\ W \subseteq Ids(q)
    BY <1>0, <1>1 DEF Ids
<1>4. /\ Len(r) = Len(q)
      /\ Ids(r) = Ids(q)
      /\ \A i \in Ids(q) : i # n => r[i] = q[i]
      /\ r[n] = [q[n] EXCEPT !.upstream = W, !.status = "pending",
                             !.assignee = NoActor]
      /\ r \in Plan
    <2>1. q[n] \in Node
        BY <1>0, <1>1 DEF Plan, Ids
    <2> DEFINE node == [q[n] EXCEPT !.upstream = W, !.status = "pending",
                                    !.assignee = NoActor]
    <2>2. node \in Node
        BY <1>3, <2>1 DEF Node, Statuses
    <2>3. r = [q EXCEPT ![n] = node]
        BY DEF Requeued
    <2> HIDE DEF node
    <2>4. /\ r \in Plan /\ Len(r) = Len(q) /\ Ids(r) = Ids(q) /\ r[n] = node
          /\ \A i \in Ids(q) : i # n => r[i] = q[i]
        BY <1>0, <1>1, <2>2, <2>3 DEF Plan, Ids
    <2> QED BY <2>4 DEF node
<1>5. /\ r[n].upstream = W
      /\ r[n].status = "pending"
      /\ r[n].assignee = NoActor
      /\ r[n].artifact = q[n].artifact
      /\ r[n].reclaims = q[n].reclaims
    <2>1. q[n] \in Node
        BY <1>0, <1>1 DEF Plan, Ids
    <2> QED BY <1>4, <2>1 DEF Node
<1>6. ~q[n].artifact /\ q[n].status # "complete"
    BY <1>1, <1>2 DEF WellFormed, IsTerminal, Terminal
<1>7. WellFormed(r)
    <2>1. ASSUME NEW m \in Ids(r)
          PROVE  /\ r[m].upstream \subseteq Ids(r)
                 /\ r[m].status = "assigned" <=> r[m].assignee # NoActor
                 /\ r[m].artifact <=> r[m].status = "complete"
                 /\ r[m].reclaims <= ReclaimLimit
        <3>1. CASE m = n
            BY <1>1, <1>2, <1>3, <1>4, <1>5, <1>6, <3>1 DEF WellFormed
        <3>2. CASE m # n
            BY <1>2, <1>4, <3>2 DEF WellFormed
        <3> QED BY <3>1, <3>2
    <2> QED BY <1>4, <2>1 DEF WellFormed
<1>8. HasInputs(r)
    <2> SUFFICES ASSUME NEW m \in Ids(r), r[m].status \in {"assigned", "complete"},
                        NEW u \in r[m].upstream
                 PROVE  r[u].status = "complete"
        BY DEF HasInputs
    <2>1. m # n /\ r[m] = q[m] /\ m \in Ids(q)
        BY <1>4, <1>5
    <2>2. q[u].status = "complete" /\ u \in Ids(q)
        BY <1>2, <2>1 DEF HasInputs, WellFormed
    <2> QED BY <1>4, <1>6, <2>2
<1>9. IsAcyclic(r)
    <2> SUFFICES ASSUME NEW S \in SUBSET Ids(q), S # {}
                 PROVE  \E m \in S : r[m].upstream \cap S = {}
        BY <1>4 DEF IsAcyclic
    <2>1. \A m \in Ids(p) : m # n => r[m].upstream = p[m].upstream
        BY <1>1, <1>4 DEF Grown
    <2>2. \A m \in Ids(p) : p[m].upstream \subseteq Ids(p)
        BY DEF WellFormed
    <2>3. \A m \in NewIds(p, q) : r[m] = q[m]
        BY <1>1, <1>4
    <2>4. CASE S \cap NewIds(p, q) = {}
        <3>1. S \in SUBSET Ids(p)
            BY <1>1, <2>4
        <3>2. PICK m \in S : p[m].upstream \cap S = {}
            BY <3>1 DEF IsAcyclic
        <3> QED BY <1>5, <2>1, <2>4, <3>1, <3>2
    <2>5. CASE S \cap NewIds(p, q) # {}
        <3> DEFINE T == (S \cap Ids(p)) \cup {n}
        <3>1. T \in SUBSET Ids(p) /\ T # {}
            OBVIOUS
        <3>2. PICK m \in T : p[m].upstream \cap T = {}
            <4> HIDE DEF T
            <4> QED BY <3>1 DEF IsAcyclic
        <3>3. CASE m # n
            BY <2>1, <2>2, <3>2, <3>3
        <3>4. CASE m = n
            <4> DEFINE U == S \cap NewIds(p, q)
            <4>1. U \in SUBSET NewIds(p, q) /\ U # {}
                BY <2>5
            <4>2. PICK i \in U : q[i].upstream \cap U = {}
                <5> HIDE DEF U
                <5> QED BY <4>1 DEF Grown
            <4>3. q[i].upstream \subseteq p[n].upstream \cup NewIds(p, q)
                BY <4>2 DEF Grown
            <4>4. p[n].upstream \cap S = {}
                BY <1>0, <3>2, <3>4
            <4>5. q[i].upstream \cap S = {}
                BY <4>2, <4>3, <4>4
            <4> QED BY <2>3, <4>2, <4>5
        <3> QED BY <3>3, <3>4
    <2> QED BY <2>4, <2>5
<1> QED BY <1>4, <1>5, <1>7, <1>8, <1>9

----------------------------------------------------------------------------
(* Changing statuses. *)

\* What an operation that leaves the graph alone may make of task n.
LegalChange(p, n, node) ==
    /\ node \in Node
    /\ node.kind = p[n].kind /\ node.owner = p[n].owner
    /\ node.upstream = p[n].upstream
    /\ node.status = "assigned" <=> node.assignee # NoActor
    /\ node.artifact <=> node.status = "complete"
    /\ node.reclaims <= ReclaimLimit
    /\ IsTerminal(p, n) => node = p[n]
    /\ node.status \in {"assigned", "complete"} =>
           p[n].status \in {"assigned", "complete"} \/ IsReady(p, n)

\* Such operations keep a plan well formed, its running tasks supplied, and
\* acyclic.
LEMMA StatusesPreserve ==
    ASSUME NEW p, WellFormed(p), HasInputs(p), IsAcyclic(p),
           NEW q, DOMAIN q = Ids(p), q = [i \in Ids(p) |-> q[i]],
           \A n \in Ids(p) : LegalChange(p, n, q[n])
    PROVE  /\ Len(q) = Len(p)
           /\ Ids(q) = Ids(p)
           /\ WellFormed(q)
           /\ HasInputs(q)
           /\ IsAcyclic(q)
<1>0. p \in Plan /\ Len(p) \in Nat
    BY DEF WellFormed, Plan
<1>1. /\ q \in Plan
      /\ Len(q) = Len(p)
      /\ Ids(q) = Ids(p)
    <2>1. \A n \in 1..Len(p) : q[n] \in Node
        BY DEF LegalChange, Ids
    <2>2. q \in [1..Len(p) -> Node]
        BY <2>1 DEF Ids
    <2> QED BY <1>0, <2>2 DEF Plan, Ids
<1>2. WellFormed(q)
    BY <1>1 DEF WellFormed, LegalChange
<1>3. HasInputs(q)
    <2> SUFFICES ASSUME NEW n \in Ids(p), q[n].status \in {"assigned", "complete"},
                        NEW u \in q[n].upstream
                 PROVE  q[u].status = "complete"
        BY <1>1 DEF HasInputs
    <2>1. u \in p[n].upstream /\ u \in Ids(p)
        BY DEF LegalChange, WellFormed
    <2>2. p[u].status = "complete"
        BY <2>1 DEF LegalChange, HasInputs, IsReady
    <2> QED BY <2>1, <2>2 DEF LegalChange, IsTerminal, Terminal
<1>4. IsAcyclic(q)
    BY <1>1 DEF IsAcyclic, LegalChange
<1> QED BY <1>1, <1>2, <1>3, <1>4

\* A task left as it is counts as a legal change.
LEMMA SameIsLegal ==
    ASSUME NEW p, WellFormed(p), NEW n \in Ids(p)
    PROVE  LegalChange(p, n, p[n])
BY DEF LegalChange, WellFormed, Plan, Ids

\* dispatch, complete_node, fail_node and abandon_node change one task legally.
LEMMA RunningIsLegal ==
    ASSUME NEW p, WellFormed(p), NEW n \in Ids(p), ~IsTerminal(p, n)
    PROVE  /\ \A actor \in Actors : IsReady(p, n) =>
                  LegalChange(p, n, Dispatched(p, n, actor)[n])
           /\ p[n].status = "assigned" => LegalChange(p, n, Completed(p, n)[n])
           /\ \A status \in BadEnd : LegalChange(p, n, Ended(p, n, status)[n])
<1>0. /\ p \in Plan /\ p[n] \in Node /\ n \in DOMAIN p
      /\ p[n].reclaims <= ReclaimLimit
      /\ ~p[n].artifact
    BY DEF WellFormed, Plan, Ids, IsTerminal, Terminal
<1>1. ASSUME NEW actor \in Actors, IsReady(p, n)
      PROVE  LegalChange(p, n, Dispatched(p, n, actor)[n])
    <2>1. actor # NoActor
        BY PlanConstants
    <2>2. Dispatched(p, n, actor)[n] = [p[n] EXCEPT !.status = "assigned", !.assignee = actor]
        BY <1>0 DEF Dispatched
    <2> QED BY <1>0, <1>1, <2>1, <2>2 DEF LegalChange, Node, Statuses
<1>2. ASSUME p[n].status = "assigned"
      PROVE  LegalChange(p, n, Completed(p, n)[n])
    <2>1. Completed(p, n)[n] = [p[n] EXCEPT !.status = "complete", !.assignee = NoActor,
                                            !.artifact = TRUE]
        BY <1>0 DEF Completed
    <2> QED BY <1>0, <1>2, <2>1 DEF LegalChange, Node, Statuses, Terminal
<1>3. ASSUME NEW status \in BadEnd
      PROVE  LegalChange(p, n, Ended(p, n, status)[n])
    <2>1. Ended(p, n, status)[n] = [p[n] EXCEPT !.status = status, !.assignee = NoActor]
        BY <1>0 DEF Ended
    <2> QED BY <1>0, <2>1 DEF LegalChange, Node, Statuses, Terminal, BadEnd
<1> QED BY <1>1, <1>2, <1>3

\* salvage_assignment changes a task legally: past the limit it fails it.
LEMMA SalvageIsLegal ==
    ASSUME NEW p, WellFormed(p), NEW n \in Ids(p), ~IsTerminal(p, n)
    PROVE  LegalChange(p, n, SalvagedNode(p[n]))
<1>0. /\ p[n] \in Node
      /\ p[n].reclaims <= ReclaimLimit
      /\ ~p[n].artifact
    BY DEF WellFormed, Plan, Ids, IsTerminal, Terminal
<1>1. CASE p[n].reclaims >= ReclaimLimit
    BY <1>0, <1>1 DEF LegalChange, SalvagedNode, Node, Statuses, Terminal, BadEnd
<1>2. CASE ~(p[n].reclaims >= ReclaimLimit)
    <2>1. p[n].reclaims \in Nat
        BY <1>0 DEF Node
    <2>2. p[n].reclaims + 1 \in Nat /\ p[n].reclaims + 1 <= ReclaimLimit
        BY <1>2, <2>1, PlanConstants
    <2> DEFINE k == p[n].reclaims + 1
               node == [p[n] EXCEPT !.status = "pending", !.assignee = NoActor,
                                    !.reclaims = k]
    <2>3. SalvagedNode(p[n]) = node
        BY <1>2 DEF SalvagedNode
    <2> HIDE DEF k
    <2>4. /\ node \in Node
          /\ node.kind = p[n].kind /\ node.owner = p[n].owner
          /\ node.upstream = p[n].upstream /\ node.status = "pending"
          /\ node.assignee = NoActor /\ node.artifact = p[n].artifact
          /\ node.reclaims = k
        BY <1>0, <2>2 DEF Node, Statuses, k
    <2> HIDE DEF node
    <2> QED BY <1>0, <2>2, <2>3, <2>4 DEF LegalChange, k
<1> QED BY <1>1, <1>2

----------------------------------------------------------------------------
(* Scheduling. *)

\* A plan that is not settled and has nothing in flight has a task that can
\* start or one that can be written off.
LEMMA Schedulable ==
    ASSUME NEW p, WellFormed(p), IsAcyclic(p), ~IsSettled(p),
           \A n \in Ids(p) : p[n].status # "assigned"
    PROVE  ReadyNodes(p) # {} \/ BlockedNodes(p) # {}
<1> DEFINE S == {n \in Ids(p) : p[n].status = "pending"}
<1>0. \A n \in Ids(p) : p[n].status \in Statuses
    <2>1. \A n \in Ids(p) : p[n] \in Node
        BY DEF WellFormed, Plan, Ids
    <2> QED BY <2>1 DEF Node
<1>1. S \in SUBSET Ids(p) /\ S # {}
    BY <1>0 DEF IsSettled, IsTerminal, Statuses
<1>2. PICK n \in S : p[n].upstream \cap S = {}
    <2> HIDE DEF S
    <2> QED BY <1>1 DEF IsAcyclic
<1>3. \A u \in p[n].upstream : u \in Ids(p) /\ p[u].status \in Terminal
    BY <1>0, <1>2 DEF WellFormed, Statuses
<1>4. IsReady(p, n) \/ IsBlocked(p, n)
    BY <1>2, <1>3 DEF IsReady, IsBlocked, Terminal
<1> QED BY <1>2, <1>4 DEF ReadyNodes, BlockedNodes

\* What cascade_blocked writes off is pending, holds every blocked task and
\* everything behind a task it holds, and each has a bad end in front of it.
LEMMA DoomedIsExact ==
    ASSUME NEW p, WellFormed(p)
    PROVE  /\ Doomed(p) \subseteq Ids(p)
           /\ \A n \in Doomed(p) : p[n].status = "pending"
           /\ \A n \in Ids(p) :
                  p[n].status = "pending" /\ (\/ IsBlocked(p, n)
                                             \/ p[n].upstream \cap Doomed(p) # {})
                      => n \in Doomed(p)
           /\ \A n \in Doomed(p) :
                  IsBlocked(p, n) \/ p[n].upstream \cap Doomed(p) # {}
<1> DEFINE pending == {n \in Ids(p) : p[n].status = "pending"}
           Holds(S) == \A n \in pending :
                           IsBlocked(p, n) \/ p[n].upstream \cap S # {} => n \in S
           D == Doomed(p)
<1>1. D = {n \in pending : \A S \in SUBSET pending : Holds(S) => n \in S}
    BY DEF Doomed
<1> HIDE DEF D
<1>2. D \subseteq pending
    BY <1>1
<1>3. ASSUME NEW n \in pending, IsBlocked(p, n) \/ p[n].upstream \cap D # {}
      PROVE  n \in D
    <2>1. ASSUME NEW S \in SUBSET pending, Holds(S)
          PROVE  n \in S
        <3>1. D \subseteq S
            BY <1>1, <2>1
        <3> QED BY <1>3, <2>1, <3>1
    <2> QED BY <1>1, <2>1
<1>4. ASSUME NEW n \in D, ~IsBlocked(p, n), p[n].upstream \cap D = {}
      PROVE  FALSE
    <2> DEFINE S == D \ {n}
    <2>1. S \in SUBSET pending
        BY <1>2
    <2>2. Holds(S)
        <3> SUFFICES ASSUME NEW m \in pending,
                            IsBlocked(p, m) \/ p[m].upstream \cap S # {}
                     PROVE  m \in S
            OBVIOUS
        <3>1. m \in D
            BY <1>3
        <3>2. m # n
            BY <1>4
        <3> QED BY <3>1, <3>2
    <2>3. n \in S
        <3> HIDE DEF S, Holds
        <3> QED BY <1>1, <2>1, <2>2
    <2> QED BY <2>3
<1> QED BY <1>2, <1>3, <1>4 DEF D

\* cascade_blocked changes tasks legally, and is exact.
LEMMA CascadeExact ==
    ASSUME NEW p, WellFormed(p)
    PROVE  LET q == Cascaded(p)
           IN  /\ q = [i \in Ids(p) |-> q[i]]
               /\ DOMAIN q = Ids(p)
               /\ \A n \in Ids(p) : LegalChange(p, n, q[n])
               /\ \A n \in Ids(p) : ~IsBlocked(q, n)
               /\ \A n \in Ids(p) : q[n] # p[n] =>
                      \E u \in p[n].upstream : q[u].status \in BadEnd
<1> DEFINE q == Cascaded(p)
           D == Doomed(p)
<1>0. p \in Plan /\ \A n \in Ids(p) : p[n] \in Node
    BY DEF WellFormed, Plan, Ids
<1>1. /\ q = [i \in Ids(p) |-> q[i]]
      /\ DOMAIN q = Ids(p)
      /\ Ids(q) = Ids(p)
      /\ \A n \in D : n \in Ids(p) => q[n] = [p[n] EXCEPT !.status = "abandoned"]
      /\ \A n \in Ids(p) : n \notin D => q[n] = p[n]
    BY <1>0 DEF Cascaded, Ids, Plan
<1> HIDE DEF q
<1>2. \A n \in D : n \in Ids(p) /\ p[n].status = "pending"
    BY DoomedIsExact
<1>3. ASSUME NEW n \in D
      PROVE  /\ q[n].status = "abandoned"
             /\ q[n].upstream = p[n].upstream
             /\ LegalChange(p, n, q[n])
    <2>1. q[n] = [p[n] EXCEPT !.status = "abandoned"] /\ n \in Ids(p)
        BY <1>1, <1>2
    <2>2. p[n] \in Node
        BY <1>0, <2>1
    <2>3. q[n] \in Node /\ q[n].status = "abandoned" /\ q[n].upstream = p[n].upstream
          /\ q[n].assignee = p[n].assignee /\ q[n].artifact = p[n].artifact
          /\ q[n].reclaims = p[n].reclaims
        BY <2>1, <2>2 DEF Node, Statuses, Terminal, BadEnd
    <2> QED BY <1>2, <2>1, <2>3 DEF LegalChange, WellFormed, IsTerminal, Terminal, BadEnd
<1>4. \A n \in Ids(p) : LegalChange(p, n, q[n])
    BY <1>1, <1>3, SameIsLegal
<1>5. ASSUME NEW n \in Ids(p), IsBlocked(q, n)
      PROVE  FALSE
    <2>1. n \notin D /\ q[n] = p[n] /\ p[n].status = "pending"
        BY <1>1, <1>3, <1>5 DEF IsBlocked
    <2>2. PICK u \in p[n].upstream : q[u].status \in BadEnd
        BY <1>1, <1>5, <2>1 DEF IsBlocked, WellFormed
    <2>3. u \in Ids(p)
        BY <2>2 DEF WellFormed
    <2>4. CASE u \in D
        BY <2>1, <2>2, <2>4, DoomedIsExact
    <2>5. CASE u \notin D
        <3>1. IsBlocked(p, n)
            BY <1>1, <2>1, <2>2, <2>3, <2>5 DEF IsBlocked
        <3> QED BY <2>1, <3>1, DoomedIsExact
    <2> QED BY <2>4, <2>5
<1>6. ASSUME NEW n \in Ids(p), q[n] # p[n]
      PROVE  \E u \in p[n].upstream : q[u].status \in BadEnd
    <2>1. n \in D
        BY <1>1, <1>6
    <2>2. CASE IsBlocked(p, n)
        <3>1. PICK u \in p[n].upstream : p[u].status \in BadEnd /\ u \in Ids(p)
            BY <2>2 DEF IsBlocked, WellFormed
        <3>2. u \notin D
            BY <1>2, <3>1 DEF BadEnd
        <3> QED BY <1>1, <3>1, <3>2
    <2>3. CASE p[n].upstream \cap D # {}
        BY <1>3, <2>3 DEF BadEnd
    <2> QED BY <2>1, <2>2, <2>3, DoomedIsExact
<1> QED BY <1>1, <1>4, <1>5, <1>6 DEF q

=============================================================================
