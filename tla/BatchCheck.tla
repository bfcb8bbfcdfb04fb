----------------------------- MODULE BatchCheck -----------------------------
(****************************************************************************)
(* validate_batch, step by step: the range check and the depth-first walk   *)
(* with an explicit stack that decides whether a batch of NodeSpecs may be  *)
(* created.  PlanOps!ValidBatch is its specification; the walk has to agree *)
(* with it for every order in which a spec lists its dependencies,          *)
(* repetitions included.                                                    *)
(****************************************************************************)
EXTENDS PlanOps

CONSTANT Batches    \* the batches submitted: per spec, its depends_on_batch list

ASSUME BatchConstants == Batches \subseteq Seq(Seq(Nat \ {0}))

VARIABLES
    deps,       \* the batch under test, 1-based
    verdict,    \* "checking", then "ok", "range" or "cycle"
    blamed,     \* PlanError::BatchCycle's index, 0 before
    start,      \* the outer loop's index
    stack,      \* <<node, edge>> frames, the top last; edge counts from 1
    settled,    \* nodes the walk is done with
    visiting    \* nodes on the current path

vars == <<deps, verdict, blamed, start, stack, settled, visiting>>

Range(s) == {s[i] : i \in 1..Len(s)}
Positions == 1..Len(deps)

Init ==
    /\ deps \in Batches
    /\ verdict = "checking"
    /\ blamed = 0
    /\ start = 0
    /\ stack = << >>
    /\ settled = {}
    /\ visiting = {}

\* Mutant of InRange: `>' for `>='.
InRangeOffByOne == \A i \in Positions : Range(deps[i]) \subseteq 1..(Len(deps) + 1)

InRange == \A i \in Positions : Range(deps[i]) \subseteq Positions

\* The first loop: one index past the end refuses the batch.
RefuseRange ==
    /\ verdict = "checking" /\ start = 0
    /\ ~InRange
    /\ verdict' = "range"
    /\ UNCHANGED <<deps, blamed, start, stack, settled, visiting>>

\* The outer loop moves on to the next node and, unless that is settled,
\* starts a walk from it.
NextStart ==
    /\ verdict = "checking" /\ stack = << >>
    /\ InRange
    /\ start < Len(deps)
    /\ start' = start + 1
    /\ IF start' \in settled
       THEN UNCHANGED <<stack, visiting>>
       ELSE /\ stack' = << <<start', 1>> >>
            /\ visiting' = visiting \cup {start'}
    /\ UNCHANGED <<deps, verdict, blamed, settled>>

Accept ==
    /\ verdict = "checking" /\ stack = << >>
    /\ InRange
    /\ start = Len(deps)
    /\ verdict' = "ok"
    /\ UNCHANGED <<deps, blamed, start, stack, settled, visiting>>

Top == stack[Len(stack)]
Below == SubSeq(stack, 1, Len(stack) - 1)

\* Mutant of Leave: the node stays on the path.
LeaveStillVisiting ==
    /\ verdict = "checking" /\ stack # << >>
    /\ Top[2] > Len(deps[Top[1]])
    /\ stack' = Below
    /\ settled' = settled \cup {Top[1]}
    /\ UNCHANGED <<deps, verdict, blamed, start, visiting>>

\* The node on top has no further dependency.
Leave ==
    /\ verdict = "checking" /\ stack # << >>
    /\ Top[2] > Len(deps[Top[1]])
    /\ stack' = Below
    /\ visiting' = visiting \ {Top[1]}
    /\ settled' = settled \cup {Top[1]}
    /\ UNCHANGED <<deps, verdict, blamed, start>>

\* Mutants of Followed: the node's own frame is not pushed back; it is pushed
\* back for the same edge.
FollowedForgetting(next) ==
    [stack |-> Append(Below, <<next, 1>>), visiting |-> visiting \cup {next}]
FollowedAgain(next) ==
    IF next \in settled
    THEN [stack |-> Append(Below, Top), visiting |-> visiting]
    ELSE [stack |-> Append(Append(Below, Top), <<next, 1>>),
          visiting |-> visiting \cup {next}]

\* The frames and the path after following a dependency that is not on the
\* path: the node's frame goes back for its next one, and an unsettled
\* dependency gets a frame of its own.
Followed(next) ==
    LET resumed == Append(Below, <<Top[1], Top[2] + 1>>)
    IN  IF next \in settled
        THEN [stack |-> resumed, visiting |-> visiting]
        ELSE [stack |-> Append(resumed, <<next, 1>>),
              visiting |-> visiting \cup {next}]

Follow ==
    /\ verdict = "checking" /\ stack # << >>
    /\ Top[2] <= Len(deps[Top[1]])
    /\ LET next == deps[Top[1]][Top[2]]
       IN  /\ next \notin visiting
           /\ stack' = Followed(next).stack
           /\ visiting' = Followed(next).visiting
    /\ UNCHANGED <<deps, verdict, blamed, start, settled>>

RefuseCycle ==
    /\ verdict = "checking" /\ stack # << >>
    /\ Top[2] <= Len(deps[Top[1]])
    /\ deps[Top[1]][Top[2]] \in visiting
    /\ verdict' = "cycle"
    /\ blamed' = deps[Top[1]][Top[2]]
    /\ UNCHANGED <<deps, start, stack, settled, visiting>>

Next == RefuseRange \/ NextStart \/ Accept \/ Leave \/ Follow \/ RefuseCycle

\* The function is a loop without waits: it keeps taking steps.
Spec == Init /\ [][Next]_vars /\ WF_vars(Next)

----------------------------------------------------------------------------
(* Properties. *)

\* Type invariant.
TypeOK ==
    /\ deps \in Seq(Seq(Nat \ {0}))
    /\ verdict \in {"checking", "ok", "range", "cycle"}
    /\ blamed \in Positions \cup {0}
    /\ start \in 0..Len(deps)
    /\ stack \in Seq(Positions \X (Nat \ {0}))
    /\ settled \subseteq Positions
    /\ visiting \subseteq Positions

\* The batch as the specs that insert_batch would read.
AsSpecs == [i \in Positions |-> [kind |-> "task", deps |-> Range(deps[i])]]

\* validate_batch answers what ValidBatch says, however the dependencies are
\* listed: an accepted batch cannot deadlock the plan, and a refused one has
\* an index out of range or a real loop.
VerdictIsRight ==
    verdict # "checking" =>
        (verdict = "ok" <=> (deps = << >> \/ ValidBatch(AsSpecs)))

\* The index a BatchCycle error names lies on a loop: it is among the nodes
\* that it waits on, directly or not.
BlameIsRight ==
    verdict = "cycle" =>
        \A S \in SUBSET Positions :
            Range(deps[blamed]) \subseteq S /\ (\A i \in S : Range(deps[i]) \subseteq S)
                => blamed \in S

\* Every batch gets an answer: the walk ends on loops too.
Answers == <>(verdict # "checking")

=============================================================================
