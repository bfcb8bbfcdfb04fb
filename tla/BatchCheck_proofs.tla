-------------------------- MODULE BatchCheck_proofs --------------------------
(****************************************************************************)
(* validate_batch gives the right answer for every batch: any number of     *)
(* specs, with any number of dependencies listed in any order.              *)
(****************************************************************************)
EXTENDS BatchCheck, TLAPS

\* The frames of the stack, and their places.
Frames == (Nat \ {0}) \X (Nat \ {0})
Depths == 1..Len(stack)

\* The dependencies of a node, and sets that hold the dependencies of members.
DepsOf(i) == Range(deps[i])
IsClosed(S) == \A i \in S : DepsOf(i) \subseteq S

\* The types.
Typed ==
    /\ deps \in Seq(Seq(Nat \ {0}))
    /\ verdict \in {"checking", "ok", "range", "cycle"}
    /\ start \in 0..Len(deps)
    /\ stack \in Seq(Frames)
    /\ settled \subseteq Positions

\* The walk begins after the range check.
Checked ==
    /\ start > 0 \/ stack # << >> \/ verdict \in {"ok", "cycle"} => InRange
    /\ verdict = "range" => ~InRange

\* The nodes on the path are the ones visited and not settled, each once.
PathIsVisiting ==
    /\ visiting = {stack[k][1] : k \in Depths}
    /\ visiting \subseteq Positions /\ visiting \cap settled = {}
    /\ \A j, k \in Depths : stack[j][1] = stack[k][1] => j = k

\* What the node at depth k has followed is settled, or is the node above it.
FollowedSoFar(k) ==
    \A e \in 1..Len(deps[stack[k][1]]) :
        e < stack[k][2] =>
            \/ deps[stack[k][1]][e] \in settled
            \/ k < Len(stack) /\ deps[stack[k][1]][e] = stack[k + 1][1]

\* The path follows dependencies, so that each node waits on all above it.
PathIsChain ==
    /\ \A k \in Depths : k < Len(stack) => stack[k + 1][1] \in DepsOf(stack[k][1])
    /\ \A j, k \in Depths : j < k =>
          \A S \in SUBSET Positions :
              DepsOf(stack[j][1]) \subseteq S /\ IsClosed(S) => stack[k][1] \in S

\* What is settled waits only on what is settled, without a loop.
SettledIsSound ==
    /\ IsClosed(settled)
    /\ \A S \in SUBSET settled : S # {} => \E i \in S : DepsOf(i) \cap S = {}

\* The outer loop leaves nothing behind.
StartsAreSettled ==
    \A i \in 1..start : i \in settled \/ (stack # << >> /\ i = stack[1][1])

\* The answer, and why.
Answered ==
    /\ verdict = "ok" => stack = << >> /\ start = Len(deps)
    /\ verdict = "cycle" => stack # << >> /\ blamed \in visiting /\ blamed \in DepsOf(Top[1])
    /\ verdict # "cycle" => blamed = 0

\* The inductive invariant.
WalkInv ==
    /\ Typed /\ Checked /\ PathIsVisiting
    /\ (\A k \in Depths : FollowedSoFar(k)) /\ PathIsChain
    /\ SettledIsSound /\ StartsAreSettled /\ Answered

----------------------------------------------------------------------------
\* All but the last element of a sequence are a sequence of the same kind.
LEMMA LoweredTyped ==
  ASSUME NEW T, NEW s \in Seq(T), s # << >>
  PROVE  SubSeq(s, 1, Len(s) - 1) \in Seq(T)
<1>1. Len(s) \in Nat \ {0}
  OBVIOUS
<1>2. \A k \in 1..(Len(s) - 1) : s[k] \in T
  BY <1>1
<1> QED  BY <1>1, <1>2

\* ... and keep their places.
LEMMA Lowered ==
  ASSUME NEW T, NEW s \in Seq(T), s # << >>
  PROVE  /\ Len(SubSeq(s, 1, Len(s) - 1)) = Len(s) - 1 /\ Len(s) \in Nat \ {0}
         /\ \A k \in 1..(Len(s) - 1) : SubSeq(s, 1, Len(s) - 1)[k] = s[k]
<1>1. Len(s) \in Nat \ {0}
  OBVIOUS
<1>2. Len(SubSeq(s, 1, Len(s) - 1)) = Len(s) - 1
  OBVIOUS
<1>3. ASSUME NEW k \in 1..(Len(s) - 1) PROVE SubSeq(s, 1, Len(s) - 1)[k] = s[k]
  BY <1>1
<1> QED  BY <1>1, <1>2, <1>3

\* One more element at the end of a sequence.
LEMMA Raised ==
  ASSUME NEW T, NEW s \in Seq(T), NEW e \in T
  PROVE  /\ Append(s, e) \in Seq(T) /\ Len(Append(s, e)) = Len(s) + 1 /\ Len(s) \in Nat
         /\ \A k \in 1..Len(s) : Append(s, e)[k] = s[k]
         /\ Append(s, e)[Len(s) + 1] = e
  OBVIOUS

\* What the types say of the path and of the dependencies.
LEMMA PathTyped ==
  ASSUME WalkInv
  PROVE  /\ Len(deps) \in Nat /\ Len(stack) \in Nat
         /\ \A i \in Positions : deps[i] \in Seq(Nat \ {0}) /\ Len(deps[i]) \in Nat
         /\ \A k \in Depths : /\ stack[k] \in Frames /\ stack[k] = <<stack[k][1], stack[k][2]>>
                              /\ stack[k][1] \in Positions
                              /\ stack[k][2] \in Nat \ {0}
         /\ stack # << >> => Len(stack) \in Depths /\ InRange
<1>0. Typed /\ Checked /\ visiting \subseteq Positions /\ visiting = {stack[k][1] : k \in Depths}
  BY DEF WalkInv, PathIsVisiting
<1>1. Len(deps) \in Nat /\ Len(stack) \in Nat
  BY <1>0 DEF Typed
<1>2. \A i \in Positions : deps[i] \in Seq(Nat \ {0}) /\ Len(deps[i]) \in Nat
  BY <1>0 DEF Typed, Positions
<1>3. \A k \in Depths : stack[k] \in Frames
  BY <1>0 DEF Typed, Depths
<1>4. \A k \in Depths : /\ stack[k] = <<stack[k][1], stack[k][2]>> /\ stack[k][2] \in Nat \ {0}
  BY <1>3 DEF Frames
<1>5. \A k \in Depths : stack[k][1] \in Positions
  BY <1>0
<1>6. stack # << >> => Len(stack) \in Depths /\ InRange
  BY <1>0 DEF Typed, Depths, Checked
<1> QED  BY <1>1, <1>2, <1>3, <1>4, <1>5, <1>6

\* The invariant holds at the start.
LEMMA WalkInit == Init => WalkInv
<1> SUFFICES ASSUME Init PROVE WalkInv
  OBVIOUS
<1>0. /\ deps \in Seq(Seq(Nat \ {0})) /\ Len(deps) \in Nat
      /\ stack = << >> /\ Len(stack) = 0 /\ Depths = {} /\ start = 0 /\ settled = {}
      /\ visiting = {} /\ verdict = "checking" /\ blamed = 0
  BY BatchConstants DEF Init, Depths
<1>1. Typed
  BY <1>0 DEF Typed
<1>2. Checked /\ PathIsVisiting
  BY <1>0 DEF Checked, PathIsVisiting
<1>3. (\A k \in Depths : FollowedSoFar(k)) /\ PathIsChain
  BY <1>0 DEF PathIsChain
<1>4. SettledIsSound /\ StartsAreSettled /\ Answered
  BY <1>0 DEF SettledIsSound, IsClosed, StartsAreSettled, Answered
<1> QED  BY <1>1, <1>2, <1>3, <1>4 DEF WalkInv

\* No step changes the batch.
LEMMA SameBatch ==
  ASSUME UNCHANGED deps
  PROVE  /\ Positions' = Positions /\ InRange' = InRange
         /\ \A i : DepsOf(i)' = DepsOf(i)
         /\ \A S : IsClosed(S)' = IsClosed(S)
<1>1. Positions' = Positions
  BY DEF Positions
<1>2. \A i : DepsOf(i)' = DepsOf(i)
  BY DEF DepsOf, Range
<1>3. InRange' = InRange
  BY DEF InRange, Positions, Range
<1>4. \A S : IsClosed(S)' = IsClosed(S)
  BY DEF IsClosed, DepsOf, Range
<1> QED  BY <1>1, <1>2, <1>3, <1>4

\* The walk is not over: range check, acceptance and refusal change only the
\* verdict, and the index that is blamed.
LEMMA VerdictStep ==
  ASSUME WalkInv, RefuseRange \/ Accept \/ RefuseCycle
  PROVE  WalkInv'
<1>0. /\ verdict = "checking" /\ UNCHANGED <<deps, start, stack, settled, visiting>>
      /\ blamed = 0
  BY DEF RefuseRange, Accept, RefuseCycle, WalkInv, Answered
<1>1. Typed' /\ PathIsVisiting' /\ (\A k \in Depths' : FollowedSoFar(k)') /\ PathIsChain'
      /\ SettledIsSound' /\ StartsAreSettled'
  <2>1. Typed'
    BY <1>0 DEF WalkInv, Typed, Positions, RefuseRange, Accept, RefuseCycle
  <2>2. PathIsVisiting' /\ Depths' = Depths /\ (\A k \in Depths : FollowedSoFar(k)')
    BY <1>0 DEF WalkInv, PathIsVisiting, FollowedSoFar, Depths, Positions
  <2>3. PathIsChain'
    <3>1. \A k \in Depths : DepsOf(stack[k][1])' = DepsOf(stack[k][1])
      BY <1>0 DEF DepsOf, Range
    <3> QED  BY <1>0, <2>2, <3>1, SameBatch DEF WalkInv, PathIsChain
  <2>4. StartsAreSettled'
    BY <1>0 DEF WalkInv, StartsAreSettled
  <2>5. SettledIsSound'
    BY <1>0, SameBatch DEF WalkInv, SettledIsSound
  <2> QED  BY <2>1, <2>2, <2>3, <2>4, <2>5
<1>2. Checked'
  <2>1. InRange' <=> InRange
    BY <1>0 DEF InRange, Positions, Range
  <2> QED  BY <1>0, <2>1 DEF WalkInv, Checked, RefuseRange, Accept, RefuseCycle
<1>3. Answered'
  <2>1. CASE RefuseRange \/ Accept
    BY <1>0, <2>1 DEF RefuseRange, Accept, Answered
  <2>2. CASE RefuseCycle
    <3>1. Len(stack) \in Depths /\ Top[1] \in Positions /\ Top[2] \in Nat \ {0}
          /\ Len(deps[Top[1]]) \in Nat
      BY <2>2, PathTyped DEF RefuseCycle, Top
    <3>2. Top[2] \in 1..Len(deps[Top[1]])
      BY <2>2, <3>1 DEF RefuseCycle
    <3>3. blamed' \in DepsOf(Top[1])
      BY <2>2, <3>2 DEF RefuseCycle, DepsOf, Range
    <3>4. DepsOf(Top[1])' = DepsOf(Top[1])
      BY <1>0 DEF DepsOf, Range, Top
    <3> QED  BY <1>0, <2>2, <3>3, <3>4 DEF RefuseCycle, Answered
  <2> QED  BY <2>1, <2>2
<1> QED  BY <1>1, <1>2, <1>3 DEF WalkInv
\* The outer loop's step: the next node is settled, or its walk starts.
LEMMA NextStartStep ==
  ASSUME WalkInv, NextStart
  PROVE  WalkInv'
<1>0. /\ verdict = "checking" /\ stack = << >> /\ start' = start + 1 /\ InRange
      /\ Len(deps) \in Nat /\ start \in 0..Len(deps) /\ start < Len(deps)
      /\ UNCHANGED <<deps, verdict, blamed, settled>>
  BY PathTyped DEF NextStart, WalkInv, Typed
<1>1. /\ Len(stack) = 0 /\ Depths = {} /\ visiting = {} /\ start' \in Positions
      /\ \A i \in 1..start : i \in settled
  BY <1>0 DEF WalkInv, PathIsVisiting, Depths, StartsAreSettled, Positions
<1>2. Positions' = Positions /\ InRange'
  BY <1>0, SameBatch
<1>3. SettledIsSound' /\ Checked'
  <2>1. SettledIsSound'
    BY <1>0, SameBatch DEF WalkInv, SettledIsSound
  <2>2. Checked'
    BY <1>0, <1>2 DEF Checked
  <2> QED  BY <2>1, <2>2
<1>4. CASE start' \in settled
  <2>0. UNCHANGED <<stack, visiting>> /\ Depths' = {}
    BY <1>1, <1>4 DEF NextStart, Depths
  <2>1. Typed'
    BY <1>0, <1>2, <2>0 DEF WalkInv, Typed
  <2>2. PathIsVisiting' /\ PathIsChain'
    BY <1>0, <1>1, <1>2, <2>0 DEF PathIsVisiting, PathIsChain
  <2>3. StartsAreSettled'
    BY <1>0, <1>1, <1>4 DEF StartsAreSettled
  <2>4. Answered'
    BY <1>0 DEF WalkInv, Answered
  <2> QED  BY <1>3, <2>0, <2>1, <2>2, <2>3, <2>4 DEF WalkInv
<1>5. CASE start' \notin settled
  <2>0. stack' = << <<start', 1>> >> /\ visiting' = {start'}
    BY <1>1, <1>5 DEF NextStart
  <2>1. /\ Len(stack') = 1 /\ Depths' = {1} /\ stack'[1] = <<start', 1>>
        /\ stack'[1][1] = start' /\ stack'[1][2] = 1
    BY <2>0 DEF Depths
  <2>2. Typed'
    <3>1. <<start', 1>> \in Frames
      BY <1>0 DEF Frames
    <3>2. stack' \in Seq(Frames)
      BY <2>0, <3>1
    <3> QED  BY <1>0, <1>2, <3>2 DEF WalkInv, Typed
  <2>3. PathIsVisiting'
    <3>1. visiting' = {stack'[k][1] : k \in Depths'}
      BY <2>0, <2>1
    <3> QED  BY <1>0, <1>1, <1>2, <1>5, <2>0, <2>1, <3>1 DEF PathIsVisiting
  <2>4. \A k \in Depths' : FollowedSoFar(k)'
    <3>1. FollowedSoFar(1)'
      BY <2>1 DEF FollowedSoFar
    <3> QED  BY <2>1, <3>1
  <2>5. PathIsChain'
    BY <2>1 DEF PathIsChain
  <2>6. StartsAreSettled'
    BY <1>0, <1>1, <2>0, <2>1 DEF StartsAreSettled
  <2>7. Answered'
    BY <1>0 DEF WalkInv, Answered
  <2> QED  BY <1>3, <2>2, <2>3, <2>4, <2>5, <2>6, <2>7 DEF WalkInv
<1> QED  BY <1>4, <1>5
\* What a step finds on top of the path, and below it.
LEMMA TopTold ==
  ASSUME WalkInv, stack # << >>
  PROVE  /\ Len(stack) \in Nat \ {0} /\ Len(stack) \in Depths /\ InRange
         /\ Top[1] \in Positions /\ Top[2] \in Nat \ {0} /\ Top[1] \in visiting
         /\ Len(deps[Top[1]]) \in Nat
         /\ Below \in Seq(Frames) /\ Len(Below) = Len(stack) - 1
         /\ \A k \in 1..(Len(stack) - 1) : Below[k] = stack[k] /\ k \in Depths
<1>1. Len(stack) \in Depths /\ InRange /\ stack \in Seq(Frames)
  BY PathTyped DEF WalkInv, Typed
<1>2. Top[1] \in Positions /\ Top[2] \in Nat \ {0} /\ Len(deps[Top[1]]) \in Nat
  BY <1>1, PathTyped DEF Top
<1>3. Top[1] \in visiting
  BY <1>1 DEF WalkInv, PathIsVisiting, Top
<1>4. Below \in Seq(Frames)
  BY <1>1, LoweredTyped DEF Below
<1>5. /\ Len(Below) = Len(stack) - 1 /\ Len(stack) \in Nat \ {0}
      /\ \A k \in 1..(Len(stack) - 1) : Below[k] = stack[k]
  BY <1>1, Lowered DEF Below
<1>6. \A k \in 1..(Len(stack) - 1) : k \in Depths
  BY <1>5 DEF Depths
<1> QED  BY <1>1, <1>2, <1>3, <1>4, <1>5, <1>6

\* A node that is left has only settled dependencies.
LEMMA LeaveStep ==
  ASSUME WalkInv, Leave
  PROVE  WalkInv'
<1>0. /\ verdict = "checking" /\ stack # << >> /\ stack' = Below
      /\ Top[2] > Len(deps[Top[1]])
      /\ visiting' = visiting \ {Top[1]} /\ settled' = settled \cup {Top[1]}
      /\ UNCHANGED <<deps, verdict, blamed, start>>
  BY DEF Leave
<1> PICK n \in Positions, d \in Nat \ {0} : n = Top[1] /\ d = Len(stack)
  BY <1>0, TopTold
<1>1. /\ d \in Depths /\ stack[d][1] = n /\ n \in visiting /\ InRange
      /\ stack' \in Seq(Frames) /\ Len(stack') = d - 1 /\ Depths' = 1..(d - 1)
      /\ \A k \in 1..(d - 1) : stack'[k] = stack[k] /\ k \in Depths
      /\ Depths = 1..d /\ Top = stack[d]
      /\ Len(deps[n]) \in Nat /\ stack[d][2] \in Nat \ {0}
  BY <1>0, TopTold DEF Depths, Top
<1>2. visiting' = visiting \ {n} /\ settled' = settled \cup {n} /\ n \notin settled
  BY <1>0, <1>1 DEF WalkInv, PathIsVisiting
<1>3. DepsOf(n) \subseteq settled
  <2>1. ASSUME NEW e \in 1..Len(deps[n]) PROVE deps[n][e] \in settled
    <3>1. e < stack[d][2]
      BY <1>0, <1>1
    <3> QED  BY <1>1, <3>1 DEF WalkInv, FollowedSoFar
  <2> QED  BY <2>1 DEF DepsOf, Range
<1>4. /\ Positions' = Positions /\ InRange' = InRange
      /\ \A i : DepsOf(i)' = DepsOf(i)
      /\ \A S : IsClosed(S)' = IsClosed(S)
  BY <1>0, SameBatch
<1>5. Typed' /\ Checked' /\ Answered'
  <2>1. Typed'
    BY <1>0, <1>1, <1>2, <1>4 DEF WalkInv, Typed
  <2>2. Checked'
    BY <1>0, <1>1, <1>4 DEF Checked
  <2>3. Answered'
    BY <1>0 DEF WalkInv, Answered
  <2> QED  BY <2>1, <2>2, <2>3
<1>6. PathIsVisiting'
  <2>0. /\ visiting = {stack[k][1] : k \in 1..d} /\ visiting \cap settled = {}
        /\ visiting \subseteq Positions
        /\ \A j, k \in 1..d : stack[j][1] = stack[k][1] => j = k
    BY <1>1 DEF WalkInv, PathIsVisiting
  <2>1. \A k \in 1..(d - 1) : k \in 1..d /\ stack[k][1] # n
    BY <1>1, <2>0
  <2>2. \A k \in 1..d : k \in 1..(d - 1) \/ k = d
    OBVIOUS
  <2>3. visiting' = {stack[k][1] : k \in 1..(d - 1)}
    <3>1. ASSUME NEW m \in visiting' PROVE \E k \in 1..(d - 1) : m = stack[k][1]
      <4>1. PICK k \in 1..d : m = stack[k][1]
        BY <1>2, <2>0
      <4>2. k # d
        BY <1>1, <1>2, <4>1
      <4> QED  BY <2>2, <4>1, <4>2
    <3>2. ASSUME NEW k \in 1..(d - 1) PROVE stack[k][1] \in visiting'
      BY <1>2, <2>0, <2>1
    <3> QED  BY <3>1, <3>2
  <2>4. {stack[k][1] : k \in 1..(d - 1)} = {stack'[k][1] : k \in 1..(d - 1)}
    BY <1>1
  <2>5. ASSUME NEW j \in Depths', NEW k \in Depths', stack'[j][1] = stack'[k][1]
        PROVE  j = k
    <3>1. j \in 1..d /\ k \in 1..d /\ stack'[j] = stack[j] /\ stack'[k] = stack[k]
      BY <1>1, <2>1
    <3> QED  BY <2>0, <2>5, <3>1
  <2> QED  BY <1>1, <1>2, <1>4, <2>0, <2>3, <2>4, <2>5 DEF PathIsVisiting
<1>7. ASSUME NEW k \in Depths' PROVE FollowedSoFar(k)'
  <2>1. /\ k \in 1..(d - 1) /\ k \in Depths /\ stack'[k] = stack[k] /\ FollowedSoFar(k)
        /\ k + 1 = d \/ (k + 1 \in 1..(d - 1) /\ stack'[k + 1] = stack[k + 1] /\ k < d - 1)
    BY <1>1 DEF WalkInv
  <2>2. ASSUME NEW e \in 1..Len(deps[stack[k][1]]), e < stack[k][2]
        PROVE  \/ deps[stack[k][1]][e] \in settled'
               \/ k < Len(stack') /\ deps[stack[k][1]][e] = stack'[k + 1][1]
    <3>1. \/ deps[stack[k][1]][e] \in settled
          \/ deps[stack[k][1]][e] = stack[k + 1][1]
      BY <2>1, <2>2 DEF FollowedSoFar
    <3> QED  BY <1>1, <1>2, <2>1, <3>1
  <2> QED  BY <1>0, <2>1, <2>2 DEF FollowedSoFar
<1>8. PathIsChain'
  <2>0. PathIsChain
    BY DEF WalkInv
  <2>1. ASSUME NEW k \in Depths', k < Len(stack')
        PROVE  stack'[k + 1][1] \in Range(deps[stack'[k][1]])
    <3>1. /\ k \in Depths /\ stack'[k] = stack[k] /\ k < Len(stack)
          /\ k + 1 \in 1..(d - 1) /\ stack'[k + 1] = stack[k + 1]
      BY <1>1, <2>1
    <3> QED  BY <2>0, <3>1 DEF PathIsChain, DepsOf
  <2>2. ASSUME NEW j \in Depths', NEW k \in Depths', j < k, NEW S \in SUBSET Positions,
               Range(deps[stack'[j][1]]) \subseteq S, \A i \in S : Range(deps[i]) \subseteq S
        PROVE  stack'[k][1] \in S
    <3>1. j \in Depths /\ k \in Depths /\ stack'[j] = stack[j] /\ stack'[k] = stack[k]
      BY <1>1
    <3>2. DepsOf(stack[j][1]) \subseteq S /\ IsClosed(S)
      BY <2>2, <3>1 DEF DepsOf, IsClosed
    <3> QED  BY <2>0, <2>2, <3>1, <3>2 DEF PathIsChain
  <2> QED  BY <1>0, <1>4, <2>1, <2>2 DEF PathIsChain, DepsOf, IsClosed
<1>9. SettledIsSound'
  <2>0. IsClosed(settled) /\ \A S \in SUBSET settled : S # {} => \E i \in S : DepsOf(i) \cap S = {}
    BY DEF WalkInv, SettledIsSound
  <2>1. IsClosed(settled \cup {n})
    BY <1>3, <2>0 DEF IsClosed
  <2>2. ASSUME NEW S \in SUBSET (settled \cup {n}), S # {}
        PROVE  \E i \in S : DepsOf(i) \cap S = {}
    <3>1. CASE S \ {n} = {}
      BY <1>2, <1>3, <2>2, <3>1
    <3>2. CASE S \ {n} # {}
      <4>1. PICK i \in S \ {n} : DepsOf(i) \cap (S \ {n}) = {}
        BY <2>0, <3>2
      <4>2. DepsOf(i) \subseteq settled
        BY <2>0 DEF IsClosed
      <4> QED  BY <1>2, <4>1, <4>2
    <3> QED  BY <3>1, <3>2
  <2>3. \A i : DepsOf(i)' = DepsOf(i)
    BY <1>4
  <2>4. IsClosed(settled)'
    BY <1>2, <2>1, <1>0 DEF IsClosed, DepsOf, Range
  <2> QED  BY <1>2, <2>2, <2>3, <2>4 DEF SettledIsSound
<1>10. StartsAreSettled'
  <2>1. ASSUME NEW i \in 1..start
        PROVE  i \in settled' \/ (stack' # << >> /\ i = stack'[1][1])
    <3>1. i \in settled \/ i = stack[1][1]
      BY DEF WalkInv, StartsAreSettled
    <3>2. CASE d = 1
      BY <1>1, <1>2, <3>1, <3>2
    <3>3. CASE d # 1
      <4>1. 1 \in 1..(d - 1) /\ Len(stack') # 0
        BY <1>1, <3>3
      <4>2. stack' # << >> /\ stack'[1] = stack[1]
        BY <1>1, <4>1
      <4> QED  BY <1>2, <3>1, <4>2
    <3> QED  BY <3>2, <3>3
  <2> QED  BY <1>0, <2>1 DEF StartsAreSettled
<1> QED  BY <1>5, <1>6, <1>7, <1>8, <1>9, <1>10 DEF WalkInv
\* The frames after a dependency is followed: the node's own frame moves on to
\* its next edge, and a dependency that is not settled goes on top.
LEMMA FollowTold ==
  ASSUME WalkInv, Follow
  PROVE  \E n \in Positions, m \in Positions, d \in Nat \ {0}, e \in Nat \ {0} :
             /\ d = Len(stack) /\ Depths = 1..d /\ stack[d] = <<n, e>>
             /\ e \in 1..Len(deps[n]) /\ deps[n][e] = m /\ m \in DepsOf(n)
             /\ m \notin visiting /\ stack' \in Seq(Frames)
             /\ \A k \in 1..(d - 1) : stack'[k] = stack[k] /\ k \in Depths
             /\ stack'[d] = <<n, e + 1>>
             /\ \/ m \in settled /\ Len(stack') = d /\ visiting' = visiting
                \/ /\ m \notin settled /\ Len(stack') = d + 1
                   /\ stack'[d + 1] = <<m, 1>> /\ visiting' = visiting \cup {m}
<1>0. /\ stack # << >> /\ Top[2] <= Len(deps[Top[1]])
      /\ deps[Top[1]][Top[2]] \notin visiting
      /\ stack' = Followed(deps[Top[1]][Top[2]]).stack
      /\ visiting' = Followed(deps[Top[1]][Top[2]]).visiting
  BY DEF Follow
<1> PICK n \in Positions, e \in Nat \ {0}, d \in Nat \ {0} :
        n = Top[1] /\ e = Top[2] /\ d = Len(stack)
  BY <1>0, TopTold
<1>1. /\ d \in Depths /\ Depths = 1..d /\ InRange /\ Top = stack[d] /\ Len(deps[n]) \in Nat
      /\ Below \in Seq(Frames) /\ Len(Below) = d - 1
      /\ \A k \in 1..(d - 1) : Below[k] = stack[k] /\ k \in Depths
  BY <1>0, TopTold DEF Depths, Top
<1>2. stack[d] = <<n, e>>
  BY <1>1, PathTyped
<1>3. e \in 1..Len(deps[n]) /\ deps[n][e] \in Range(deps[n])
  BY <1>0, <1>1 DEF Range
<1>4. PICK m \in Positions : m = deps[n][e]
  BY <1>1, <1>3 DEF InRange
<1>5. m \notin visiting /\ m \in DepsOf(n)
  BY <1>0, <1>3, <1>4 DEF DepsOf
<1> DEFINE r == Append(Below, <<n, e + 1>>)
<1>6. /\ r \in Seq(Frames) /\ Len(r) = d
      /\ \A k \in 1..(d - 1) : r[k] = stack[k]
      /\ r[d] = <<n, e + 1>>
  <2>1. <<n, e + 1>> \in Frames
    BY DEF Frames, Positions
  <2>2. /\ Append(Below, <<n, e + 1>>) \in Seq(Frames)
        /\ Len(Append(Below, <<n, e + 1>>)) = Len(Below) + 1
        /\ \A k \in 1..Len(Below) : Append(Below, <<n, e + 1>>)[k] = Below[k]
        /\ Append(Below, <<n, e + 1>>)[Len(Below) + 1] = <<n, e + 1>>
    BY <1>1, <2>1, Raised
  <2> QED  BY <1>1, <2>2
<1>7. /\ stack' \in Seq(Frames)
      /\ \A k \in 1..(d - 1) : stack'[k] = stack[k] /\ k \in Depths
      /\ stack'[d] = <<n, e + 1>>
      /\ \/ m \in settled /\ Len(stack') = d /\ visiting' = visiting
         \/ /\ m \notin settled /\ Len(stack') = d + 1
            /\ stack'[d + 1] = <<m, 1>> /\ visiting' = visiting \cup {m}
  <2>1. CASE m \in settled
    <3>1. stack' = r /\ visiting' = visiting
      BY <1>0, <1>4, <2>1 DEF Followed
    <3> HIDE DEF r
    <3> QED  BY <1>1, <1>6, <2>1, <3>1
  <2>2. CASE m \notin settled
    <3>1. stack' = Append(r, <<m, 1>>) /\ visiting' = visiting \cup {m}
      BY <1>0, <1>4, <2>2 DEF Followed
    <3>2. <<m, 1>> \in Frames
      BY DEF Frames, Positions
    <3> HIDE DEF r
    <3>3. /\ stack' \in Seq(Frames) /\ Len(stack') = d + 1 /\ stack'[d + 1] = <<m, 1>>
          /\ \A k \in 1..d : stack'[k] = r[k]
      BY <1>6, <3>1, <3>2, Raised
    <3>4. \A k \in 1..(d - 1) : stack'[k] = stack[k] /\ k \in Depths
      BY <1>1, <1>6, <3>3
    <3>5. stack'[d] = <<n, e + 1>>
      BY <1>6, <3>3
    <3> QED  BY <2>2, <3>1, <3>3, <3>4, <3>5
  <2> QED  BY <2>1, <2>2
<1> HIDE DEF r
<1>8. /\ d = Len(stack) /\ Depths = 1..d /\ stack[d] = <<n, e>>
      /\ e \in 1..Len(deps[n]) /\ deps[n][e] = m /\ m \in DepsOf(n)
      /\ m \notin visiting
  BY <1>1, <1>2, <1>3, <1>4, <1>5
<1> QED  BY <1>7, <1>8, Zenon

\* A step along a dependency that is settled, or that is new to the path.
LEMMA FollowStep ==
  ASSUME WalkInv, Follow
  PROVE  WalkInv'
<1>0. /\ verdict = "checking" /\ stack # << >>
      /\ UNCHANGED <<deps, verdict, blamed, start, settled>>
  BY DEF Follow
<1>p. PICK n \in Positions, m \in Positions, d \in Nat \ {0}, e \in Nat \ {0} :
             /\ d = Len(stack) /\ Depths = 1..d /\ stack[d] = <<n, e>>
             /\ e \in 1..Len(deps[n]) /\ deps[n][e] = m /\ m \in DepsOf(n)
             /\ m \notin visiting /\ stack' \in Seq(Frames)
             /\ \A k \in 1..(d - 1) : stack'[k] = stack[k] /\ k \in Depths
             /\ stack'[d] = <<n, e + 1>>
             /\ \/ m \in settled /\ Len(stack') = d /\ visiting' = visiting
                \/ /\ m \notin settled /\ Len(stack') = d + 1
                   /\ stack'[d + 1] = <<m, 1>> /\ visiting' = visiting \cup {m}
  BY FollowTold
<1>0a. /\ d = Len(stack) /\ Depths = 1..d /\ e \in 1..Len(deps[n]) /\ deps[n][e] = m
       /\ m \in DepsOf(n) /\ m \notin visiting /\ stack' \in Seq(Frames)
       /\ \A k \in 1..(d - 1) : stack'[k] = stack[k] /\ k \in Depths
  BY <1>p
<1>1. InRange /\ d \in Depths /\ stack[d][1] = n /\ stack'[d][1] = n
      /\ \A k \in 1..d : stack'[k][1] = stack[k][1]
      /\ Len(deps[n]) \in Nat /\ stack[d][2] = e /\ stack'[d][2] = e + 1
  <2>1. InRange /\ d \in Depths /\ Len(deps[n]) \in Nat
    BY <1>0, <1>0a, PathTyped
  <2>2. stack[d][1] = n /\ stack'[d][1] = n /\ stack[d][2] = e /\ stack'[d][2] = e + 1
    BY <1>p
  <2>3. ASSUME NEW k \in 1..d PROVE stack'[k][1] = stack[k][1]
    <3>1. k = d \/ k \in 1..(d - 1)
      OBVIOUS
    <3> QED  BY <1>0a, <2>2, <3>1
  <2> QED  BY <2>1, <2>2, <2>3
<1>2. \/ m \in settled /\ Len(stack') = d /\ Depths' = 1..d /\ visiting' = visiting
      \/ /\ m \notin settled /\ Len(stack') = d + 1 /\ Depths' = 1..(d + 1)
         /\ stack'[d + 1] = <<m, 1>> /\ stack'[d + 1][1] = m /\ stack'[d + 1][2] = 1
         /\ visiting' = visiting \cup {m}
  BY <1>p DEF Depths
<1>3. \A k \in Depths' : k \in 1..d \/ (k = d + 1 /\ m \notin settled)
  <2>1. \A k \in 1..(d + 1) : k \in 1..d \/ k = d + 1
    OBVIOUS
  <2> QED  BY <1>2, <2>1
<1>4. /\ Positions' = Positions /\ InRange' = InRange
      /\ \A i : DepsOf(i)' = DepsOf(i)
      /\ \A S : IsClosed(S)' = IsClosed(S)
  BY <1>0, SameBatch
<1>5. Typed' /\ Checked' /\ Answered' /\ SettledIsSound'
  <2>1. Typed'
    BY <1>0, <1>0a, <1>4 DEF WalkInv, Typed
  <2>2. Checked'
    BY <1>0, <1>1, <1>4 DEF Checked
  <2>3. Answered'
    BY <1>0 DEF WalkInv, Answered
  <2>4. SettledIsSound'
    BY <1>0, SameBatch DEF WalkInv, SettledIsSound
  <2> QED  BY <2>1, <2>2, <2>3, <2>4
<1>6. PathIsVisiting'
  <2>0. /\ visiting = {stack[k][1] : k \in 1..d} /\ visiting \cap settled = {}
        /\ visiting \subseteq Positions
        /\ \A j, k \in 1..d : stack[j][1] = stack[k][1] => j = k
    BY <1>0a DEF WalkInv, PathIsVisiting
  <2>1. {stack[k][1] : k \in 1..d} = {stack'[k][1] : k \in 1..d}
    BY <1>1
  <2>2. visiting' = {stack'[k][1] : k \in Depths'}
    <3>1. CASE m \in settled
      BY <1>2, <2>0, <2>1, <3>1
    <3>2. CASE m \notin settled
      <4>1. Depths' = 1..(d + 1) /\ visiting' = visiting \cup {m} /\ stack'[d + 1][1] = m
        BY <1>2, <3>2
      <4>2. 1..(d + 1) = (1..d) \cup {d + 1}
        OBVIOUS
      <4>3. {stack'[k][1] : k \in (1..d) \cup {d + 1}} = {stack'[k][1] : k \in 1..d} \cup {m}
        BY <4>1
      <4> QED  BY <2>0, <2>1, <4>1, <4>2, <4>3
    <3> QED  BY <3>1, <3>2
  <2>3. visiting' \subseteq Positions /\ visiting' \cap settled = {}
    <3>1. visiting' = visiting \/ (m \notin settled /\ visiting' = visiting \cup {m})
      BY <1>2
    <3> QED  BY <2>0, <3>1
  <2>4. ASSUME NEW j \in Depths', NEW k \in Depths', stack'[j][1] = stack'[k][1]
        PROVE  j = k
    <3>1. ASSUME NEW i \in 1..d PROVE stack'[i][1] # m
      <4>1. stack'[i][1] \in visiting
        BY <2>0, <2>1
      <4> QED  BY <1>0a, <4>1
    <3>2. \A i \in Depths' : i \in 1..d \/ (i = d + 1 /\ stack'[i][1] = m)
      BY <1>2, <1>3
    <3> QED  BY <1>1, <2>0, <2>4, <3>1, <3>2
  <2> QED  BY <1>0, <1>4, <2>2, <2>3, <2>4 DEF PathIsVisiting
<1>7. ASSUME NEW k \in Depths' PROVE FollowedSoFar(k)'
  <2>1. CASE k = d + 1 /\ m \notin settled
    <3>1. stack'[k][2] = 1
      BY <1>2, <2>1
    <3> QED  BY <3>1 DEF FollowedSoFar
  <2>2. CASE k = d
    <3>1. /\ stack'[k][1] = n /\ stack'[k][2] = e + 1
          /\ m \in settled \/ (k < Len(stack') /\ stack'[k + 1][1] = m)
      BY <1>0a, <1>1, <1>2, <2>2
    <3>2. ASSUME NEW f \in 1..Len(deps[n]), f < e + 1
          PROVE  deps[n][f] \in settled \/ deps[n][f] = m
      <4>1. f = e \/ f < e
        BY <3>2
      <4>2. FollowedSoFar(d)
        BY <1>0a, <1>1 DEF WalkInv
      <4>3. f < e => deps[n][f] \in settled
        BY <1>0a, <1>1, <4>2 DEF FollowedSoFar
      <4> QED  BY <1>0a, <4>1, <4>3
    <3> QED  BY <1>0, <3>1, <3>2 DEF FollowedSoFar
  <2>3. CASE k \in 1..(d - 1)
    <3>1. /\ k \in Depths /\ FollowedSoFar(k) /\ stack'[k] = stack[k]
          /\ k + 1 \in 1..d /\ k < Len(stack')
      BY <1>0a, <1>2, <2>3 DEF WalkInv
    <3>2. stack'[k + 1][1] = stack[k + 1][1]
      BY <1>0a, <1>1, <3>1
    <3> QED  BY <1>0, <3>1, <3>2 DEF FollowedSoFar
  <2> QED  BY <1>3, <2>1, <2>2, <2>3
<1>8. PathIsChain'
  <2>0. PathIsChain
    BY DEF WalkInv
  <2>1. ASSUME NEW k \in Depths', k < Len(stack')
        PROVE  stack'[k + 1][1] \in Range(deps[stack'[k][1]])
    <3>1. CASE k = d
      BY <1>0a, <1>1, <1>2, <2>1, <3>1 DEF DepsOf
    <3>2. CASE k # d
      <4>1. k \in Depths /\ k < Len(stack) /\ k + 1 \in 1..d /\ k \in 1..d
        BY <1>0a, <1>2, <2>1, <3>2
      <4> QED  BY <1>0a, <1>1, <2>0, <4>1 DEF PathIsChain, DepsOf
    <3> QED  BY <3>1, <3>2
  <2>2. ASSUME NEW j \in Depths', NEW k \in Depths', j < k, NEW S \in SUBSET Positions,
               Range(deps[stack'[j][1]]) \subseteq S, \A i \in S : Range(deps[i]) \subseteq S
        PROVE  stack'[k][1] \in S
    <3>0. IsClosed(S) /\ j \in 1..d /\ stack'[j][1] = stack[j][1] /\ DepsOf(stack[j][1]) \subseteq S
      <4>1. j \in 1..d
        BY <1>2, <2>2
      <4> QED  BY <1>0a, <1>1, <2>2, <4>1 DEF DepsOf, IsClosed
    <3>1. CASE k \in 1..d
      BY <1>0a, <1>1, <2>0, <2>2, <3>0, <3>1 DEF PathIsChain
    <3>2. CASE k = d + 1 /\ m \notin settled
      <4>1. stack'[k][1] = m
        BY <1>2, <3>2
      <4>2. CASE j = d
        BY <1>0a, <1>1, <3>0, <4>1, <4>2
      <4>3. CASE j # d
        <5>1. j < d
          BY <3>0, <4>3
        <5>2. stack[d][1] \in S
          <6>1. j \in Depths /\ d \in Depths
            BY <1>0a, <1>1, <3>0
          <6> QED  BY <2>0, <3>0, <5>1, <6>1 DEF PathIsChain
        <5> QED  BY <1>0a, <1>1, <3>0, <4>1, <5>2 DEF IsClosed
      <4> QED  BY <4>2, <4>3
    <3> QED  BY <1>3, <3>1, <3>2
  <2> QED  BY <1>0, <1>4, <2>1, <2>2 DEF PathIsChain, DepsOf, IsClosed
<1>9. StartsAreSettled'
  <2>1. stack' # << >> /\ stack'[1][1] = stack[1][1]
    <3>1. 1 \in 1..d /\ Len(stack') # 0
      BY <1>2
    <3> QED  BY <1>0a, <1>1, <3>1
  <2> QED  BY <1>0, <2>1 DEF WalkInv, StartsAreSettled
<1> QED  BY <1>5, <1>6, <1>7, <1>8, <1>9 DEF WalkInv
\* Every step keeps the invariant.
LEMMA WalkNext == WalkInv /\ [Next]_vars => WalkInv'
<1> SUFFICES ASSUME WalkInv, [Next]_vars PROVE WalkInv'
  OBVIOUS
<1>1. CASE RefuseRange \/ Accept \/ RefuseCycle
  BY <1>1, VerdictStep
<1>2. CASE NextStart
  BY <1>2, NextStartStep
<1>3. CASE Leave
  BY <1>3, LeaveStep
<1>4. CASE Follow
  BY <1>4, FollowStep
<1>5. CASE UNCHANGED vars
  <2>0. UNCHANGED <<deps, verdict, blamed, start, stack, settled, visiting>>
    BY <1>5 DEF vars
  <2>1. Typed' /\ Checked' /\ PathIsVisiting'
    BY <2>0 DEF WalkInv, Typed, Checked, InRange, PathIsVisiting, Depths, Positions
  <2>2. \A k \in Depths' : FollowedSoFar(k)'
    BY <2>0 DEF WalkInv, FollowedSoFar, Depths
  <2>3. PathIsChain'
    BY <2>0 DEF WalkInv, PathIsChain, Depths, IsClosed, DepsOf, Positions
  <2>4. SettledIsSound'
    BY <2>0 DEF WalkInv, SettledIsSound, IsClosed, DepsOf
  <2>5. StartsAreSettled' /\ Answered'
    BY <2>0 DEF WalkInv, StartsAreSettled, Answered, DepsOf, Top
  <2> QED  BY <2>1, <2>2, <2>3, <2>4, <2>5 DEF WalkInv
<1> QED  BY <1>1, <1>2, <1>3, <1>4, <1>5 DEF Next

\* validate_batch keeps WalkInv: the frames of its stack are the nodes of one
\* path, and what it has settled cannot wait on itself.
THEOREM WalkSafe == Spec => []WalkInv
  BY WalkInit, WalkNext, PTL DEF Spec

\* A sequence whose elements are all in a set is a sequence over it.
LEMMA SeqInto ==
  ASSUME NEW T, NEW U, NEW s \in Seq(T), \A k \in 1..Len(s) : s[k] \in U
  PROVE  s \in Seq(U)
  OBVIOUS

\* The walk's variables have their types: every frame names a spec of the batch
\* and the index that an error names is one.
THEOREM WalkTyped == Spec => []TypeOK
<1>1. ASSUME WalkInv PROVE TypeOK
  <2>0. Typed /\ Answered /\ visiting \subseteq Positions
    BY <1>1 DEF WalkInv, PathIsVisiting
  <2>1. \A k \in 1..Len(stack) : stack[k] \in Positions \X (Nat \ {0})
    <3>1. ASSUME NEW k \in Depths PROVE stack[k] \in Positions \X (Nat \ {0})
      <4>1. PICK i \in Positions, e \in Nat \ {0} : stack[k] = <<i, e>>
        BY <1>1, PathTyped
      <4> QED  BY <4>1
    <3> QED  BY <3>1 DEF Depths
  <2>2. stack \in Seq(Positions \X (Nat \ {0}))
    BY <2>0, <2>1, SeqInto DEF Typed
  <2>3. blamed \in Positions \cup {0}
    BY <2>0 DEF Answered
  <2> QED  BY <2>0, <2>2, <2>3 DEF TypeOK, Typed
<1> QED  BY <1>1, WalkSafe, PTL

\* The blamed node is among those that it waits on.
LEMMA BlameOnLoop ==
  ASSUME WalkInv, verdict = "cycle"
  PROVE  /\ blamed \in Positions
         /\ \A S \in SUBSET Positions : DepsOf(blamed) \subseteq S /\ IsClosed(S) => blamed \in S
<1>0. /\ stack # << >> /\ blamed \in visiting /\ blamed \in DepsOf(Top[1])
      /\ visiting = {stack[k][1] : k \in Depths} /\ visiting \subseteq Positions
      /\ PathIsChain
  BY DEF WalkInv, Answered, PathIsVisiting
<1>1. PICK j \in Depths : blamed = stack[j][1]
  BY <1>0
<1>2. Len(stack) \in Depths /\ Top = stack[Len(stack)]
  BY <1>0, PathTyped DEF Top
<1>3. ASSUME NEW S \in SUBSET Positions, DepsOf(blamed) \subseteq S, IsClosed(S)
      PROVE  blamed \in S
  <2>1. CASE j = Len(stack)
    BY <1>0, <1>1, <1>2, <1>3, <2>1
  <2>2. CASE j # Len(stack)
    <3>1. j < Len(stack)
      BY <1>2, <2>2 DEF Depths
    <3>2. Top[1] \in S
      BY <1>0, <1>1, <1>2, <1>3, <3>1 DEF PathIsChain
    <3> QED  BY <1>0, <1>3, <3>2 DEF IsClosed
  <2> QED  BY <2>1, <2>2
<1> QED  BY <1>0, <1>3

\* The index that PlanError::BatchCycle names lies on a loop of the batch.
THEOREM BlameIsOnLoop == Spec => []BlameIsRight
<1>1. ASSUME WalkInv PROVE BlameIsRight
  <2>1. verdict = "cycle" => \A S \in SUBSET Positions :
            DepsOf(blamed) \subseteq S /\ IsClosed(S) => blamed \in S
    BY <1>1, BlameOnLoop
  <2> QED  BY <2>1 DEF BlameIsRight, DepsOf, IsClosed
<1> QED  BY <1>1, WalkSafe, PTL
\* ValidBatch, in terms of the batch that is walked.
LEMMA AsSpecsTold ==
  ASSUME Typed, deps # << >>
  PROVE  ValidBatch(AsSpecs) <=>
             InRange /\ \A S \in SUBSET Positions : S # {} => \E i \in S : DepsOf(i) \cap S = {}
<1>0. Len(deps) \in Nat \ {0} /\ Positions = 1..Len(deps)
  BY DEF Typed, Positions
<1>1. /\ Len(AsSpecs) = Len(deps) /\ AsSpecs # << >>
      /\ \A i \in Positions : AsSpecs[i].deps = DepsOf(i)
  <2>1. AsSpecs = [i \in 1..Len(deps) |-> [kind |-> "task", deps |-> DepsOf(i)]]
    BY <1>0 DEF AsSpecs, DepsOf
  <2>2. Len(AsSpecs) = Len(deps)
    BY <1>0, <2>1
  <2>3. \A i \in Positions : AsSpecs[i].deps = DepsOf(i)
    BY <1>0, <2>1
  <2> QED  BY <1>0, <2>2, <2>3
<1>2. (\A i \in Positions : AsSpecs[i].deps \subseteq Positions) <=> InRange
  BY <1>1 DEF InRange, DepsOf
<1>3. (\A S \in SUBSET Positions : S # {} => \E i \in S : AsSpecs[i].deps \cap S = {})
      <=> (\A S \in SUBSET Positions : S # {} => \E i \in S : DepsOf(i) \cap S = {})
  BY <1>1
<1> QED  BY <1>0, <1>1, <1>2, <1>3 DEF ValidBatch

\* A refused cycle is a set of nodes that all wait on one another.
LEMMA CycleIsLoop ==
  ASSUME WalkInv, verdict = "cycle"
  PROVE  \E S \in SUBSET Positions : S # {} /\ \A i \in S : DepsOf(i) \cap S # {}
<1>0. /\ stack # << >> /\ blamed \in visiting /\ blamed \in DepsOf(Top[1])
      /\ visiting = {stack[k][1] : k \in Depths} /\ visiting \subseteq Positions
      /\ PathIsChain
  BY DEF WalkInv, Answered, PathIsVisiting
<1>1. PICK j \in Depths : blamed = stack[j][1]
  BY <1>0
<1>2. Len(stack) \in Depths /\ Len(stack) \in Nat /\ Top = stack[Len(stack)]
      /\ Depths = 1..Len(stack)
  BY <1>0, PathTyped DEF Top, Depths
<1> DEFINE S == {stack[k][1] : k \in j..Len(stack)}
<1>3. \A k \in j..Len(stack) : k \in Depths
  BY <1>2
<1>4. S \in SUBSET Positions /\ stack[j][1] \in S
  <2>1. j \in j..Len(stack)
    BY <1>2
  <2>2. \A k \in j..Len(stack) : stack[k][1] \in Positions
    BY <1>0, <1>3
  <2> QED  BY <2>1, <2>2
<1>5. ASSUME NEW i \in S PROVE DepsOf(i) \cap S # {}
  <2>1. PICK k \in j..Len(stack) : i = stack[k][1]
    OBVIOUS
  <2>2. CASE k = Len(stack)
    BY <1>0, <1>1, <1>2, <1>4, <2>1, <2>2
  <2>3. CASE k # Len(stack)
    <3>1. k \in Depths /\ k < Len(stack) /\ k + 1 \in j..Len(stack)
      BY <1>2, <2>3
    <3>2. stack[k + 1][1] \in DepsOf(stack[k][1])
      BY <1>0, <3>1 DEF PathIsChain
    <3>3. stack[k + 1][1] \in S
      BY <3>1
    <3> QED  BY <2>1, <3>2, <3>3
  <2> QED  BY <2>2, <2>3
<1> HIDE DEF S
<1>6. S # {}
  BY <1>4
<1> QED  BY <1>4, <1>5, <1>6

\* validate_batch says yes exactly to the batches that ValidBatch describes:
\* an accepted batch has every index in range and no loop, a refused one lacks
\* one of the two.
THEOREM WalkIsValidBatch == Spec => []VerdictIsRight
<1>1. ASSUME WalkInv PROVE VerdictIsRight
  <2>0. Typed /\ Checked /\ SettledIsSound /\ StartsAreSettled /\ Answered
    BY <1>1 DEF WalkInv
  <2>1. CASE deps = << >>
    <3>1. Positions = {}
      BY <2>1 DEF Positions
    <3>2. verdict # "cycle"
      BY <1>1, <3>1, BlameOnLoop
    <3>3. verdict # "range"
      BY <2>0, <3>1 DEF Checked, InRange
    <3> QED  BY <2>0, <2>1, <3>2, <3>3 DEF VerdictIsRight, Typed
  <2>2. CASE deps # << >>
    <3>1. ValidBatch(AsSpecs) <=>
             InRange /\ \A S \in SUBSET Positions : S # {} => \E i \in S : DepsOf(i) \cap S = {}
      BY <2>0, <2>2, AsSpecsTold
    <3>2. verdict = "ok" => ValidBatch(AsSpecs)
      <4> SUFFICES ASSUME verdict = "ok" PROVE ValidBatch(AsSpecs)
        OBVIOUS
      <4>1. Positions \subseteq settled /\ InRange
        BY <2>0 DEF Answered, Checked, StartsAreSettled, Positions
      <4>2. \A S \in SUBSET Positions : S # {} => \E i \in S : DepsOf(i) \cap S = {}
        BY <2>0, <4>1 DEF SettledIsSound
      <4> QED  BY <3>1, <4>1, <4>2
    <3>3. verdict = "range" => ~ValidBatch(AsSpecs)
      BY <2>0, <3>1 DEF Checked
    <3>4. verdict = "cycle" => ~ValidBatch(AsSpecs)
      <4>1. verdict = "cycle" =>
                \E S \in SUBSET Positions : S # {} /\ \A i \in S : DepsOf(i) \cap S # {}
        BY <1>1, CycleIsLoop
      <4> QED  BY <3>1, <4>1
    <3> QED  BY <2>0, <2>2, <3>2, <3>3, <3>4 DEF VerdictIsRight, Typed
  <2> QED  BY <2>1, <2>2
<1> QED  BY <1>1, WalkSafe, PTL

=============================================================================
