------------------------ MODULE PairConverge_proofs ------------------------
(****************************************************************************)
(* The pair driver, for every content, cost, budget, round cap and revision *)
(* space: only informed consent converges, and what is published is true.   *)
(****************************************************************************)
EXTENDS PairConverge, TLAPS

\* Counting slots: while the pair goes on, the rounds played are the pairs of
\* slots completed and stay below the cap; the peer of a half-played round is
\* one turn ahead.
Counted ==
    /\ slot \in Nat /\ rounds \in Nat
    /\ turns \in [Peers -> Nat]
    /\ at \in {"slot", "notify", "drive", "end"}
    /\ at # "end" =>
          /\ rounds < MaxRounds
          /\ slot = 2 * rounds + (slot % 2)
          /\ turns[First] = rounds + (slot % 2)
          /\ turns[Second] = rounds
    /\ at = "end" =>
          /\ rounds <= MaxRounds /\ slot <= 2 * MaxRounds
          /\ turns[First] \in {rounds, rounds + 1} /\ turns[Second] = rounds
          /\ turns[First] <= MaxRounds

\* What the driver holds of the artifact.
Held ==
    /\ candidate \in Candidates
    /\ nextRevision \in 1..MaxRevision
    /\ agreed \subseteq Peers
    /\ seen \in [Peers -> Candidates] /\ consent \in [Peers -> Candidates]

\* A peer that is being driven has been shown the candidate; an agreement stands
\* only for the candidate as it is; a pair that converged has ended.
Informed ==
    /\ at = "drive" /\ candidate # None => seen[Peer(slot)] = candidate
    /\ \A p \in agreed : seen[p] = candidate /\ consent[p] = candidate
    /\ outcome = "converged" => at = "end" /\ candidate # None /\ agreed = Peers

\* The published snapshot.
Published ==
    progress = [rounds |-> rounds, next |-> IF at = "end" THEN None ELSE Peer(slot),
                candidate |-> candidate, agreed |-> agreed,
                repairing |-> IF at # "end" /\ repaired THEN Peer(slot) ELSE None]

\* The inductive invariant.
PairInv == Counted /\ Held /\ Informed /\ Published

\* Slots alternate between the two peers.
LEMMA PeerIsPeer == ASSUME NEW s \in Nat PROVE Peer(s) \in Peers /\ s % 2 \in {0, 1}
  BY DEF Peer, Peers

\* A new driver satisfies the invariant.
LEMMA PairInit == Init => PairInv
  BY PairConstants DEF Init, PairInv, Counted, Held, Informed, Published, Candidates,
     Peers, Peer

\* A loop that breaks where it stands, with the state it had.
LEMMA BreakKeeps ==
  ASSUME PairInv, at # "end", NEW result, result # "converged", Break(result),
         UNCHANGED <<state, rounds, history>>
  PROVE  PairInv'
<1>1. Counted'
  BY PairConstants DEF PairInv, Counted, Break, state, history
<1>2. Held' /\ Informed'
  BY DEF PairInv, Held, Informed, Break, state, history, Candidates
<1>3. Published'
  BY DEF Published, Break, Publish
<1> QED  BY <1>1, <1>2, <1>3 DEF PairInv

\* The arithmetic of a completed slot.
LEMMA SlotCounts ==
  ASSUME NEW s \in Nat, NEW r \in Nat, s = 2 * r + (s % 2)
  PROVE  /\ s % 2 = 0 => (s + 1) % 2 = 1 /\ s + 1 = 2 * r + 1
         /\ s % 2 = 1 => (s + 1) % 2 = 0 /\ s + 1 = 2 * (r + 1)
  OBVIOUS

\* A completed slot keeps the count, up to the cap.
LEMMA NextSlotCounts ==
  ASSUME PairInv, at = "drive", NextSlot
  PROVE  Counted' /\ at' # "drive"
<1>1. /\ slot \in Nat /\ rounds \in Nat /\ rounds < MaxRounds
      /\ slot = 2 * rounds + (slot % 2) /\ turns \in [Peers -> Nat]
      /\ turns[First] = rounds + (slot % 2) /\ turns[Second] = rounds
  BY DEF PairInv, Counted
<1>2. CASE slot % 2 = 0
  <2>1. rounds' = rounds /\ slot' = slot + 1 /\ slot' % 2 = 1 /\ slot' = 2 * rounds + 1
    BY <1>1, <1>2, SlotCounts DEF NextSlot
  <2>2. turns' = [turns EXCEPT ![First] = @ + 1] /\ at' = "slot"
    <3>1. Peer(slot) = First
      BY <1>2 DEF Peer
    <3>2. ~(slot % 2 = 1)
      BY <1>2
    <3>3. at' = "slot"
      BY <3>2 DEF NextSlot
    <3> QED  BY <3>1, <3>3 DEF NextSlot
  <2> QED  BY <1>1, <1>2, <2>1, <2>2, PairConstants DEF Counted, Peers
<1>3. CASE slot % 2 = 1
  <2>1. rounds' = rounds + 1 /\ slot' = slot + 1 /\ slot' % 2 = 0 /\ slot' = 2 * rounds'
    BY <1>1, <1>3, SlotCounts DEF NextSlot
  <2>2. /\ turns' = [turns EXCEPT ![Second] = @ + 1]
        /\ at' = IF rounds' >= MaxRounds THEN "end" ELSE "slot"
    <3>1. Peer(slot) = Second
      BY <1>1, <1>3 DEF Peer
    <3> QED  BY <1>1, <1>3, <2>1, <3>1, PairConstants DEF NextSlot
  <2>3. /\ turns' \in [Peers -> Nat]
        /\ turns'[First] = rounds' /\ turns'[Second] = rounds'
    BY <1>1, <1>3, <2>1, <2>2, PairConstants DEF Peers
  <2> QED  BY <1>1, <2>1, <2>2, <2>3, PairConstants DEF Counted
<1> QED  BY <1>1, <1>2, <1>3, PeerIsPeer

\* A completed slot publishes the state it leads to.
LEMMA NextSlotPublishes ==
  ASSUME NextSlot
  PROVE  Published' /\ (outcome' = outcome \/ outcome' = "cap_reached")
  BY DEF NextSlot, Published, Publish

----------------------------------------------------------------------------
\* Every step of the driver, an abort and a deadline preserve the invariant.
LEMMA PairStep == PairInv /\ [Next]_vars => PairInv'
<1> SUFFICES ASSUME PairInv, [Next]_vars PROVE PairInv'
  OBVIOUS
<1> USE DEF Failures, Stops
<1>1. CASE BeginSlot
  <2>1. CASE aborted
    BY <1>1, <2>1, BreakKeeps DEF BeginSlot
  <2>2. CASE ~aborted
    <3>1. Counted'
      BY <1>1, <2>2 DEF BeginSlot, PairInv, Counted, state, history
    <3>2. Held' /\ Informed'
      BY <1>1, <2>2 DEF BeginSlot, PairInv, Held, Informed, state, history, Candidates
    <3>3. Published'
      BY <1>1, <2>2 DEF BeginSlot, PairInv, Published, state
    <3> QED  BY <3>1, <3>2, <3>3 DEF PairInv
  <2> QED  BY <2>1, <2>2
<1>2. CASE NotifyReturns
  <2>1. CASE \E result : result # "converged" /\ Break(result) /\ UNCHANGED seen
    BY <1>2, <2>1, BreakKeeps DEF NotifyReturns, history
  <2>2. CASE /\ at' = "drive" /\ seen' = [seen EXCEPT ![Peer(slot)] = candidate]
             /\ UNCHANGED <<slot, repaired, spent, deadline, outcome, progress>>
    <3>1. Counted'
      BY <1>2, <2>2 DEF NotifyReturns, PairInv, Counted
    <3>2. Held' /\ Informed'
      <4>1. Peer(slot) \in Peers
        BY PeerIsPeer DEF PairInv, Counted
      <4> QED  BY <1>2, <2>2, <4>1 DEF NotifyReturns, PairInv, Held, Informed, state,
                  Candidates
    <3>3. Published'
      BY <1>2, <2>2 DEF NotifyReturns, PairInv, Published, state
    <3> QED  BY <3>1, <3>2, <3>3 DEF PairInv
  <2> QED  BY <1>2, <2>1, <2>2 DEF NotifyReturns, Imposed
<1>3. CASE DriveStops
  BY <1>3, BreakKeeps DEF DriveStops, Imposed
<1>4. CASE DriveOverspends
  BY <1>4, BreakKeeps DEF DriveOverspends
<1>5. CASE Propose
  <2>1. at = "drive" /\ NextSlot
    BY <1>5 DEF Propose, Produced
  <2>2. Counted' /\ at' # "drive"
    BY <2>1, NextSlotCounts
  <2>3. Published' /\ (outcome' = outcome \/ outcome' = "cap_reached")
    BY <2>1, NextSlotPublishes
  <2>4. Held'
    BY <1>5, PairConstants DEF Propose, Installed, PairInv, Held, Candidates
  <2>5. Informed'
    BY <1>5, <2>1, <2>2, <2>3 DEF Propose, Installed, PairInv, Informed
  <2> QED  BY <2>2, <2>3, <2>4, <2>5 DEF PairInv
<1>6. CASE RevisionExhausted
  BY <1>6, BreakKeeps DEF RevisionExhausted, Produced
<1>7. CASE Unusable
  <2>0. PICK cost \in Costs :
           /\ Produced(cost)
           /\ UNCHANGED <<state, rounds, aborted, history>>
           /\ IF repaired
              THEN Break("protocol_error")
              ELSE /\ repaired' = TRUE
                   /\ spent' = spent + cost
                   /\ Publish(Peer(slot), Peer(slot))
                   /\ UNCHANGED <<at, slot, deadline, outcome>>
    BY <1>7 DEF Unusable
  <2>1. CASE repaired
    BY <2>0, <2>1, BreakKeeps DEF Produced
  <2>2. CASE ~repaired
    <3>1. Counted'
      BY <2>0, <2>2 DEF PairInv, Counted, history
    <3>2. Held' /\ Informed'
      BY <2>0, <2>2 DEF PairInv, Held, Informed, state, history, Candidates
    <3>3. Published'
      BY <2>0, <2>2 DEF Produced, Published, Publish
    <3> QED  BY <3>1, <3>2, <3>3 DEF PairInv
  <2> QED  BY <2>1, <2>2
<1>8. ASSUME NEW named \in [revision : 1..MaxRevision, text : Texts], Agree(named)
      PROVE  PairInv'
  <2> DEFINE peer == Peer(slot)
  <2>1. at = "drive" /\ peer \in Peers
    BY <1>8, PeerIsPeer DEF Agree, Produced, PairInv, Counted
  <2>2. candidate # None /\ named = candidate /\ seen[peer] = candidate
    BY <1>8, <2>1 DEF Agree, Current, PairInv, Held, Informed, Candidates
  <2>3. /\ UNCHANGED <<candidate, nextRevision, seen>> /\ agreed' = agreed \cup {peer}
        /\ consent' = [consent EXCEPT ![peer] = candidate]
    BY <1>8, <2>2 DEF Agree
  <2>4. /\ Held'
        /\ \A p \in agreed' : seen'[p] = candidate' /\ consent'[p] = candidate'
    BY <2>1, <2>2, <2>3 DEF PairInv, Held, Informed, Candidates
  <2>5. CASE Peers \subseteq agreed'
    <3>1. /\ rounds' = IF slot % 2 = 1 THEN rounds + 1 ELSE rounds
          /\ turns' = [turns EXCEPT ![peer] = @ + 1]
          /\ Break("converged")
      BY <1>8, <2>5 DEF Agree
    <3>2. Counted'
      BY <2>1, <3>1, PeerIsPeer, PairConstants DEF PairInv, Counted, Break, Peer, Peers
    <3>3. Informed'
      BY <2>2, <2>3, <2>4, <2>5, <3>1 DEF Held, Informed, Break
    <3>4. Published'
      BY <3>1 DEF Published, Break, Publish
    <3> QED  BY <2>4, <3>2, <3>3, <3>4 DEF PairInv
  <2>6. CASE ~(Peers \subseteq agreed')
    <3>1. NextSlot
      BY <1>8, <2>6 DEF Agree
    <3>2. Counted' /\ at' # "drive"
      BY <2>1, <3>1, NextSlotCounts
    <3>3. Published' /\ (outcome' = outcome \/ outcome' = "cap_reached")
      BY <3>1, NextSlotPublishes
    <3>4. Informed'
      BY <2>1, <2>4, <3>2, <3>3 DEF PairInv, Informed
    <3> QED  BY <2>4, <3>2, <3>3, <3>4 DEF PairInv
  <2> QED  BY <2>5, <2>6
<1>9. CASE Abort \/ Deadline
  <2>1. Counted'
    BY <1>9 DEF Abort, Deadline, PairInv, Counted, history
  <2>2. Held' /\ Informed'
    BY <1>9 DEF Abort, Deadline, PairInv, Held, Informed, state, history, Candidates
  <2>3. Published'
    BY <1>9 DEF Abort, Deadline, PairInv, Published, state
  <2> QED  BY <2>1, <2>2, <2>3 DEF PairInv
<1>10. CASE UNCHANGED vars
  <2>1. Counted'
    BY <1>10 DEF vars, PairInv, Counted, history
  <2>2. Held' /\ Informed'
    BY <1>10 DEF vars, PairInv, Held, Informed, state, history, Candidates
  <2>3. Published'
    BY <1>10 DEF vars, PairInv, Published, state
  <2> QED  BY <2>1, <2>2, <2>3 DEF PairInv
<1> QED
  BY <1>1, <1>2, <1>3, <1>4, <1>5, <1>6, <1>7, <1>8, <1>9, <1>10 DEF Next, Driver

\* The invariant of the pair driver: its counts, the candidate it holds, the
\* agreements it may count and the snapshot it has published (PairDriver::run).
THEOREM PairSafe == Spec => []PairInv
  BY PairInit, PairStep, PTL DEF Spec

\* Only informed consent converges: every agreement the driver counts is to the
\* current candidate and comes from a peer it was delivered to, and a pair that
\* converged holds the agreement of both (PairState::install, record_agreement).
THEOREM Consent == Spec => []InformedConsent
<1>1. PairInv => InformedConsent
  BY DEF PairInv, Informed, InformedConsent
<1> QED  BY <1>1, PairSafe, PTL

\* The published snapshot is the driver's state at every await and at the end,
\* and the rounds it reports are the turns both peers completed (publish_state).
THEOREM Truth == Spec => []ProgressIsTrue
<1>1. PairInv => ProgressIsTrue
  <2> SUFFICES ASSUME PairInv PROVE ProgressIsTrue
    OBVIOUS
  <2>1. rounds = IF turns[First] < turns[Second] THEN turns[First] ELSE turns[Second]
    BY PeerIsPeer DEF PairInv, Counted
  <2> QED  BY <2>1 DEF PairInv, Published, ProgressIsTrue
<1> QED  BY <1>1, PairSafe, PTL

----------------------------------------------------------------------------
Outcomes == {"none", "converged", "cap_reached", "protocol_error", "aborted"}
            \cup Failures \cup Stops

\* What the slot keeps, and how the pair ended.
Flags ==
    /\ repaired \in BOOLEAN /\ deadline \in BOOLEAN /\ aborted \in BOOLEAN
    /\ spent \in Nat /\ outcome \in Outcomes

\* Every step keeps their types.
LEMMA FlagsStep == Flags /\ [Next]_vars => Flags'
<1> SUFFICES ASSUME Flags, [Next]_vars PROVE Flags'
  OBVIOUS
<1>1. ASSUME NEW result \in Outcomes, Break(result), UNCHANGED aborted PROVE Flags'
  BY <1>1 DEF Break, Flags
<1>2. ASSUME NextSlot, UNCHANGED aborted PROVE Flags'
  BY <1>2 DEF NextSlot, Flags, Outcomes
<1>3. /\ Imposed \in Outcomes
      /\ {"aborted", "budget_exceeded", "protocol_error"} \subseteq Outcomes
  BY DEF Imposed, Outcomes, Stops
<1>4. CASE BeginSlot
  <2>1. \/ Break("aborted") /\ UNCHANGED aborted
        \/ UNCHANGED <<repaired, spent, deadline, aborted, outcome>>
    BY <1>4 DEF BeginSlot
  <2> QED  BY <1>1, <1>3, <2>1 DEF Flags
<1>5. CASE DriveStops \/ DriveOverspends \/ RevisionExhausted
  <2>1. /\ UNCHANGED aborted
        /\ \E result \in Outcomes : Break(result)
    BY <1>3, <1>5 DEF DriveStops, DriveOverspends, RevisionExhausted, Outcomes
  <2> QED  BY <1>1, <2>1
<1>6. CASE NotifyReturns
  <2>1. /\ UNCHANGED aborted
        /\ \/ \E result \in Outcomes : Break(result)
           \/ UNCHANGED <<repaired, spent, deadline, outcome>>
    BY <1>3, <1>6 DEF NotifyReturns, Outcomes
  <2> QED  BY <1>1, <2>1 DEF Flags
<1>7. CASE Propose
  BY <1>2, <1>7 DEF Propose
<1>8. CASE Unusable
  <2>1. PICK cost \in Costs :
           /\ UNCHANGED aborted
           /\ \/ Break("protocol_error")
              \/ /\ repaired' = TRUE /\ spent' = spent + cost
                 /\ UNCHANGED <<deadline, outcome>>
    BY <1>8 DEF Unusable
  <2>2. CASE Break("protocol_error")
    BY <1>1, <2>1, <2>2 DEF Outcomes
  <2>3. CASE repaired' = TRUE /\ spent' = spent + cost /\ UNCHANGED <<deadline, outcome>>
    BY <2>1, <2>3, PairConstants DEF Flags
  <2> QED  BY <2>1, <2>2, <2>3
<1>9. ASSUME NEW named, Agree(named) PROVE Flags'
  BY <1>1, <1>2, <1>9 DEF Agree, Outcomes
<1>10. CASE Abort \/ Deadline \/ UNCHANGED vars
  <2>1. /\ UNCHANGED <<repaired, spent, outcome>>
        /\ aborted' = aborted \/ aborted' = TRUE
        /\ deadline' = deadline \/ deadline' = TRUE
    BY <1>10 DEF Abort, Deadline, vars
  <2> QED  BY <2>1 DEF Flags
<1> QED
  BY <1>4, <1>5, <1>6, <1>7, <1>8, <1>9, <1>10 DEF Next, Driver

\* The pair driver's state keeps its types; slots and rounds stay within the cap
\* that PairBounds sets, whatever the peers reply.
THEOREM PairTyped == Spec => []TypeOK
<1>1. Init => Flags
  <2>1. Init => /\ repaired = FALSE /\ deadline = FALSE /\ aborted = FALSE
                /\ spent = 0 /\ outcome = "none"
    BY DEF Init
  <2>2. "none" \in Outcomes /\ 0 \in Nat
    BY DEF Outcomes
  <2> QED  BY <2>1, <2>2, Zenon DEF Flags
<1>2. PairInv /\ Flags => TypeOK
  <2> SUFFICES ASSUME PairInv, Flags PROVE TypeOK
    OBVIOUS
  <2>1. /\ slot \in 0..(2 * MaxRounds) /\ rounds \in 0..MaxRounds
        /\ turns[First] \in 0..MaxRounds /\ turns[Second] \in 0..MaxRounds
    BY PeerIsPeer, PairConstants DEF PairInv, Counted
  <2>2. turns \in [Peers -> 0..MaxRounds]
    BY <2>1 DEF PairInv, Counted, Peers
  <2>3. Peer(slot) \in Peers
    BY PeerIsPeer DEF PairInv, Counted
  <2>4. progress \in [rounds : 0..MaxRounds, next : Peers \cup {None},
                      candidate : Candidates, agreed : SUBSET Peers,
                      repairing : Peers \cup {None}]
    BY <2>1, <2>3 DEF PairInv, Held, Published
  <2> QED  BY <2>1, <2>2, <2>4 DEF PairInv, Counted, Held, Flags, Outcomes, TypeOK
<1> QED  BY <1>1, <1>2, FlagsStep, PairSafe, PTL DEF Spec

=============================================================================
