---------------------------- MODULE PairConverge ----------------------------
(****************************************************************************)
(* The pair driver: two peers take turns on one shared candidate until both *)
(* have agreed to it, or a bound, an abort, a deadline or a failing         *)
(* endpoint stops them.  The driver awaits one endpoint call at a time (a   *)
(* delivery or a turn); between two awaits it runs to the next one in one   *)
(* step.  The abort and the slot's deadline fire at any time.  What a peer  *)
(* replies is not constrained.                                              *)
(*                                                                          *)
(* A text is its content and whether its lines end in CR LF; a digest is    *)
(* the canonical text.  Prompts and the raw replies kept for the report are *)
(* left out.                                                                *)
(****************************************************************************)
EXTENDS Naturals, FiniteSets

CONSTANTS
    First, Second,  \* the two peers
    None,           \* no peer, no candidate
    Contents,       \* what an artifact can say
    Costs,          \* tokens a turn can spend
    MaxRounds,      \* PairBounds
    SlotBudget,     \* 0: no budget
    MaxRevision     \* u64::MAX, where the revision space ends

Peers == {First, Second}

\* PairDriver::new refuses equal peers and a round cap of zero.
ASSUME PairConstants ==
    /\ First # Second /\ None \notin Peers
    /\ Costs \subseteq Nat
    /\ MaxRounds \in Nat \ {0} /\ SlotBudget \in Nat /\ MaxRevision \in Nat \ {0}

VARIABLES
    candidate,      \* PairState: the current candidate,
    nextRevision,
    agreed,         \* and who has agreed to it
    at,             \* what is awaited: "slot" (nothing yet), "notify", "drive", "end"
    slot, rounds,
    repaired,       \* of the slot: its one repair is spent,
    spent,          \* tokens so far,
    deadline,       \* its allowance has elapsed
    aborted,        \* PairAbort was used
    outcome,
    progress,       \* the published PairProgress
    turns,          \* history: slots each peer has completed
    seen,           \* history: the candidate last delivered to each peer
    consent         \* history: the candidate each peer last agreed to

state == <<candidate, nextRevision, agreed>>
history == <<turns, seen, consent>>
vars == <<state, at, slot, rounds, repaired, spent, deadline, aborted, outcome,
          progress, history>>

Texts == [content : Contents, crlf : BOOLEAN]

\* canonicalize.
Canonical(text) == [text EXCEPT !.crlf = FALSE]

Peer(s) == IF s % 2 = 0 THEN First ELSE Second

\* Endpoint calls that fail, and turns that stop without a reply.
Failures == {"peer_failed", "provider_error"}
Stops == {"timed_out", "budget_exceeded", "no_progress"}

Init ==
    /\ candidate = None /\ nextRevision = 1 /\ agreed = {}
    /\ at = "slot" /\ slot = 0 /\ rounds = 0
    /\ repaired = FALSE /\ spent = 0 /\ deadline = FALSE
    /\ aborted = FALSE /\ outcome = "none"
    /\ progress = [rounds |-> 0, next |-> First, candidate |-> None, agreed |-> {},
                   repairing |-> None]
    /\ turns = [p \in Peers |-> 0]
    /\ seen = [p \in Peers |-> None]
    /\ consent = [p \in Peers |-> None]

\* publish_state, of the state this step leads to.
Publish(next, repairing) ==
    progress' = [rounds |-> rounds', next |-> next, candidate |-> candidate',
                 agreed |-> agreed', repairing |-> repairing]

\* The loop breaks: one last snapshot, without a next peer.
Break(result) ==
    /\ at' = "end"
    /\ outcome' = result
    /\ Publish(None, None)
    /\ UNCHANGED <<slot, repaired, spent, deadline>>

\* The outcome that abort or deadline impose after an endpoint call.
Imposed == IF aborted THEN "aborted" ELSE "timed_out"
Stopped == aborted \/ deadline

----------------------------------------------------------------------------
\* The top of the loop: an aborted pair makes no call; the current candidate is
\* delivered before the peer is driven on it.
BeginSlot ==
    /\ at = "slot"
    /\ UNCHANGED <<state, rounds, aborted, history>>
    /\ IF aborted
       THEN Break("aborted")
       ELSE /\ at' = IF candidate = None THEN "drive" ELSE "notify"
            /\ UNCHANGED <<slot, repaired, spent, deadline, outcome, progress>>

\* notify returns.  Where an outcome is imposed the reply does not matter.
NotifyReturns ==
    /\ at = "notify"
    /\ UNCHANGED <<state, rounds, aborted, turns, consent>>
    /\ \/ /\ Stopped
          /\ Break(Imposed)
          /\ UNCHANGED seen
       \/ /\ ~Stopped
          /\ \E failure \in Failures : Break(failure)
          /\ UNCHANGED seen
       \/ /\ ~Stopped
          /\ at' = "drive"
          /\ seen' = [seen EXCEPT ![Peer(slot)] = candidate]
          /\ UNCHANGED <<slot, repaired, spent, deadline, outcome, progress>>

\* drive returns without a usable turn: after an abort or the deadline, when the
\* endpoint fails, and when the session stopped on a limit of its own.
DriveStops ==
    /\ at = "drive"
    /\ UNCHANGED <<state, rounds, aborted, history>>
    /\ IF Stopped THEN Break(Imposed) ELSE \E stop \in Failures \cup Stops : Break(stop)

\* The turn's cost is added to the slot's, the repair's to the same counter.
OverBudget(cost) == SlotBudget > 0 /\ spent + cost > SlotBudget

DriveOverspends ==
    /\ at = "drive" /\ ~Stopped
    /\ \E cost \in Costs : OverBudget(cost)
    /\ UNCHANGED <<state, rounds, aborted, history>>
    /\ Break("budget_exceeded")

\* A turn was produced within the budget: its envelope is looked at.
Produced(cost) == at = "drive" /\ ~Stopped /\ ~OverBudget(cost)

\* Mutant of NextSlot: one round too many.
NextSlotLate ==
    /\ slot' = slot + 1
    /\ rounds' = IF slot % 2 = 1 THEN rounds + 1 ELSE rounds
    /\ turns' = [turns EXCEPT ![Peer(slot)] = @ + 1]
    /\ IF slot % 2 = 1 /\ rounds' > MaxRounds
       THEN at' = "end" /\ outcome' = "cap_reached" /\ Publish(None, None)
       ELSE at' = "slot" /\ Publish(Peer(slot'), None) /\ UNCHANGED outcome
    /\ repaired' = FALSE /\ spent' = 0 /\ deadline' = FALSE

\* The slot is done: the other peer is next, unless this was the last round.
NextSlot ==
    /\ slot' = slot + 1
    /\ rounds' = IF slot % 2 = 1 THEN rounds + 1 ELSE rounds
    /\ turns' = [turns EXCEPT ![Peer(slot)] = @ + 1]
    /\ IF slot % 2 = 1 /\ rounds' >= MaxRounds
       THEN at' = "end" /\ outcome' = "cap_reached" /\ Publish(None, None)
       ELSE at' = "slot" /\ Publish(Peer(slot'), None) /\ UNCHANGED outcome
    /\ repaired' = FALSE /\ spent' = 0 /\ deadline' = FALSE

\* install: the next revision, in canonical form, agreed to by nobody.
Installed(text) ==
    /\ candidate' = [revision |-> nextRevision, text |-> Canonical(text)]
    /\ nextRevision' = nextRevision + 1
    /\ agreed' = {}

\* Propose or revise.
Propose ==
    /\ \E cost \in Costs : Produced(cost)
    /\ nextRevision < MaxRevision
    /\ \E text \in Texts : Installed(text)
    /\ NextSlot
    /\ UNCHANGED <<aborted, seen, consent>>

\* A proposal with no revision left for it.
RevisionExhausted ==
    /\ \E cost \in Costs : Produced(cost)
    /\ nextRevision = MaxRevision
    /\ UNCHANGED <<state, rounds, aborted, history>>
    /\ Break("protocol_error")

\* Mutant of Current: the revision named is not compared.
CurrentText(named) == candidate # None /\ named.text = candidate.text

\* record_agreement: the agreement names the current revision and its digest.
Current(named) ==
    /\ candidate # None
    /\ named.revision = candidate.revision /\ named.text = candidate.text

\* An agreement to the current candidate.
Agree(named) ==
    LET peer == Peer(slot)
    IN  /\ \E cost \in Costs : Produced(cost)
        /\ Current(named)
        /\ UNCHANGED <<candidate, nextRevision, aborted, seen>>
        /\ agreed' = agreed \cup {peer}
        /\ consent' = [consent EXCEPT ![peer] = named]
        /\ IF Peers \subseteq agreed'
           THEN /\ rounds' = IF slot % 2 = 1 THEN rounds + 1 ELSE rounds
                /\ turns' = [turns EXCEPT ![peer] = @ + 1]
                /\ Break("converged")
           ELSE NextSlot

\* Mutant of Unusable: a second unusable reply earns another repair.
UnusableAgain ==
    \E cost \in Costs :
        /\ Produced(cost)
        /\ UNCHANGED <<state, at, slot, rounds, deadline, aborted, outcome, history>>
        /\ repaired' = ~repaired
        /\ spent' = spent + cost
        /\ Publish(Peer(slot), Peer(slot))

\* A malformed envelope, or an agreement to anything but the current candidate:
\* the same peer is driven once more in the same slot; a second one ends the pair.
Unusable ==
    \E cost \in Costs :
        /\ Produced(cost)
        /\ UNCHANGED <<state, rounds, aborted, history>>
        /\ IF repaired
           THEN Break("protocol_error")
           ELSE /\ repaired' = TRUE
                /\ spent' = spent + cost
                /\ Publish(Peer(slot), Peer(slot))
                /\ UNCHANGED <<at, slot, deadline, outcome>>

----------------------------------------------------------------------------
\* PairAbort::abort, from anywhere.
Abort ==
    /\ ~aborted /\ at # "end"
    /\ aborted' = TRUE
    /\ UNCHANGED <<state, at, slot, rounds, repaired, spent, deadline, outcome,
                   progress, history>>

\* The slot's allowance elapses while an endpoint is awaited; the call is told.
Deadline ==
    /\ ~deadline /\ at \in {"notify", "drive"}
    /\ deadline' = TRUE
    /\ UNCHANGED <<state, at, slot, rounds, repaired, spent, aborted, outcome,
                   progress, history>>

Driver ==
    \/ BeginSlot \/ NotifyReturns \/ DriveStops \/ DriveOverspends
    \/ Propose \/ RevisionExhausted \/ Unusable
    \/ \E named \in [revision : 1..MaxRevision, text : Texts] : Agree(named)

Next == Driver \/ Abort \/ Deadline

\* The driver's task is scheduled, and every endpoint call returns: the deadline
\* cancels it through a token it observes.
Spec == Init /\ [][Next]_vars /\ WF_vars(Driver)

----------------------------------------------------------------------------
(* Properties. *)

Candidates ==
    [revision : 1..MaxRevision, text : {Canonical(t) : t \in Texts}] \cup {None}

\* The variables keep their types; no round is played past the cap.
TypeOK ==
    /\ candidate \in Candidates
    /\ nextRevision \in 1..MaxRevision
    /\ agreed \subseteq Peers
    /\ at \in {"slot", "notify", "drive", "end"}
    /\ slot \in 0..(2 * MaxRounds) /\ rounds \in 0..MaxRounds
    /\ repaired \in BOOLEAN /\ deadline \in BOOLEAN /\ aborted \in BOOLEAN
    /\ spent \in Nat
    /\ outcome \in {"none", "converged", "cap_reached", "protocol_error", "aborted"}
                   \cup Failures \cup Stops
    /\ progress \in [rounds : 0..MaxRounds, next : Peers \cup {None},
                     candidate : Candidates, agreed : SUBSET Peers,
                     repairing : Peers \cup {None}]
    /\ turns \in [Peers -> 0..MaxRounds]
    /\ seen \in [Peers -> Candidates] /\ consent \in [Peers -> Candidates]

\* The pair converges only on a candidate that both peers were shown and both
\* agreed to, at one revision and in the same words: nobody's agreement to an
\* earlier candidate, and no agreement to a text the peer has not seen, counts.
InformedConsent ==
    /\ \A p \in agreed : seen[p] = candidate /\ consent[p] = candidate
    /\ outcome = "converged" => candidate # None /\ agreed = Peers

\* Whenever the driver waits for a peer, and when it has ended, what it has
\* published is how things are: the candidate, who agreed, who is next or is
\* repairing; and the rounds it reports are the turns that both peers completed.
ProgressIsTrue ==
    /\ progress.candidate = candidate /\ progress.agreed = agreed
    /\ progress.rounds = rounds
    /\ rounds = IF turns[First] < turns[Second] THEN turns[First] ELSE turns[Second]
    /\ progress.next = IF at = "end" THEN None ELSE Peer(slot)
    /\ progress.repairing = IF at # "end" /\ repaired THEN Peer(slot) ELSE None

\* The pair always ends, whatever the peers reply and however they repeat it.
PairEnds == <>(outcome # "none")
=============================================================================
