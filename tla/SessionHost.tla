----------------------------- MODULE SessionHost -----------------------------
(****************************************************************************)
(* One hosted session: admission of input, the loop that drives admitted    *)
(* turns, turns driven outside admission (a spawned worker's, a peer's),    *)
(* Stop, session commands and the reaper.                                   *)
(*                                                                          *)
(* Three locks matter.  The runtime mutex is held for a whole turn.  The    *)
(* admission mutex and the turn-token slot are held for a few assignments;  *)
(* each such section is one step.  A turn's cancellation token is named by  *)
(* whoever's turn it is, so tokens are inputs and outside drivers.          *)
(*                                                                          *)
(* What an input says, the event fanout, steering and the intervention log  *)
(* are left out; the origin gate answers either way.                        *)
(****************************************************************************)
EXTENDS Naturals, Sequences, FiniteSets

CONSTANTS
    Inputs,             \* pieces of user input, each submitted once
    FromDevice,         \* those with an origin, which the gate is asked about
    Drivers,            \* turns driven outside admission, each once
    Stops,              \* calls of cancel_all
    None,               \* no token, no holder
    Command,            \* the session command and the reaper, as holders of
    Reaper,             \* the runtime mutex
    FollowUpCapacity    \* FOLLOW_UP_CAPACITY

Turns == Inputs \cup Drivers

ASSUME HostConstants ==
    /\ FromDevice \subseteq Inputs
    /\ Inputs \cap Drivers = {}
    /\ {None, Command, Reaper} \cap Turns = {}
    /\ Cardinality({None, Command, Reaper}) = 3
    /\ FollowUpCapacity \in Nat

VARIABLES
    running,    \* Admission: whether the admission loop is driving turns,
    followUps,  \* the follow-ups waiting for it,
    starting,   \* the token of work popped but not started,
    closed,     \* the session is being closed
    command,    \* the command holding the session: "none", or how far it is
    turnCancel, \* the token of the turn in flight
    runtime,    \* who holds the runtime mutex
    stage,      \* turn -> how far it is
    cancelled,  \* tokens that are cancelled
    stop,       \* call of cancel_all -> how far it is, the token it took, and
                \* (history) the input admitted and not over when it began
    forgotten   \* history: input whose token another turn took from starting

admission == <<running, followUps, starting, closed, command>>
vars == <<admission, turnCancel, runtime, stage, cancelled, stop, forgotten>>

\* Where an input can be: not submitted; refused by admission; waiting as a
\* follow-up; popped by the loop; waiting for the runtime; holding it; its
\* token published; its turn running; the turn over with the runtime held;
\* released and the loop about to look for more; nothing left to do; its future
\* dropped in the middle of its turn.
Stages == {"new", "refused", "queued", "popped", "waiting", "holding",
           "published", "running", "leaving", "over", "done", "dropped"}

\* The input a loop of spawn_admitted has in hand.
InHand == {"popped", "waiting", "holding", "published", "running", "leaving", "over"}

NoStop == [stage |-> "none", token |-> None, covers |-> {}]

Init ==
    /\ running = FALSE /\ followUps = << >> /\ starting = None
    /\ closed = FALSE /\ command = "none"
    /\ turnCancel = None /\ runtime = None
    /\ stage = [t \in Turns |-> "new"]
    /\ cancelled = {}
    /\ stop = [s \in Stops |-> NoStop]
    /\ forgotten = {}

Move(t, to) == stage' = [stage EXCEPT ![t] = to]

\* turn_in_flight.
TurnInFlight == turnCancel # None

----------------------------------------------------------------------------
(* Admission: each of these is decided under the admission lock. *)

\* submit_from on a session without work: the loop is started on the input.
SubmitStarts(i) ==
    /\ stage[i] = "new"
    /\ ~closed /\ command = "none"
    /\ ~running /\ ~TurnInFlight
    /\ running' = TRUE
    /\ starting' = i
    /\ Move(i, "popped")
    /\ UNCHANGED <<followUps, closed, command, turnCancel, runtime, cancelled,
                   stop, forgotten>>

\* Mutant of SubmitQueues: a full queue pushes the new follow-up anyway and the
\* loop is not started behind a turn driven outside admission.
SubmitOnlyQueues(i) ==
    /\ stage[i] = "new"
    /\ ~closed /\ command = "none"
    /\ running \/ TurnInFlight
    /\ followUps' = Append(followUps, i)
    /\ Move(i, "queued")
    /\ UNCHANGED <<running, starting, closed, command, turnCancel, runtime,
                   cancelled, stop, forgotten>>

\* submit_from behind a running turn: the input waits; behind a turn driven
\* outside admission nobody would pop it, so the loop is started.
SubmitQueues(i) ==
    /\ stage[i] = "new"
    /\ ~closed /\ command = "none"
    /\ running \/ TurnInFlight
    /\ Len(followUps) < FollowUpCapacity
    /\ LET queue == Append(followUps, i)
       IN  IF running
           THEN /\ followUps' = queue
                /\ Move(i, "queued")
                /\ UNCHANGED <<running, starting>>
           ELSE /\ followUps' = Tail(queue)
                /\ stage' = [stage EXCEPT ![i] = "queued", ![Head(queue)] = "popped"]
                /\ running' = TRUE
                /\ starting' = Head(queue)
    /\ UNCHANGED <<closed, command, turnCancel, runtime, cancelled, stop, forgotten>>

\* submit_from refuses: Closed, Busy or QueueFull.
SubmitRefused(i) ==
    /\ stage[i] = "new"
    /\ closed \/ command # "none" \/ running \/ TurnInFlight
    /\ Move(i, "refused")
    /\ UNCHANGED <<admission, turnCancel, runtime, cancelled, stop, forgotten>>

\* Mutant of ReserveCommand: the admission loop is not looked at, only a turn
\* whose token is published.
ReserveCommandBetweenTurns ==
    /\ ~closed /\ command = "none" /\ ~TurnInFlight
    /\ command' = "reserved"
    /\ UNCHANGED <<running, followUps, starting, closed, turnCancel, runtime,
                   stage, cancelled, stop, forgotten>>

\* reserve_command.
ReserveCommand ==
    /\ ~closed /\ ~running /\ command = "none" /\ ~TurnInFlight
    /\ command' = "reserved"
    /\ UNCHANGED <<running, followUps, starting, closed, turnCancel, runtime,
                   stage, cancelled, stop, forgotten>>

\* CommandReservation::runtime.
CommandTakesRuntime ==
    /\ command = "reserved" /\ runtime = None
    /\ command' = "holding"
    /\ runtime' = Command
    /\ UNCHANGED <<running, followUps, starting, closed, turnCancel, stage,
                   cancelled, stop, forgotten>>

\* The command is done with the runtime; its reservation is dropped next.
CommandLeavesRuntime ==
    /\ command = "holding"
    /\ command' = "left"
    /\ runtime' = None
    /\ UNCHANGED <<running, followUps, starting, closed, turnCancel, stage,
                   cancelled, stop, forgotten>>

\* CommandReservation::drop; the connection may go away and drop it early.
DropReservation ==
    /\ command # "none"
    /\ command' = "none"
    /\ runtime' = IF command = "holding" THEN None ELSE runtime
    /\ UNCHANGED <<running, followUps, starting, closed, turnCancel, stage,
                   cancelled, stop, forgotten>>

\* The reaper's try_lock, after it found the session idle some time ago.
ReaperTakesRuntime ==
    /\ ~closed /\ runtime = None
    /\ runtime' = Reaper
    /\ UNCHANGED <<admission, turnCancel, stage, cancelled, stop, forgotten>>

\* close_admission under the runtime mutex: work admitted since then keeps the
\* session; otherwise nothing is admitted any more.
CloseAdmission ==
    /\ runtime = Reaper
    /\ closed' = (~running /\ command = "none" /\ ~TurnInFlight)
    /\ runtime' = None
    /\ UNCHANGED <<running, followUps, starting, command, turnCancel, stage,
                   cancelled, stop, forgotten>>

----------------------------------------------------------------------------
(* Turns: the loop's work and turns driven outside admission. *)

\* drive, called from outside admission.
Drive(d) ==
    /\ stage[d] = "new"
    /\ Move(d, "waiting")
    /\ UNCHANGED <<admission, turnCancel, runtime, cancelled, stop, forgotten>>

\* The loop looks at its work's token once, before waiting for the runtime.
BeginWork(i) ==
    /\ stage[i] = "popped"
    /\ Move(i, IF i \in cancelled THEN "over" ELSE "waiting")
    /\ UNCHANGED <<admission, turnCancel, runtime, cancelled, stop, forgotten>>

\* The runtime mutex is granted.
TakeRuntime(t) ==
    /\ stage[t] = "waiting" /\ runtime = None
    /\ runtime' = t
    /\ Move(t, "holding")
    /\ UNCHANGED <<admission, turnCancel, cancelled, stop, forgotten>>

\* drive_admitted: the origin gate refuses the work at the last moment.
GateRefuses(i) ==
    /\ stage[i] = "holding" /\ i \in FromDevice
    /\ runtime' = None
    /\ Move(i, "over")
    /\ UNCHANGED <<admission, turnCancel, cancelled, stop, forgotten>>

\* run_locked publishes the turn's token.
PublishToken(t) ==
    /\ stage[t] = "holding"
    /\ turnCancel' = t
    /\ Move(t, "published")
    /\ UNCHANGED <<admission, runtime, cancelled, stop, forgotten>>

\* run_locked clears starting, whoever's token it holds, and runs the turn.
StartTurn(t) ==
    /\ stage[t] = "published"
    /\ starting' = None
    /\ forgotten' = forgotten \cup ({starting} \ {None, t})
    /\ Move(t, "running")
    /\ UNCHANGED <<running, followUps, closed, command, turnCancel, runtime,
                   cancelled, stop>>

\* Mutant of EndTurn: the token slot is cleared after the runtime is released,
\* by whoever comes to it (here: not at all).
EndTurnKeepsToken(t) ==
    /\ stage[t] = "running"
    /\ Move(t, "leaving")
    /\ UNCHANGED <<admission, turnCancel, runtime, cancelled, stop, forgotten>>

\* run_turn has returned: the slot is cleared while the runtime is still held.
EndTurn(t) ==
    /\ stage[t] = "running"
    /\ turnCancel' = None
    /\ Move(t, "leaving")
    /\ UNCHANGED <<admission, runtime, cancelled, stop, forgotten>>

\* The runtime guard is dropped.
LeaveRuntime(t) ==
    /\ stage[t] = "leaving"
    /\ runtime' = None
    /\ Move(t, IF t \in Inputs THEN "over" ELSE "done")
    /\ UNCHANGED <<admission, turnCancel, cancelled, stop, forgotten>>

\* Mutant of NextWork: the popped follow-up's token is not kept in starting.
NextWorkUnnamed(i) ==
    /\ stage[i] = "over"
    /\ IF followUps = << >>
       THEN /\ running' = FALSE
            /\ starting' = None
            /\ Move(i, "done")
            /\ UNCHANGED followUps
       ELSE /\ starting' = None
            /\ followUps' = Tail(followUps)
            /\ stage' = [stage EXCEPT ![i] = "done", ![Head(followUps)] = "popped"]
            /\ UNCHANGED running
    /\ UNCHANGED <<closed, command, turnCancel, runtime, cancelled, stop, forgotten>>

\* spawn_admitted pops the next follow-up, or ends, under the admission lock.
NextWork(i) ==
    /\ stage[i] = "over"
    /\ IF followUps = << >>
       THEN /\ running' = FALSE
            /\ starting' = None
            /\ Move(i, "done")
            /\ UNCHANGED followUps
       ELSE /\ starting' = Head(followUps)
            /\ followUps' = Tail(followUps)
            /\ stage' = [stage EXCEPT ![i] = "done", ![Head(followUps)] = "popped"]
            /\ UNCHANGED running
    /\ UNCHANGED <<closed, command, turnCancel, runtime, cancelled, stop, forgotten>>

\* Whoever awaits an outside drive gives up and drops its future: the worker
\* timeout of dispatch, a slot deadline that finds no turn to cancel.  It is
\* dropped where it awaits: for the runtime, or in run_turn.  The runtime guard
\* goes with it; the statement that clears the token slot is never reached.
DropDrive(d) ==
    /\ \/ /\ stage[d] = "waiting"
          /\ Move(d, "done")
          /\ UNCHANGED runtime
       \/ /\ stage[d] = "running"
          /\ Move(d, "dropped")
          /\ runtime' = None
    /\ UNCHANGED <<admission, turnCancel, cancelled, stop, forgotten>>

----------------------------------------------------------------------------
(* cancel_all. *)

\* Under the admission lock: drop the follow-ups, take the starting token.
StopAdmitted(s) ==
    /\ stop[s].stage = "none"
    /\ stop' = [stop EXCEPT ![s] =
          [stage |-> "taken", token |-> starting,
           covers |-> {i \in Inputs : stage[i] \in {"queued"} \cup InHand}]]
    /\ starting' = None
    /\ followUps' = << >>
    /\ stage' = [t \in Turns |-> IF stage[t] = "queued" THEN "done" ELSE stage[t]]
    /\ UNCHANGED <<running, closed, command, turnCancel, runtime, cancelled, forgotten>>

\* The token taken is cancelled with no lock held.
StopStarting(s) ==
    /\ stop[s].stage = "taken"
    /\ cancelled' = cancelled \cup ({stop[s].token} \ {None})
    /\ stop' = [stop EXCEPT ![s] = [@ EXCEPT !.stage = "turn"]]
    /\ UNCHANGED <<admission, turnCancel, runtime, stage, forgotten>>

\* The turn in flight is cancelled under the token slot's lock.
StopTurn(s) ==
    /\ stop[s].stage = "turn"
    /\ cancelled' = cancelled \cup ({turnCancel} \ {None})
    /\ stop' = [stop EXCEPT ![s] = [@ EXCEPT !.stage = "returned"]]
    /\ UNCHANGED <<admission, turnCancel, runtime, stage, forgotten>>

----------------------------------------------------------------------------
\* What runs to its end once it has begun: the loop, its turns, the turns
\* driven outside it, and the command and the reaper while they hold the runtime.
Work(t) ==
    \/ PublishToken(t) \/ StartTurn(t) \/ EndTurn(t) \/ LeaveRuntime(t)
    \/ (t \in Inputs /\ (BeginWork(t) \/ NextWork(t)))

Next ==
    \/ \E i \in Inputs :
          \/ SubmitStarts(i) \/ SubmitQueues(i) \/ SubmitRefused(i)
          \/ BeginWork(i) \/ GateRefuses(i) \/ NextWork(i)
    \/ \E d \in Drivers : Drive(d) \/ DropDrive(d)
    \/ \E t \in Turns :
          \/ TakeRuntime(t) \/ PublishToken(t) \/ StartTurn(t)
          \/ EndTurn(t) \/ LeaveRuntime(t)
    \/ \E s \in Stops : StopAdmitted(s) \/ StopStarting(s) \/ StopTurn(s)
    \/ ReserveCommand \/ CommandTakesRuntime \/ CommandLeavesRuntime
    \/ DropReservation
    \/ ReaperTakesRuntime \/ CloseAdmission

\* A turn ends (its provider and its tools have timeouts), tasks are scheduled,
\* and the runtime mutex is granted in the order it was asked for, so a waiter
\* is not passed over for ever.
Fairness ==
    /\ \A t \in Turns : WF_vars(Work(t)) /\ SF_vars(TakeRuntime(t))
    /\ WF_vars(CommandLeavesRuntime)
    /\ WF_vars(CloseAdmission)

Spec == Init /\ [][Next]_vars /\ Fairness

----------------------------------------------------------------------------
(* Properties. *)

\* The variables keep their types, and the follow-ups are the queued inputs,
\* each once, in a queue that never exceeds its capacity.
TypeOK ==
    /\ running \in BOOLEAN /\ closed \in BOOLEAN
    /\ followUps \in Seq(Inputs)
    /\ Len(followUps) <= FollowUpCapacity
    /\ \A i \in Inputs :
          Cardinality({n \in 1..Len(followUps) : followUps[n] = i})
            = IF stage[i] = "queued" THEN 1 ELSE 0
    /\ starting \in Inputs \cup {None}
    /\ command \in {"none", "reserved", "holding", "left"}
    /\ turnCancel \in Turns \cup {None}
    /\ runtime \in Turns \cup {None, Command, Reaper}
    /\ stage \in [Turns -> Stages]
    /\ cancelled \subseteq Turns
    /\ stop \in [Stops -> [stage : {"none", "taken", "turn", "returned"},
                           token : Inputs \cup {None}, covers : SUBSET Inputs]]
    /\ forgotten \subseteq Inputs

\* A turn under way has the runtime to itself and its token in the slot, so that
\* Stop cancels it and nothing else; a turn that ended by itself has left the
\* slot.  "The slot always names the turn that actually holds the mutex", and is
\* "`None` when idle", but for one case: a drive dropped in mid-turn leaves its
\* token there until another turn begins.
TokenNamesTurn ==
    \A t \in Turns :
        /\ stage[t] \in {"published", "running"} => turnCancel = t
        /\ turnCancel = t => stage[t] \in {"published", "running", "dropped"}
        /\ stage[t] \in {"holding", "published", "running", "leaving"} => runtime = t

\* Admitted work, a session command and a closed session exclude each other: a
\* command "never overlaps admitted work", and "the reaper never closes the
\* session under it" nor under input that has been accepted.  Input waits only
\* behind a loop that will pop it, and there is one loop.
WorkExcludes ==
    LET inHand == {i \in Inputs : stage[i] \in InHand}
    IN  /\ Cardinality(inHand) <= 1
        /\ running <=> inHand # {}
        /\ followUps # << >> => running
        /\ command # "none" => ~running /\ ~closed
        /\ closed => ~running

\* The token of this input is cancelled, or a Stop that has taken it is about to
\* cancel it.
Doomed(i) ==
    \/ i \in cancelled
    \/ \E s \in Stops : stop[s].stage = "taken" /\ stop[s].token = i

\* "A Stop means stop": once cancel_all has returned, input admitted before it
\* runs only under a token that is cancelled or that another Stop, which took it
\* first, is about to cancel, whichever lock the input was passing between.
\* The exception is input whose token another turn wiped from starting: a turn
\* driven outside admission clears the slot of work that waits behind it.
StopMeansStop ==
    \A s \in Stops : stop[s].stage = "returned" =>
        \A i \in stop[s].covers \ forgotten :
            stage[i] \in ({"queued"} \cup InHand) \ {"leaving", "over"} => Doomed(i)

\* Input that was accepted, as Started or as Queued, comes to an end: its turn
\* runs, or it is dropped by a Stop or by the gate; it is never left behind
\* with nobody to run it.
AdmittedSettles ==
    \A i \in Inputs : stage[i] \in {"queued"} \cup InHand ~> stage[i] = "done"
=============================================================================
