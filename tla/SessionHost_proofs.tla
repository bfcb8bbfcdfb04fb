------------------------- MODULE SessionHost_proofs -------------------------
(****************************************************************************)
(* The hosted session, for any inputs, outside turns and Stops and a queue  *)
(* of any capacity.                                                         *)
(****************************************************************************)
EXTENDS SessionHost, FiniteSetTheorems, TLAPS

\* The stages in which a turn holds the runtime, and in which its token shows.
Holding == {"holding", "published", "running", "leaving"}
Showing == {"published", "running"}

\* The stages of admitted input before its token shows, and until its turn ends.
Ahead == {"popped", "waiting", "holding", "published"}
Alive == Ahead \cup {"running"}

\* The types, apart from how often an input is queued.
Typed ==
    /\ running \in BOOLEAN /\ closed \in BOOLEAN
    /\ followUps \in Seq(Inputs) /\ Len(followUps) <= FollowUpCapacity
    /\ starting \in Inputs \cup {None}
    /\ command \in {"none", "reserved", "holding", "left"}
    /\ turnCancel \in Turns \cup {None}
    /\ runtime \in Turns \cup {None, Command, Reaper}
    /\ stage \in [Turns -> Stages]
    /\ cancelled \subseteq Turns
    /\ stop \in [Stops -> [stage : {"none", "taken", "turn", "returned"},
                           token : Inputs \cup {None}, covers : SUBSET Inputs]]
    /\ forgotten \subseteq Inputs

\* The runtime mutex and the token slot name the turn that is under way, the slot
\* also one that was dropped; a turn driven outside admission never enters the
\* stages of the admission loop, and only such a turn is dropped.
Holders ==
    /\ \A t \in Turns : stage[t] \in Holding <=> runtime = t
    /\ \A t \in Turns : /\ stage[t] \in Showing => turnCancel = t
                        /\ turnCancel = t => stage[t] \in Showing \cup {"dropped"}
    /\ command = "holding" <=> runtime = Command
    /\ \A d \in Drivers : stage[d] \in {"new", "waiting", "done", "dropped"} \cup Holding
    /\ \A i \in Inputs : stage[i] # "dropped"

\* The follow-ups are the queued inputs, each once.
Queue ==
    /\ \A m, n \in 1..Len(followUps) : followUps[m] = followUps[n] => m = n
    /\ \A i \in Inputs :
          stage[i] = "queued" <=> \E n \in 1..Len(followUps) : followUps[n] = i

\* One loop, with one input in hand; it excludes commands and closing.
Loop ==
    /\ \A i, j \in Inputs : stage[i] \in InHand /\ stage[j] \in InHand => i = j
    /\ running <=> \E i \in Inputs : stage[i] \in InHand
    /\ followUps # << >> => running
    /\ command # "none" => ~running /\ ~closed
    /\ closed => ~running

\* Where the token of admitted input is to be found, so that a Stop gets at it;
\* and what each Stop has achieved so far.
Reached ==
    /\ \A i \in Inputs \ forgotten : stage[i] \in Ahead => starting = i \/ Doomed(i)
    /\ \A s \in Stops : \A i \in stop[s].covers :
          /\ stage[i] \in InHand \cup {"done"}
          /\ stop[s].stage # "none"
          /\ i \notin forgotten /\ stage[i] \in Alive =>
                Doomed(i) \/ (stage[i] = "running" /\ stop[s].stage # "returned")

\* The inductive invariant.
HostInv == Typed /\ Holders /\ Queue /\ Loop /\ Reached

----------------------------------------------------------------------------
\* Sequences, as the proofs use them.
LEMMA Appended ==
  ASSUME NEW S, NEW q \in Seq(S), NEW e \in S
  PROVE  /\ Append(q, e) \in Seq(S) /\ Len(Append(q, e)) = Len(q) + 1
         /\ Append(q, e) # << >>
         /\ \A n \in 1..(Len(q) + 1) :
               Append(q, e)[n] = IF n = Len(q) + 1 THEN e ELSE q[n]
<1>1. Append(q, e) \in Seq(S) /\ Len(Append(q, e)) = Len(q) + 1 /\ Len(q) \in Nat
  OBVIOUS
<1>2. \A n \in 1..(Len(q) + 1) :
         Append(q, e)[n] = IF n = Len(q) + 1 THEN e ELSE q[n]
  OBVIOUS
<1>3. Append(q, e) # << >>
  BY <1>1
<1> QED  BY <1>1, <1>2, <1>3

\* What taking the head of the queue leaves.
LEMMA Popped ==
  ASSUME NEW S, NEW q \in Seq(S), q # << >>
  PROVE  /\ Tail(q) \in Seq(S) /\ Len(Tail(q)) = Len(q) - 1 /\ Len(q) \in Nat \ {0}
         /\ Head(q) = q[1] /\ Head(q) \in S
         /\ \A n \in 1..(Len(q) - 1) : Tail(q)[n] = q[n + 1]
  OBVIOUS

\* The empty queue.
LEMMA Emptied == << >> \in Seq(Inputs) /\ Len(<< >>) = 0
  OBVIOUS

\* What the constants' assumptions say of the names.
LEMMA Names ==
  /\ None \notin Turns /\ Command \notin Turns /\ Reaper \notin Turns
  /\ None # Command /\ None # Reaper /\ Command # Reaper
<1>1. None \notin Turns /\ Command \notin Turns /\ Reaper \notin Turns
  BY HostConstants
<1>2. \A a, b : Cardinality({a, b}) <= 2
  <2> SUFFICES ASSUME NEW a, NEW b PROVE Cardinality({a, b}) <= 2
    OBVIOUS
  <2>1. IsFiniteSet({a}) /\ Cardinality({a}) = 1
    BY FS_Singleton
  <2>2. Cardinality({a} \cup {b}) <= 2
    BY <2>1, FS_AddElement
  <2>3. {a} \cup {b} = {a, b}
    OBVIOUS
  <2> QED  BY <2>2, <2>3
<1>3. ASSUME None = Command \/ None = Reaper \/ Command = Reaper PROVE FALSE
  <2>1. \E a, b : {None, Command, Reaper} = {a, b}
    BY <1>3
  <2>2. Cardinality({None, Command, Reaper}) <= 2
    BY <1>2, <2>1
  <2> QED  BY <2>2, HostConstants
<1> QED  BY <1>1, <1>3

----------------------------------------------------------------------------
\* The invariant holds at the start.
LEMMA HostInit == Init => HostInv
<1> SUFFICES ASSUME Init PROVE HostInv
  OBVIOUS
<1>1. Typed
  <2>1. running \in BOOLEAN /\ closed \in BOOLEAN
    BY Zenon DEF Init
  <2>2. followUps \in Seq(Inputs) /\ Len(followUps) <= FollowUpCapacity
    BY Emptied, HostConstants DEF Init
  <2>3. stop \in [Stops -> [stage : {"none", "taken", "turn", "returned"},
                            token : Inputs \cup {None}, covers : SUBSET Inputs]]
    BY DEF Init, NoStop
  <2> QED  BY <2>1, <2>2, <2>3 DEF Init, Typed, Stages
<1>2. Holders
  BY Names DEF Init, Holders, Holding, Showing, Turns
<1>3. Queue
  BY Emptied DEF Init, Queue, Turns
<1>4. Loop /\ Reached
  BY DEF Init, Loop, Reached, InHand, Ahead, NoStop, Turns
<1> QED  BY <1>1, <1>2, <1>3, <1>4 DEF HostInv

----------------------------------------------------------------------------
\* Behind a loop the input joins the queue; behind an outside turn there is no
\* queue and the loop starts on the input itself.
LEMMA Queues ==
  ASSUME HostInv, NEW i \in Inputs, SubmitQueues(i)
  PROVE  /\ running => /\ followUps' = Append(followUps, i)
                       /\ stage' = [stage EXCEPT ![i] = "queued"]
                       /\ UNCHANGED <<running, starting>>
         /\ ~running => /\ followUps = << >> /\ followUps' = << >>
                        /\ stage' = [stage EXCEPT ![i] = "popped"]
                        /\ running' = TRUE /\ starting' = i
<1>1. CASE running
  BY <1>1 DEF SubmitQueues, Move
<1>2. CASE ~running
  <2>1. followUps = << >>
    BY <1>2 DEF HostInv, Loop
  <2>2. Head(Append(followUps, i)) = i /\ Tail(Append(followUps, i)) = << >>
    BY <2>1
  <2>3. /\ followUps' = Tail(Append(followUps, i))
        /\ stage' = [stage EXCEPT ![i] = "queued", ![Head(Append(followUps, i))] = "popped"]
        /\ running' = TRUE /\ starting' = Head(Append(followUps, i))
    BY <1>2 DEF SubmitQueues
  <2>4. stage' = [stage EXCEPT ![i] = "popped"]
    BY <2>2, <2>3 DEF HostInv, Typed
  <2> QED  BY <1>2, <2>1, <2>2, <2>3, <2>4
<1> QED  BY <1>1, <1>2

\* Every step keeps the types.
LEMMA TypedStep == HostInv /\ [Next]_vars => Typed'
<1> SUFFICES ASSUME HostInv, [Next]_vars PROVE Typed'
  OBVIOUS
<1> USE DEF Move, admission
<1>0. Typed /\ (followUps # << >> => running = TRUE)
  BY DEF HostInv, Loop, Typed
<1>1. ASSUME NEW i \in Inputs, SubmitStarts(i) PROVE Typed'
  BY <1>0, <1>1 DEF SubmitStarts, Typed, Stages, Turns
<1>2. ASSUME NEW i \in Inputs, SubmitQueues(i) PROVE Typed'
  <2>1. CASE running
    <3>1. /\ followUps' = Append(followUps, i)
          /\ stage' = [stage EXCEPT ![i] = "queued"] /\ UNCHANGED <<running, starting>>
      BY <1>2, <2>1, Queues
    <3>2. /\ Append(followUps, i) \in Seq(Inputs)
          /\ Len(Append(followUps, i)) = Len(followUps) + 1 /\ Len(followUps) \in Nat
      BY <1>0, Appended DEF Typed
    <3>3. Len(followUps') <= FollowUpCapacity
      BY <1>2, <3>1, <3>2, HostConstants DEF SubmitQueues
    <3> QED  BY <1>0, <1>2, <3>1, <3>2, <3>3 DEF SubmitQueues, Typed, Stages, Turns
  <2>2. CASE ~running
    <3>1. /\ followUps' = << >> /\ running' = TRUE /\ starting' = i
          /\ stage' = [stage EXCEPT ![i] = "popped"]
      BY <1>2, <2>2, Queues
    <3>2. followUps' \in Seq(Inputs) /\ Len(followUps') <= FollowUpCapacity
      BY <3>1, Emptied, HostConstants
    <3> QED  BY <1>0, <1>2, <3>1, <3>2 DEF SubmitQueues, Typed, Stages, Turns
  <2> QED  BY <2>1, <2>2
<1>3. ASSUME NEW i \in Inputs, SubmitRefused(i) \/ BeginWork(i) \/ GateRefuses(i)
      PROVE  Typed'
  BY <1>0, <1>3 DEF SubmitRefused, BeginWork, GateRefuses, Typed, Stages, Turns
<1>4. ASSUME NEW i \in Inputs, NextWork(i) PROVE Typed'
  <2>1. CASE followUps = << >>
    BY <1>0, <1>4, <2>1 DEF NextWork, Typed, Stages, Turns
  <2>2. CASE followUps # << >>
    <3>1. /\ Tail(followUps) \in Seq(Inputs) /\ Len(Tail(followUps)) <= FollowUpCapacity
          /\ Head(followUps) \in Inputs
      BY <1>0, <2>2, Popped, HostConstants DEF Typed
    <3> QED  BY <1>0, <1>4, <2>2, <3>1 DEF NextWork, Typed, Stages, Turns
  <2> QED  BY <2>1, <2>2
<1>5. ASSUME NEW d \in Drivers, Drive(d) \/ DropDrive(d) PROVE Typed'
  BY <1>0, <1>5 DEF Drive, DropDrive, Typed, Stages, Turns
<1>6. ASSUME NEW t \in Turns, TakeRuntime(t) \/ PublishToken(t) \/ EndTurn(t)
                               \/ LeaveRuntime(t)
      PROVE  Typed'
  BY <1>0, <1>6 DEF TakeRuntime, PublishToken, EndTurn, LeaveRuntime, Typed, Stages
<1>7. ASSUME NEW t \in Turns, StartTurn(t) PROVE Typed'
  BY <1>0, <1>7 DEF StartTurn, Typed, Stages
<1>8. ASSUME NEW s \in Stops, StopAdmitted(s) PROVE Typed'
  <2>1. followUps' \in Seq(Inputs) /\ Len(followUps') <= FollowUpCapacity
    BY <1>8, Emptied, HostConstants DEF StopAdmitted
  <2>2. stop' \in [Stops -> [stage : {"none", "taken", "turn", "returned"},
                             token : Inputs \cup {None}, covers : SUBSET Inputs]]
    BY <1>0, <1>8 DEF StopAdmitted, Typed
  <2> QED  BY <1>0, <1>8, <2>1, <2>2 DEF StopAdmitted, Typed, Stages
<1>9. ASSUME NEW s \in Stops, StopStarting(s) \/ StopTurn(s) PROVE Typed'
  <2>1. stop' \in [Stops -> [stage : {"none", "taken", "turn", "returned"},
                             token : Inputs \cup {None}, covers : SUBSET Inputs]]
    BY <1>0, <1>9 DEF StopStarting, StopTurn, Typed
  <2>2. cancelled' \subseteq Turns
    BY <1>0, <1>9 DEF StopStarting, StopTurn, Typed, Turns
  <2> QED  BY <1>0, <1>9, <2>1, <2>2 DEF StopStarting, StopTurn, Typed
<1>10. CASE ReserveCommand \/ CommandTakesRuntime \/ CommandLeavesRuntime \/ DropReservation
            \/ ReaperTakesRuntime
  BY <1>0, <1>10 DEF ReserveCommand, CommandTakesRuntime, CommandLeavesRuntime,
     DropReservation, ReaperTakesRuntime, Typed
<1>11. CASE CloseAdmission
  <2>1. closed' \in BOOLEAN
    BY <1>11, Zenon DEF CloseAdmission
  <2> QED  BY <1>0, <1>11, <2>1 DEF CloseAdmission, Typed
<1>12. CASE UNCHANGED vars
  BY <1>0, <1>12 DEF vars, Typed
<1> QED
  BY <1>1, <1>2, <1>3, <1>4, <1>5, <1>6, <1>7, <1>8, <1>9, <1>10, <1>11, <1>12 DEF Next

----------------------------------------------------------------------------
\* Every step keeps the runtime mutex and the token slot with the turn under way.
LEMMA HoldersStep == HostInv /\ [Next]_vars => Holders'
<1> SUFFICES ASSUME HostInv, [Next]_vars PROVE Holders'
  OBVIOUS
<1> USE Names DEF Move, admission, Holding, Showing
<1>0. /\ Holders /\ stage \in [Turns -> Stages]
      /\ Inputs \subseteq Turns /\ Drivers \subseteq Turns /\ Inputs \cap Drivers = {}
  BY HostConstants DEF HostInv, Typed, Turns
<1>1. ASSUME NEW i \in Inputs, SubmitStarts(i) PROVE Holders'
  BY <1>0, <1>1 DEF SubmitStarts, Holders
<1>2. ASSUME NEW i \in Inputs, SubmitQueues(i) PROVE Holders'
  <2>1. stage' = [stage EXCEPT ![i] = "queued"] \/ stage' = [stage EXCEPT ![i] = "popped"]
    BY <1>2, Queues
  <2> QED  BY <1>0, <1>2, <2>1 DEF SubmitQueues, Holders
<1>3. ASSUME NEW i \in Inputs, SubmitRefused(i) PROVE Holders'
  BY <1>0, <1>3 DEF SubmitRefused, Holders
<1>4. ASSUME NEW i \in Inputs, BeginWork(i) PROVE Holders'
  BY <1>0, <1>4 DEF BeginWork, Holders
<1>5. ASSUME NEW i \in Inputs, GateRefuses(i) PROVE Holders'
  BY <1>0, <1>5 DEF GateRefuses, Holders
<1>6. ASSUME NEW i \in Inputs, NextWork(i) PROVE Holders'
  <2>1. CASE followUps = << >>
    BY <1>0, <1>6, <2>1 DEF NextWork, Holders
  <2>2. CASE followUps # << >>
    <3>1. Head(followUps) \in Inputs /\ stage[Head(followUps)] = "queued"
      BY <2>2, Popped DEF HostInv, Typed, Queue
    <3>2. stage' = [stage EXCEPT ![i] = "done", ![Head(followUps)] = "popped"]
      BY <1>6, <2>2 DEF NextWork
    <3> QED  BY <1>0, <1>6, <3>1, <3>2 DEF NextWork, Holders
  <2> QED  BY <2>1, <2>2
<1>7. ASSUME NEW d \in Drivers, Drive(d) \/ DropDrive(d) PROVE Holders'
  BY <1>0, <1>7 DEF Drive, DropDrive, Holders
<1>8. ASSUME NEW t \in Turns, TakeRuntime(t) PROVE Holders'
  BY <1>0, <1>8 DEF TakeRuntime, Holders
<1>9. ASSUME NEW t \in Turns, PublishToken(t) PROVE Holders'
  BY <1>0, <1>9 DEF PublishToken, Holders
<1>10. ASSUME NEW t \in Turns, StartTurn(t) PROVE Holders'
  BY <1>0, <1>10 DEF StartTurn, Holders
<1>11. ASSUME NEW t \in Turns, EndTurn(t) PROVE Holders'
  BY <1>0, <1>11 DEF EndTurn, Holders
<1>12. ASSUME NEW t \in Turns, LeaveRuntime(t) PROVE Holders'
  BY <1>0, <1>12 DEF LeaveRuntime, Holders
<1>13. ASSUME NEW s \in Stops, StopAdmitted(s) PROVE Holders'
  BY <1>0, <1>13 DEF StopAdmitted, Holders
<1>14. CASE CommandTakesRuntime \/ CommandLeavesRuntime \/ DropReservation
  BY <1>0, <1>14 DEF CommandTakesRuntime, CommandLeavesRuntime, DropReservation, Holders
<1>15. CASE ReserveCommand \/ ReaperTakesRuntime \/ CloseAdmission
  BY <1>0, <1>15 DEF ReserveCommand, ReaperTakesRuntime, CloseAdmission, Holders
<1>16. CASE UNCHANGED <<stage, runtime, turnCancel, command>>
  BY <1>0, <1>16 DEF Holders
<1> QED
  BY <1>1, <1>2, <1>3, <1>4, <1>5, <1>6, <1>7, <1>8, <1>9, <1>10, <1>11, <1>12, <1>13,
     <1>14, <1>15, <1>16 DEF Next, vars, StopStarting, StopTurn

----------------------------------------------------------------------------
\* Every step keeps the queue: what is queued is what the loop will find.
LEMMA QueueStep == HostInv /\ [Next]_vars => Queue'
<1> SUFFICES ASSUME HostInv, [Next]_vars PROVE Queue'
  OBVIOUS
<1> USE DEF Move, admission
<1>0. /\ Queue /\ stage \in [Turns -> Stages] /\ Inputs \subseteq Turns
      /\ Inputs \cap Drivers = {} /\ followUps \in Seq(Inputs) /\ Len(followUps) \in Nat
  BY HostConstants DEF HostInv, Typed, Turns
<1>1. ASSUME UNCHANGED followUps,
             \A i \in Inputs : stage'[i] = "queued" <=> stage[i] = "queued"
      PROVE  Queue'
  BY <1>0, <1>1 DEF Queue
<1>2. ASSUME NEW i \in Inputs, SubmitStarts(i) \/ SubmitRefused(i) \/ BeginWork(i)
                                \/ GateRefuses(i)
      PROVE  Queue'
  BY <1>0, <1>1, <1>2 DEF SubmitStarts, SubmitRefused, BeginWork, GateRefuses
<1>3. ASSUME NEW i \in Inputs, SubmitQueues(i) PROVE Queue'
  <2>1. CASE running
    <3> DEFINE queue == Append(followUps, i)
    <3>1. followUps' = queue /\ stage' = [stage EXCEPT ![i] = "queued"]
      BY <1>3, <2>1, Queues
    <3>2. /\ Len(queue) = Len(followUps) + 1
          /\ \A n \in 1..(Len(followUps) + 1) :
                queue[n] = IF n = Len(followUps) + 1 THEN i ELSE followUps[n]
      BY <1>0, Appended
    <3>3. \A n \in 1..Len(followUps) : followUps[n] # i
      BY <1>0, <1>3 DEF SubmitQueues, Queue
    <3>4. \A m, n \in 1..Len(queue) : queue[m] = queue[n] => m = n
      BY <1>0, <3>2, <3>3 DEF Queue
    <3>5. ASSUME NEW j \in Inputs
          PROVE  stage'[j] = "queued" <=> \E n \in 1..Len(queue) : queue[n] = j
      <4>1. CASE j = i
        <5>1. Len(followUps) + 1 \in 1..Len(queue) /\ queue[Len(followUps) + 1] = i
          BY <1>0, <3>2
        <5> QED  BY <1>0, <3>1, <4>1, <5>1
      <4>2. CASE j # i
        <5>1. (\E n \in 1..Len(queue) : queue[n] = j)
                <=> \E n \in 1..Len(followUps) : followUps[n] = j
          BY <1>0, <3>2, <4>2
        <5>2. stage'[j] = stage[j]
          BY <1>0, <3>1, <4>2
        <5> QED  BY <1>0, <5>1, <5>2 DEF Queue
      <4> QED  BY <4>1, <4>2
    <3> HIDE DEF queue
    <3> QED  BY <3>1, <3>4, <3>5 DEF Queue
  <2>2. CASE ~running
    <3>1. followUps = << >> /\ followUps' = << >> /\ stage' = [stage EXCEPT ![i] = "popped"]
      BY <1>3, <2>2, Queues
    <3>2. stage[i] = "new"
      BY <1>3 DEF SubmitQueues
    <3> QED  BY <1>0, <1>1, <3>1, <3>2
  <2> QED  BY <2>1, <2>2
<1>4. ASSUME NEW i \in Inputs, NextWork(i) PROVE Queue'
  <2>1. CASE followUps = << >>
    BY <1>0, <1>1, <1>4, <2>1 DEF NextWork
  <2>2. CASE followUps # << >>
    <3> DEFINE first == Head(followUps)  rest == Tail(followUps)
    <3>1. /\ first \in Inputs /\ first = followUps[1] /\ Len(followUps) \in Nat \ {0}
          /\ Len(rest) = Len(followUps) - 1
          /\ \A n \in 1..(Len(followUps) - 1) : rest[n] = followUps[n + 1]
      BY <1>0, <2>2, Popped
    <3>2. /\ followUps' = rest /\ stage[i] = "over"
          /\ stage' = [stage EXCEPT ![i] = "done", ![first] = "popped"]
      BY <1>4, <2>2 DEF NextWork
    <3> HIDE DEF first, rest
    <3>3. \A m, n \in 1..Len(rest) : rest[m] = rest[n] => m = n
      <4> SUFFICES ASSUME NEW m \in 1..Len(rest), NEW n \in 1..Len(rest), rest[m] = rest[n]
                   PROVE  m = n
        OBVIOUS
      <4>1. /\ m + 1 \in 1..Len(followUps) /\ n + 1 \in 1..Len(followUps)
            /\ followUps[m + 1] = followUps[n + 1]
        BY <3>1
      <4>2. m + 1 = n + 1
        BY <1>0, <4>1 DEF Queue
      <4> QED  BY <4>2
    <3>4. ASSUME NEW j \in Inputs
          PROVE  stage'[j] = "queued" <=> \E n \in 1..Len(rest) : rest[n] = j
      <4>1. stage'[j] = "queued" <=> stage[j] = "queued" /\ j # first
        BY <1>0, <3>1, <3>2
      <4>2. ASSUME NEW n \in 1..Len(rest), rest[n] = j
            PROVE  stage[j] = "queued" /\ j # first
        <5>1. n + 1 \in 1..Len(followUps) /\ followUps[n + 1] = j /\ 1 \in 1..Len(followUps)
          BY <3>1, <4>2
        <5>2. n + 1 # 1
          OBVIOUS
        <5> QED  BY <1>0, <3>1, <5>1, <5>2 DEF Queue
      <4>3. ASSUME stage[j] = "queued", j # first
            PROVE  \E n \in 1..Len(rest) : rest[n] = j
        <5>1. PICK n \in 1..Len(followUps) : followUps[n] = j
          BY <1>0, <4>3 DEF Queue
        <5>2. n # 1
          BY <3>1, <4>3, <5>1
        <5>3. n - 1 \in 1..Len(rest) /\ rest[n - 1] = followUps[(n - 1) + 1]
          BY <3>1, <5>2
        <5>4. (n - 1) + 1 = n
          OBVIOUS
        <5> QED  BY <5>1, <5>3, <5>4
      <4> QED  BY <4>1, <4>2, <4>3
    <3> QED  BY <3>2, <3>3, <3>4 DEF Queue
  <2> QED  BY <2>1, <2>2
<1>5. ASSUME NEW d \in Drivers, Drive(d) \/ DropDrive(d) PROVE Queue'
  BY <1>0, <1>1, <1>5 DEF Drive, DropDrive
<1>6. ASSUME NEW t \in Turns, TakeRuntime(t) \/ PublishToken(t) \/ StartTurn(t)
                               \/ EndTurn(t) \/ LeaveRuntime(t)
      PROVE  Queue'
  BY <1>0, <1>1, <1>6 DEF TakeRuntime, PublishToken, StartTurn, EndTurn, LeaveRuntime
<1>7. ASSUME NEW s \in Stops, StopAdmitted(s) PROVE Queue'
  <2>1. followUps' = << >> /\ \A i \in Inputs : stage'[i] # "queued"
    BY <1>0, <1>7 DEF StopAdmitted
  <2> QED  BY <2>1, Emptied DEF Queue
<1>8. CASE UNCHANGED <<stage, followUps>>
  BY <1>1, <1>8
<1> QED
  BY <1>2, <1>3, <1>4, <1>5, <1>6, <1>7, <1>8 DEF Next, vars, StopStarting, StopTurn,
     ReserveCommand, CommandTakesRuntime, CommandLeavesRuntime, DropReservation,
     ReaperTakesRuntime, CloseAdmission

----------------------------------------------------------------------------
\* Every step keeps one loop, apart from commands and from a closed session.
LEMMA LoopStep == HostInv /\ [Next]_vars => Loop'
<1> SUFFICES ASSUME HostInv, [Next]_vars PROVE Loop'
  OBVIOUS
<1> USE DEF Move, admission, InHand
<1>0. /\ Loop /\ stage \in [Turns -> Stages] /\ Inputs \subseteq Turns
      /\ Inputs \cap Drivers = {} /\ followUps \in Seq(Inputs)
  BY HostConstants DEF HostInv, Typed, Turns
<1>1. ASSUME UNCHANGED <<running, followUps, command, closed>>,
             \A i \in Inputs : stage'[i] \in InHand <=> stage[i] \in InHand
      PROVE  Loop'
  BY <1>0, <1>1 DEF Loop
<1>2. ASSUME NEW i \in Inputs, SubmitStarts(i) PROVE Loop'
  BY <1>0, <1>2 DEF SubmitStarts, Loop
<1>3. ASSUME NEW i \in Inputs, SubmitQueues(i) PROVE Loop'
  <2>0. ~closed /\ command = "none" /\ stage[i] = "new" /\ UNCHANGED <<closed, command>>
    BY <1>3 DEF SubmitQueues
  <2>1. CASE running
    <3>1. stage' = [stage EXCEPT ![i] = "queued"] /\ running' = running
      BY <1>3, <2>1, Queues
    <3>2. \A j \in Inputs : stage'[j] \in InHand <=> stage[j] \in InHand
      BY <1>0, <2>0, <3>1
    <3> QED  BY <1>0, <2>0, <2>1, <3>1, <3>2 DEF Loop
  <2>2. CASE ~running
    <3>1. /\ followUps' = << >> /\ running' = TRUE
          /\ stage' = [stage EXCEPT ![i] = "popped"]
      BY <1>3, <2>2, Queues
    <3> QED  BY <1>0, <2>0, <2>2, <3>1 DEF Loop
  <2> QED  BY <2>1, <2>2
<1>4. ASSUME NEW i \in Inputs, SubmitRefused(i) \/ BeginWork(i) \/ GateRefuses(i)
      PROVE  Loop'
  BY <1>0, <1>1, <1>4 DEF SubmitRefused, BeginWork, GateRefuses
<1>5. ASSUME NEW i \in Inputs, NextWork(i) PROVE Loop'
  <2>0. /\ stage[i] = "over" /\ running /\ UNCHANGED <<closed, command>>
        /\ \A j \in Inputs \ {i} : stage[j] \notin InHand
    BY <1>0, <1>5 DEF NextWork, Loop
  <2>1. CASE followUps = << >>
    BY <1>0, <1>5, <2>0, <2>1 DEF NextWork, Loop
  <2>2. CASE followUps # << >>
    <3>1. Head(followUps) \in Inputs /\ stage[Head(followUps)] = "queued"
      BY <2>2, Popped DEF HostInv, Typed, Queue
    <3>2. /\ stage' = [stage EXCEPT ![i] = "done", ![Head(followUps)] = "popped"]
          /\ running' = running
      BY <1>5, <2>2 DEF NextWork
    <3> QED  BY <1>0, <2>0, <3>1, <3>2 DEF Loop
  <2> QED  BY <2>1, <2>2
<1>6. ASSUME NEW d \in Drivers, Drive(d) \/ DropDrive(d) PROVE Loop'
  BY <1>0, <1>1, <1>6 DEF Drive, DropDrive
<1>7. ASSUME NEW t \in Turns, TakeRuntime(t) \/ PublishToken(t) \/ StartTurn(t)
                               \/ EndTurn(t) \/ LeaveRuntime(t)
      PROVE  Loop'
  BY <1>0, <1>1, <1>7 DEF TakeRuntime, PublishToken, StartTurn, EndTurn, LeaveRuntime
<1>8. ASSUME NEW s \in Stops, StopAdmitted(s) PROVE Loop'
  <2>1. \A i \in Inputs : stage'[i] \in InHand <=> stage[i] \in InHand
    BY <1>0, <1>8 DEF StopAdmitted
  <2> QED  BY <1>0, <1>8, <2>1 DEF StopAdmitted, Loop
<1>9. CASE ReserveCommand \/ CommandTakesRuntime \/ CommandLeavesRuntime \/ DropReservation
  BY <1>0, <1>9 DEF ReserveCommand, CommandTakesRuntime, CommandLeavesRuntime,
     DropReservation, Loop
<1>10. CASE CloseAdmission
  BY <1>0, <1>10 DEF CloseAdmission, Loop
<1>11. CASE UNCHANGED <<admission, stage>>
  BY <1>1, <1>11
<1> QED
  BY <1>2, <1>3, <1>4, <1>5, <1>6, <1>7, <1>8, <1>9, <1>10, <1>11 DEF Next, vars,
     StopStarting, StopTurn, ReaperTakesRuntime

----------------------------------------------------------------------------
\* Every step keeps the tokens of admitted input within reach of a Stop.
LEMMA ReachedStep == HostInv /\ [Next]_vars => Reached'
<1> SUFFICES ASSUME HostInv, [Next]_vars PROVE Reached'
  OBVIOUS
<1> USE DEF Move, admission, InHand, Ahead, Alive
<1>0. /\ Reached /\ Typed /\ Loop /\ Inputs \subseteq Turns /\ Inputs \cap Drivers = {}
      /\ stage \in [Turns -> Stages] /\ None \notin Inputs
  BY HostConstants DEF HostInv, Typed, Turns
\* No Stop moves: an input that comes into hand brings its token to starting, and
\* an input that was covered never comes into hand again.
<1>1. ASSUME UNCHANGED <<stop, cancelled, starting, forgotten>>,
             \A i \in Inputs :
                /\ stage'[i] \in Ahead => stage[i] \in Ahead
                /\ stage'[i] \in Alive => stage[i] \in Alive /\
                                          (stage[i] = "running" => stage'[i] = "running")
                /\ stage[i] \in InHand \cup {"done"} => stage'[i] \in InHand \cup {"done"}
      PROVE  Reached'
  BY <1>0, <1>1 DEF Reached, Doomed, Typed
<1>2. ASSUME NEW i \in Inputs, stage[i] \in {"new", "queued"},
             UNCHANGED <<stop, cancelled, forgotten>>, starting' = i,
             \A j \in Inputs \ {i} : stage'[j] \notin InHand,
             \A j \in Inputs \ {i} : stage[j] \in InHand \cup {"done"} => stage'[j] = "done"
      PROVE  Reached'
  BY <1>0, <1>2 DEF Reached, Doomed, Typed
<1>3. ASSUME NEW i \in Inputs, SubmitStarts(i) PROVE Reached'
  BY <1>0, <1>2, <1>3 DEF SubmitStarts, Loop, Typed, Stages
<1>4. ASSUME NEW i \in Inputs, SubmitQueues(i) PROVE Reached'
  <2>0. stage[i] = "new" /\ UNCHANGED <<stop, cancelled, forgotten>>
    BY <1>4 DEF SubmitQueues
  <2>1. CASE running
    <3>1. stage' = [stage EXCEPT ![i] = "queued"] /\ UNCHANGED starting
      BY <1>4, <2>1, Queues
    <3> QED  BY <1>0, <1>1, <2>0, <3>1
  <2>2. CASE ~running
    <3>1. starting' = i /\ stage' = [stage EXCEPT ![i] = "popped"]
      BY <1>4, <2>2, Queues
    <3> QED  BY <1>0, <1>2, <2>0, <2>2, <3>1 DEF Loop
  <2> QED  BY <2>1, <2>2
<1>5. ASSUME NEW i \in Inputs, SubmitRefused(i) \/ BeginWork(i) \/ GateRefuses(i)
      PROVE  Reached'
  BY <1>0, <1>1, <1>5 DEF SubmitRefused, BeginWork, GateRefuses
<1>6. ASSUME NEW i \in Inputs, NextWork(i) PROVE Reached'
  <2>0. /\ stage[i] = "over" /\ UNCHANGED <<stop, cancelled, forgotten>>
        /\ \A j \in Inputs \ {i} : stage[j] \notin InHand
    BY <1>0, <1>6 DEF NextWork, Loop
  <2>1. CASE followUps = << >>
    <3>1. stage' = [stage EXCEPT ![i] = "done"] /\ starting' = None
      BY <1>6, <2>1 DEF NextWork
    <3> QED  BY <1>0, <2>0, <3>1 DEF Reached, Doomed, Typed
  <2>2. CASE followUps # << >>
    <3>1. Head(followUps) \in Inputs /\ stage[Head(followUps)] = "queued"
      BY <2>2, Popped DEF HostInv, Typed, Queue
    <3>2. /\ stage' = [stage EXCEPT ![i] = "done", ![Head(followUps)] = "popped"]
          /\ starting' = Head(followUps)
      BY <1>6, <2>2 DEF NextWork
    <3> QED  BY <1>0, <1>2, <2>0, <3>1, <3>2
  <2> QED  BY <2>1, <2>2
<1>7. ASSUME NEW d \in Drivers, Drive(d) \/ DropDrive(d) PROVE Reached'
  BY <1>0, <1>1, <1>7 DEF Drive, DropDrive
<1>8. ASSUME NEW t \in Turns, TakeRuntime(t) \/ PublishToken(t) \/ EndTurn(t)
                               \/ LeaveRuntime(t)
      PROVE  Reached'
  BY <1>0, <1>1, <1>8 DEF TakeRuntime, PublishToken, EndTurn, LeaveRuntime
\* The token in starting is the turn's own, or that input is forgotten.
<1>9. ASSUME NEW t \in Turns, StartTurn(t) PROVE Reached'
  <2>1. /\ starting' = None /\ forgotten' = forgotten \cup ({starting} \ {None, t})
        /\ stage[t] = "published" /\ stage' = [stage EXCEPT ![t] = "running"]
        /\ UNCHANGED <<stop, cancelled>>
    BY <1>9 DEF StartTurn
  <2>2. \A i \in Inputs \ forgotten' : stage'[i] \in Ahead => Doomed(i)'
    <3> SUFFICES ASSUME NEW i \in Inputs, i \notin forgotten', stage'[i] \in Ahead
                 PROVE  Doomed(i)'
      OBVIOUS
    <3>1. i # t /\ i # starting /\ i \notin forgotten /\ stage[i] \in Ahead
      BY <1>0, <2>1
    <3> QED  BY <1>0, <2>1, <3>1 DEF Reached, Doomed
  <2>3. \A s \in Stops : \A i \in stop'[s].covers :
          /\ stage'[i] \in InHand \cup {"done"} /\ stop'[s].stage # "none"
          /\ i \notin forgotten' /\ stage'[i] \in Alive =>
                Doomed(i)' \/ (stage'[i] = "running" /\ stop'[s].stage # "returned")
    BY <1>0, <2>1 DEF Reached, Doomed, Typed
  <2> QED  BY <2>2, <2>3 DEF Reached
<1>10. ASSUME NEW s \in Stops, StopAdmitted(s) PROVE Reached'
  <2>1. /\ stop' = [stop EXCEPT ![s] =
                       [stage |-> "taken", token |-> starting,
                        covers |-> {i \in Inputs : stage[i] \in {"queued"} \cup InHand}]]
        /\ stop[s].stage = "none" /\ UNCHANGED <<cancelled, forgotten>>
        /\ stage' = [t \in Turns |-> IF stage[t] = "queued" THEN "done" ELSE stage[t]]
    BY <1>10 DEF StopAdmitted
  <2>2. \A i \in Inputs : Doomed(i) \/ starting = i => Doomed(i)'
    BY <1>0, <2>1 DEF Doomed, Typed
  <2>3. \A i \in Inputs \ forgotten : stage[i] \in Ahead => Doomed(i)'
    BY <1>0, <2>2 DEF Reached
  <2>4. ASSUME NEW u \in Stops, NEW i \in stop'[u].covers
        PROVE  /\ stage'[i] \in InHand \cup {"done"} /\ stop'[u].stage # "none"
               /\ i \notin forgotten' /\ stage'[i] \in Alive =>
                    Doomed(i)' \/ (stage'[i] = "running" /\ stop'[u].stage # "returned")
    <3>1. CASE u = s
      BY <1>0, <2>1, <2>3, <2>4, <3>1 DEF Typed
    <3>2. CASE u # s
      <4>1. stop'[u] = stop[u] /\ i \in Inputs
        BY <1>0, <2>1, <2>4, <3>2 DEF Typed
      <4> QED  BY <1>0, <2>1, <2>2, <2>4, <4>1 DEF Reached
    <3> QED  BY <3>1, <3>2
  <2> QED  BY <1>0, <2>1, <2>3, <2>4 DEF Reached
<1>11. ASSUME NEW s \in Stops, StopStarting(s) PROVE Reached'
  <2>1. /\ cancelled' = cancelled \cup ({stop[s].token} \ {None})
        /\ stop' = [stop EXCEPT ![s] = [@ EXCEPT !.stage = "turn"]]
        /\ UNCHANGED <<starting, stage, forgotten>>
    BY <1>11 DEF StopStarting
  <2>2. \A i \in Inputs : Doomed(i) => Doomed(i)'
    BY <1>0, <2>1 DEF Doomed, Typed
  <2>3. \A u \in Stops : /\ stop'[u].covers = stop[u].covers
                         /\ stop'[u].stage = "none" => stop[u].stage = "none"
                         /\ stop'[u].stage = "returned" => stop[u].stage = "returned"
    BY <1>0, <2>1 DEF Typed
  <2> QED  BY <1>0, <2>1, <2>2, <2>3 DEF Reached, Typed
<1>12. ASSUME NEW s \in Stops, StopTurn(s) PROVE Reached'
  <2>1. /\ stop[s].stage = "turn" /\ cancelled' = cancelled \cup ({turnCancel} \ {None})
        /\ stop' = [stop EXCEPT ![s] = [@ EXCEPT !.stage = "returned"]]
        /\ UNCHANGED <<starting, stage, forgotten>>
    BY <1>12 DEF StopTurn
  <2>2. \A i \in Inputs : Doomed(i) => Doomed(i)'
    BY <1>0, <2>1 DEF Doomed, Typed
  <2>3. \A i \in Inputs : stage[i] = "running" => Doomed(i)'
    BY <1>0, <2>1 DEF HostInv, Holders, Showing, Doomed
  <2>4. \A u \in Stops : /\ stop'[u].covers = stop[u].covers
                         /\ stop'[u].stage = "none" => stop[u].stage = "none"
    BY <1>0, <2>1 DEF Typed
  <2> QED  BY <1>0, <2>1, <2>2, <2>3, <2>4 DEF Reached, Typed
<1>13. CASE UNCHANGED <<stage, starting, stop, cancelled, forgotten>>
  BY <1>1, <1>13
<1> QED
  BY <1>3, <1>4, <1>5, <1>6, <1>7, <1>8, <1>9, <1>10, <1>11, <1>12, <1>13 DEF Next, vars,
     ReserveCommand, CommandTakesRuntime, CommandLeavesRuntime, DropReservation,
     ReaperTakesRuntime, CloseAdmission

----------------------------------------------------------------------------
\* The inductive invariant of the hosted session: who holds the runtime and the
\* token slot, what is queued, the one admission loop, and where a Stop finds the
\* tokens of admitted input (SessionHost in host.rs).
THEOREM HostSafe == Spec => []HostInv
<1>1. HostInv /\ [Next]_vars => HostInv'
  BY TypedStep, HoldersStep, QueueStep, LoopStep, ReachedStep DEF HostInv
<1> QED  BY HostInit, <1>1, PTL DEF Spec

\* The state of the host keeps its types; no input is queued twice or lost from
\* the queue, and the queue never exceeds FOLLOW_UP_CAPACITY.
THEOREM HostTyped == Spec => []TypeOK
<1>1. ASSUME HostInv PROVE TypeOK
  <2>1. ASSUME NEW i \in Inputs
        PROVE  Cardinality({n \in 1..Len(followUps) : followUps[n] = i})
                 = IF stage[i] = "queued" THEN 1 ELSE 0
    <3> DEFINE at == {n \in 1..Len(followUps) : followUps[n] = i}
    <3>1. CASE stage[i] = "queued"
      <4>1. PICK n \in 1..Len(followUps) : followUps[n] = i
        BY <1>1, <3>1 DEF HostInv, Queue
      <4>2. at = {n}
        BY <1>1, <4>1 DEF HostInv, Queue
      <4>3. Cardinality({n}) = 1
        BY FS_Singleton
      <4> QED  BY <3>1, <4>2, <4>3
    <3>2. CASE stage[i] # "queued"
      <4>1. at = {}
        BY <1>1, <3>2 DEF HostInv, Queue
      <4> QED  BY <3>2, <4>1, FS_EmptySet
    <3> QED  BY <3>1, <3>2
  <2> QED  BY <1>1, <2>1 DEF HostInv, Typed, TypeOK
<1> QED  BY <1>1, HostSafe, PTL

\* A turn under way holds the runtime mutex and its token is the one Stop would
\* cancel; the slot names no other turn but one dropped in the middle
\* (run_locked, and the timeout that drops it).
THEOREM TokenIsTurns == Spec => []TokenNamesTurn
<1>1. HostInv => TokenNamesTurn
  BY DEF HostInv, Holders, Holding, Showing, TokenNamesTurn
<1> QED  BY <1>1, HostSafe, PTL

\* Admitted work, a session command and a closed session exclude each other, and
\* one loop serves all admitted input (submit_from, reserve_command,
\* close_admission).
THEOREM Exclusion == Spec => []WorkExcludes
<1>1. ASSUME HostInv PROVE WorkExcludes
  <2> DEFINE inHand == {i \in Inputs : stage[i] \in InHand}
  <2>1. Cardinality(inHand) <= 1
    <3>1. CASE inHand = {}
      BY <3>1, FS_EmptySet
    <3>2. CASE inHand # {}
      <4>1. PICK i \in inHand : TRUE
        BY <3>2
      <4>2. inHand = {i}
        BY <1>1, <4>1 DEF HostInv, Loop
      <4>3. Cardinality({i}) = 1
        BY FS_Singleton
      <4> QED  BY <4>2, <4>3
    <3> QED  BY <3>1, <3>2
  <2>2. running <=> inHand # {}
    BY <1>1 DEF HostInv, Loop
  <2> QED  BY <1>1, <2>1, <2>2 DEF HostInv, Loop, WorkExcludes
<1> QED  BY <1>1, HostSafe, PTL

\* A Stop means stop, with any number of Stops at once: cancel_all never returns
\* while input it covers may run under a token that nobody has cancelled or is
\* about to cancel, unless an outside turn wiped that token.
THEOREM StopReaches == Spec => []StopMeansStop
<1>1. HostInv => StopMeansStop
  BY DEF HostInv, Typed, Reached, StopMeansStop, InHand, Ahead, Alive
<1> QED  BY <1>1, HostSafe, PTL

=============================================================================
