------------------------ MODULE SwarmRegistry_proofs ------------------------
(****************************************************************************)
(* The registry of swarms, for any number of swarms, sessions, concurrent   *)
(* spawns and salvagers, and any caps.                                      *)
(****************************************************************************)
EXTENDS SwarmRegistry, FiniteSetTheorems, WellFoundedInduction, TLAPS

\* The values of the variables.
Shapes == {"unassigned", "hierarchical", "pair"}
Roles == {"coordinator", "worker", "peer"}
MemberStatuses == {"active", "finished", "departed"}
CallStages == {"idle", "reserved", "built", "done"}
SalvageStages == {"idle", "mark", "reparent", "elect"}
Parents == Sessions \cup {None}
SwarmsOrNone == Swarms \cup {NoKey}
KeysOrNone == Keys \cup {NoKey}
MemberState ==
    [swarm : Swarms, role : Roles, status : MemberStatuses, parent : Parents]
CallState ==
    [stage : CallStages, swarm : SwarmsOrNone, key : KeysOrNone, parent : Parents,
     session : Parents]
SalvageState ==
    [stage : SalvageStages, swarm : SwarmsOrNone, who : Parents, was : BOOLEAN]

\* Calls that hold a slot.
Holding == {c \in Calls : call[c].stage \in {"reserved", "built"}}

\* The types; only finitely many members and slots are ever there.
Typed ==
    /\ topology \in [Swarms -> Shapes]
    /\ DOMAIN member \subseteq Sessions
    /\ \A s \in DOMAIN member : member[s] \in MemberState
    /\ seat \in [Swarms -> Parents]
    /\ admitted \in [Swarms -> Nat]
    /\ DOMAIN keys = Swarms
    /\ \A sw \in Swarms : \A k \in DOMAIN keys[sw] : k \in Keys /\ keys[sw][k] \in Sessions
    /\ call \in [Calls -> CallState]
    /\ salvage \in [Salvagers -> SalvageState]
    /\ IsFiniteSet(DOMAIN member) /\ IsFiniteSet(Holding)

\* A slot belongs to a hierarchical swarm; the session built for a call joins no
\* earlier than it is confirmed, if ever.
CallTold(c) ==
    /\ call[c].stage \in {"reserved", "built"} =>
          call[c].swarm \in Swarms /\ topology[call[c].swarm] = "hierarchical"
    /\ call[c].stage = "built" <=> call[c].session # None
    /\ call[c].session # None => call[c].session \notin DOMAIN member

\* No session is built twice.
SessionsApart ==
    \A c, d \in Calls :
        call[c].session = call[d].session /\ call[c].session # None => c = d

\* A salvage is of a member of the swarm it works on, and one that has been marked
\* does not become active again.
SalvageTold(v) ==
    /\ salvage[v].stage # "idle" =>
          salvage[v].swarm \in Swarms /\ salvage[v].who \in Members(salvage[v].swarm)
    /\ salvage[v].stage \in {"reparent", "elect"} =>
          member[salvage[v].who].status # "active"

\* The seat is held by a member, active or not.
SeatTold(sw) == seat[sw] # None => seat[sw] \in Members(sw)

\* Every member has been counted once when it was admitted.
Tallied == \A sw \in Swarms : admitted[sw] = Cardinality(Members(sw))

\* The inductive invariant.
RegInv ==
    /\ Typed
    /\ \A c \in Calls : CallTold(c)
    /\ SessionsApart
    /\ \A v \in Salvagers : SalvageTold(v)
    /\ (\A sw \in Swarms : SeatTold(sw)) /\ Tallied
    /\ WithinCaps /\ OneWorkerPerKey /\ ShapesNeverMix /\ OneLeader

----------------------------------------------------------------------------
\* What the constants' assumptions say of sessions, keys and caps.
LEMMA Names ==
  /\ \A s \in Sessions : s \in Nat /\ s # None
  /\ NoKey \notin Keys /\ MaxMembers \in Nat /\ MaxActive \in Nat
  BY RegistryConstants DEF None

\* Sets of one and of two elements.
LEMMA Counted ==
  ASSUME NEW S, IsFiniteSet(S), NEW x
  PROVE  /\ Cardinality(S) \in Nat
         /\ IsFiniteSet(S \cup {x}) /\ Cardinality(S \cup {x}) <= Cardinality(S) + 1
         /\ x \notin S => Cardinality(S \cup {x}) = Cardinality(S) + 1
         /\ x \in S => Cardinality(S \ {x}) = Cardinality(S) - 1 /\ IsFiniteSet(S \ {x})
         /\ \A T \in SUBSET S : IsFiniteSet(T) /\ Cardinality(T) <= Cardinality(S)
                                /\ Cardinality(T) \in Nat
<1>1. Cardinality(S) \in Nat
  BY FS_CardinalityType
<1>2. /\ IsFiniteSet(S \cup {x}) /\ Cardinality(S \cup {x}) <= Cardinality(S) + 1
      /\ x \notin S => Cardinality(S \cup {x}) = Cardinality(S) + 1
  BY <1>1, FS_AddElement
<1>3. x \in S => Cardinality(S \ {x}) = Cardinality(S) - 1 /\ IsFiniteSet(S \ {x})
  BY FS_RemoveElement
<1>4. \A T \in SUBSET S : /\ IsFiniteSet(T) /\ Cardinality(T) <= Cardinality(S)
                          /\ Cardinality(T) \in Nat
  BY FS_Subset, FS_CardinalityType
<1> QED  BY <1>1, <1>2, <1>3, <1>4

\* The members, the active ones and the slots of a swarm can be counted.
LEMMA Sizes ==
  ASSUME Typed, NEW sw \in Swarms
  PROVE  /\ IsFiniteSet(Members(sw)) /\ IsFiniteSet(Active(sw)) /\ IsFiniteSet(Reservations(sw))
         /\ Cardinality(Active(sw)) \in Nat /\ Cardinality(Reservations(sw)) \in Nat
<1>1. /\ Members(sw) \subseteq DOMAIN member /\ Active(sw) \subseteq DOMAIN member
      /\ Reservations(sw) \subseteq Holding
  BY DEF Members, Active, Reservations, Holding
<1> QED  BY <1>1, Counted DEF Typed

\* A non-empty set of naturals has a least element.
LEMMA LeastOfSet ==
  ASSUME NEW S \in SUBSET Nat, S # {}
  PROVE  \E s \in S : \A t \in S : s <= t
<1>1. IsWellFoundedOn(OpToRel(<, Nat), Nat)
  BY NatLessThanWellFounded
<1>2. PICK s \in S : \A t \in S : <<t, s>> \notin OpToRel(<, Nat)
  BY <1>1, WFMin
<1>3. \A t \in S : ~ (t < s)
  BY <1>2 DEF OpToRel
<1> QED  BY <1>3

\* The invariant holds at the start.
LEMMA RegInit == Init => RegInv
<1> SUFFICES ASSUME Init PROVE RegInv
  OBVIOUS
<1>0. /\ DOMAIN member = {} /\ \A sw \in Swarms : DOMAIN keys[sw] = {}
      /\ \A sw \in Swarms : Members(sw) = {} /\ Active(sw) = {}
  BY DEF Init, Members, Active
<1>1. \A c \in Calls : call[c] = NoCall /\ NoCall.stage = "idle" /\ NoCall.session = None
  BY DEF Init, NoCall
<1>2. Holding = {} /\ \A sw \in Swarms : Reservations(sw) = {}
  BY <1>1 DEF Holding, Reservations
<1>3. \A v \in Salvagers : salvage[v].stage = "idle"
  BY DEF Init, NoSalvage
<1>4. Typed
  <2>1. call \in [Calls -> CallState]
    BY DEF Init, NoCall, CallState, CallStages, SwarmsOrNone, KeysOrNone, Parents
  <2>2. NoSalvage \in SalvageState
    <3>1. FALSE \in BOOLEAN
      OBVIOUS
    <3> QED  BY <3>1 DEF NoSalvage, SalvageState, SalvageStages, SwarmsOrNone, Parents
  <2>3. salvage \in [Salvagers -> SalvageState]
    BY <2>2 DEF Init
  <2> QED
    BY <1>0, <1>2, <2>1, <2>3, FS_EmptySet DEF Init, Typed, Shapes, Parents
<1>5. WithinCaps
  <2>1. Cardinality({}) = 0
    BY FS_EmptySet
  <2>2. ASSUME NEW sw \in Swarms
        PROVE  admitted[sw] = 0 /\ Cardinality(Active(sw)) = 0 /\ Cardinality(Reservations(sw)) = 0
    BY <1>0, <1>2, <2>1 DEF Init
  <2>3. 0 + 0 <= MaxMembers /\ 0 + 0 <= MaxActive
    BY Names
  <2> QED  BY <2>2, <2>3 DEF WithinCaps
<1>6. ShapesNeverMix /\ OneLeader /\ OneWorkerPerKey /\ Tallied
  BY <1>0, <1>2, FS_EmptySet DEF Init, ShapesNeverMix, OneLeader, OneWorkerPerKey, Tallied
<1>7. (\A c \in Calls : CallTold(c)) /\ SessionsApart
  BY <1>1 DEF CallTold, SessionsApart
<1>8. (\A v \in Salvagers : SalvageTold(v)) /\ (\A sw \in Swarms : SeatTold(sw))
  BY <1>3 DEF Init, SalvageTold, SeatTold
<1> QED  BY <1>4, <1>5, <1>6, <1>7, <1>8 DEF RegInv

----------------------------------------------------------------------------
(* Steps that change what is said of the members, and no membership. *)

\* What such a step keeps.
LEMMA MembershipKept ==
  ASSUME RegInv, DOMAIN member' = DOMAIN member,
         \A s \in DOMAIN member :
            /\ member'[s] \in MemberState
            /\ member'[s].swarm = member[s].swarm
            /\ member'[s].status = "active" => member[s].status = "active",
         UNCHANGED <<topology, admitted, keys, call>>
  PROVE  /\ \A sw \in Swarms : /\ Members(sw)' = Members(sw)
                               /\ Active(sw)' \subseteq Active(sw)
                               /\ Reservations(sw)' = Reservations(sw)
         /\ (\A c \in Calls : CallTold(c)') /\ SessionsApart'
         /\ WithinCaps' /\ OneWorkerPerKey' /\ Tallied'
         /\ seat' \in [Swarms -> Parents] /\ salvage' \in [Salvagers -> SalvageState] => Typed'
<1>1. \A sw : /\ Members(sw)' = Members(sw) /\ Active(sw)' \subseteq Active(sw)
              /\ Reservations(sw)' = Reservations(sw)
  <2> SUFFICES ASSUME NEW sw
               PROVE  /\ Members(sw)' = Members(sw) /\ Active(sw)' \subseteq Active(sw)
                      /\ Reservations(sw)' = Reservations(sw)
    OBVIOUS
  <2>1. Members(sw)' = Members(sw)
    BY DEF Members
  <2>2. Active(sw)' \subseteq Active(sw)
    BY <2>1 DEF Active, Members
  <2>3. Reservations(sw)' = Reservations(sw)
    BY DEF Reservations
  <2> QED  BY <2>1, <2>2, <2>3
<1>2. (\A c \in Calls : CallTold(c)') /\ SessionsApart'
  BY <1>1 DEF RegInv, CallTold, SessionsApart
<1>3. WithinCaps'
  <2> SUFFICES ASSUME NEW sw \in Swarms
               PROVE  /\ admitted'[sw] + Cardinality(Reservations(sw)') <= MaxMembers
                      /\ Cardinality(Active(sw)') + Cardinality(Reservations(sw)') <= MaxActive
    BY DEF WithinCaps
  <2>1. /\ Cardinality(Active(sw)') <= Cardinality(Active(sw)) /\ Cardinality(Active(sw)') \in Nat
        /\ Cardinality(Active(sw)) \in Nat /\ Cardinality(Reservations(sw)) \in Nat
    BY <1>1, Sizes, Counted DEF RegInv
  <2> QED  BY <1>1, <2>1, Names DEF RegInv, WithinCaps
<1>4. OneWorkerPerKey' /\ Tallied'
  BY <1>1 DEF RegInv, OneWorkerPerKey, Tallied
<1>5. seat' \in [Swarms -> Parents] /\ salvage' \in [Salvagers -> SalvageState] => Typed'
  <2>1. IsFiniteSet(DOMAIN member)' /\ IsFiniteSet(Holding)'
    BY DEF RegInv, Typed, Holding
  <2>2. \A s \in DOMAIN member' : member'[s] \in MemberState
    OBVIOUS
  <2> QED  BY <2>1, <2>2 DEF RegInv, Typed
<1> QED  BY <1>1, <1>2, <1>3, <1>4, <1>5

\* A turn ends, or a salvage marks its member.
LEMMA StatusStep ==
  ASSUME RegInv, (\E s \in Sessions : RecordCompletion(s)) \/ (\E v \in Salvagers : SalvageMarks(v))
  PROVE  RegInv'
<1>0. Typed
  BY DEF RegInv
<1>1. PICK s \in DOMAIN member, status \in {"finished", "departed"} :
         /\ member' = [member EXCEPT ![s].status = status]
         /\ \/ salvage' = salvage
            \/ \E v \in Salvagers : /\ salvage[v].stage = "mark" /\ salvage[v].who = s
                                    /\ salvage' = [salvage EXCEPT ![v].stage = "reparent"]
  BY DEF RecordCompletion, SalvageMarks, RegInv, SalvageTold, Members
<1>2. UNCHANGED <<topology, seat, admitted, keys, call>>
  BY DEF RecordCompletion, SalvageMarks
<1>4. /\ DOMAIN member' = DOMAIN member /\ member'[s].status # "active"
      /\ \A t \in DOMAIN member :
            /\ member'[t] \in MemberState /\ member'[t].swarm = member[t].swarm
            /\ member'[t].role = member[t].role /\ member'[t].parent = member[t].parent
            /\ member'[t].status = "active" => member[t].status = "active"
  <2>1. ASSUME NEW t \in DOMAIN member, t # s PROVE member'[t] = member[t]
    BY <1>1, <2>1
  <2>2. member[s] \in MemberState /\ status \in MemberStatuses
    BY <1>0, <1>1 DEF Typed, MemberStatuses
  <2>3. /\ member'[s] \in MemberState /\ member'[s].swarm = member[s].swarm
        /\ member'[s].role = member[s].role /\ member'[s].parent = member[s].parent
        /\ member'[s].status # "active"
    BY <1>1, <2>2 DEF MemberState
  <2> QED  BY <1>0, <1>1, <2>1, <2>3 DEF Typed
<1>5. /\ salvage' \in [Salvagers -> SalvageState]
      /\ \A v \in Salvagers : /\ salvage'[v].swarm = salvage[v].swarm
                              /\ salvage'[v].who = salvage[v].who
                              /\ salvage'[v].stage # "idle" => salvage[v].stage # "idle"
                              /\ salvage'[v].stage \in {"reparent", "elect"} =>
                                    \/ salvage[v].stage \in {"reparent", "elect"}
                                    \/ salvage[v].who = s
  <2>1. ASSUME NEW v \in Salvagers, salvage[v].stage = "mark", salvage[v].who = s,
               salvage' = [salvage EXCEPT ![v].stage = "reparent"]
        PROVE  <1>5!1 /\ <1>5!2
    <3>1. salvage[v] \in SalvageState /\ [salvage[v] EXCEPT !.stage = "reparent"] \in SalvageState
      BY <1>0 DEF Typed, SalvageState, SalvageStages
    <3> QED  BY <1>0, <2>1, <3>1 DEF Typed, SalvageState
  <2>2. CASE salvage' = salvage
    BY <1>0, <2>2 DEF Typed
  <2> QED  BY <1>1, <2>1, <2>2
<1>6. \A sw \in Swarms : /\ Members(sw)' = Members(sw) /\ Active(sw)' \subseteq Active(sw)
                         /\ Reservations(sw)' = Reservations(sw)
  BY <1>2, <1>4, MembershipKept
<1>7. /\ (\A c \in Calls : CallTold(c)') /\ SessionsApart' /\ WithinCaps' /\ OneWorkerPerKey'
      /\ Typed' /\ Tallied'
  BY <1>0, <1>2, <1>4, <1>5, MembershipKept DEF Typed
<1>8. (\A v \in Salvagers : SalvageTold(v)') /\ (\A sw \in Swarms : SeatTold(sw)')
  <2>1. ASSUME NEW v \in Salvagers PROVE SalvageTold(v)'
    <3>1. SalvageTold(v)
      BY DEF RegInv
    <3>2. salvage[v].stage # "idle" => salvage[v].who \in DOMAIN member
      BY <3>1 DEF SalvageTold, Members
    <3> QED  BY <1>4, <1>5, <1>6, <3>1, <3>2 DEF SalvageTold
  <2> QED  BY <1>2, <1>6, <2>1 DEF RegInv, SeatTold
<1>9. ShapesNeverMix'
  <2>1. \A sw \in Swarms : \A t \in Members(sw) : member'[t].role = member[t].role
    BY <1>4 DEF Members
  <2> QED  BY <1>2, <1>6, <2>1 DEF RegInv, ShapesNeverMix
<1>10. OneLeader'
  <2>1. \A sw \in Swarms : \A t \in Active(sw) : member'[t].role = member[t].role
    BY <1>4 DEF Active, Members
  <2> QED  BY <1>2, <1>6, <2>1 DEF RegInv, OneLeader
<1> QED  BY <1>7, <1>8, <1>9, <1>10 DEF RegInv

\* The heir of a departed member's children is another member of its swarm.
LEMMA Heir ==
  ASSUME RegInv, NEW sw \in Swarms, NEW who \in Members(sw)
  PROVE  NewParent(sw, who) \in (Members(sw) \ {who}) \cup {None}
  BY DEF RegInv, SeatTold, NewParent, Active, Members

\* A salvage hands the children on.
LEMMA ReparentStep ==
  ASSUME RegInv, NEW v \in Salvagers, SalvageReparents(v)
  PROVE  RegInv'
<1> DEFINE sw == salvage[v].swarm
           who == salvage[v].who
           heir == NewParent(sw, who)
<1>0. /\ Typed /\ sw \in Swarms /\ who \in Members(sw) /\ who \in DOMAIN member
      /\ member[who] \in MemberState
  BY DEF RegInv, SalvageReparents, SalvageTold, Members, Typed
<1>1. heir # None => heir \in Members(sw)
  BY <1>0, Heir
<1>2. heir \in Parents
  BY <1>0, <1>1 DEF Typed, Members, Parents
<1>3. /\ DOMAIN member' = DOMAIN member
      /\ UNCHANGED <<topology, seat, admitted, keys, call>>
  BY DEF SalvageReparents
<1>4. ASSUME NEW s \in DOMAIN member
      PROVE  /\ member'[s] \in MemberState
             /\ member'[s].swarm = member[s].swarm /\ member'[s].role = member[s].role
             /\ member'[s].status = member[s].status
  <2>1. member[s] \in MemberState
    BY <1>0 DEF Typed
  <2>2. CASE member[s].swarm = sw /\ member[s].parent = who
    <3>1. member'[s] = [member[s] EXCEPT !.parent = IF heir = s THEN None ELSE heir]
      BY <2>2 DEF SalvageReparents
    <3>2. (IF heir = s THEN None ELSE heir) \in Parents
      BY <1>2 DEF Parents
    <3> HIDE DEF heir, sw, who
    <3> QED  BY <2>1, <2>2, <3>1, <3>2 DEF MemberState
  <2>3. CASE ~ (member[s].swarm = sw /\ member[s].parent = who)
    <3>1. member'[s] = member[s]
      BY <2>3 DEF SalvageReparents
    <3> QED  BY <2>1, <3>1
  <2> QED  BY <2>2, <2>3
<1>5. /\ salvage' \in [Salvagers -> SalvageState]
      /\ \A u \in Salvagers :
            salvage'[u].stage # "idle" =>
               /\ salvage[u].stage # "idle" /\ salvage'[u].swarm = salvage[u].swarm
               /\ salvage'[u].who = salvage[u].who
               /\ salvage'[u].stage \in {"reparent", "elect"} =>
                     salvage[u].stage \in {"reparent", "elect"}
  <2>1. salvage \in [Salvagers -> SalvageState] /\ salvage[v] \in SalvageState
    BY <1>0 DEF Typed
  <2>2. salvage' = [salvage EXCEPT ![v] = [@ EXCEPT !.stage = "elect"]] \/ salvage' = [salvage EXCEPT ![v] = NoSalvage]
    BY DEF SalvageReparents
  <2>3. [salvage[v] EXCEPT !.stage = "elect"] \in SalvageState
    BY <2>1 DEF SalvageState, SalvageStages
  <2>4. NoSalvage \in SalvageState /\ NoSalvage.stage = "idle"
    <3>1. FALSE \in BOOLEAN
      OBVIOUS
    <3> QED  BY <3>1 DEF NoSalvage, SalvageState, SalvageStages, SwarmsOrNone, Parents
  <2>5. salvage[v].stage = "reparent"
    BY DEF SalvageReparents
  <2>6. CASE salvage' = [salvage EXCEPT ![v] = [@ EXCEPT !.stage = "elect"]]
    BY <2>1, <2>3, <2>5, <2>6 DEF SalvageState
  <2>7. CASE salvage' = [salvage EXCEPT ![v] = NoSalvage]
    BY <2>1, <2>4, <2>7
  <2> QED  BY <2>2, <2>6, <2>7
<1> HIDE DEF heir, sw, who
<1>6. \A t \in Swarms : Members(t)' = Members(t) /\ Active(t)' \subseteq Active(t) /\ Reservations(t)' = Reservations(t)
  BY <1>3, <1>4, MembershipKept
<1>7. /\ (\A c \in Calls : CallTold(c)') /\ SessionsApart' /\ WithinCaps' /\ OneWorkerPerKey'
      /\ Typed' /\ Tallied'
  BY <1>0, <1>3, <1>4, <1>5, MembershipKept DEF Typed
<1>8. (\A u \in Salvagers : SalvageTold(u)') /\ (\A t \in Swarms : SeatTold(t)')
  <2>1. ASSUME NEW u \in Salvagers PROVE SalvageTold(u)'
    <3>1. SalvageTold(u)
      BY DEF RegInv
    <3>2. salvage[u].stage # "idle" => salvage[u].who \in DOMAIN member
      BY <3>1 DEF SalvageTold, Members
    <3> QED  BY <1>4, <1>5, <1>6, <3>1, <3>2 DEF SalvageTold
  <2> QED  BY <1>3, <1>6, <2>1 DEF RegInv, SeatTold
<1>9. ShapesNeverMix'
  <2>1. \A t \in Swarms : \A s \in Members(t) : member'[s].role = member[s].role
    BY <1>4 DEF Members
  <2> QED  BY <1>3, <1>6, <2>1 DEF RegInv, ShapesNeverMix
<1>10. OneLeader'
  <2>1. \A t \in Swarms : \A s \in Active(t) : member'[s].role = member[s].role
    BY <1>4 DEF Active, Members
  <2> QED  BY <1>3, <1>6, <2>1 DEF RegInv, OneLeader
<1> QED  BY <1>7, <1>8, <1>9, <1>10 DEF RegInv

\* A salvage ends with an election: no other active member coordinates, since
\* whoever held the seat is not active.
LEMMA ElectStep ==
  ASSUME RegInv, NEW v \in Salvagers, SalvageElects(v)
  PROVE  RegInv'
<1> DEFINE sw == salvage[v].swarm
           successor == CHOOSE s \in Active(sw) : \A t \in Active(sw) : s <= t
<1>0. Typed /\ sw \in Swarms
  BY DEF RegInv, SalvageElects, SalvageTold
<1>1. /\ UNCHANGED <<topology, admitted, keys, call>>
      /\ salvage' = [salvage EXCEPT ![v] = NoSalvage]
  BY DEF SalvageElects
<1>2. /\ salvage' \in [Salvagers -> SalvageState]
      /\ \A u \in Salvagers : salvage'[u].stage # "idle" => salvage'[u] = salvage[u]
  <2>1. NoSalvage \in SalvageState /\ NoSalvage.stage = "idle"
    <3>1. FALSE \in BOOLEAN
      OBVIOUS
    <3> QED  BY <3>1 DEF NoSalvage, SalvageState, SalvageStages, SwarmsOrNone, Parents
  <2> QED  BY <1>0, <1>1, <2>1 DEF Typed
<1>3. CASE UNCHANGED <<seat, member>>
  <2>1. DOMAIN member' = DOMAIN member /\ \A s \in DOMAIN member : member'[s] = member[s] /\ member[s] \in MemberState
    BY <1>0, <1>3 DEF Typed
  <2>2. \A t : Members(t)' = Members(t) /\ Active(t)' = Active(t) /\ Reservations(t)' = Reservations(t)
    BY <1>1, <1>3 DEF Members, Active, Reservations
  <2>3. /\ (\A c \in Calls : CallTold(c)') /\ SessionsApart' /\ WithinCaps' /\ OneWorkerPerKey'
        /\ Typed' /\ Tallied'
    BY <1>0, <1>1, <1>2, <1>3, <2>1, MembershipKept DEF Typed
  <2>4. (\A u \in Salvagers : SalvageTold(u)') /\ (\A t \in Swarms : SeatTold(t)')
    BY <1>2, <1>3, <2>2 DEF RegInv, SalvageTold, SeatTold
  <2>5. ShapesNeverMix' /\ OneLeader'
    BY <1>1, <1>3, <2>2 DEF RegInv, ShapesNeverMix, OneLeader
  <2> QED  BY <2>3, <2>4, <2>5 DEF RegInv
<1>4. CASE /\ seat[sw] \notin Active(sw) /\ Active(sw) # {} /\ topology[sw] # "pair"
           /\ seat' = [seat EXCEPT ![sw] = successor]
           /\ member' = [member EXCEPT ![successor].role = "coordinator"]
  <2>1. successor \in Active(sw)
    <3>1. /\ Active(sw) \subseteq Nat
          /\ \E s \in Active(sw) : \A t \in Active(sw) : s <= t
      <4>1. Active(sw) \subseteq Nat
        BY <1>0, Names DEF Active, Members, Typed
      <4>2. \E s \in Active(sw) : \A t \in Active(sw) : s <= t
        BY <1>4, <4>1, LeastOfSet
      <4> QED  BY <4>1, <4>2
    <3> QED  BY <3>1
  <2> HIDE DEF successor
  <2>2. successor \in DOMAIN member /\ member[successor] \in MemberState /\ successor \in Parents
        /\ member[successor].swarm = sw
    BY <1>0, <2>1 DEF Active, Members, Typed, Parents
  <2>3. /\ DOMAIN member' = DOMAIN member
        /\ \A s \in DOMAIN member : s # successor => member'[s] = member[s]
        /\ member'[successor] = [member[successor] EXCEPT !.role = "coordinator"]
    BY <1>4, <2>2
  <2>4. /\ member'[successor] \in MemberState /\ member'[successor].role = "coordinator"
        /\ member'[successor].swarm = member[successor].swarm
        /\ member'[successor].status = member[successor].status
        /\ member'[successor].parent = member[successor].parent
    BY <2>2, <2>3 DEF MemberState, Roles
  <2>5. \A s \in DOMAIN member : /\ member'[s] \in MemberState /\ member'[s].swarm = member[s].swarm
                                 /\ member'[s].status = member[s].status
                                 /\ member'[s].parent = member[s].parent
    BY <1>0, <2>3, <2>4 DEF Typed
  <2>6. /\ seat' \in [Swarms -> Parents] /\ seat'[sw] = successor
        /\ \A t \in Swarms \ {sw} : seat'[t] = seat[t]
    BY <1>0, <1>4, <2>2 DEF Typed
  <2>7. \A t \in Swarms : Members(t)' = Members(t) /\ Active(t)' \subseteq Active(t) /\ Reservations(t)' = Reservations(t)
    BY <1>1, <2>3, <2>5, MembershipKept
  <2>8. /\ (\A c \in Calls : CallTold(c)') /\ SessionsApart' /\ WithinCaps' /\ OneWorkerPerKey'
        /\ Typed' /\ Tallied'
    BY <1>1, <1>2, <2>3, <2>5, <2>6, MembershipKept
  <2>9. (\A u \in Salvagers : SalvageTold(u)') /\ (\A t \in Swarms : SeatTold(t)')
    <3>1. ASSUME NEW u \in Salvagers PROVE SalvageTold(u)'
      <4>1. SalvageTold(u) /\ (salvage[u].stage # "idle" => salvage[u].who \in DOMAIN member)
        BY DEF RegInv, SalvageTold, Members
      <4> QED  BY <1>2, <2>5, <2>7, <4>1 DEF SalvageTold
    <3> QED  BY <2>1, <2>6, <2>7, <3>1 DEF RegInv, SeatTold, Active
  <2>10. ShapesNeverMix'
    <3> SUFFICES ASSUME NEW t \in Swarms
                 PROVE  /\ topology[t] = "pair" =>
                              /\ Cardinality(Members(t)) = 2 /\ seat'[t] = None
                              /\ Reservations(t) = {} /\ DOMAIN keys[t] = {}
                        /\ topology[t] = "unassigned" => Members(t) = {} /\ Reservations(t) = {}
                        /\ \A s \in Members(t) : member'[s].role = "peer" <=> topology[t] = "pair"
      BY <1>1, <2>7 DEF ShapesNeverMix
    <3>1. \A s \in Members(t) : member'[s].role = "peer" <=> topology[t] = "pair"
      <4>1. \A s \in Members(t) : member[s].role = "peer" <=> topology[t] = "pair"
        BY DEF RegInv, ShapesNeverMix
      <4>2. ASSUME NEW s \in Members(t), s # successor PROVE member'[s].role = member[s].role
        BY <2>3, <4>2 DEF Members
      <4>3. successor \in Members(t) => topology[t] # "pair" /\ member'[successor].role # "peer"
        BY <1>4, <2>2, <2>4 DEF Members
      <4> QED  BY <4>1, <4>2, <4>3
    <3> QED  BY <1>4, <2>6, <3>1 DEF RegInv, ShapesNeverMix
  <2>11. OneLeader'
    <3> SUFFICES ASSUME NEW t \in Swarms, NEW s \in Active(t), member'[s].role = "coordinator"
                 PROVE  seat'[t] = s
      BY <2>7 DEF OneLeader
    <3>1. CASE s = successor
      BY <2>2, <2>6, <3>1 DEF Active, Members
    <3>2. CASE s # successor
      <4>1. member[s].role = "coordinator" /\ seat[t] = s
        BY <2>3, <3>2 DEF RegInv, OneLeader, Active, Members
      <4> QED  BY <1>4, <2>6, <4>1
    <3> QED  BY <3>1, <3>2
  <2> QED  BY <2>8, <2>9, <2>10, <2>11 DEF RegInv
<1> QED  BY <1>3, <1>4 DEF SalvageElects

\* A salvage looks at its member.
LEMMA BeginStep ==
  ASSUME RegInv, NEW v \in Salvagers, NEW s \in Sessions, SalvageBegins(v, s)
  PROVE  RegInv'
<1>0. /\ Typed /\ s \in DOMAIN member /\ member[s] \in MemberState
      /\ UNCHANGED <<topology, member, seat, admitted, keys, call>>
  BY DEF RegInv, Typed, SalvageBegins
<1>1. /\ member[s].swarm \in Swarms /\ s \in Members(member[s].swarm)
  BY <1>0 DEF MemberState, Members
<1>2. /\ salvage' \in [Salvagers -> SalvageState]
      /\ salvage'[v].swarm = member[s].swarm /\ salvage'[v].who = s
      /\ salvage'[v].stage = "mark"
      /\ \A u \in Salvagers \ {v} : salvage'[u] = salvage[u]
  <2>1. PICK b \in BOOLEAN : b = (seat[member[s].swarm] = s)
    BY Zenon
  <2>2. [stage |-> "mark", swarm |-> member[s].swarm, who |-> s, was |-> b] \in SalvageState
    BY <1>1 DEF SalvageState, SalvageStages, SwarmsOrNone, Parents
  <2>3. salvage' = [salvage EXCEPT ![v] = [stage |-> "mark", swarm |-> member[s].swarm,
                                          who |-> s, was |-> b]]
    BY <2>1 DEF SalvageBegins
  <2> QED  BY <1>0, <2>2, <2>3 DEF Typed
<1>3. \A t : Members(t)' = Members(t) /\ Active(t)' = Active(t) /\ Reservations(t)' = Reservations(t)
  BY <1>0 DEF Members, Active, Reservations
<1>4. /\ (\A c \in Calls : CallTold(c)') /\ SessionsApart' /\ WithinCaps' /\ OneWorkerPerKey'
      /\ Typed' /\ Tallied'
  BY <1>0, <1>2, MembershipKept DEF Typed
<1>5. (\A u \in Salvagers : SalvageTold(u)') /\ (\A t \in Swarms : SeatTold(t)')
  BY <1>0, <1>1, <1>2, <1>3 DEF RegInv, SalvageTold, SeatTold
<1>6. ShapesNeverMix' /\ OneLeader'
  BY <1>0, <1>3 DEF RegInv, ShapesNeverMix, OneLeader
<1> QED  BY <1>4, <1>5, <1>6 DEF RegInv

----------------------------------------------------------------------------
(* Steps of a spawn call, and a swarm that takes its shape. *)

\* What a step keeps that changes neither members nor keys and seats.
LEMMA SpawningKept ==
  ASSUME RegInv, UNCHANGED <<member, seat, admitted, keys, salvage>>
  PROVE  /\ \A sw : Members(sw)' = Members(sw) /\ Active(sw)' = Active(sw)
         /\ (\A v \in Salvagers : SalvageTold(v)') /\ (\A sw \in Swarms : SeatTold(sw)')
         /\ OneLeader' /\ Tallied'
         /\ topology' \in [Swarms -> Shapes] /\ call' \in [Calls -> CallState]
            /\ IsFiniteSet(Holding)' => Typed'
<1>1. \A sw : Members(sw)' = Members(sw) /\ Active(sw)' = Active(sw)
  BY DEF Members, Active
<1>2. (\A v \in Salvagers : SalvageTold(v)') /\ (\A sw \in Swarms : SeatTold(sw)')
  BY <1>1 DEF RegInv, SalvageTold, SeatTold
<1>3. OneLeader' /\ Tallied'
  BY <1>1 DEF RegInv, OneLeader, Tallied
<1>4. topology' \in [Swarms -> Shapes] /\ call' \in [Calls -> CallState]
         /\ IsFiniteSet(Holding)' => Typed'
  BY DEF RegInv, Typed
<1> QED  BY <1>1, <1>2, <1>3, <1>4

\* A slot is reserved: it is counted from here on.
LEMMA ReserveStep ==
  ASSUME RegInv, NEW c \in Calls, NEW sw \in Swarms, NEW parent \in Sessions,
         NEW key \in Keys \cup {NoKey}, Reserve(c, sw, parent, key)
  PROVE  RegInv'
<1> DEFINE new == [stage |-> "reserved", swarm |-> sw, key |-> key, parent |-> parent,
                   session |-> None]
<1>0. Typed /\ call[c].stage = "idle" /\ CallTold(c)
  BY DEF RegInv, Reserve
<1>1. /\ topology[sw] # "pair"
      /\ topology' \in [Swarms -> Shapes] /\ topology'[sw] = "hierarchical"
      /\ \A t \in Swarms \ {sw} : topology'[t] = topology[t]
  BY <1>0 DEF Reserve, Typed, Shapes
<1>2. /\ call' = [call EXCEPT ![c] = new] /\ MayAdmit(sw, 1) /\ ~KeyTaken(sw, key)
      /\ UNCHANGED <<member, seat, admitted, keys, salvage>>
  BY DEF Reserve
<1>3. new \in CallState
  BY <1>0 DEF CallState, CallStages, SwarmsOrNone, KeysOrNone, Parents
<1> HIDE DEF new
<1>4. /\ call' \in [Calls -> CallState] /\ call'[c] = new
      /\ \A d \in Calls \ {c} : call'[d] = call[d]
  BY <1>0, <1>2, <1>3 DEF Typed
<1>5. /\ new.stage = "reserved" /\ new.swarm = sw /\ new.key = key /\ new.parent = parent
      /\ new.session = None
  BY DEF new
<1>6. /\ Holding' = Holding \cup {c} /\ Reservations(sw)' = Reservations(sw) \cup {c}
      /\ \A t \in Swarms \ {sw} : Reservations(t)' = Reservations(t)
      /\ c \notin Reservations(sw)
  <2>1. Holding' = Holding \cup {c}
    BY <1>4, <1>5 DEF Holding
  <2>2. Reservations(sw)' = Reservations(sw) \cup {c} /\ c \notin Reservations(sw)
    BY <1>0, <1>4, <1>5 DEF Reservations
  <2>3. ASSUME NEW t \in Swarms, t # sw PROVE Reservations(t)' = Reservations(t)
    BY <1>0, <1>4, <1>5, <2>3 DEF Reservations
  <2> QED  BY <2>1, <2>2, <2>3
<1>7. /\ (\A t : Members(t)' = Members(t) /\ Active(t)' = Active(t))
      /\ (\A v \in Salvagers : SalvageTold(v)') /\ (\A t \in Swarms : SeatTold(t)')
      /\ OneLeader' /\ Tallied'
  BY <1>2, SpawningKept
<1>8. Typed'
  BY <1>0, <1>1, <1>2, <1>4, <1>6, SpawningKept, Counted DEF Typed
<1>9. WithinCaps'
  <2> SUFFICES ASSUME NEW t \in Swarms
               PROVE  /\ admitted[t] + Cardinality(Reservations(t)') <= MaxMembers
                      /\ Cardinality(Active(t)) + Cardinality(Reservations(t)') <= MaxActive
    BY <1>2, <1>7 DEF WithinCaps
  <2>1. CASE t # sw
    BY <1>6, <2>1 DEF RegInv, WithinCaps
  <2>2. CASE t = sw
    <3>1. /\ IsFiniteSet(Reservations(sw)) /\ Cardinality(Reservations(sw)) \in Nat
          /\ Cardinality(Active(sw)) \in Nat /\ admitted[sw] \in Nat
      BY <1>0, Sizes DEF Typed
    <3>2. Cardinality(Reservations(sw)') <= Cardinality(Reservations(sw)) + 1
      BY <1>6, <3>1, Counted
    <3>3. Cardinality(Reservations(sw)') \in Nat
      BY <1>6, <3>1, Counted, FS_CardinalityType
    <3>4. /\ admitted[sw] + Cardinality(Reservations(sw)) + 1 <= MaxMembers
          /\ Cardinality(Active(sw)) + Cardinality(Reservations(sw)) + 1 <= MaxActive
      BY <1>2 DEF MayAdmit
    <3> QED  BY <2>2, <3>1, <3>2, <3>3, <3>4, Names
  <2> QED  BY <2>1, <2>2
<1>10. OneWorkerPerKey'
  <2>1. ASSUME NEW t \in Swarms, NEW d \in Reservations(t)', NEW e \in Reservations(t)',
               call'[d].key # NoKey, call'[d].key = call'[e].key
        PROVE  d = e
    <3>1. \A f \in Reservations(t)' : f # c => f \in Reservations(t) /\ call'[f] = call[f]
      BY <1>4, <1>6, <2>1 DEF Reservations
    <3>2. c \in Reservations(t)' => t = sw
      BY <1>4, <1>5 DEF Reservations
    <3>3. key # NoKey => \A f \in Reservations(sw) : call[f].key # key
      BY <1>2 DEF KeyTaken
    <3> QED  BY <1>4, <1>5, <2>1, <3>1, <3>2, <3>3 DEF RegInv, OneWorkerPerKey
  <2>2. ASSUME NEW t \in Swarms, NEW d \in Reservations(t)'
        PROVE  call'[d].key \notin DOMAIN keys[t]
    <3>1. CASE d # c
      BY <1>4, <1>6, <2>2, <3>1 DEF RegInv, OneWorkerPerKey, Reservations
    <3>2. CASE d = c
      <4>1. t = sw
        BY <1>4, <1>5, <2>2, <3>2 DEF Reservations
      <4>2. key \notin DOMAIN keys[sw]
        BY <1>0, <1>2, Names DEF KeyTaken, Typed
      <4> QED  BY <1>4, <1>5, <3>2, <4>1, <4>2
    <3> QED  BY <3>1, <3>2
  <2> QED  BY <1>2, <1>7, <2>1, <2>2 DEF RegInv, OneWorkerPerKey
<1>11. ShapesNeverMix'
  <2> SUFFICES ASSUME NEW t \in Swarms
               PROVE  /\ topology'[t] = "pair" =>
                            /\ Cardinality(Members(t)) = 2 /\ seat[t] = None
                            /\ Reservations(t)' = {} /\ DOMAIN keys[t] = {}
                      /\ topology'[t] = "unassigned" => Members(t) = {} /\ Reservations(t)' = {}
                      /\ \A u \in Members(t) : member[u].role = "peer" <=> topology'[t] = "pair"
    BY <1>2, <1>7 DEF ShapesNeverMix
  <2>1. CASE t # sw
    BY <1>1, <1>6, <2>1 DEF RegInv, ShapesNeverMix
  <2>2. CASE t = sw
    <3>1. \A u \in Members(sw) : member[u].role # "peer"
      BY <1>1 DEF RegInv, ShapesNeverMix
    <3> QED  BY <1>1, <2>2, <3>1
  <2> QED  BY <2>1, <2>2
<1>12. (\A d \in Calls : CallTold(d)') /\ SessionsApart'
  <2>1. CallTold(c)'
    BY <1>0, <1>1, <1>4, <1>5, <1>7 DEF CallTold
  <2>2. ASSUME NEW d \in Calls, d # c PROVE CallTold(d)'
    BY <1>1, <1>2, <1>4, <1>7, <2>2 DEF RegInv, CallTold
  <2>3. SessionsApart'
    BY <1>4, <1>5 DEF RegInv, SessionsApart
  <2> QED  BY <2>1, <2>2, <2>3
<1> QED  BY <1>7, <1>8, <1>9, <1>10, <1>11, <1>12 DEF RegInv

\* A session is built for a slot.
LEMMA BuildStep ==
  ASSUME RegInv, NEW c \in Calls, NEW s \in Sessions, Build(c, s)
  PROVE  RegInv'
<1>0. /\ Typed /\ call \in [Calls -> CallState] /\ call[c] \in CallState
      /\ call[c].stage = "reserved" /\ CallTold(c)
      /\ UNCHANGED <<topology, member, seat, admitted, keys, salvage>>
  BY DEF RegInv, Typed, Build
<1>1. /\ s \notin DOMAIN member /\ s # None /\ \A d \in Calls : call[d].session # s
  BY Names DEF Build, Unseen, Unjoined, Known
<1>2. /\ call' \in [Calls -> CallState]
      /\ call'[c].stage = "built" /\ call'[c].session = s /\ call'[c].swarm = call[c].swarm
      /\ call'[c].key = call[c].key /\ call'[c].parent = call[c].parent
      /\ \A d \in Calls \ {c} : call'[d] = call[d]
  <2>1. call' = [call EXCEPT ![c] = [call[c] EXCEPT !.stage = "built", !.session = s]]
    BY <1>0 DEF Build
  <2>2. [call[c] EXCEPT !.stage = "built", !.session = s] \in CallState
    BY <1>0 DEF CallState, CallStages, Parents
  <2> QED  BY <1>0, <2>1, <2>2 DEF CallState
<1>3. Holding' = Holding /\ \A t : Reservations(t)' = Reservations(t)
  <2>1. \A d \in Calls : /\ call'[d].stage \in {"reserved", "built"} <=> call[d].stage \in {"reserved", "built"}
                         /\ call'[d].swarm = call[d].swarm
    BY <1>0, <1>2
  <2> QED  BY <2>1 DEF Holding, Reservations
<1>4. /\ (\A t : Members(t)' = Members(t) /\ Active(t)' = Active(t))
      /\ (\A v \in Salvagers : SalvageTold(v)') /\ (\A t \in Swarms : SeatTold(t)')
      /\ OneLeader' /\ Tallied'
  BY <1>0, SpawningKept
<1>5. Typed'
  BY <1>0, <1>2, <1>3, SpawningKept DEF Typed
<1>6. WithinCaps' /\ ShapesNeverMix'
  BY <1>0, <1>3, <1>4 DEF RegInv, WithinCaps, ShapesNeverMix
<1>7. OneWorkerPerKey'
  <2>1. \A t \in Swarms : \A d \in Reservations(t) : call'[d].key = call[d].key
    BY <1>2 DEF Reservations
  <2> QED  BY <1>0, <1>3, <1>4, <2>1 DEF RegInv, OneWorkerPerKey
<1>8. CallTold(c)'
  BY <1>0, <1>1, <1>2, <1>4 DEF CallTold
<1>9. ASSUME NEW d \in Calls, d # c PROVE CallTold(d)'
  BY <1>0, <1>2, <1>4, <1>9 DEF RegInv, CallTold
<1>10. SessionsApart'
  BY <1>1, <1>2 DEF RegInv, SessionsApart
<1> QED  BY <1>4, <1>5, <1>6, <1>7, <1>8, <1>9, <1>10 DEF RegInv

\* A call that ends is in this state.
LEMMA Over ==
  LET over == [NoCall EXCEPT !.stage = "done"]
  IN  over \in CallState /\ over.stage = "done" /\ over.session = None
  BY DEF NoCall, CallState, CallStages, SwarmsOrNone, KeysOrNone, Parents

\* A slot is given back.
LEMMA ReleaseStep ==
  ASSUME RegInv, NEW c \in Calls, Release(c)
  PROVE  RegInv'
<1>0. /\ Typed /\ call \in [Calls -> CallState] /\ call[c] \in CallState /\ c \in Holding
      /\ CallTold(c)
      /\ UNCHANGED <<topology, member, seat, admitted, keys, salvage>>
  BY DEF RegInv, Typed, Release, Holding, CallState
<1>1. /\ call' \in [Calls -> CallState]
      /\ call'[c].stage = "done" /\ call'[c].session = None
      /\ \A d \in Calls \ {c} : call'[d] = call[d]
  <2>1. call' = [call EXCEPT ![c] = [NoCall EXCEPT !.stage = "done"]]
    BY DEF Release
  <2> QED  BY <1>0, <2>1, Over
<1>2. Holding' \subseteq Holding /\ \A t : Reservations(t)' \subseteq Reservations(t)
  BY <1>1 DEF Holding, Reservations
<1>3. \A t \in Swarms : \A d \in Reservations(t)' : call'[d] = call[d]
  BY <1>1 DEF Reservations
<1>4. /\ (\A t : Members(t)' = Members(t) /\ Active(t)' = Active(t))
      /\ (\A v \in Salvagers : SalvageTold(v)') /\ (\A t \in Swarms : SeatTold(t)')
      /\ OneLeader' /\ Tallied'
  BY <1>0, SpawningKept
<1>5. Typed'
  BY <1>0, <1>1, <1>2, SpawningKept, Counted DEF Typed
<1>6. WithinCaps'
  <2> SUFFICES ASSUME NEW t \in Swarms
               PROVE  /\ admitted[t] + Cardinality(Reservations(t)') <= MaxMembers
                      /\ Cardinality(Active(t)) + Cardinality(Reservations(t)') <= MaxActive
    BY <1>0, <1>4 DEF WithinCaps
  <2>1. /\ Cardinality(Reservations(t)') <= Cardinality(Reservations(t))
        /\ Cardinality(Reservations(t)') \in Nat /\ Cardinality(Reservations(t)) \in Nat
        /\ Cardinality(Active(t)) \in Nat /\ admitted[t] \in Nat
    BY <1>0, <1>2, Sizes, Counted DEF Typed
  <2>2. /\ admitted[t] + Cardinality(Reservations(t)) <= MaxMembers
        /\ Cardinality(Active(t)) + Cardinality(Reservations(t)) <= MaxActive
    BY DEF RegInv, WithinCaps
  <2> QED  BY <2>1, <2>2, Names
<1>7. OneWorkerPerKey' /\ ShapesNeverMix'
  BY <1>0, <1>2, <1>3, <1>4 DEF RegInv, OneWorkerPerKey, ShapesNeverMix
<1>8. CallTold(c)'
  BY <1>0, <1>1, <1>4 DEF CallTold
<1>9. ASSUME NEW d \in Calls, d # c PROVE CallTold(d)'
  BY <1>0, <1>1, <1>4, <1>9 DEF RegInv, CallTold
<1>10. SessionsApart'
  BY <1>1 DEF RegInv, SessionsApart
<1> QED  BY <1>4, <1>5, <1>6, <1>7, <1>8, <1>9, <1>10 DEF RegInv

\* A plan gives an empty swarm the hierarchical shape.
LEMMA SetPlanStep ==
  ASSUME RegInv, NEW sw \in Swarms, SetPlan(sw)
  PROVE  RegInv'
<1>0. /\ Typed /\ topology \in [Swarms -> Shapes] /\ topology[sw] = "unassigned"
      /\ UNCHANGED <<member, seat, admitted, keys, call, salvage>>
  BY DEF RegInv, Typed, SetPlan
<1>1. /\ topology' \in [Swarms -> Shapes] /\ topology'[sw] = "hierarchical"
      /\ \A t \in Swarms \ {sw} : topology'[t] = topology[t]
  BY <1>0 DEF SetPlan, Shapes
<1>2. \A t : Members(t)' = Members(t) /\ Active(t)' = Active(t) /\ Reservations(t)' = Reservations(t)
  BY <1>0 DEF Members, Active, Reservations
<1>3. Typed'
  BY <1>0, <1>1 DEF Typed, Holding
<1>4. (\A c \in Calls : CallTold(c)') /\ SessionsApart'
  BY <1>0, <1>1, <1>2 DEF RegInv, CallTold, SessionsApart
<1>5. (\A v \in Salvagers : SalvageTold(v)') /\ (\A t \in Swarms : SeatTold(t)')
  BY <1>0, <1>2 DEF RegInv, SalvageTold, SeatTold
<1>6. WithinCaps' /\ OneWorkerPerKey' /\ OneLeader' /\ Tallied'
  BY <1>0, <1>2 DEF RegInv, WithinCaps, OneWorkerPerKey, OneLeader, Tallied
<1>7. ShapesNeverMix'
  <2>1. Members(sw) = {}
    BY <1>0 DEF RegInv, ShapesNeverMix
  <2> QED  BY <1>0, <1>1, <1>2, <2>1 DEF RegInv, ShapesNeverMix
<1> QED  BY <1>3, <1>4, <1>5, <1>6, <1>7 DEF RegInv

----------------------------------------------------------------------------
(* Admission. *)

\* What admitting new sessions does to the members and the active ones.
LEMMA Joined ==
  ASSUME RegInv, NEW J \in SUBSET Sessions, IsFiniteSet(J), J \cap DOMAIN member = {},
         NEW sw \in Swarms, NEW role \in Roles, NEW parent \in Parents,
         member' = With(J, NewMember(sw, role, parent))
  PROVE  /\ DOMAIN member' = DOMAIN member \cup J /\ IsFiniteSet(DOMAIN member')
         /\ \A s \in DOMAIN member : member'[s] = member[s]
         /\ \A s \in J : member'[s].role = role
         /\ DOMAIN member' \subseteq Sessions
         /\ \A s \in DOMAIN member' : member'[s] \in MemberState
         /\ Members(sw)' = Members(sw) \cup J /\ Active(sw)' = Active(sw) \cup J
         /\ \A t \in Swarms \ {sw} : Members(t)' = Members(t) /\ Active(t)' = Active(t)
<1> DEFINE m == NewMember(sw, role, parent)
<1>1. /\ m \in MemberState /\ m.swarm = sw /\ m.role = role /\ m.status = "active"
      /\ m.parent = parent
  BY DEF NewMember, MemberState, MemberStatuses
<1>0. Typed /\ member' = With(J, m)
  BY DEF RegInv
<1> HIDE DEF m
<1>2. /\ DOMAIN member' = DOMAIN member \cup J
      /\ \A s \in DOMAIN member : member'[s] = member[s]
      /\ \A s \in J : member'[s] = m
  BY <1>0 DEF With
<1>3. IsFiniteSet(DOMAIN member')
  <2>1. IsFiniteSet(DOMAIN member)
    BY <1>0 DEF Typed
  <2>2. IsFiniteSet(DOMAIN member \cup J)
    BY <2>1, FS_Union
  <2> QED  BY <1>2, <2>2
<1>4. DOMAIN member' \subseteq Sessions /\ \A s \in DOMAIN member' : member'[s] \in MemberState
  BY <1>0, <1>1, <1>2 DEF Typed
<1>5. Members(sw)' = Members(sw) \cup J
  BY <1>1, <1>2 DEF Members
<1>6. Active(sw)' = Active(sw) \cup J
  BY <1>1, <1>2, <1>5 DEF Active, Members
<1>7. ASSUME NEW t \in Swarms, t # sw PROVE Members(t)' = Members(t) /\ Active(t)' = Active(t)
  <2>1. Members(t)' = Members(t)
    BY <1>1, <1>2, <1>7 DEF Members
  <2> QED  BY <1>2, <2>1 DEF Active, Members
<1> QED  BY <1>1, <1>2, <1>3, <1>4, <1>5, <1>6, <1>7

\* A session joins a swarm that is not a pair.
LEMMA RootStep ==
  ASSUME RegInv, NEW sw \in Swarms, NEW s \in Sessions, JoinAsRoot(sw, s)
  PROVE  RegInv'
<1>0. /\ Typed /\ s \notin DOMAIN member /\ s # None /\ (\A c \in Calls : call[c].session # s)
      /\ topology[sw] # "pair" /\ MayAdmit(sw, 1) /\ UNCHANGED <<keys, call, salvage>>
  BY Names DEF RegInv, JoinAsRoot, Unjoined, Known
<1>1. PICK role \in Roles : /\ role = IF seat[sw] = None THEN "coordinator" ELSE "worker"
                            /\ member' = With({s}, NewMember(sw, role, None))
  BY DEF JoinAsRoot, Roles
<1>2. /\ DOMAIN member' = DOMAIN member \cup {s} /\ IsFiniteSet(DOMAIN member')
      /\ \A t \in DOMAIN member : member'[t] = member[t]
      /\ member'[s].role = role
      /\ DOMAIN member' \subseteq Sessions
      /\ \A t \in DOMAIN member' : member'[t] \in MemberState
      /\ Members(sw)' = Members(sw) \cup {s} /\ Active(sw)' = Active(sw) \cup {s}
      /\ \A t \in Swarms \ {sw} : Members(t)' = Members(t) /\ Active(t)' = Active(t)
  <2>1. /\ None \in Parents /\ IsFiniteSet({s}) /\ {s} \in SUBSET Sessions
        /\ {s} \cap DOMAIN member = {}
    BY <1>0, FS_Singleton DEF Parents
  <2>2. /\ DOMAIN member' = DOMAIN member \cup {s} /\ IsFiniteSet(DOMAIN member')
        /\ \A t \in DOMAIN member : member'[t] = member[t]
    BY <1>1, <2>1, Joined
  <2>6. member'[s].role = role
    BY <1>1 DEF With, NewMember
  <2>3. /\ DOMAIN member' \subseteq Sessions
        /\ \A t \in DOMAIN member' : member'[t] \in MemberState
    BY <1>1, <2>1, Joined
  <2>4. Members(sw)' = Members(sw) \cup {s} /\ Active(sw)' = Active(sw) \cup {s}
    BY <1>1, <2>1, Joined
  <2>5. \A t \in Swarms \ {sw} : Members(t)' = Members(t) /\ Active(t)' = Active(t)
    BY <1>1, <2>1, Joined
  <2> QED  BY <2>2, <2>3, <2>4, <2>5, <2>6
<1>3. /\ topology' \in [Swarms -> Shapes] /\ topology'[sw] = "hierarchical"
      /\ \A t \in Swarms \ {sw} : topology'[t] = topology[t]
  BY <1>0 DEF JoinAsRoot, Typed, Shapes
<1>4. /\ seat' \in [Swarms -> Parents] /\ seat'[sw] = IF seat[sw] = None THEN s ELSE seat[sw]
      /\ \A t \in Swarms \ {sw} : seat'[t] = seat[t]
  BY <1>0 DEF JoinAsRoot, Typed, Parents
<1>5. /\ admitted' \in [Swarms -> Nat] /\ admitted'[sw] = admitted[sw] + 1
      /\ \A t \in Swarms \ {sw} : admitted'[t] = admitted[t]
  BY <1>0 DEF JoinAsRoot, Typed
<1>6. Holding' = Holding /\ \A t : Reservations(t)' = Reservations(t)
  BY <1>0 DEF Holding, Reservations
<1>7. Typed'
  BY <1>0, <1>2, <1>3, <1>4, <1>5, <1>6 DEF Typed
<1>8. ASSUME NEW c \in Calls PROVE CallTold(c)'
  BY <1>0, <1>2, <1>3 DEF RegInv, CallTold
<1>9. SessionsApart' /\ (\A v \in Salvagers : SalvageTold(v)')
  <2>1. ASSUME NEW v \in Salvagers PROVE SalvageTold(v)'
    <3>1. SalvageTold(v) /\ (salvage[v].stage # "idle" => salvage[v].who \in DOMAIN member)
      BY DEF RegInv, SalvageTold, Members
    <3> QED  BY <1>0, <1>2, <3>1 DEF SalvageTold
  <2> QED  BY <1>0, <2>1 DEF RegInv, SessionsApart
<1>10. ASSUME NEW t \in Swarms PROVE SeatTold(t)'
  BY <1>2, <1>4 DEF RegInv, SeatTold
<1>11. WithinCaps'
  <2> SUFFICES ASSUME NEW t \in Swarms
               PROVE  /\ admitted'[t] + Cardinality(Reservations(t)) <= MaxMembers
                      /\ Cardinality(Active(t)') + Cardinality(Reservations(t)) <= MaxActive
    BY <1>6 DEF WithinCaps
  <2>1. CASE t # sw
    BY <1>2, <1>5, <2>1 DEF RegInv, WithinCaps
  <2>2. CASE t = sw
    <3>1. /\ IsFiniteSet(Active(sw)) /\ Cardinality(Reservations(sw)) \in Nat
          /\ Cardinality(Active(sw)) \in Nat /\ admitted[sw] \in Nat
      BY <1>0, Sizes DEF Typed
    <3>2. /\ Cardinality(Active(sw)') <= Cardinality(Active(sw)) + 1
          /\ Cardinality(Active(sw)') \in Nat
      BY <1>2, <3>1, Counted, FS_CardinalityType
    <3>3. /\ admitted[sw] + Cardinality(Reservations(sw)) + 1 <= MaxMembers
          /\ Cardinality(Active(sw)) + Cardinality(Reservations(sw)) + 1 <= MaxActive
      BY <1>0 DEF MayAdmit
    <3> QED  BY <1>5, <2>2, <3>1, <3>2, <3>3, Names
  <2> QED  BY <2>1, <2>2
<1>12. OneWorkerPerKey'
  BY <1>0, <1>2, <1>6 DEF RegInv, OneWorkerPerKey
<1>13. ShapesNeverMix'
  <2> SUFFICES ASSUME NEW t \in Swarms
               PROVE  /\ topology'[t] = "pair" =>
                            /\ Cardinality(Members(t)') = 2 /\ seat'[t] = None
                            /\ Reservations(t) = {} /\ DOMAIN keys[t] = {}
                      /\ topology'[t] = "unassigned" => Members(t)' = {} /\ Reservations(t) = {}
                      /\ \A u \in Members(t)' : member'[u].role = "peer" <=> topology'[t] = "pair"
    BY <1>0, <1>6 DEF ShapesNeverMix
  <2>1. CASE t # sw
    <3>1. \A u \in Members(t) : member'[u] = member[u]
      BY <1>2 DEF Members
    <3> QED  BY <1>2, <1>3, <1>4, <2>1, <3>1 DEF RegInv, ShapesNeverMix
  <2>2. CASE t = sw
    <3>1. role # "peer"
      BY <1>1
    <3>2. \A u \in Members(sw) : member'[u].role # "peer"
      <4>1. \A u \in Members(sw) : member[u].role # "peer"
        BY <1>0 DEF RegInv, ShapesNeverMix
      <4> QED  BY <1>2, <4>1 DEF Members
    <3> QED  BY <1>2, <1>3, <2>2, <3>1, <3>2
  <2> QED  BY <2>1, <2>2
<1>14. OneLeader'
  <2> SUFFICES ASSUME NEW t \in Swarms, NEW u \in Active(t)', member'[u].role = "coordinator"
               PROVE  seat'[t] = u
    BY DEF OneLeader
  <2>1. CASE u = s
    <3>1. t = sw
      BY <1>0, <1>2, <2>1 DEF Active, Members
    <3>2. seat[sw] = None
      BY <1>1, <1>2, <2>1
    <3> QED  BY <1>4, <2>1, <3>1, <3>2
  <2>2. CASE u # s
    <3>1. u \in Active(t) /\ u \in DOMAIN member /\ member[u].role = "coordinator"
      BY <1>2, <2>2 DEF Active, Members
    <3>2. seat[t] = u /\ u # None
      BY <1>0, <3>1, Names DEF RegInv, OneLeader, Typed
    <3> QED  BY <1>4, <3>2
  <2> QED  BY <2>1, <2>2
<1>15. Tallied'
  <2>1. /\ IsFiniteSet(Members(sw)) /\ s \notin Members(sw)
        /\ admitted[sw] = Cardinality(Members(sw))
    BY <1>0, Sizes DEF RegInv, Tallied, Members
  <2>2. admitted'[sw] = Cardinality(Members(sw)')
    BY <1>2, <1>5, <2>1, Counted
  <2> QED  BY <1>2, <1>5, <2>2 DEF RegInv, Tallied
<1> QED  BY <1>7, <1>8, <1>9, <1>10, <1>11, <1>12, <1>13, <1>14, <1>15 DEF RegInv

\* Two peers take a swarm without a shape.
LEMMA PairStep ==
  ASSUME RegInv, NEW sw \in Swarms, NEW s \in Sessions, NEW t \in Sessions,
         JoinAsPair(sw, s, t)
  PROVE  RegInv'
<1>0. /\ Typed /\ s # t /\ s \notin DOMAIN member /\ t \notin DOMAIN member
      /\ (\A c \in Calls : call[c].session \notin {s, t})
      /\ topology[sw] = "unassigned" /\ MayAdmit(sw, 2) /\ UNCHANGED <<seat, keys, call, salvage>>
  BY DEF RegInv, JoinAsPair, Unjoined, Known
<1>1. /\ Members(sw) = {} /\ Active(sw) = {} /\ Reservations(sw) = {} /\ seat[sw] = None
      /\ DOMAIN keys[sw] = {}
  <2>1. Members(sw) = {} /\ Reservations(sw) = {}
    BY <1>0 DEF RegInv, ShapesNeverMix
  <2> QED  BY <2>1 DEF Active, RegInv, SeatTold, OneWorkerPerKey
<1>2. member' = With({s, t}, NewMember(sw, "peer", None))
  BY DEF JoinAsPair
<1>a. /\ IsFiniteSet({s, t}) /\ Cardinality({s, t}) = 2
  <2>1. IsFiniteSet({s}) /\ Cardinality({s}) = 1
    BY FS_Singleton
  <2>2. IsFiniteSet({s} \cup {t}) /\ Cardinality({s} \cup {t}) = 1 + 1
    BY <1>0, <2>1, FS_AddElement
  <2>3. {s} \cup {t} = {s, t}
    OBVIOUS
  <2> QED  BY <2>2, <2>3
<1>3. /\ DOMAIN member' = DOMAIN member \cup {s, t} /\ IsFiniteSet(DOMAIN member')
      /\ \A u \in DOMAIN member : member'[u] = member[u]
      /\ DOMAIN member' \subseteq Sessions
      /\ \A u \in DOMAIN member' : member'[u] \in MemberState
      /\ Members(sw)' = {s, t} /\ Active(sw)' = {s, t}
      /\ \A u \in Swarms \ {sw} : Members(u)' = Members(u) /\ Active(u)' = Active(u)
  <2>1. /\ None \in Parents /\ "peer" \in Roles /\ {s, t} \in SUBSET Sessions
        /\ {s, t} \cap DOMAIN member = {}
    BY <1>0 DEF Parents, Roles
  <2>2. /\ DOMAIN member' = DOMAIN member \cup {s, t} /\ IsFiniteSet(DOMAIN member')
        /\ \A u \in DOMAIN member : member'[u] = member[u]
    BY <1>2, <1>a, <2>1, Joined
  <2>3. /\ DOMAIN member' \subseteq Sessions
        /\ \A u \in DOMAIN member' : member'[u] \in MemberState
    BY <1>2, <1>a, <2>1, Joined
  <2>4. Members(sw)' = Members(sw) \cup {s, t} /\ Active(sw)' = Active(sw) \cup {s, t}
    BY <1>2, <1>a, <2>1, Joined
  <2>5. \A u \in Swarms \ {sw} : Members(u)' = Members(u) /\ Active(u)' = Active(u)
    BY <1>2, <1>a, <2>1, Joined
  <2> QED  BY <1>1, <2>2, <2>3, <2>4, <2>5
<1>4. member'[s].role = "peer" /\ member'[t].role = "peer"
  BY <1>2 DEF With, NewMember
<1>5. /\ topology' \in [Swarms -> Shapes] /\ topology'[sw] = "pair"
      /\ \A u \in Swarms \ {sw} : topology'[u] = topology[u]
  BY <1>0 DEF JoinAsPair, Typed, Shapes
<1>6. /\ admitted' \in [Swarms -> Nat] /\ admitted'[sw] = 2
      /\ \A u \in Swarms \ {sw} : admitted'[u] = admitted[u]
  BY <1>0 DEF JoinAsPair, Typed
<1>7. Holding' = Holding /\ \A u : Reservations(u)' = Reservations(u)
  BY <1>0 DEF Holding, Reservations
<1>8. Typed'
  BY <1>0, <1>3, <1>5, <1>6, <1>7 DEF Typed
<1>9. ASSUME NEW c \in Calls PROVE CallTold(c)'
  BY <1>0, <1>1, <1>3, <1>5 DEF RegInv, CallTold
<1>10. SessionsApart' /\ (\A v \in Salvagers : SalvageTold(v)')
  <2>1. ASSUME NEW v \in Salvagers PROVE SalvageTold(v)'
    <3>1. SalvageTold(v) /\ (salvage[v].stage # "idle" => salvage[v].who \in DOMAIN member)
      BY DEF RegInv, SalvageTold, Members
    <3> QED  BY <1>0, <1>1, <1>3, <3>1 DEF SalvageTold
  <2> QED  BY <1>0, <2>1 DEF RegInv, SessionsApart
<1>11. ASSUME NEW u \in Swarms PROVE SeatTold(u)'
  BY <1>0, <1>1, <1>3 DEF RegInv, SeatTold
<1>12. WithinCaps'
  <2> SUFFICES ASSUME NEW u \in Swarms
               PROVE  /\ admitted'[u] + Cardinality(Reservations(u)) <= MaxMembers
                      /\ Cardinality(Active(u)') + Cardinality(Reservations(u)) <= MaxActive
    BY <1>7 DEF WithinCaps
  <2>1. CASE u # sw
    BY <1>3, <1>6, <2>1 DEF RegInv, WithinCaps
  <2>2. CASE u = sw
    <3>1. Cardinality(Reservations(sw)) = 0 /\ Cardinality(Active(sw)) = 0 /\ admitted[sw] \in Nat
      BY <1>0, <1>1, FS_EmptySet DEF Typed
    <3>2. /\ admitted[sw] + Cardinality(Reservations(sw)) + 2 <= MaxMembers
          /\ Cardinality(Active(sw)) + Cardinality(Reservations(sw)) + 2 <= MaxActive
      BY <1>0 DEF MayAdmit
    <3>3. 2 <= MaxMembers /\ 2 <= MaxActive
      BY <3>1, <3>2, Names
    <3>4. /\ admitted'[u] = 2 /\ Cardinality(Active(u)') = 2
          /\ Cardinality(Reservations(u)) = 0
      BY <1>3, <1>6, <1>a, <2>2, <3>1
    <3> QED  BY <3>3, <3>4
  <2> QED  BY <2>1, <2>2
<1>13. OneWorkerPerKey'
  BY <1>0, <1>1, <1>3, <1>7 DEF RegInv, OneWorkerPerKey
<1>14. ShapesNeverMix'
  <2> SUFFICES ASSUME NEW u \in Swarms
               PROVE  /\ topology'[u] = "pair" =>
                            /\ Cardinality(Members(u)') = 2 /\ seat[u] = None
                            /\ Reservations(u) = {} /\ DOMAIN keys[u] = {}
                      /\ topology'[u] = "unassigned" => Members(u)' = {} /\ Reservations(u) = {}
                      /\ \A w \in Members(u)' : member'[w].role = "peer" <=> topology'[u] = "pair"
    BY <1>0, <1>7 DEF ShapesNeverMix
  <2>1. CASE u # sw
    <3>1. \A w \in Members(u) : member'[w] = member[w]
      BY <1>3 DEF Members
    <3> QED  BY <1>3, <1>5, <2>1, <3>1 DEF RegInv, ShapesNeverMix
  <2>2. CASE u = sw
    <3>1. \A w \in Members(sw)' : member'[w].role = "peer"
      BY <1>3, <1>4
    <3> QED  BY <1>1, <1>3, <1>5, <1>a, <2>2, <3>1
  <2> QED  BY <2>1, <2>2
<1>15. OneLeader'
  <2> SUFFICES ASSUME NEW u \in Swarms, NEW w \in Active(u)', member'[w].role = "coordinator"
               PROVE  seat[u] = w
    BY <1>0 DEF OneLeader
  <2>1. u # sw /\ w \in Active(u)
    BY <1>3, <1>4
  <2>2. member[w].role = "coordinator"
    BY <1>3, <2>1 DEF Active, Members
  <2> QED  BY <2>1, <2>2 DEF RegInv, OneLeader
<1>16. Tallied'
  BY <1>3, <1>6, <1>a DEF RegInv, Tallied
<1> QED  BY <1>8, <1>9, <1>10, <1>11, <1>12, <1>13, <1>14, <1>15, <1>16 DEF RegInv

\* A built session joins, and its slot goes with that.
LEMMA ConfirmStep ==
  ASSUME RegInv, NEW c \in Calls, Confirm(c)
  PROVE  RegInv'
<1>0. /\ Typed /\ call \in [Calls -> CallState] /\ call[c] \in CallState
      /\ call[c].stage = "built" /\ CallTold(c)
  BY DEF RegInv, Typed, Confirm
<1>1. PICK sw \in Swarms, s \in Sessions, key \in KeysOrNone, parent \in Parents :
         /\ sw = call[c].swarm /\ s = call[c].session /\ key = call[c].key
         /\ parent = call[c].parent
  <2>1. call[c].session \in Sessions
    BY <1>0 DEF CallTold, CallState, Parents
  <2> QED  BY <1>0, <2>1 DEF CallTold, CallState
<1>2. /\ s \notin DOMAIN member /\ s # None
      /\ topology[sw] = "hierarchical"
      /\ (\A d \in Calls \ {c} : call[d].session # s)
  BY <1>0, <1>1, Names DEF CallTold, RegInv, SessionsApart
<1>3. /\ member' = With({s}, NewMember(sw, "worker", parent))
      /\ call' = [call EXCEPT ![c] = [NoCall EXCEPT !.stage = "done"]]
      /\ admitted' = [admitted EXCEPT ![sw] = @ + 1]
      /\ UNCHANGED <<topology, seat, salvage>>
  BY <1>1 DEF Confirm
<1>4. /\ DOMAIN member' = DOMAIN member \cup {s} /\ IsFiniteSet(DOMAIN member')
      /\ \A t \in DOMAIN member : member'[t] = member[t]
      /\ member'[s].role = "worker"
      /\ DOMAIN member' \subseteq Sessions
      /\ \A t \in DOMAIN member' : member'[t] \in MemberState
      /\ Members(sw)' = Members(sw) \cup {s} /\ Active(sw)' = Active(sw) \cup {s}
      /\ \A t \in Swarms \ {sw} : Members(t)' = Members(t) /\ Active(t)' = Active(t)
  <2>1. /\ IsFiniteSet({s}) /\ {s} \in SUBSET Sessions
        /\ {s} \cap DOMAIN member = {} /\ "worker" \in Roles
    BY <1>2, FS_Singleton DEF Roles
  <2>2. /\ DOMAIN member' = DOMAIN member \cup {s} /\ IsFiniteSet(DOMAIN member')
        /\ \A t \in DOMAIN member : member'[t] = member[t]
    BY <1>2, <1>3, <2>1, Joined
  <2>3. /\ DOMAIN member' \subseteq Sessions
        /\ \A t \in DOMAIN member' : member'[t] \in MemberState
    BY <1>2, <1>3, <2>1, Joined
  <2>4. Members(sw)' = Members(sw) \cup {s} /\ Active(sw)' = Active(sw) \cup {s}
    BY <1>2, <1>3, <2>1, Joined
  <2>5. \A t \in Swarms \ {sw} : Members(t)' = Members(t) /\ Active(t)' = Active(t)
    BY <1>2, <1>3, <2>1, Joined
  <2>6. member'[s].role = "worker"
    BY <1>3 DEF With, NewMember
  <2> QED  BY <2>2, <2>3, <2>4, <2>5, <2>6
<1>5. /\ call' \in [Calls -> CallState] /\ call'[c].stage = "done" /\ call'[c].session = None
      /\ \A d \in Calls \ {c} : call'[d] = call[d]
  BY <1>0, <1>3, Over
<1>6. /\ Holding' \subseteq Holding /\ c \in Reservations(sw)
      /\ Reservations(sw)' = Reservations(sw) \ {c}
      /\ \A t \in Swarms \ {sw} : Reservations(t)' = Reservations(t)
  <2>1. Holding' \subseteq Holding
    BY <1>5 DEF Holding
  <2>2. c \in Reservations(sw) /\ Reservations(sw)' = Reservations(sw) \ {c}
    BY <1>0, <1>1, <1>5 DEF Reservations
  <2>3. ASSUME NEW t \in Swarms, t # sw PROVE Reservations(t)' = Reservations(t)
    <3>1. \A d \in Calls : d \in Reservations(t)' <=> d \in Reservations(t)
      BY <1>1, <1>5, <2>3 DEF Reservations
    <3> QED  BY <3>1 DEF Reservations
  <2> QED  BY <2>1, <2>2, <2>3
<1>7. /\ admitted' \in [Swarms -> Nat] /\ admitted'[sw] = admitted[sw] + 1
      /\ \A t \in Swarms \ {sw} : admitted'[t] = admitted[t]
  BY <1>0, <1>3 DEF Typed
<1>8. /\ DOMAIN keys' = Swarms /\ \A t \in Swarms \ {sw} : keys'[t] = keys[t]
      /\ DOMAIN keys'[sw] = DOMAIN keys[sw] \cup ({key} \ {NoKey})
      /\ \A k \in DOMAIN keys'[sw] : keys'[sw][k] = IF k = key THEN s ELSE keys[sw][k]
  <2>0. DOMAIN keys = Swarms
    BY <1>0 DEF Typed
  <2>1. CASE key = NoKey
    <3>1. keys' = keys /\ key \notin DOMAIN keys[sw]
      BY <1>0, <1>1, <2>1, Names DEF Confirm, Typed
    <3> QED  BY <2>0, <2>1, <3>1
  <2>2. CASE key # NoKey
    <3>1. keys' = [keys EXCEPT ![sw] = [k \in DOMAIN @ \cup {key} |-> IF k = key THEN s ELSE @[k]]]
      BY <1>1, <2>2 DEF Confirm
    <3>2. keys'[sw] = [k \in DOMAIN keys[sw] \cup {key} |-> IF k = key THEN s ELSE keys[sw][k]]
      BY <2>0, <3>1
    <3>3. DOMAIN keys' = Swarms /\ \A t \in Swarms \ {sw} : keys'[t] = keys[t]
      BY <2>0, <3>1
    <3> QED  BY <2>2, <3>2, <3>3
  <2> QED  BY <2>1, <2>2
<1>9. Typed'
  <2>1. \A t \in Swarms : \A k \in DOMAIN keys'[t] : k \in Keys /\ keys'[t][k] \in Sessions
    <3>1. \A t \in Swarms : \A k \in DOMAIN keys[t] : k \in Keys /\ keys[t][k] \in Sessions
      BY <1>0 DEF Typed
    <3> QED  BY <1>8, <3>1 DEF KeysOrNone
  <2>2. IsFiniteSet(Holding')
    <3>1. IsFiniteSet(Holding)
      BY <1>0 DEF Typed
    <3> QED  BY <1>6, <3>1, Counted
  <2> QED  BY <1>0, <1>3, <1>4, <1>5, <1>7, <1>8, <2>1, <2>2 DEF Typed
<1>10. CallTold(c)'
  BY <1>5 DEF CallTold
<1>11. ASSUME NEW d \in Calls, d # c PROVE CallTold(d)'
  <2>1. CallTold(d) /\ call'[d] = call[d] /\ call[d].session # s
    BY <1>2, <1>5, <1>11 DEF RegInv
  <2> QED  BY <1>3, <1>4, <2>1 DEF CallTold
<1>12. SessionsApart'
  BY <1>5 DEF RegInv, SessionsApart
<1>13. ASSUME NEW v \in Salvagers PROVE SalvageTold(v)'
  <2>1. \A t \in Swarms : Members(t) \subseteq Members(t)'
    BY <1>4
  <2>2. SalvageTold(v) /\ (salvage[v].stage # "idle" => salvage[v].who \in DOMAIN member)
    BY DEF RegInv, SalvageTold, Members
  <2> QED  BY <1>3, <1>4, <2>1, <2>2 DEF SalvageTold
<1>14. ASSUME NEW t \in Swarms PROVE SeatTold(t)'
  BY <1>3, <1>4 DEF RegInv, SeatTold
<1>15. WithinCaps'
  <2> SUFFICES ASSUME NEW t \in Swarms
               PROVE  /\ admitted'[t] + Cardinality(Reservations(t)') <= MaxMembers
                      /\ Cardinality(Active(t)') + Cardinality(Reservations(t)') <= MaxActive
    BY DEF WithinCaps
  <2>0. /\ admitted[t] + Cardinality(Reservations(t)) <= MaxMembers
        /\ Cardinality(Active(t)) + Cardinality(Reservations(t)) <= MaxActive
    BY DEF RegInv, WithinCaps
  <2>1. CASE t # sw
    BY <1>4, <1>6, <1>7, <2>0, <2>1
  <2>2. CASE t = sw
    <3>1. /\ IsFiniteSet(Active(sw)) /\ IsFiniteSet(Reservations(sw))
          /\ Cardinality(Reservations(sw)) \in Nat
          /\ Cardinality(Active(sw)) \in Nat /\ admitted[sw] \in Nat
      BY <1>0, Sizes DEF Typed
    <3>2. /\ Cardinality(Active(sw)') <= Cardinality(Active(sw)) + 1
          /\ Cardinality(Active(sw)') \in Nat
      BY <1>4, <3>1, Counted, FS_CardinalityType
    <3>3. Cardinality(Reservations(sw)') = Cardinality(Reservations(sw)) - 1
      BY <1>6, <3>1, Counted
    <3> QED  BY <1>7, <2>0, <2>2, <3>1, <3>2, <3>3, Names
  <2> QED  BY <2>1, <2>2
<1>16. OneWorkerPerKey'
  <2>1. ASSUME NEW t \in Swarms, NEW d \in Reservations(t)'
        PROVE  d # c /\ d \in Reservations(t) /\ call'[d] = call[d]
    BY <1>5, <1>6 DEF Reservations
  <2>2. ASSUME NEW t \in Swarms, NEW d \in Reservations(t)', NEW e \in Reservations(t)',
               call'[d].key # NoKey, call'[d].key = call'[e].key
        PROVE  d = e
    BY <2>1, <2>2 DEF RegInv, OneWorkerPerKey
  <2>3. ASSUME NEW t \in Swarms, NEW d \in Reservations(t)'
        PROVE  call'[d].key \notin DOMAIN keys'[t]
    <3>1. d # c /\ d \in Reservations(t) /\ call'[d] = call[d] /\ call[d].key \notin DOMAIN keys[t]
      BY <2>1 DEF RegInv, OneWorkerPerKey
    <3>2. t = sw /\ key # NoKey => call[d].key # key
      BY <1>1, <1>6, <3>1 DEF RegInv, OneWorkerPerKey
    <3> QED  BY <1>8, <3>1, <3>2
  <2>4. ASSUME NEW t \in Swarms, NEW k \in DOMAIN keys'[t] PROVE keys'[t][k] \in Members(t)'
    BY <1>4, <1>8 DEF RegInv, OneWorkerPerKey
  <2> QED  BY <2>2, <2>3, <2>4 DEF OneWorkerPerKey
<1>17. ShapesNeverMix'
  <2> SUFFICES ASSUME NEW t \in Swarms
               PROVE  /\ topology[t] = "pair" =>
                            /\ Cardinality(Members(t)') = 2 /\ seat[t] = None
                            /\ Reservations(t)' = {} /\ DOMAIN keys'[t] = {}
                      /\ topology[t] = "unassigned" => Members(t)' = {} /\ Reservations(t)' = {}
                      /\ \A u \in Members(t)' : member'[u].role = "peer" <=> topology[t] = "pair"
    BY <1>3 DEF ShapesNeverMix
  <2>1. CASE t # sw
    <3>1. \A u \in Members(t) : member'[u] = member[u]
      BY <1>4 DEF Members
    <3> QED  BY <1>4, <1>6, <1>8, <2>1, <3>1 DEF RegInv, ShapesNeverMix
  <2>2. CASE t = sw
    <3>1. \A u \in Members(sw) : member'[u].role # "peer"
      <4>1. \A u \in Members(sw) : member[u].role # "peer"
        BY <1>2 DEF RegInv, ShapesNeverMix
      <4> QED  BY <1>4, <4>1 DEF Members
    <3> QED  BY <1>2, <1>4, <2>2, <3>1
  <2> QED  BY <2>1, <2>2
<1>18. OneLeader'
  <2> SUFFICES ASSUME NEW t \in Swarms, NEW u \in Active(t)', member'[u].role = "coordinator"
               PROVE  seat[t] = u
    BY <1>3 DEF OneLeader
  <2>1. u # s /\ u \in Active(t)
    BY <1>4
  <2>2. member[u].role = "coordinator"
    BY <1>4, <2>1 DEF Active, Members
  <2> QED  BY <2>1, <2>2 DEF RegInv, OneLeader
<1>19. Tallied'
  <2>1. /\ IsFiniteSet(Members(sw)) /\ s \notin Members(sw)
        /\ admitted[sw] = Cardinality(Members(sw))
    BY <1>0, <1>2, Sizes DEF RegInv, Tallied, Members
  <2>2. admitted'[sw] = Cardinality(Members(sw)')
    BY <1>4, <1>7, <2>1, Counted
  <2> QED  BY <1>4, <1>7, <2>2 DEF RegInv, Tallied
<1> QED
  BY <1>9, <1>10, <1>11, <1>12, <1>13, <1>14, <1>15, <1>16, <1>17, <1>18, <1>19 DEF RegInv

----------------------------------------------------------------------------
\* Every step keeps the invariant.
LEMMA RegStep == RegInv /\ [Next]_vars => RegInv'
<1> SUFFICES ASSUME RegInv, [Next]_vars PROVE RegInv'
  OBVIOUS
<1>1. CASE \E sw \in Swarms, s \in Sessions : JoinAsRoot(sw, s)
  BY <1>1, RootStep
<1>2. CASE \E sw \in Swarms, s, t \in Sessions : JoinAsPair(sw, s, t)
  BY <1>2, PairStep
<1>3. CASE \E sw \in Swarms : SetPlan(sw)
  BY <1>3, SetPlanStep
<1>4. CASE \E c \in Calls, sw \in Swarms, parent \in Known, key \in Keys \cup {NoKey} :
              Reserve(c, sw, parent, key)
  BY <1>4, ReserveStep DEF Known
<1>5. CASE \E c \in Calls : (\E s \in Sessions : Build(c, s)) \/ Release(c) \/ Confirm(c)
  BY <1>5, BuildStep, ReleaseStep, ConfirmStep
<1>6. CASE (\E s \in Sessions : RecordCompletion(s)) \/ (\E v \in Salvagers : SalvageMarks(v))
  BY <1>6, StatusStep
<1>7. CASE \E v \in Salvagers : \/ \E s \in Sessions : SalvageBegins(v, s)
                                \/ SalvageReparents(v) \/ SalvageElects(v)
  BY <1>7, BeginStep, ReparentStep, ElectStep
<1>8. CASE UNCHANGED vars
  <2>1. /\ UNCHANGED <<topology, member, seat, admitted, keys, call, salvage>>
        /\ DOMAIN member' = DOMAIN member
        /\ \A s \in DOMAIN member : member'[s] = member[s] /\ member[s] \in MemberState
    BY <1>8 DEF vars, RegInv, Typed
  <2>2. \A t : Members(t)' = Members(t) /\ Active(t)' = Active(t) /\ Reservations(t)' = Reservations(t)
    BY <2>1 DEF Members, Active, Reservations
  <2>3. /\ (\A c \in Calls : CallTold(c)') /\ SessionsApart' /\ WithinCaps' /\ OneWorkerPerKey'
        /\ Typed' /\ Tallied'
    BY <2>1, MembershipKept DEF RegInv, Typed
  <2> QED
    BY <2>1, <2>2, <2>3 DEF RegInv, SalvageTold, SeatTold, ShapesNeverMix, OneLeader
<1> QED  BY <1>1, <1>2, <1>3, <1>4, <1>5, <1>6, <1>7, <1>8 DEF Next

\* The inductive invariant holds in every reachable state.
THEOREM RegistrySafe == Spec => []RegInv
<1> QED  BY RegInit, RegStep, PTL DEF Spec

\* The variables keep their types, every member is counted as admitted, and the
\* seat is held by a member.
THEOREM RegistryTyped == Spec => []TypeOK
<1>1. RegInv => TypeOK
  BY DEF RegInv, Typed, SeatTold, Tallied, TypeOK, Shapes, MemberState, Roles, MemberStatuses, Parents,
         CallState, CallStages, SwarmsOrNone, KeysOrNone, SalvageState, SalvageStages
<1> QED  BY <1>1, RegistrySafe, PTL

\* However many spawns race, neither cap is ever exceeded.
THEOREM CapsHold == Spec => []WithinCaps
<1>1. RegInv => WithinCaps
  BY DEF RegInv
<1> QED  BY <1>1, RegistrySafe, PTL

\* However often a spawn is retried, a key has one worker.
THEOREM KeysAreIdempotent == Spec => []OneWorkerPerKey
<1>1. RegInv => OneWorkerPerKey
  BY DEF RegInv
<1> QED  BY <1>1, RegistrySafe, PTL

\* A swarm is a hierarchy or a pair for good, whatever is tried on it.
THEOREM ShapesAreKept == Spec => []ShapesNeverMix
<1>1. RegInv => ShapesNeverMix
  BY DEF RegInv
<1> QED  BY <1>1, RegistrySafe, PTL

\* However many salvages race, at most one active member coordinates a swarm.
THEOREM LeaderIsUnique == Spec => []OneLeader
<1>1. RegInv => OneLeader
  BY DEF RegInv
<1> QED  BY <1>1, RegistrySafe, PTL

\* Only reparent_children moves an edge: it takes it from the member salvaged,
\* which has been marked, and gives it to the heir.
LEMMA EdgeStep ==
  ASSUME RegInv, [Next]_vars, NEW s \in DOMAIN member, member'[s].parent # member[s].parent
  PROVE  /\ member[s].parent \in Members(member[s].swarm)
         /\ member[member[s].parent].status # "active"
         /\ member'[s].parent \in (Members(member[s].swarm) \ {s, member[s].parent}) \cup {None}
<1>0. Typed /\ member[s] \in MemberState
  BY DEF RegInv, Typed
<1>1. ASSUME NEW J, NEW m, member' = With(J, m), J \cap DOMAIN member = {}
      PROVE  FALSE
  BY <1>1 DEF With
<1>2. ~ \E sw \in Swarms, r \in Sessions : JoinAsRoot(sw, r)
  <2> SUFFICES ASSUME NEW sw \in Swarms, NEW r \in Sessions, JoinAsRoot(sw, r) PROVE FALSE
    OBVIOUS
  <2>1. {r} \cap DOMAIN member = {}
    BY DEF JoinAsRoot, Unjoined
  <2>2. PICK m : member' = With({r}, m)
    BY DEF JoinAsRoot
  <2> QED  BY <1>1, <2>1, <2>2
<1>3. ~ \E sw \in Swarms, r, u \in Sessions : JoinAsPair(sw, r, u)
  <2> SUFFICES ASSUME NEW sw \in Swarms, NEW r \in Sessions, NEW u \in Sessions,
                      JoinAsPair(sw, r, u)
               PROVE  FALSE
    OBVIOUS
  <2>1. {r, u} \cap DOMAIN member = {}
    BY DEF JoinAsPair, Unjoined
  <2>2. PICK m : member' = With({r, u}, m)
    BY DEF JoinAsPair
  <2> QED  BY <1>1, <2>1, <2>2
<1>4. ~ \E c \in Calls : Confirm(c)
  <2> SUFFICES ASSUME NEW c \in Calls, Confirm(c) PROVE FALSE
    OBVIOUS
  <2>1. {call[c].session} \cap DOMAIN member = {}
    BY DEF RegInv, CallTold, Confirm
  <2>2. PICK m : member' = With({call[c].session}, m)
    BY DEF Confirm
  <2> QED  BY <1>1, <2>1, <2>2
<1>5. member' # member
  OBVIOUS
<1>6. ASSUME NEW r \in DOMAIN member, NEW m, member' = [member EXCEPT ![r] = m],
             m.parent = member[r].parent
      PROVE  FALSE
  BY <1>6
<1>7. ~ \E r \in Sessions : RecordCompletion(r)
  <2> SUFFICES ASSUME NEW r \in Sessions, RecordCompletion(r) PROVE FALSE
    OBVIOUS
  <2>1. /\ r \in DOMAIN member /\ member[r] \in MemberState
        /\ member' = [member EXCEPT ![r] = [member[r] EXCEPT !.status = "finished"]]
    BY <1>0 DEF RecordCompletion, Typed
  <2>2. [member[r] EXCEPT !.status = "finished"].parent = member[r].parent
    BY <2>1 DEF MemberState
  <2> QED  BY <1>6, <2>1, <2>2
<1>8. ~ \E v \in Salvagers : SalvageMarks(v)
  <2> SUFFICES ASSUME NEW v \in Salvagers, SalvageMarks(v) PROVE FALSE
    OBVIOUS
  <2>1. PICK r \in DOMAIN member : r = salvage[v].who
    BY DEF RegInv, SalvageTold, SalvageMarks, Members
  <2>2. /\ member[r] \in MemberState
        /\ member' = [member EXCEPT ![r] = [member[r] EXCEPT !.status = "departed"]]
    BY <1>0, <2>1 DEF SalvageMarks, Typed
  <2>3. [member[r] EXCEPT !.status = "departed"].parent = member[r].parent
    BY <2>2 DEF MemberState
  <2> QED  BY <1>6, <2>2, <2>3
<1>9. ~ \E v \in Salvagers : SalvageElects(v)
  <2> SUFFICES ASSUME NEW v \in Salvagers, SalvageElects(v) PROVE FALSE
    OBVIOUS
  <2>1. PICK r : member' = [member EXCEPT ![r].role = "coordinator"]
    BY <1>5 DEF SalvageElects
  <2>2. CASE s = r
    <3>1. member'[s] = [member[s] EXCEPT !.role = "coordinator"]
      BY <2>1, <2>2
    <3> QED  BY <1>0, <3>1 DEF MemberState
  <2>3. CASE s # r
    BY <2>1, <2>3
  <2> QED  BY <2>2, <2>3
<1>10. PICK v \in Salvagers : SalvageReparents(v)
  BY <1>2, <1>3, <1>4, <1>5, <1>7, <1>8, <1>9
     DEF Next, vars, SetPlan, Reserve, Build, Release, SalvageBegins
<1>11. PICK sw \in Swarms, who \in DOMAIN member :
          /\ sw = salvage[v].swarm /\ who = salvage[v].who /\ who \in Members(sw)
          /\ member[who].status # "active"
  BY <1>10 DEF RegInv, SalvageTold, SalvageReparents, Members
<1>12. PICK heir : heir = NewParent(sw, who)
  OBVIOUS
<1>13. heir \in (Members(sw) \ {who}) \cup {None}
  BY <1>11, <1>12, Heir
<1>14. member' = [t \in DOMAIN member |->
                     IF member[t].swarm = sw /\ member[t].parent = who
                     THEN [member[t] EXCEPT !.parent = IF heir = t THEN None ELSE heir]
                     ELSE member[t]]
  BY <1>10, <1>11, <1>12 DEF SalvageReparents
<1>15. member[s].swarm = sw /\ member[s].parent = who
  BY <1>14
<1>16. member'[s].parent = IF heir = s THEN None ELSE heir
  BY <1>0, <1>14, <1>15 DEF MemberState
<1> QED  BY <1>11, <1>13, <1>15, <1>16

\* However many salvages overlap, an edge is moved only away from a member that is
\* no longer active, and only to another member of the same swarm.
THEOREM EdgesMoved == Spec => EdgesMoveInside
<1>1. RegInv /\ [Next]_vars =>
         [\A s \in DOMAIN member :
             LET old == member[s].parent
                 new == member'[s].parent
                 peers == Members(member[s].swarm)
             IN  new # old => /\ old \in peers /\ member[old].status # "active"
                              /\ new \in (peers \ {s, old}) \cup {None}]_vars
  BY EdgeStep
<1> QED  BY <1>1, RegistrySafe, PTL DEF Spec, EdgesMoveInside

=============================================================================
