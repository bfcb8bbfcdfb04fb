---------------------------- MODULE SwarmRegistry ----------------------------
(****************************************************************************)
(* The registry of swarms: who is a member of which, in which shape, who    *)
(* reports to whom, and how many more may be admitted.  Every operation     *)
(* runs under one write lock and is one step.  What spans several locks is  *)
(* split where the code lets go: a spawn call (reserve a slot, build the    *)
(* session, confirm it or release the slot) and a salvage (look, mark,      *)
(* reparent, elect).                                                        *)
(*                                                                          *)
(* members and by_session change together under the lock, so one function   *)
(* stands for both.  Names, reports and heartbeat times are left out: any   *)
(* member may turn out stale.                                               *)
(****************************************************************************)
EXTENDS Integers, FiniteSets

CONSTANTS
    Swarms,         \* SwarmIds
    Sessions,       \* session ids, ordered as their UUIDs are
    Keys,           \* idempotency keys
    NoKey,          \* a spawn without one
    Calls,          \* spawn calls, each made once
    Salvagers,      \* the driver and the sweeps, which salvage concurrently
    MaxMembers,     \* SwarmLimits
    MaxActive

None == 0           \* no session: a root's parent, an empty seat

ASSUME RegistryConstants ==
    /\ Sessions \subseteq Nat \ {None}
    /\ NoKey \notin Keys
    /\ MaxMembers \in Nat /\ MaxActive \in Nat

VARIABLES
    topology,   \* swarm -> "unassigned", "hierarchical" or "pair"
    member,     \* session -> its SwarmMember, for those that have joined
    seat,       \* swarm -> its coordinator
    admitted,   \* swarm -> members ever admitted
    keys,       \* swarm -> settled_keys: key -> session
    call,       \* spawn call -> how far it is
    salvage     \* salvager -> what it is doing, to whom, and was_coordinator

vars == <<topology, member, seat, admitted, keys, call, salvage>>

Members(sw) == {s \in DOMAIN member : member[s].swarm = sw}
Active(sw) == {s \in Members(sw) : member[s].status = "active"}
Reservations(sw) ==
    {c \in Calls : call[c].stage \in {"reserved", "built"} /\ call[c].swarm = sw}

NoCall == [stage |-> "idle", swarm |-> NoKey, key |-> NoKey, parent |-> None,
           session |-> None]
NoSalvage == [stage |-> "idle", swarm |-> NoKey, who |-> None, was |-> FALSE]

Init ==
    /\ topology = [sw \in Swarms |-> "unassigned"]
    /\ member = << >>
    /\ seat = [sw \in Swarms |-> None]
    /\ admitted = [sw \in Swarms |-> 0]
    /\ keys = [sw \in Swarms |-> << >>]
    /\ call = [c \in Calls |-> NoCall]
    /\ salvage = [v \in Salvagers |-> NoSalvage]

\* Mutant of MayAdmit: slots of sessions being built are not counted.
MayAdmitUnreserved(sw, addition) ==
    /\ admitted[sw] + addition <= MaxMembers
    /\ Cardinality(Active(sw)) + addition <= MaxActive

\* check_caps.
MayAdmit(sw, addition) ==
    LET held == Cardinality(Reservations(sw))
    IN  /\ admitted[sw] + held + addition <= MaxMembers
        /\ Cardinality(Active(sw)) + held + addition <= MaxActive

NewMember(sw, role, parent) ==
    [swarm |-> sw, role |-> role, status |-> "active", parent |-> parent]

With(joining, m) ==
    [s \in DOMAIN member \cup joining |-> IF s \in joining THEN m ELSE member[s]]

\* Ids a caller can have: that of a session being built is given out when spawn
\* returns.
Known == Sessions \ {call[c].session : c \in Calls}

\* Sessions in no swarm.
Unjoined == Known \ DOMAIN member

\* Ids that nobody has seen yet, not even as the parent of a spawn.
Unseen ==
    Unjoined \ ({call[c].parent : c \in Calls} \cup {member[s].parent : s \in DOMAIN member})

----------------------------------------------------------------------------
(* Admission. *)

\* join_as_root of a session that is not in a swarm yet.
JoinAsRoot(sw, s) ==
    /\ s \in Unjoined
    /\ topology[sw] # "pair"
    /\ MayAdmit(sw, 1)
    /\ topology' = [topology EXCEPT ![sw] = "hierarchical"]
    /\ seat' = [seat EXCEPT ![sw] = IF @ = None THEN s ELSE @]
    /\ admitted' = [admitted EXCEPT ![sw] = @ + 1]
    /\ member' = With({s}, NewMember(sw, IF seat[sw] = None THEN "coordinator"
                                         ELSE "worker", None))
    /\ UNCHANGED <<keys, call, salvage>>

\* join_as_pair; a swarm without a shape holds nothing (is_unassigned).
JoinAsPair(sw, s, t) ==
    /\ s # t
    /\ {s, t} \subseteq Unjoined
    /\ topology[sw] = "unassigned"
    /\ MayAdmit(sw, 2)
    /\ topology' = [topology EXCEPT ![sw] = "pair"]
    /\ admitted' = [admitted EXCEPT ![sw] = 2]
    /\ member' = With({s, t}, NewMember(sw, "peer", None))
    /\ UNCHANGED <<seat, keys, call, salvage>>

\* set_plan claims the hierarchical shape.
SetPlan(sw) ==
    /\ topology[sw] = "unassigned"
    /\ topology' = [topology EXCEPT ![sw] = "hierarchical"]
    /\ UNCHANGED <<member, seat, admitted, keys, call, salvage>>

\* Mutant of KeyTaken: sessions being built are not looked at.
KeySettled(sw, key) == key # NoKey /\ key \in DOMAIN keys[sw]

\* A key that already has a worker, or is building one.
KeyTaken(sw, key) ==
    /\ key # NoKey
    /\ \/ key \in DOMAIN keys[sw]
       \/ \E c \in Reservations(sw) : call[c].key = key

\* Mutant of Reserve: the swarm's shape is not looked at.
ReserveAnyShape(c, sw, parent, key) ==
    /\ call[c].stage = "idle"
    /\ ~KeyTaken(sw, key)
    /\ MayAdmit(sw, 1)
    /\ call' = [call EXCEPT ![c] = [stage |-> "reserved", swarm |-> sw, key |-> key,
                                    parent |-> parent, session |-> None]]
    /\ UNCHANGED <<topology, member, seat, admitted, keys, salvage>>

\* spawn's reserve, on any swarm, a new one too.  The request names a parent that
\* nobody looks up: it may be no member, or a member of another swarm.
Reserve(c, sw, parent, key) ==
    /\ call[c].stage = "idle"
    /\ topology[sw] # "pair"
    /\ ~KeyTaken(sw, key)
    /\ MayAdmit(sw, 1)
    /\ topology' = [topology EXCEPT ![sw] = "hierarchical"]
    /\ call' = [call EXCEPT ![c] = [stage |-> "reserved", swarm |-> sw, key |-> key,
                                    parent |-> parent, session |-> None]]
    /\ UNCHANGED <<member, seat, admitted, keys, salvage>>

\* The model is available and the session is built, under a new id, and registered.
Build(c, s) ==
    /\ call[c].stage = "reserved"
    /\ s \in Unseen
    /\ call' = [call EXCEPT ![c].stage = "built", ![c].session = s]
    /\ UNCHANGED <<topology, member, seat, admitted, keys, salvage>>

\* Any early exit of spawn releases the slot; nobody has heard of the session.
Release(c) ==
    /\ call[c].stage \in {"reserved", "built"}
    /\ call' = [call EXCEPT ![c] = [NoCall EXCEPT !.stage = "done"]]
    /\ UNCHANGED <<topology, member, seat, admitted, keys, salvage>>

\* Mutant of Confirm: the new member is not counted as admitted.
ConfirmUncounted(c) ==
    LET sw == call[c].swarm
        s  == call[c].session
    IN  /\ call[c].stage = "built"
        /\ keys' = IF call[c].key = NoKey THEN keys
                   ELSE [keys EXCEPT ![sw] = [k \in DOMAIN @ \cup {call[c].key} |->
                                                 IF k = call[c].key THEN s ELSE @[k]]]
        /\ member' = With({s}, NewMember(sw, "worker", call[c].parent))
        /\ call' = [call EXCEPT ![c] = [NoCall EXCEPT !.stage = "done"]]
        /\ UNCHANGED <<topology, seat, admitted, salvage>>

Confirm(c) ==
    LET sw == call[c].swarm
        s  == call[c].session
    IN  /\ call[c].stage = "built"
        /\ keys' = IF call[c].key = NoKey THEN keys
                   ELSE [keys EXCEPT ![sw] = [k \in DOMAIN @ \cup {call[c].key} |->
                                                 IF k = call[c].key THEN s ELSE @[k]]]
        /\ admitted' = [admitted EXCEPT ![sw] = @ + 1]
        /\ member' = With({s}, NewMember(sw, "worker", call[c].parent))
        /\ call' = [call EXCEPT ![c] = [NoCall EXCEPT !.stage = "done"]]
        /\ UNCHANGED <<topology, seat, salvage>>

\* record_completion, when the turn of a member ends (a pair's turns are driven
\* elsewhere); it may have been presumed gone meanwhile.
RecordCompletion(s) ==
    /\ s \in DOMAIN member
    /\ member[s].role # "peer"
    /\ member[s].status # "finished"
    /\ member' = [member EXCEPT ![s].status = "finished"]
    /\ UNCHANGED <<topology, seat, admitted, keys, call, salvage>>

----------------------------------------------------------------------------
(* Salvage. *)

\* A sweep finds the member stale, or the driver gives up on it; it may have
\* departed already.
SalvageBegins(v, s) ==
    /\ salvage[v].stage = "idle"
    /\ s \in DOMAIN member
    /\ salvage' = [salvage EXCEPT ![v] =
                      [stage |-> "mark", swarm |-> member[s].swarm, who |-> s,
                       was |-> seat[member[s].swarm] = s]]
    /\ UNCHANGED <<topology, member, seat, admitted, keys, call>>

SalvageMarks(v) ==
    /\ salvage[v].stage = "mark"
    /\ member' = [member EXCEPT ![salvage[v].who].status = "departed"]
    /\ salvage' = [salvage EXCEPT ![v].stage = "reparent"]
    /\ UNCHANGED <<topology, seat, admitted, keys, call>>

\* Who inherits the children of `departed': its own parent if that is active,
\* else the coordinator unless it is the departed member itself.
NewParent(sw, departed) ==
    LET grandparent == member[departed].parent
    IN  IF grandparent \in Active(sw) \ {departed} THEN grandparent
        ELSE IF seat[sw] # departed THEN seat[sw]
        ELSE None

\* Mutant of SalvageReparents: a child may be handed to itself.
SalvageReparentsAll(v) ==
    LET sw  == salvage[v].swarm
        who == salvage[v].who
    IN  /\ salvage[v].stage = "reparent"
        /\ member' = [s \in DOMAIN member |->
                         IF member[s].swarm = sw /\ member[s].parent = who
                         THEN [member[s] EXCEPT !.parent = NewParent(sw, who)]
                         ELSE member[s]]
        /\ salvage' = [salvage EXCEPT ![v] =
                          IF @.was THEN [@ EXCEPT !.stage = "elect"] ELSE NoSalvage]
        /\ UNCHANGED <<topology, seat, admitted, keys, call>>

\* reparent_children.
SalvageReparents(v) ==
    LET sw  == salvage[v].swarm
        who == salvage[v].who
        heir == NewParent(sw, who)
    IN  /\ salvage[v].stage = "reparent"
        /\ member' = [s \in DOMAIN member |->
                         IF member[s].swarm = sw /\ member[s].parent = who
                         THEN [member[s] EXCEPT !.parent = IF heir = s THEN None ELSE heir]
                         ELSE member[s]]
        /\ salvage' = [salvage EXCEPT ![v] =
                          IF @.was THEN [@ EXCEPT !.stage = "elect"] ELSE NoSalvage]
        /\ UNCHANGED <<topology, seat, admitted, keys, call>>

\* Mutant of SalvageElects: elects although the seat has been filled.
SalvageElectsAgain(v) ==
    LET sw == salvage[v].swarm
        successor == CHOOSE s \in Active(sw) : \A t \in Active(sw) : s <= t
    IN  /\ salvage[v].stage = "elect"
        /\ IF Active(sw) = {}
           THEN UNCHANGED <<seat, member>>
           ELSE /\ seat' = [seat EXCEPT ![sw] = successor]
                /\ member' = [member EXCEPT ![successor].role = "coordinator"]
        /\ salvage' = [salvage EXCEPT ![v] = NoSalvage]
        /\ UNCHANGED <<topology, admitted, keys, call>>

\* elect_coordinator: the lowest active member, if the holder is not active.
SalvageElects(v) ==
    LET sw == salvage[v].swarm
        successor == CHOOSE s \in Active(sw) : \A t \in Active(sw) : s <= t
    IN  /\ salvage[v].stage = "elect"
        /\ IF seat[sw] \in Active(sw) \/ Active(sw) = {} \/ topology[sw] = "pair"
           THEN UNCHANGED <<seat, member>>
           ELSE /\ seat' = [seat EXCEPT ![sw] = successor]
                /\ member' = [member EXCEPT ![successor].role = "coordinator"]
        /\ salvage' = [salvage EXCEPT ![v] = NoSalvage]
        /\ UNCHANGED <<topology, admitted, keys, call>>

Next ==
    \/ \E sw \in Swarms, s \in Sessions : JoinAsRoot(sw, s)
    \/ \E sw \in Swarms, s, t \in Sessions : JoinAsPair(sw, s, t)
    \/ \E sw \in Swarms : SetPlan(sw)
    \/ \E c \in Calls :
           \/ \E sw \in Swarms, parent \in Known, key \in Keys \cup {NoKey} :
                 Reserve(c, sw, parent, key)
           \/ \E s \in Sessions : Build(c, s)
           \/ Release(c)
           \/ Confirm(c)
    \/ \E s \in Sessions : RecordCompletion(s)
    \/ \E v \in Salvagers :
           \/ \E s \in Sessions : SalvageBegins(v, s)
           \/ SalvageMarks(v)
           \/ SalvageReparents(v)
           \/ SalvageElects(v)

Spec == Init /\ [][Next]_vars

----------------------------------------------------------------------------
(* Properties. *)

\* Type invariant: among the types, every member admitted is counted, once, and
\* the seat is held by a member of its swarm.
TypeOK ==
    /\ topology \in [Swarms -> {"unassigned", "hierarchical", "pair"}]
    /\ DOMAIN member \subseteq Sessions
    /\ \A s \in DOMAIN member :
           member[s] \in [swarm : Swarms, role : {"coordinator", "worker", "peer"},
                          status : {"active", "finished", "departed"},
                          parent : Sessions \cup {None}]
    /\ seat \in [Swarms -> Sessions \cup {None}]
    /\ \A sw \in Swarms : seat[sw] # None => seat[sw] \in Members(sw)
    /\ admitted \in [Swarms -> Nat]
    /\ \A sw \in Swarms : admitted[sw] = Cardinality(Members(sw))
    /\ \A sw \in Swarms : \A k \in DOMAIN keys[sw] : k \in Keys /\ keys[sw][k] \in Sessions
    /\ call \in [Calls -> [stage : {"idle", "reserved", "built", "done"},
                           swarm : Swarms \cup {NoKey}, key : Keys \cup {NoKey},
                           parent : Sessions \cup {None}, session : Sessions \cup {None}]]
    /\ salvage \in [Salvagers -> [stage : {"idle", "mark", "reparent", "elect"},
                                  swarm : Swarms \cup {NoKey},
                                  who : Sessions \cup {None}, was : BOOLEAN]]

\* Both caps hold counting the sessions still being built, so that spawns
\* racing each other cannot all read the same count and all go ahead.
WithinCaps ==
    \A sw \in Swarms :
        /\ admitted[sw] + Cardinality(Reservations(sw)) <= MaxMembers
        /\ Cardinality(Active(sw)) + Cardinality(Reservations(sw)) <= MaxActive

\* A retried spawn cannot put two workers on one task: a key has at most one
\* worker or one session being built, never both, and the worker it names is a
\* member of the swarm.
OneWorkerPerKey ==
    \A sw \in Swarms :
        /\ \A c, d \in Reservations(sw) :
               call[c].key # NoKey /\ call[c].key = call[d].key => c = d
        /\ \A c \in Reservations(sw) : call[c].key \notin DOMAIN keys[sw]
        /\ \A k \in DOMAIN keys[sw] : keys[sw][k] \in Members(sw)

\* The shapes never mix: a pair is two peers without coordinator, edges, slots
\* or keys, whatever joins, spawns and salvages are tried on it; any other
\* swarm has no peer, and one without a shape has nothing.
ShapesNeverMix ==
    \A sw \in Swarms :
        /\ topology[sw] = "pair" =>
               /\ Cardinality(Members(sw)) = 2
               /\ seat[sw] = None
               /\ Reservations(sw) = {} /\ DOMAIN keys[sw] = {}
        /\ topology[sw] = "unassigned" => Members(sw) = {} /\ Reservations(sw) = {}
        /\ \A s \in Members(sw) : member[s].role = "peer" <=> topology[sw] = "pair"

\* Two active members never both believe that they coordinate the swarm, while
\* salvages race: an active coordinator is the one in the seat.
OneLeader ==
    \A sw \in Swarms : \A s \in Active(sw) :
        member[s].role = "coordinator" => seat[sw] = s

\* Where a spawn says its worker reports to is nobody's business; but an edge is
\* moved only away from a member of the swarm that is no longer active, and only
\* to another member of the same swarm, never to oneself, while salvages of a
\* parent, a child and the coordinator overlap.
EdgesMoveInside ==
    [][\A s \in DOMAIN member :
           LET old == member[s].parent
               new == member'[s].parent
               peers == Members(member[s].swarm)
           IN  new # old => /\ old \in peers /\ member[old].status # "active"
                            /\ new \in (peers \ {s, old}) \cup {None}]_vars

\* Salvages that race do no harm: one that ends leaves nobody departed in the
\* coordinator's seat while an active member is there to take it.
SalvageVacatesSeat ==
    [][\A v \in Salvagers, sw \in Swarms :
           /\ salvage[v].stage # "idle" /\ salvage'[v].stage = "idle"
           /\ salvage[v].swarm = sw /\ Active(sw)' # {}
           => seat'[sw] # salvage[v].who]_vars

\* Report-back edges form a tree: every set of members has one whose parent is
\* not in the set.
SpawnTreeAcyclic ==
    \A S \in SUBSET DOMAIN member :
        S # {} => \E s \in S : member[s].parent \notin S

=============================================================================
