\* One swarm of four, grown by two spawns, and one salvager.
CONSTANTS
    Swarms = {sw1}
    Sessions = {1, 2, 3, 4}
    Keys = {}
    NoKey = NoKey
    Calls = {c1, c2}
    Salvagers = {sweeper}
    MaxMembers = 4
    MaxActive = 4
SPECIFICATION Spec
SYMMETRY Symmetry
INVARIANT SpawnTreeAcyclic
CHECK_DEADLOCK FALSE
