\* One swarm, three sessions, three spawns with or without the same key, two
\* salvagers; room for three members, two of them active.  A parent outside the
\* swarm is a session that has not joined it.
CONSTANTS
    Swarms = {sw1}
    Sessions = {1, 2, 3}
    Keys = {k1}
    NoKey = NoKey
    Calls = {c1, c2, c3}
    Salvagers = {driver, sweeper}
    MaxMembers = 3
    MaxActive = 2
SPECIFICATION Spec
SYMMETRY Symmetry
INVARIANTS
    TypeOK
    WithinCaps
    OneWorkerPerKey
    ShapesNeverMix
    OneLeader
PROPERTY EdgesMoveInside
CHECK_DEADLOCK FALSE
