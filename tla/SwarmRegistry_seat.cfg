\* One swarm of up to three, and two sweeps that overlap.
CONSTANTS
    Swarms = {sw1}
    Sessions = {1, 2, 3}
    Keys = {}
    NoKey = NoKey
    Calls = {c1, c2}
    Salvagers = {sweep1, sweep2}
    MaxMembers = 3
    MaxActive = 4
SPECIFICATION Spec
SYMMETRY Symmetry
PROPERTY SalvageVacatesSeat
CHECK_DEADLOCK FALSE
