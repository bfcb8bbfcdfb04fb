\* A plan of two tasks, one of them a gate, two at a time, with the limits the
\* swarm command derives (max_active = concurrency + 1), at most four workers
\* ever, and an owner who may abandon the gate.
CONSTANTS
    NoActor = NoActor
    Deep = FALSE
    ReclaimLimit = 2
    Concurrency = 2
    MaxDispatches = 4
    MaxActive = 3
    MaxMembers = 5
    Meddled = {2}
    Actors <- Everyone
    Works <- GatedWorks
SPECIFICATION Spec
INVARIANTS
    TypeOK
    AssignedIsAttended
    FreshWorker
    StopsWhenIdle
    ReclaimsAreLosses
PROPERTIES
    RunEnds
    PlanIsShared
CHECK_DEADLOCK FALSE
