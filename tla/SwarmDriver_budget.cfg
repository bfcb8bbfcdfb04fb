\* The defaults, scaled down: the driver's concurrency equals the swarm's
\* max_active, of which the coordinator takes one.
CONSTANTS
    NoActor = NoActor
    Deep = FALSE
    ReclaimLimit = 1
    Concurrency = 2
    MaxDispatches = 4
    MaxActive = 2
    MaxMembers = 5
    Meddled = {}
    Actors <- Everyone
    Works <- PlainWorks
SPECIFICATION Spec
PROPERTY BudgetOnlyDelays
CHECK_DEADLOCK FALSE
