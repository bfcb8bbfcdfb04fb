\* A chain of two tasks or a fan-out of three, nobody interfering: a task whose
\* worker cannot be started.
CONSTANTS
    NoActor = NoActor
    Deep = FALSE
    ReclaimLimit = 1
    Concurrency = 2
    MaxDispatches = 4
    MaxActive = 3
    MaxMembers = 5
    Meddled = {}
    Actors <- Everyone
    Works <- PlainWorks
SPECIFICATION Spec
INVARIANT NothingStranded
CHECK_DEADLOCK FALSE
