\* A light plan: one seed of up to two tasks, grown to four by expansion and
\* injection, worked on by two actors.
CONSTANTS
    alice = alice
    bob = bob
    Actors = {alice, bob}
    NoActor = NoActor
    Deep = FALSE
    ReclaimLimit = 1
    Keys = {"k1"}
    MaxNodes = 4
    Batches <- SomeBatches
SPECIFICATION Spec
SYMMETRY Symmetry
INVARIANTS
    TypeOK
    Acyclic
    InputsComplete
    NoStall
    WorkIsAwaited
    JoinSeesChildren
PROPERTIES
    EndsAreFinal
    CascadeIsExact
CHECK_DEADLOCK FALSE
