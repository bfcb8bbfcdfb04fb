\* A deep plan: one seed of up to two tasks and its gate, grown to five nodes by
\* expansion and injection (the gate itself may be expanded), two actors, the
\* first loss of a worker failing the task.
CONSTANTS
    alice = alice
    bob = bob
    Actors = {alice, bob}
    NoActor = NoActor
    Deep = TRUE
    ReclaimLimit = 0
    Keys = {"k1"}
    MaxNodes = 5
    Batches <- DeepBatches
SPECIFICATION Spec
SYMMETRY Symmetry
INVARIANTS
    GateReviewsSeed
    ReplaysAgree
CHECK_DEADLOCK FALSE
