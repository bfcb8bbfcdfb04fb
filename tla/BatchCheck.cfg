\* Every batch of at most three specs with at most two dependencies each.
CONSTANTS
    Actors = {}
    NoActor = NoActor
    Deep = FALSE
    ReclaimLimit = 0
    MaxLen = 3
    MaxDeps = 2
    Batches <- AllBatches
SPECIFICATION Spec
INVARIANTS
    TypeOK
    VerdictIsRight
    BlameIsRight
PROPERTY Answers
CHECK_DEADLOCK FALSE
