\* Four rounds, so that an agreement can be undone and given again by each peer;
\* turns that cost nothing or more than half the slot's budget; a revision space
\* that ends before the rounds do.
CONSTANTS
    First = First
    Second = Second
    None = None
    Contents = {x, y}
    Costs = {0, 2}
    MaxRounds = 4
    SlotBudget = 3
    MaxRevision = 7
SPECIFICATION Spec
INVARIANTS
    TypeOK
    InformedConsent
    ProgressIsTrue
PROPERTY PairEnds
CHECK_DEADLOCK FALSE
