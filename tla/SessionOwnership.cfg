\* Two processes with a further user of one's store handle, a prune, and three
\* claims in all: a hand-over, a return, and a claim after a crash.
CONSTANTS
    r1 = r1
    r2 = r2
    c1 = c1
    Runtimes <- MCRuntimes
    Clones <- MCClones
    Handle <- MCHandle
    Pruner = Pruner
    None = None
    MaxClaims = 3
    MaxGen = 3
    MaxLog = 4
    MaxPrunes = 1
SPECIFICATION Spec
INVARIANTS
    TypeOK
    OneWriter
    OneOwner
    HandOverIsFrozen
CHECK_DEADLOCK FALSE
