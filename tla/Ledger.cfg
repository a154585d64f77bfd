SPECIFICATION Spec
CONSTANTS
    Executors = {w1, w2}
    Viewers = {v1}
    Limit = 4
    MaxTime = 2
    MaxRows = 4
SYMMETRY Symmetry
INVARIANTS
    TypeOK
    LedgerInv
    FittingVerified
    ForkDetected
