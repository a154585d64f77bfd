SPECIFICATION Spec
CONSTANTS
    Executors = {w1}
    Viewers = {v1}
    Limit = 3
    MaxTime = 2
    MaxRows = 4
SYMMETRY Symmetry
INVARIANTS
    AlwaysVerified
