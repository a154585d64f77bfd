SPECIFICATION Spec
CONSTANTS
    Workers = {w1, w2}
    Operators = {o1}
    Nobody = Nobody
    Ttl = 6
    Patience = 1
    Delay = 1
    MaxTime = 12
    MaxTokens = 3
SYMMETRY Symmetry
INVARIANTS
    TypeOK
    LeaseInv
    AtMostOnePrompt
    RenewedNeverLapses
PROPERTIES
    KeepsPromise
