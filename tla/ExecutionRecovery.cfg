SPECIFICATION CalmSpec
CONSTANTS
    Workers = {w1}
    Operators = {o1}
    Nobody = Nobody
    None = None
    Legs = {l1}
    MaxCampaigns = 1
    MaxAttempt = 2
    CliMayHang = FALSE
    ActivityMayFail = FALSE
INVARIANTS
    TypeOK
    RetryOnlyAfterDead
    IndInv
    WriteAhead
    
PROPERTIES
    OrdersAsPromised
    PendingUntilResolved
    CyclesEnd
    DeadOrdersReconciled
    FilledOrdersRecovered
