SPECIFICATION Spec
CONSTANTS
    Workers = {w1, w2}
    Operators = {}
    Nobody = Nobody
    None = None
    Legs = {l1}
    MaxCampaigns = 1
    MaxAttempt = 1
    CliMayHang = TRUE
    ActivityMayFail = FALSE
INVARIANTS
    CompletedOnlyFilled
    ClosedOnlyResolved
PROPERTIES
    LeaseAsPromised
