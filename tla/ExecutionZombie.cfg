SPECIFICATION Spec
CONSTANTS
    Workers = {w1, w2}
    Operators = {}
    Nobody = Nobody
    None = None
    Legs = {l1}
    MaxCampaigns = 1
    MaxAttempt = 2
    CliMayHang = TRUE
    ActivityMayFail = FALSE
INVARIANTS
    AtMostOneLiveOrder
