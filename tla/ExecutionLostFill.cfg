SPECIFICATION Spec
CONSTANTS
    Workers = {w1}
    Operators = {}
    Nobody = Nobody
    None = None
    Legs = {l1}
    MaxCampaigns = 1
    MaxAttempt = 1
    CliMayHang = FALSE
    ActivityMayFail = FALSE
INVARIANTS
    VerifiedFillRecorded
