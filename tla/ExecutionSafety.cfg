SPECIFICATION Spec
CONSTANTS
    Workers = {w1}
    Operators = {o1}
    Nobody = Nobody
    None = None
    Legs = {l1, l2}
    MaxCampaigns = 2
    MaxAttempt = 1
    CliMayHang = FALSE
    ActivityMayFail = FALSE
SYMMETRY Symmetry
INVARIANTS
    AtMostOneLiveOrder
    OpenOnlyFromFlat
    NoStaleCampaign
