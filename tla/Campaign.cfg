SPECIFICATION BookSpec
CONSTANTS
    Strikes = {10, 12, 15}
    Spots = {9, 13, 16}
    Prices = {0, 1, 3}
    Powers = {2, 50}
    Caps = {4}
    Quantities = {1, 2}
    MinOpen = 1
    MinNet = 1
    MaxCash = 5
    None = None
INVARIANTS
    TypeOK
    DecisionLegal
    AirlockActs
    CampaignBounded
    ClaimsOnlyFills
    ValueIsSaved
    BooksMatchCash
PROPERTIES
    RollsLowerExposure
