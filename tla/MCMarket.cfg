SPECIFICATION MarketSpec
CONSTANTS
    Users = {alice, bob, carol}
    Names = {n1}
    FreeKeys = {}
    Texts = {}
    LongTexts = {}
    Prices = {0, 1}
    MaxU64 = 1
    Rent = 1
    Funds = 2
    TokenFunds = 1
    None = None
INVARIANTS
    ListingBelongsToOwner
    EscrowMatchesOffer
PROPERTIES
    Conservation
    SaleSettles
    ImplementsMarket
SYMMETRY Symmetry
CHECK_DEADLOCK FALSE
