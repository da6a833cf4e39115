SPECIFICATION SlotSpec
CONSTANTS
    Users = {alice, bob}
    Names = {n1}
    FreeKeys = {url}
    Texts = {v1, v2}
    LongTexts = {}
    Prices = {}
    MaxU64 = 3
    Rent = 0
    Funds = 0
    TokenFunds = 0
    None = None
INVARIANTS
    ResolvedWasLive
SYMMETRY Symmetry
CHECK_DEADLOCK FALSE
