SPECIFICATION Spec
CONSTANTS
    a = a
    b = b
    Names <- MCNames
    LabelLength <- MCLabelLength
    Accounts = {a, b}
    Histories <- MCHistories
    Sessions <- MCSessions
    QuoteDecimals <- MCDecimals
    Reserve = 10
    Amounts <- MCAmounts
    PageSize = 2
    Pages = 2
    RecentLimit = 2
    None = None
    Waiting = Waiting
    Failed = Failed
    MaxLag = 1
    MaxFlight = 2
    MaxFails = 1
    MaxSwitches = 1
INVARIANTS EmptyClaimsTrue TimelineTrue MarketTrue OfferAffordable
PROPERTIES LatestShown
CHECK_DEADLOCK FALSE
