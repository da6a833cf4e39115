SPECIFICATION Spec
CONSTANTS
    a = a
    b = b
    None = None
    Waiting = Waiting
    Users = {a, b}
    Name = n
    Quotes <- MCQuotes
    MaxSteps = 2
    MaxSwitches = 0
    MaxTrades = 1
INVARIANT FreshAfterTrade
CHECK_DEADLOCK FALSE
