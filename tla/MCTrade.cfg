SPECIFICATION Spec
CONSTANTS
    a = a
    b = b
    None = None
    Waiting = Waiting
    Users = {a, b}
    Name = n
    Quotes <- MCQuotes
    MaxSteps = 3
    MaxSwitches = 1
    MaxTrades = 1
INVARIANTS ShownForViewer
PROPERTIES TradeSettlesAsShown
CHECK_DEADLOCK FALSE
