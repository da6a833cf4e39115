SPECIFICATION Spec
CONSTANTS
    a = a
    b = b
    r1 = r1
    r2 = r2
    r3 = r3
    None = None
    Accounts = {a, b}
    Requests = {r1, r2, r3}
    MaxWrites = 2
    MaxSwitches = 2
INVARIANT CacheMovesForward
PROPERTY LoadsSettle
CHECK_DEADLOCK FALSE
