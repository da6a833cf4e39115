SPECIFICATION Spec
CONSTANTS
    a = a
    w = w
    None = None
    Accounts = {a, w}
    WatchOnly = {w}
    WALLET_POLL_ATTEMPTS = 2
    DETECT_ATTEMPTS = 2
    MaxEvents = 1
    MaxClicks = 2
    MaxPrompts = 2
INVARIANT PromptAccounted
PROPERTIES LockNeverFromStaleRead WatchNotices ButtonReturns
CHECK_DEADLOCK FALSE
