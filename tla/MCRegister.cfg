SPECIFICATION Spec
CONSTANTS
    Names = {m, n}
    Accounts = {a, b}
    Rival = r
    None = None
    Missing = Missing
    Blank = Blank
    Junk = Junk
    Uncached = Uncached
    MaxRuns = 2
    MaxEdits = 2
    MaxSwitches = 1
    MaxSearches = 1
INVARIANT NoticesTrue
PROPERTY RunsOneAtATime
CHECK_DEADLOCK FALSE
