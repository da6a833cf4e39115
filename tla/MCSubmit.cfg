SPECIFICATION FairSpec
CONSTANTS
    a = a
    b = b
    c = c
    None = None
    Keys = {a, b, c}
    WatchOnly = {c}
    MaxSeen = 2
    MaxCalls = 2
    MaxSwitches = 2
INVARIANTS ProvenVerifierGuards MutationsAccounted SignersToldTrue LearnedSignerTriedFirst
PROPERTY SubmitEnds
CHECK_DEADLOCK FALSE
