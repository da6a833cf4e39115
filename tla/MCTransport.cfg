SPECIFICATION Spec
CONSTANTS
    Keys = {k}
    Readers = {r, s}
    TTL = 2
    Retries = 2
    MaxDelay = 1
    None = None
    Waiting = Waiting
    Failed = Failed
    MaxTime = 4
    MaxFails = 1
    MaxWrites = 1
    MaxCalls = 1
INVARIANTS CacheFresh ReachesUpstream
PROPERTIES ReadsRecover RetriesBounded
CHECK_DEADLOCK FALSE
