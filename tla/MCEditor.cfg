SPECIFICATION EditorSpec
CONSTANTS
    Users = {owner}
    Names = {n1}
    FreeKeys = {url}
    Texts = {v1, v2, v3}
    LongTexts = {}
    Prices = {}
    MaxU64 = 9
    Rent = 0
    None = None
    Tabs = {tab1, tab2}
    Polls = 1
    MaxBatches = 1
    MaxVersion = 3
INVARIANTS
    FailureIsDefinite
PROPERTIES
    ConfirmedOrOvertaken
    WriteReplacesWhatWasRead
    WaitEnds
