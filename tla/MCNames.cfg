SPECIFICATION Spec
CONSTANTS
    Users = {alice, bob}
    Names = {n1}
    FreeKeys = {url}
    Texts = {short, long}
    LongTexts = {long}
    Prices = {}
    MaxU64 = 3
    Rent = 2
    Funds = 9
    TokenFunds = 0
    None = None
INVARIANTS
    TypeOK
    EpochFixesOwner
    RentExempt
PROPERTIES
    NoRecordRevival
    NoPrimaryRevival
    RegistrationIsPermanent
SYMMETRY Symmetry
CHECK_DEADLOCK FALSE
