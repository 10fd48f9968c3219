CONSTANTS
    Worker = {a, b}
    KEYS = 3
    Key = {0, 1, 2}
    BATCH = 2
    None = None
    MaxEpoch = 3
    MaxErrors = 2
    FENCING = TRUE
SPECIFICATION FairSpec
INVARIANTS  RelayInv
PROPERTIES PaidOncePerEpoch EveryKeyIsPaid
