CONSTANTS
    N = 1
    BATCH = 1
    MaxFailures = 1
SPECIFICATION FairSpec
PROPERTY EveryChargeTakesEffect
CHECK_DEADLOCK FALSE
