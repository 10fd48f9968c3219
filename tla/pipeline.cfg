CONSTANTS
    N = 2
    BATCH = 2
    MaxFailures = 3
SPECIFICATION FairSpec
INVARIANTS PublishedIsInTheTopic EffectsDoNotDuplicate
PROPERTY EveryChargeIsPublished
CHECK_DEADLOCK FALSE
