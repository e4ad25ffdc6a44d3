SPECIFICATION FairSpec
CONSTANTS
    Sched <- DefaultSched
    IsFulltime = TRUE
    IsWorkday = TRUE
    BridgingRequired = FALSE
    Clock <- MorningClock
    OTStarts = {}
    Holidays <- OrdinaryDay
    ManualTypes = {}
    LossyListener = FALSE
INVARIANTS LiveAgreesWithBatch
PROPERTIES SyncAgreesWithRules EventuallySettled
CHECK_DEADLOCK FALSE
