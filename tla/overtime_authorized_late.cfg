SPECIFICATION Spec
CONSTANTS
    Sched <- DefaultSched
    IsFulltime = TRUE
    IsWorkday = TRUE
    BridgingRequired = FALSE
    Clock <- OvertimeClock
    OTStarts <- OvertimeStarts
    Holidays <- OrdinaryDay
    ManualTypes = {}
    LossyListener = FALSE
PROPERTIES OvertimeAccruesOnAuthorize
CHECK_DEADLOCK FALSE
