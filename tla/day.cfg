SPECIFICATION Spec
CONSTANTS
    Sched <- DefaultSched
    IsFulltime = TRUE
    IsWorkday = TRUE
    BridgingRequired = FALSE
    Clock <- FullClock
    OTStarts <- OvertimeStarts
    Holidays <- AnyHoliday
    ManualTypes = {"AM_IN", "PM_IN"}
    LossyListener = TRUE
INVARIANTS TypeOK OneDeviceRowPerInstant TablesFollowLogs NoAbsenceWhileOpen OvertimeWithinWindow
PROPERTIES ManualRowsKept RegenerateRepairs
CHECK_DEADLOCK FALSE
