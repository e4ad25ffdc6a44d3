SPECIFICATION FairSpec
CONSTANTS
    LastDay = 2
    Workdays = {0, 1, 2}
    HolidayDays = {1}
    Employees = {1, 2}
    Floor <- HiredLater
    ConfiguredStart = 0
    HOLIDAY_REEVAL_DAYS = 7
    Workers = {worker}
    Portals = {portal}
    MayCome <- Punches
    Edits = 1
    Faults = 1
INVARIANTS TypeOK NoDaySkipped
PROPERTIES EventuallyRight
CHECK_DEADLOCK FALSE
