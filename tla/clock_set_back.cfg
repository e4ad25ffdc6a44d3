SPECIFICATION Spec
CONSTANTS
    LastDay = 1
    Workdays = {0, 1}
    HolidayDays = {}
    Employees = {1}
    Floor <- AllFromTheStart
    ConfiguredStart = 0
    HOLIDAY_REEVAL_DAYS = 7
    Workers = {worker}
    Portals = {}
    MayCome = {}
    Edits = 0
    Faults = 1
INVARIANT FinalizedMeansRecorded
CHECK_DEADLOCK FALSE
