SPECIFICATION Spec
CONSTANTS
    LastDay = 3
    FirstWeekday = 5
    Workdays = {0, 1}
    Clock <- Moments
    Sched <- MCSched
    WeeklyMinutes = 120
    WeeklyMinDays = 2
    Fulltime = {1}
    Parttime = {2}
    Floor <- FromTheStart
    MayPunch <- Punches
    HolidaySettings <- Settings
    HOLIDAY_REEVAL_DAYS = 7
    Edits = 1
INVARIANTS TypeOK PagesAgree CardsAgree EveryWorkdayCounts WeekSameInAnyRange
PROPERTIES WeekMetStays NoFewerSessions
CHECK_DEADLOCK FALSE
