SPECIFICATION Spec
CONSTANTS
    Employees = {clerk}
    Parttime = {}
    Seeded <- Default
    SeededWorkdays <- Weekdays
    GlobalForms <- Forms
    Requirements <- Weekly
    OverrideForms <- AllDaysOff
    Admins = {a1, a2}
    Posts = 1
    Restarts = 0
INVARIANTS AllOffInherits
CHECK_DEADLOCK FALSE
