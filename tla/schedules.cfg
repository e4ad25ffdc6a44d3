SPECIFICATION Spec
CONSTANTS
    Employees = {clerk}
    Parttime = {clerk}
    Seeded <- Default
    SeededWorkdays <- Weekdays
    GlobalForms <- Forms
    Requirements <- Weekly
    OverrideForms <- Overrides
    Admins = {a1, a2}
    Posts = 5
    Restarts = 1
INVARIANTS TypeOK GlobalOrderedUntilSeeded EffectiveOrderedUntilGlobalChanges EmptyOverrideIsDropped
CHECK_DEADLOCK FALSE
