SPECIFICATION Spec
CONSTANTS
    Notifications = {1}
    Devices = {phone, tablet}
    Workers = {w1, w2}
    FcmSettings = {"enabled", "disabled"}
    MaxRetries = 0
    SWEEP_MAX_ATTEMPTS = 2
    SWEEP_BATCH = 1
    Faults = 1
    QueueBound = 1
INVARIANTS TypeOK GiveUpIsEarned AttemptsNeverOverstate
CHECK_DEADLOCK FALSE
