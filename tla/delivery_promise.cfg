SPECIFICATION FairSpec
CONSTANTS
    Notifications = {1}
    Devices = {phone, tablet}
    Workers = {w1}
    FcmSettings = {"enabled"}
    MaxRetries = 1
    SWEEP_MAX_ATTEMPTS = 1
    SWEEP_BATCH = 1
    Faults = 1
    QueueBound = 1
PROPERTIES KeepsPromise
CHECK_DEADLOCK FALSE
