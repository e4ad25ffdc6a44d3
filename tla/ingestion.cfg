SPECIFICATION FairSpec
CONSTANTS
    Clock <- DayClock
    Sched <- DefaultSched
    Now <- Evening
    Listener = listener
    SyncTasks = {sync}
    Faults = 1
INVARIANTS TypeOK OneCleanRunHeals BatchIsStored EachFaultLosesOneNotification AloneIsAtomic
PROPERTIES EventuallyConsistent
CHECK_DEADLOCK FALSE
