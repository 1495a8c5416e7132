SPECIFICATION Spec
CONSTANTS
    k1 = k1
    k2 = k2
    None = None
    Deleted = Deleted
    Schedules <- OneSchedule
    Ticks <- TwoTicks
    Crons <- MCCrons
    MaxTime = 2
    MaxRequests = 2
    MaxCrashes = 1
    MaxFailures = 1
CHECK_DEADLOCK FALSE
INVARIANTS
    SlotFiresOnce
PROPERTIES
    DueIsServed
