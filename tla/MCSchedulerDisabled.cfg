SPECIFICATION Safety
CONSTANTS
    k1 = k1
    k2 = k2
    None = None
    Deleted = Deleted
    Schedules <- TwoSchedules
    Ticks <- OneTick
    Crons <- MCCrons
    MaxTime = 2
    MaxRequests = 1
    MaxCrashes = 0
    MaxFailures = 0
PROPERTIES
    DisabledNeverFires
CHECK_DEADLOCK FALSE
