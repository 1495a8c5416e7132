SPECIFICATION Safety
CONSTANTS
    c1 = c1
    t1 = t1
    t2 = t2
    NoConn = NoConn
    Conns <- OneConn
    Tasks <- OneTask
    BatchTasks <- OneTask
    CountedTasks <- OneTask
    NItems = 1
    MaxCrashes = 0
    MaxFailures = 0
INVARIANTS
    InstallsMatchItems
CHECK_DEADLOCK FALSE
