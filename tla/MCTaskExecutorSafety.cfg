SPECIFICATION Safety
CONSTANTS
    c1 = c1
    t1 = t1
    t2 = t2
    NoConn = NoConn
    Conns <- OneConn
    Tasks <- TwoTasks
    BatchTasks <- OneTask
    CountedTasks <- TwoTasks
    NItems = 2
    MaxCrashes = 1
    MaxFailures = 1
CHECK_DEADLOCK FALSE
INVARIANTS
    OutcomeMatchesItems
    NoStrandedHistory
    RecordedSuccessIsReal
