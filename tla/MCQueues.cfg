SPECIFICATION QueuesSpec
CONSTANTS
    c1 = c1
    c2 = c2
    k1 = k1
    k2 = k2
    k3 = k3
    k4 = k4
    NoConn = NoConn
    Conns <- MCConns
    Tasks <- MCTasks
    m1 = m1
    m2 = m2
    m3 = m3
    t1 = t1
    t2 = t2
    Mails <- MCMails
    To <- MCTo
    Limit = 1
    MaxMailAttempts = 2
    MaxLog = 1
    MaxLogFailures = 2
    w1 = w1
    alice = alice
    bob = bob
    com1 = com1
    Nobody = Nobody
    Requests <- MCRequests
    Workers <- OneWorker
    EscalateAbove = 0
    MaxAttempts = 2
    MaxFailures = 2
    MaxCrashes = 1
CHECK_DEADLOCK FALSE
INVARIANTS
    SentAgainOnlyIfUnlogged
    LimitHolds
    CommittedWhole
PROPERTIES
    ImplementsLine
    EveryMailSettles
    EveryTaskSettles
