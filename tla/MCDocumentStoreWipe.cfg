SPECIFICATION BackendSpec
CONSTANTS
    u1 = u1
    u2 = u2
    r1 = r1
    Absent = Absent
    Updates <- TwoUpdates
    InPlace <- NoCalls
    Readers <- OneReader
    MaxReadErrors = 1
    MaxWriteErrors = 0
    MaxDeaths = 0
    MaxTransactions = 0
    n1 = n1
    w1 = w1
    w2 = w2
    a1 = a1
    a2 = a2
    NoBatch = NoBatch
    Notes <- MCNotes
    Ticks <- MCTicks
    Admins <- MCAdmins
    MaxNoteTries = 2
    MaxSends = 0
    MaxFailed = 0
    None = None
    Paths <- MCPaths
    Lines <- MCLines
    Groups <- MCGroups
    Packages <- MCPackages
    HomeOf <- MCHomeOf
    RpmName <- MCRpmName
    RpmUnit <- MCRpmUnit
    Within <- MCWithin
    Scenarios <- MCScenarios
    MaxFaults = 0
    Known = {"nginx", "git"}
    Bashrc = "bashrc"
    ConfigPaths <- MCConfigPaths
    LongFrom = 6
    Sources <- MCSources
    Fresh <- MCFresh
    ServiceLikely = {"nginx"}
    Softwares <- MCSoftwares
    MaxComponents = 1
    NoText = NoText
    Fragment = Fragment
    MaxMishaps = 0
    MaxOrders = 0
    Builds <- MCBuilds
    AlterVersion = 2
    Legacy <- MCLegacy
    LegacyComments = {"c1"}
    Newcomers <- MCNewcomers
    NoDocument = NoDocument
    Asked <- MCAsked
    NoUsername = NoUsername
    MaxStarts = 1
    MaxStartFaults = 0
    Shipped = {a}
    Others = {n}
    Editors = {e1, e2}
    NoItem = NoItem
    MaxEdits = 0
    Installable <- MCInstallable
    NoRule = NoRule
    MaxSteps = 0
CHECK_DEADLOCK FALSE
INVARIANTS
    NoUpdateIsLost
