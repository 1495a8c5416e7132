SPECIFICATION BackendSpec
CONSTANTS
    u1 = u1
    u2 = u2
    r1 = r1
    Absent = Absent
    Updates <- TwoUpdates
    InPlace <- OneUpdate
    Readers <- OneReader
    MaxReadErrors = 1
    MaxWriteErrors = 1
    MaxDeaths = 1
    MaxTransactions = 1
    n1 = n1
    w1 = w1
    w2 = w2
    a1 = a1
    a2 = a2
    NoBatch = NoBatch
    Notes <- MCNotes
    Ticks <- MCTicks
    Admins <- MCAdmins
    MaxNoteTries = 2
    MaxSends = 2
    MaxFailed = 3
    None = None
    Paths <- MCPaths
    Lines <- MCLines
    Groups <- MCGroups
    Packages <- MCPackages
    HomeOf <- MCHomeOf
    RpmName <- MCRpmName
    RpmUnit <- MCRpmUnit
    Within <- MCWithin
    Scenarios <- MCScenarios
    MaxFaults = 2
    Known = {"nginx", "git"}
    Bashrc = "bashrc"
    ConfigPaths <- MCConfigPaths
    LongFrom = 6
    Sources <- MCSources
    Fresh <- MCFresh
    ServiceLikely = {"nginx"}
    Softwares <- MCSoftwares
    MaxComponents = 1
    NoText = NoText
    Fragment = Fragment
    MaxMishaps = 1
    MaxOrders = 4
    Builds <- MCBuilds
    AlterVersion = 2
    Legacy <- MCLegacy
    LegacyComments = {"c1"}
    Newcomers <- MCNewcomers
    NoDocument = NoDocument
    Asked <- MCAsked
    NoUsername = NoUsername
    MaxStarts = 3
    MaxStartFaults = 2
    Shipped = {a}
    Others = {n}
    Editors = {e1, e2}
    NoItem = NoItem
    MaxEdits = 4
    Installable <- MCInstallable
    NoRule = NoRule
    MaxSteps = 4
CHECK_DEADLOCK FALSE
INVARIANTS
    NotifiedAgainOnlyIfUncommitted
    
    UpdatesStayUnlessWiped
    ReadsSeeAcknowledged
    
    AnnouncedBeforehand
    RestoredIsWhatWasThere
    NothingIsHalfMigrated
    
    
    CatalogIsWhole
    NothingIsPlannedSilently
