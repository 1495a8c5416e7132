SPECIFICATION Spec
CONSTANTS
    People = {u1, u2, u3}
    Founders = {u1, u2}
    NoAdmin = NoAdmin
    Keys = {k1, k2, k3}
    Uploads = {r1, r2}
    NoKey = NoKey
    MaxChanges = 4
    Texts = {t1, t2}
    Tabs = {x1, x2}
    Cap = 2
    MaxVersion = 6
    Machines <- MCMachines
    SectionOrder <- MCSections
    SystemNames <- MCSystemNames
    Fragment0 = Fragment0
    Probes = {p1, p2}
    MaxMoments = 2
    MaxProbes = 3
    Writers = {w1, w2}
    MaxWrites = 3
    MaxSlips = 1
    LastMinute <- MCLast
    Calendar <- MCCalendar
    NextHour <- MCNextHour
    NextDay <- MCNextDay
    NextMonth <- MCNextMonth
    Horizon <- MCHorizon
    Exprs <- MCExprs
    Froms <- MCFroms
    Schemas <- MCSchemas
    Values = {"a", "b", "true", "false"}
    Unset = Unset
    Always = Always
    Cards = {c1, c2}
    WithForm = {c1}
    NoCard = NoCard
    MaxClicks = 4
    Docs = {d1, d2}
    NoDoc = NoDoc
    MaxActs = 5
    Users = {v1, v2}
    NoUser = NoUser
    Letters = {l1, l2}
    MaxTurns = 3
    Jobs = {j1, j2}
    NoJob = NoJob
    MaxPresses = 4
INVARIANTS
    SomeAdminRemains
    KeysAreListed
    LastTextsAreKept
    ReportIsSound
    BackupIsTheFirstText
    FoundIsNext
    SeenIsChecked
    RunsWhatWasShown
    
    
    PageFollowsItsTasks
CHECK_DEADLOCK FALSE
