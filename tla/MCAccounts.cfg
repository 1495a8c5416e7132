CONSTANTS
    e1 = e1
    e2 = e2
    gh = gh
    go = go
    r1 = r1
    r2 = r2
    None = None
    NUsers = 3
    Emails <- MCEmails
    GitHubs <- MCGitHubs
    Googles <- MCGoogles
    Requests <- MCRequests
    MaxTries = 2
    MaxIssued = 2
    MaxRequests = 4
SYMMETRY MCSymmetry
SPECIFICATION Spec
CHECK_DEADLOCK FALSE
INVARIANTS
    SharedOnlyByRace
    OneTimeSecrets
    NoWeakSession
    DeletionEndsSessions
    NobodyLockedOut
