SPECIFICATION FairSpec
CONSTANTS
    t1 = t1
    t2 = t2
    a = a
    b = b
    Workers = {"u", "v"}
    MaxCandidates = 2
    NoTask = NoTask
    NoClaim = NoClaim
    MayCrash = FALSE
    Tasks <- MCTasks
    Clients <- MCClients
    Workspaces = {"w"}
    ClientOf <- OwnClient
    WorkspaceOf <- MCWorkspaceOf
    MaxInflight = 2
    ClientQuota = 2
    WorkspaceQuota = 2
    GlobalQuota = 2
    MaxQueueLength = 2
    Resources = {"cpu"}
    Requests <- MCRequests
    Limit <- OneAtATime
    ClientLimit <- NoClientLimit
    Threshold = 1
    Cooldown = 0
    NotLeased = NotLeased
    MaxAttempts = 2
    TTLs = {1}
    Backoffs = {0}
    MaxClock = 0
    MaxLeases = 2
PROPERTY EveryJobEnds
