SPECIFICATION Spec
CONSTANTS
    a1 = a1
    a2 = a2
    a3 = a3
    b1 = b1
    b2 = b2
    Tasks <- MCTasks
    Clients = {"a", "b"}
    Workspaces = {"w1", "w2"}
    ClientOf <- MCClientOf
    WorkspaceOf <- MCWorkspaceOf
    MaxInflight = 1
    ClientQuota = 2
    WorkspaceQuota = 2
    GlobalQuota = 3
    MaxQueueLength = 2
    Cost <- MCCost
    Weight <- MCWeight
    PriorityGain <- MCPriorityGain
    Quantum = 1
    AgingTicks = 1
    AgingBoost = 2
    Modes = {"on", "off"}
    MaxDeficit = 4
INVARIANTS
    TotalsCountJobs
    QuotasHold
    NoStarvation
SYMMETRY PairSymmetry
