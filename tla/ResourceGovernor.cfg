SPECIFICATION GovernorSpec
CONSTANTS
    Resources <- MCResources
    LeaseKeys = {k1, k2, k3}
    Clients = {"a", "b"}
    Requests <- MCRequests
    Limit <- MCLimit
    ClientLimit <- MCClientLimit
    Threshold = 2
    Cooldown = 2
    NotLeased = NotLeased
INVARIANTS
    GovernorTypeOK
    UsageIsHeld
    BudgetsHold
    HalfOpenOnProbation
PROPERTIES
    DrainOnlyReleases
