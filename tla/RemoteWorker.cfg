\* One task leased twice: the second lease follows an expired or released first one.
SPECIFICATION FairSpec
CONSTANTS
    u = u
    v = v
    ku = ku
    kv = kv
    Tasks = {t1}
    Keys <- MCKeys
    Workers <- MCWorkers
    KeysOf <- OwnKey
    None = None
    TTL = 2
    MaxClock = 3
    MaxFence = 2
    MaxCancels = 1
INVARIANTS
    OneWorkerPerFence
    CancelHitsItsTarget
    RecordedCompletionIsFinal
PROPERTIES
    SupersededStops
    CancelIsSeen
CHECK_DEADLOCK FALSE
