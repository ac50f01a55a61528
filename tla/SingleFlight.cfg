\* Four clients of one key and two changes of its source.
SPECIFICATION FairSpec
CONSTANTS
    Clients = {c1, c2, c3, c4}
    MaxInvalidations = 2
INVARIANTS
    OneOwner
    ReferencesCountHandles
PROPERTIES
    BuiltOncePerGeneration
    EveryCallReturns
CHECK_DEADLOCK FALSE
