SPECIFICATION Spec
CONSTANTS
    Tasks = {t1, t2}
    MaxAttempts = 2
    TTLs = {1, 2}
    Backoffs = {0, 1}
    MaxClock = 3
    MaxLeases = 3
INVARIANTS
    TypeOK
    LeasesUnique
    JournalNeverAhead
PROPERTIES
    NewestLeaseDecides
    CompletionIsFinal
CHECK_DEADLOCK FALSE
SYMMETRY Symmetry
