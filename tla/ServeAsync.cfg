\* Two dispatchers, two tasks, both queues small enough to fill.
SPECIFICATION FairSpec
CONSTANTS
    Tasks = {t1, t2}
    Dispatchers = {1, 2}
    IngestCapacity = 1
    ReportCapacity = 2
    NoTask = NoTask
INVARIANTS
    QueuesAccountForWork
    ExitFlushesReports
PROPERTY
    ShutdownEnds
CHECK_DEADLOCK FALSE
