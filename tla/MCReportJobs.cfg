SPECIFICATION FairSpec
CONSTANTS
    Workers = {w1, w2}
    Dirs = {d1, d2}
    NoDir = NoDir
    NoJob = NoJob
    QueueSize = 1
    HistoryLimit = 2
    MaxJobs = 3
INVARIANTS
    TypeOK
    TableMatchesOrder
    OneCarrier
    NoOrphan
    Bookkeeping
PROPERTIES
    ImplementsLifecycle
    UnfinishedLeavesOnlyWhenPushedOut
    JobsEnd
CHECK_DEADLOCK FALSE
