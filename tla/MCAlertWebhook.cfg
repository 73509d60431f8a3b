SPECIFICATION AlertFairSpec
CONSTANTS
    Workers = {w1}
    Dirs = {d1}
    NoDir = NoDir
    NoJob = NoJob
    QueueSize = 1
    HistoryLimit = 1
    MaxJobs = 2
    Handlers = {h1, h2}
    Fingerprints = {f1}
    Cooldown = 1
    MaxAlerts = 2
    MaxTime = 1
INVARIANTS
    AlertTypeOK
    ReportsSpaced
PROPERTIES
    DeliveriesAnswered
CHECK_DEADLOCK FALSE
