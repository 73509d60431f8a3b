SPECIFICATION AlertSpec
CONSTANTS
    Workers = {w1}
    Dirs = {d1}
    NoDir = NoDir
    NoJob = NoJob
    QueueSize = 1
    HistoryLimit = 2
    MaxJobs = 2
    Handlers = {h1, h2}
    Fingerprints = {f1}
    Cooldown = 2
    MaxAlerts = 2
    MaxTime = 2
PROPERTIES
    SkippedOnlyAfterReport
CHECK_DEADLOCK FALSE
