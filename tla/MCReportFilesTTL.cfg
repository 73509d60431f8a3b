SPECIFICATION FilesSpec
CONSTANTS
    d1 = d1
    d2 = d2
    Workers = {w1}
    Dirs = {d1, d2}
    NoDir = NoDir
    NoJob = NoJob
    QueueSize = 1
    HistoryLimit = 2
    MaxJobs = 2
    DirOf <- SamePeriod
    ReportTTL = 2
    JobTimeout = 1
    MaxTime = 5
PROPERTIES
    ReportLivesForTTL
CHECK_DEADLOCK FALSE
