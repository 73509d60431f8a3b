SPECIFICATION FilesFairSpec
CONSTANTS
    d1 = d1
    d2 = d2
    Workers = {w1}
    Dirs = {d1, d2}
    NoDir = NoDir
    NoJob = NoJob
    QueueSize = 1
    HistoryLimit = 2
    MaxJobs = 2
    DirOf <- OwnPeriods
    ReportTTL = 2
    JobTimeout = 1
    MaxTime = 4
INVARIANTS
    FilesTypeOK
    DoneReportOnDisk
PROPERTIES
    ReportLivesForTTL
    CleanupSparesRunning
    ExpiredReportsGo
CHECK_DEADLOCK FALSE
