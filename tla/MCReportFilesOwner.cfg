SPECIFICATION FilesSpec
CONSTANTS
    d1 = d1
    d2 = d2
    Workers = {w1}
    Dirs = {d1, d2}
    NoDir = NoDir
    NoJob = NoJob
    QueueSize = 2
    HistoryLimit = 2
    MaxJobs = 2
    DirOf <- SamePeriod
    ReportTTL = 2
    JobTimeout = 1
    MaxTime = 5
INVARIANTS
    PdfIsOfItsJob
CHECK_DEADLOCK FALSE
