SPECIFICATION Spec
CONSTANTS
    c1 = c1
    c2 = c2
    f1 = f1
    Calls = {c1, c2}
    MaxItems = 2
    MaxJobs = 5
    MaxLogs = 3
    MaxCalls = 5
    FileOf <- SameFile
    Uploaded = {1}
INVARIANTS
    TypeOK
    OneJobPerItem
    PendingHasBytes
    QueuedFilesKept
    MaintenanceShown
PROPERTIES
    ResolvedOnce
    CallsAnswered
CHECK_DEADLOCK FALSE
