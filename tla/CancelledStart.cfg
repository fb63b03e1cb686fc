SPECIFICATION Spec
CONSTANTS
    r1 = r1
    r2 = r2
    r3 = r3
    r4 = r4
    f1 = f1
    f2 = f2
    Requests = {r1, r2}
    NoReq = NoReq
    Ops = {"process", "cancel"}
    MaxJobs = 1
    Files = {f1, f2}
    NoFile = NoFile
    UsbFiles = {f1}
    Queued0 <- QueueOne
    Retries = 1
    Observing = FALSE
    MaxCrashes = 0
    MaxPanel = 0
PROPERTIES
    CancelledNeverStarts
CHECK_DEADLOCK FALSE
