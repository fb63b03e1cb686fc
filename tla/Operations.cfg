SPECIFICATION Spec
CONSTANTS
    r1 = r1
    r2 = r2
    r3 = r3
    r4 = r4
    f1 = f1
    f2 = f2
    Requests = {r1, r2}
    NoReq = NoReq
    Ops = {"add", "front", "file", "remove", "clear", "reorder", "process", "submit", "cancel", "stop"}
    MaxJobs = 4
    Files = {f1, f2}
    NoFile = NoFile
    UsbFiles = {f2}
    Queued0 <- QueueTwo
    Retries = 1
    Observing = FALSE
    MaxCrashes = 0
    MaxPanel = 1
INVARIANTS
    AborterIsLive
PROPERTIES
    CallsReturn
CHECK_DEADLOCK FALSE
