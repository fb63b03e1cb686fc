SPECIFICATION Spec
CONSTANTS
    r1 = r1
    r2 = r2
    r3 = r3
    r4 = r4
    f1 = f1
    f2 = f2
    Requests = {r1, r2}
    NoReq = NoReq
    Ops = {"process", "cancel", "file"}
    MaxJobs = 3
    Files = {f1, f2}
    NoFile = NoFile
    UsbFiles = {f2}
    Queued0 <- QueueTwo
    Retries = 0
    Observing = TRUE
    MaxCrashes = 1
    MaxPanel = 0
INVARIANTS
    TypeOK
    StartingIsDispatched
    InFlightNotQueued
    QueuedHasPosition
PROPERTIES
    DispatchSettles
CHECK_DEADLOCK FALSE
