SPECIFICATION Spec
CONSTANTS
    r1 = r1
    r2 = r2
    r3 = r3
    r4 = r4
    f1 = f1
    f2 = f2
    Requests = {r1, r2, r3, r4}
    NoReq = NoReq
    Ops = {"process", "cancel", "file"}
    MaxJobs = 4
    Files = {f1, f2}
    NoFile = NoFile
    UsbFiles = {f2}
    Queued0 <- QueueOne
    Retries = 1
    Observing = FALSE
    MaxCrashes = 0
    MaxPanel = 0
SYMMETRY Symmetry
INVARIANTS
    OneDispatchInFlight
    QueuedPositionsDistinct
PROPERTIES
    ImplementsSlot
CHECK_DEADLOCK FALSE
