SPECIFICATION Spec
CONSTANTS
    c1 = c1
    f1 = f1
    f2 = f2
    Calls = {c1}
    Ops = {"cancel"}
    MaxJobs = 3
    Files = {f1}
    NoFile = NoFile
    Firmware = "buddy"
    PanelFiles = {}
    Queued0 <- QueueOne
    StatusFails = FALSE
    MaxPrints = 1
    MaxHolds = 0
    MaxCalls = 1
PROPERTIES
    RequeuedKept
CHECK_DEADLOCK FALSE
