SPECIFICATION Spec
CONSTANTS
    c1 = c1
    f1 = f1
    f2 = f2
    Calls = {c1}
    Ops = {"cancel", "pause", "resume", "completed", "unknown", "delete"}
    MaxJobs = 4
    Files = {f1, f2}
    NoFile = NoFile
    Firmware = "einsy"
    PanelFiles = {f2}
    Queued0 <- QueueOne
    StatusFails = TRUE
    MaxPrints = 2
    MaxHolds = 1
    MaxCalls = 1
INVARIANTS
    TypeOK
PROPERTIES
    NoEarlyClose
    HistoryStays
    SeenPrintsClose
CHECK_DEADLOCK FALSE
