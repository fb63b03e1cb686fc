SPECIFICATION Spec
CONSTANTS
    task = task
    w1 = w1
    w2 = w2
    f1 = f1
    f2 = f2
    none = none
    Task = task
    Handlers = {w1, w2}
    MaxJobs = 2
    MaxCalls = 4
    Content <- SameContent2
    IdOf <- OwnNames
    NoFile = none
PROPERTIES
    LinkKept
CHECK_DEADLOCK FALSE
