SPECIFICATION Spec
CONSTANTS
    c1 = c1
    c2 = c2
    u1 = u1
    u2 = u2
    Calls = {c1, c2}
    Urls = {u1, u2}
    Rows0 <- FirstRows
    MaxAdapters = 3
    MaxPolls = 2
    MaxFetches = 2
    MaxCalls = 3
INVARIANTS
    TypeOK
    OnePoller
    RowFollowed
    DisabledIsForgotten
    HandlersApart
    ModelIsCurrent
    OneQuestion
PROPERTIES
    PollsResume
CHECK_DEADLOCK FALSE
