SPECIFICATION MCSpec
CONSTANTS
    MaxRequests = 2
    MaxLosses = 2
    Guids = {1, 2}
    MaxTicks = 2
    MaxActions = 2
    Keys = {1, 2, 3}
    MaxMembers = 3
    Callers = {1, 2}
    MaxRestarts = 1
    Objects = {o1, o2}
    MaxHandles = 3
    Subjects = {"http", "push", "trading", "session", "start", "main", "json", "redis", "adapter", "handle"}
INVARIANTS
    HttpIsSound
    PushIsSound
    TradingIsSound
    SessionIsSound
    StartIsSound
    HelpersAreSound
PROPERTIES
    PushMovesOn
    TradingPromises
CHECK_DEADLOCK FALSE
