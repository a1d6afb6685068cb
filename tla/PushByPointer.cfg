SPECIFICATION MCSpec
CONSTANTS
    MaxRequests = 2
    MaxLosses = 2
    Guids = {1, 2}
    MaxTicks = 2
    MaxActions = 2
    Keys = {1, 2, 3}
    MaxMembers = 3
    Callers = {1, 2}
    MaxCalls = 3
    MaxRestarts = 1
    Objects = {o1, o2}
    MaxHandles = 3
    Subjects = {"push"}
INVARIANT PushesToLiveContext
