SPECIFICATION MCSpec
CONSTANTS
    Subjects = {"pool", "table", "market"}
    PoolSize = 2
    Clients = {c1, c2}
    Jobs = {j1, j2, j3}
    Objects = {j3}
    NoJob = NoJob
    Granularity = 2
    Ids = {1, 2, 3, 4, 5}
    Ptrs = {p1, p2}
    Conns = {k1, k2}
    MaxQuotes = 2
    MaxLosses = 1
INVARIANTS
    PoolIsSound
    TableIsSound
    MarketIsSound
PROPERTIES
    ImplementsMap
    WorkersMoveOn
CHECK_DEADLOCK FALSE
