SPECIFICATION Spec
CONSTANTS
    Contexts = {c1, c2, c3}
    Workers = {w1, w2}
    Senders = {s1}
    Stoppers = {k1}
    Limit = 2
    MaxSends = 2
    MaxRepeats = 2
    Server = Server
    Nobody = Nobody
    NoContext = NoContext
SYMMETRY Symmetric
INVARIANTS
    TypeOK
    PendingIOIsExact
    NoUseAfterFree
    LocksAreOrdered
    ReceivesAreSerial
    DisconnectedOnce
    DisconnectFollowsConnect
    ConnectCountIsExact
    LimitIsRespected
    NoBufferIsForgotten
PROPERTY ImplementsService
