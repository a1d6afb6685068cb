SPECIFICATION FairSpec
CONSTANTS
    Workers = {w1, w2}
    Sockets = {s1, s2, s3}
    MaxRuns = 2
    Server = Server
    NoSocket = NoSocket
INVARIANT
    ServerIsSound
PROPERTY ShutdownReturns
