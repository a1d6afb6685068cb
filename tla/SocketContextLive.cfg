SPECIFICATION FairSpec
CONSTANTS
    Contexts = {c1, c2}
    Workers = {w1, w2}
    Senders = {s1}
    Stoppers = {k1}
    Limit = 1
    MaxSends = 1
    MaxRepeats = 1
    Server = Server
    Nobody = Nobody
    NoContext = NoContext
PROPERTIES
    CallsReturn
    ClosedIsDeleted
