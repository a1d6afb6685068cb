SPECIFICATION FairSpec
CONSTANTS
    Contexts = {c1}
    Workers = {w1}
    Senders = {s1}
    Stoppers = {}
    Limit = 1
    MaxSends = 1
    MaxRepeats = 0
    Server = Server
    Nobody = Nobody
    NoContext = NoContext
PROPERTIES
    FailedAcceptIsReleased
