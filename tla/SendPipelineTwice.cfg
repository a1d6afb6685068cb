SPECIFICATION MCSpec
CONSTANTS
    Subjects = {"race"}
    Workers = {w1}
    Senders = {}
    Lengths <- FourBuffers
    Nobody = Nobody
    RaceWorkers = {w1}
    RaceSenders = {s1}
    Handles = {h1}
    MaxBlocks = 1
    MaxPool = 1
    Modulus = 8
    AllocSize = 4
    PoolCount = 1
    Garbage = {0}
    Sizes = {3}
    ShortModulus = 4
    Strings = {5}
INVARIANT RaceInOrder
