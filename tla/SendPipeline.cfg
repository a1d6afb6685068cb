SPECIFICATION MCSpec
CONSTANTS
    Subjects = {"pipeline", "race", "buffer"}
    Workers = {w1}
    Senders = {}
    Lengths <- FourBuffers
    Nobody = Nobody
    RaceWorkers = {w1, w2}
    RaceSenders = {s1}
    Handles = {h1, h2}
    MaxBlocks = 2
    MaxPool = 2
    Modulus = 8
    AllocSize = 4
    PoolCount = 1
    Garbage = {0, 1}
    Sizes = {3}
    ShortModulus = 4
    Strings = {5}
INVARIANTS
    SendsAreOrderly
    RaceNothingForgotten
    BuffersAreSound
PROPERTIES
    ImplementsPipe
    AllSent
CHECK_DEADLOCK FALSE
