CONSTANTS
    Items = {a}
    Streams = {s1}
    Shards = {h1}
    Capacity = 2
    NoItem = NoItem
    MaxEvents = 4
    MaxFaults = 1
    Handlers = {r1}
    MaxStatements = 2
SPECIFICATION ShutdownFairSpec
CHECK_DEADLOCK FALSE
INVARIANTS
    ShutdownTypeOK
    InOrder
    NothingLost
    NewestShown
PROPERTIES
    FeedImplemented
    CatchesUp
    ShutdownEnds
