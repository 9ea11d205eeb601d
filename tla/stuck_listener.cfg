CONSTANTS
    Items = {a}
    Streams = {s1}
    Shards = {h1}
    Capacity = 2
    NoItem = NoItem
    MaxEvents = 3
    MaxFaults = 0
    Handlers = {}
    MaxStatements = 1
SPECIFICATION ShutdownFairSpec
CHECK_DEADLOCK FALSE
PROPERTIES
    EventsRouted
