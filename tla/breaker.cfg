CONSTANTS
    ProfileCalls = {u1}
    ContentCalls = {r1}
    Contents = {p}
    Configured = {p}
    Threshold = 2
    Timeout = 1
    MaxDrops = 0
SPECIFICATION ValidationFairSpec
PROPERTIES
    OpensForAReason
    Recovers
INVARIANT
    OnlyTruthCached
