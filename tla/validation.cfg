CONSTANTS
    ProfileCalls = {}
    ContentCalls = {r1, r2, r3}
    Contents = {p, x}
    Configured = {p}
    Threshold = 2
    Timeout = 1
    MaxDrops = 1
SPECIFICATION ValidationFairSpec
CHECK_DEADLOCK FALSE
INVARIANTS
    ValidationTypeOK
    OneExternalCall
    BusyHasOwner
    OnlyTruthCached
PROPERTY
    ContentAnswered
