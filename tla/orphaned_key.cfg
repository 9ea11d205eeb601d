CONSTANTS
    ProfileCalls = {}
    ContentCalls = {r1, r2}
    Contents = {p}
    Configured = {p}
    Threshold = 2
    Timeout = 1
    MaxDrops = 1
SPECIFICATION ValidationFairSpec
CHECK_DEADLOCK FALSE
PROPERTY WaitersServed
