CONSTANTS
    Limit = 3
    Window = 2
    Ttl = 3
    Drift = 1
    MaxTime = 4
    MaxLog = 5
    Places = {1, 2, 3}
    MaxSigned = 3
    PageSizes = {0, 1, 2, 3, 7}
SPECIFICATION PagesSpec
INVARIANTS
    PagesTypeOK
    RateBounded
    ResetHonored
    NoRowTwice
    NothingSkipped
