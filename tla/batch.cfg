CONSTANTS
    Users = {u1}
    Items = {a, b}
    Writers = {w1}
    Readers = {}
    Batches = {b1, b2}
    Mutexes = {m1, m2, m3, m4}
    NoKey = NoKey
    NoMutex = NoMutex
    MaxFaults = 0
    KeysExpire = TRUE
SPECIFICATION HistorySpec
CHECK_DEADLOCK FALSE
SYMMETRY BatchSymmetry
INVARIANTS
    CleanCounterExact
    BatchSingleFlight
    OmittedIfBusy
