CONSTANTS
    Users = {u1}
    Items = {a}
    Writers = {}
    Readers = {}
    Batches = {b1, b2}
    Mutexes = {m1, m2, m3}
    NoKey = NoKey
    NoMutex = NoMutex
    MaxFaults = 0
    KeysExpire = TRUE
SPECIFICATION HistorySpec
CHECK_DEADLOCK FALSE
INVARIANT AnsweredAlone
