CONSTANTS
    Users = {u1}
    Items = {a}
    Writers = {w1}
    Readers = {g1}
    Batches = {b1}
    Mutexes = {m1, m2, m3, m4}
    NoKey = NoKey
    NoMutex = NoMutex
    MaxFaults = 1
    KeysExpire = TRUE
SPECIFICATION BatchFairSpec
INVARIANTS
    BatchTypeOK
    CleanCounterExact
PROPERTIES
    RequestsServed
    BatchesAnswered
    EventuallyConsistent
    SettledStays
