CONSTANTS
    Users = {u1, u2}
    Items = {a}
    Writers = {w1, w2}
    Readers = {g1}
    Mutexes = {m1, m2, m3, m4}
    NoKey = NoKey
    NoMutex = NoMutex
    MaxFaults = 1
    KeysExpire = TRUE
SPECIFICATION Spec
SYMMETRY Symmetry
INVARIANTS
    TypeOK
    SingleFlight
    EntryInUse
    ChangesAlternate
    ChangesAnnounced
    CleanCounterExact
PROPERTY
    LedgerSafe
