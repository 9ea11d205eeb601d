CONSTANTS
    Users = {u1, u2}
    Items = {a}
    Writers = {w1}
    Readers = {g1}
    Mutexes = {m1, m2, m3}
    NoKey = NoKey
    NoMutex = NoMutex
    MaxFaults = 0
    KeysExpire = FALSE
SPECIFICATION Spec
SYMMETRY Symmetry
INVARIANT
    WriteThrough
