CONSTANTS
    Clients = {c1, c2}
    Tasks = {t1, t2}
    NoRanking = NoRanking
    MaxChanges = 2
    MaxFaults = 1
SPECIFICATION LeaderboardFairSpec
INVARIANTS
    LeaderboardTypeOK
    SingleRefresh
PROPERTIES
    NoRollback
    Converges
