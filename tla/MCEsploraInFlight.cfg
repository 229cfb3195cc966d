SPECIFICATION FairSpec
CONSTANTS
    Requests = {r1, r2, r3}
    Keys = {k1, k2}
    MaxEntries = 1
    MaxAge = 1
    MaxRun = 2
    MaxTime = 3
    NoEntry = NoEntry
INVARIANTS
    TypeOK
    MapIsSound
PROPERTIES
    FollowersAnswered
