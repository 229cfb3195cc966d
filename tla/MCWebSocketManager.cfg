SPECIFICATION FairSpec
CONSTANTS
    Conns = {c1, c2}
    Users = {u1}
    Pending = Pending
    MaxPerUser = 1
    PoolSize = 4
    MaxLogins = 2
INVARIANTS
    TypeOK
    LimitRespected
    TablesAgree
CHECK_DEADLOCK FALSE
PROPERTIES
    PendingResolved
