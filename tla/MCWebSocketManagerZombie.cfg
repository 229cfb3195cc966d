SPECIFICATION Spec
CONSTANTS
    Conns = {c1, c2, c3}
    Users = {u1}
    Pending = Pending
    MaxPerUser = 2
    PoolSize = 4
    MaxLogins = 1
SYMMETRY Symmetry
INVARIANTS
    NoZombieConnections
