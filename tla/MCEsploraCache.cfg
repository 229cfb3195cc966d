SPECIFICATION FairSpec
CONSTANTS
    Requests = {r1, r2}
    Setups <- MCSetups
    Ttl = 1
    TtlConf = 1
    TipTtl = 1
    StaleMult = 2
    MaxRetries = 2
    MaxBackoff = 4
    MaxAge = 1
    None = None
INVARIANTS
    TypeOK
PROPERTIES
    RequestsAnswered
    BoundedStaleness
    MonotonicReads
