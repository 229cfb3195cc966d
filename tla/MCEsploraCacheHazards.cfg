SPECIFICATION Spec
CONSTANTS
    Requests = {r1, r2}
    Setups <- MCSetups
    Ttl = 1
    TtlConf = 2
    TipTtl = 3
    StaleMult = 2
    MaxRetries = 2
    MaxBackoff = 4
    MaxAge = 1
    None = None
PROPERTIES
    BacksOff
    TimeGoesForward
