SPECIFICATION Spec
CONSTANTS
    Requests = {r1, r2}
    Setups <- StillGate
    Ttl = 1
    TtlConf = 1
    TipTtl = 2
    StaleMult = 2
    MaxRetries = 1
    MaxBackoff = 2
    MaxAge = 2
    None = None
PROPERTIES
    GatedStaleness
