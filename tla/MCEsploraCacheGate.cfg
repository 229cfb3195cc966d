SPECIFICATION Spec
CONSTANTS
    Requests = {r1, r2}
    Setups <- TwoAtTheGate
    Ttl = 1
    TtlConf = 2
    TipTtl = 2
    StaleMult = 2
    MaxRetries = 1
    MaxBackoff = 2
    MaxAge = 2
    None = None
PROPERTIES
    GateIsSound
