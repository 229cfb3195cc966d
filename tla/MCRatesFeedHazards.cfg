SPECIFICATION Spec
CONSTANTS
    Sockets = {s1, s2, s3}
    NoSocket = NoSocket
    Providers = 2
    Production = TRUE
    MaxCalls = 2
INVARIANTS
    OpenIsSubscribed
    FxLoopLives
    FallbackPolls
    AllProvidersTried
