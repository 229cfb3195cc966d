CHECK_DEADLOCK FALSE
SPECIFICATION FairSpec
CONSTANTS
    Sockets = {s1, s2, s3}
    NoSocket = NoSocket
    Providers = 2
    Production = FALSE
    MaxCalls = 2
INVARIANTS
    TypeOK
    FeedIsOnItsWay
PROPERTIES
    FeedGetsSomewhere
