SPECIFICATION RelayFairSpec
CONSTANTS
    Calls = {i1}
    Polls = 4
    RespTtl = 3
    MaxPosts = 3
    MaxTime = 6
INVARIANTS
    NoAnswerMissed
PROPERTIES
    CallsEnd
