SPECIFICATION FairSpec
CONSTANTS
    Callers = {c1, c2}
    JwtLives <- MCJwtLives
    OpaqueLives <- MCOpaqueLives
    Cooldown = 2
    ExpSkew = 2
    MinLife = 2
    MaxTime = 3
PROPERTIES
    RequestTimesOut
