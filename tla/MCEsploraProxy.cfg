SPECIFICATION Spec
CONSTANTS
    Requests = {r1, r2}
    Questions <- MCQuestions
    MaxRetries = 2
    None = None
SYMMETRY Symmetry
INVARIANTS
    TypeOK
    AnswersTheQuestion
    RateLimitedIsTrue
    RefusedIsNotAccepted
CHECK_DEADLOCK FALSE
