SPECIFICATION Spec
CONSTANTS
    Ids = {u1, u2}
    Names = {n1, n2}
    Emails = {a1}
    Requests = {r1, r2}
    RedisFails = TRUE
    None = None
SYMMETRY Symmetry
INVARIANTS
    TypeOK
    NamesResolve
    FoundByName
