CONSTANTS
    Handler = {h1, h2}
    NoHandler = NoHandler
    Token = {t1}
    MaxAccount = 1
    MaxWrites = 2
    h1 = h1
    h2 = h2
    t1 = t1
SPECIFICATION AccountSpec
INVARIANTS
    GuardedFillsFresh
PROPERTIES
    Answered
