CONSTANTS
    Handler = {h1}
    NoHandler = NoHandler
    Token = {t1}
    MaxAccount = 1
    MaxWrites = 3
    h1 = h1
    t1 = t1
SPECIFICATION AccountSpec
INVARIANTS
    SessionKeepsOwner
