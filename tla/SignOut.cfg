CONSTANTS
    Handler = {h1, h2, h3}
    NoHandler = NoHandler
    Token = {t1}
    MaxAccount = 1
    MaxWrites = 1
    h1 = h1
    h2 = h2
    h3 = h3
    t1 = t1
SPECIFICATION SignOutSpec
SYMMETRY Symmetric
INVARIANTS
    SignOutEverywhereIsFinal
    WaitersAreLed
