SPECIFICATION Spec
CONSTANTS
    Handler = {h1, h2}
    Reader = {ann, bob}
    Author = {ann}
    PasteId = {p1}
    Unborn = Unborn
    Gone = Gone
    NoRequest = NoRequest
    Never = Never
    UnlockTtl = 1
    MaxViews = 2
    MaxTime = 2
INVARIANTS
    LockHolds
    SealHolds
    ViewsAreReads
SYMMETRY MCSymmetry
CHECK_DEADLOCK FALSE
