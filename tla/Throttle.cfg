CONSTANTS
    Caller = {h1, h2}
    Rate = 2
    Interval = 2
    Threshold = 2
    Window = 2
    MaxCount = 3
    MaxClock = 3
SPECIFICATION ThrottleSpec
INVARIANTS
    ThrottleTypeOK
    RateHolds
    RetryWorks
    GuessesAreBounded
PROPERTIES
    LockHolds
SYMMETRY Symmetric
CHECK_DEADLOCK FALSE
