CONSTANTS
    Handler = {h1, h2}
    Account = {user, boss}
    Admin = {boss}
    Nobody = Nobody
    Code = {c1, c2}
    NoCode = NoCode
    FreeLinkLimit = 1
    PageLimit = 1
    MaxLink = 3
    MaxVisit = 1
    MaxMiss = 1
SPECIFICATION Spec
INVARIANTS
    LinksNearlyKept
    WritesToTheirs
    EveryClickCounted
    WalkSkipsNothing
SYMMETRY Symmetric
CONSTRAINT Bounded
CHECK_DEADLOCK FALSE
