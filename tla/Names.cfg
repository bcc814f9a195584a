CONSTANTS
    Handler = {h1, h2}
    Name = {n1, n2, n3}
    NoName = NoName
    Reserved = {n3}
    User = {u1}
    NoUser = NoUser
    Cooldown = 2
    Hold = 2
    MaxAccount = 2
    MaxTime = 3
    h1 = h1
    h2 = h2
    n1 = n1
    n2 = n2
    n3 = n3
    u1 = u1
SPECIFICATION Spec
SYMMETRY Symmetric
INVARIANTS
    HistoryAgrees
    HoldHonoured
    HintWrongOnlyInCooldown
