SPECIFICATION PasteSpec
CONSTANTS
    Handler = {h1, h2}
    Account = {ann}
    Admin = {}
    Stranger = stranger
    clean = clean
    leak = leak
    h1 = h1
    Body = {clean, leak}
    Leaking = {leak}
    Size <- MCSize
    Asked = {Never}
    Never = Never
    NoPaste = NoPaste
    AccountLimit = 1
    AccountBytes = 5
    AnonymousTtl = 1
    MaxTtl = 2
    RevisionCap = 1
    MaxPaste = 2
    MaxRevision = 1
    MaxMiss = 1
    MaxTime = 1
INVARIANTS
    RevisionsWereBodies
    QuotaNearlyKept
    StrangersNeverLeak
PROPERTIES
    ReadOnce
    ExpiredEndUp
