CONSTANTS
    Client = {p1, p2}
    Reaper = Reaper
    Account = {ann}
    Nobody = Nobody
    Guild = {g}
    NoGuild = NoGuild
    NoRow = NoRow
    NoList = NoList
    MaxImage = 1
SPECIFICATION FairSpec
INVARIANTS
    GoneStaysGone
PROPERTIES
    DeletedByUploader
    ListsCatchUp
