CONSTANTS
    Handler = {h1, h2}
    Guild = {g1, g2}
    NoGuild = NoGuild
    PageLimit = 2
    MaxKey = 3
    MaxImage = 3
SPECIFICATION Spec
INVARIANTS
    TypeOK
    KeysLive
    RepeatCallsAgree
    WalkSkipsNothing
CONSTRAINT OneKeyForImages
SYMMETRY Symmetric
