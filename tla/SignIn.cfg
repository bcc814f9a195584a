CONSTANTS
    Handler = {h1, h2}
    Password = {right}
    NoPassword = NoPassword
    CodeCount = 1
    MaxMint = 2
SPECIFICATION Spec
INVARIANTS
    SecondFactorAsked
    ReplacedCodesAreDead
    ShownCodesAreThere
PROPERTIES
    CodesBurnOnce
SYMMETRY Symmetric
CHECK_DEADLOCK FALSE
