SPECIFICATION Spec
CONSTANTS
    None = None
    Error = Error
    Words <- MCWords
    Path <- MCPath
    Schemes <- MCSchemes
    Lower <- MCLower
    Tokens <- MCTokens
    Environments <- MCEnvironments
INVARIANT GateAgreesWithClient
CHECK_DEADLOCK FALSE
