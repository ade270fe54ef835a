SPECIFICATION Spec
CONSTANTS
    None = None
    Error = Error
    Strings <- MCStrings
    Shas <- MCShas
    Times <- MCTimes
    Calls <- MCCalls
INVARIANT BuilderAgreesWithStateRules
CHECK_DEADLOCK FALSE
