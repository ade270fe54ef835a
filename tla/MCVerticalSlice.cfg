SPECIFICATION Spec
CONSTANTS
    r1 = r1  r2 = r2  r3 = r3
    broken = broken  fixed = fixed  other = other
    None = None
    Runs = {r1, r2, r3}
    Fixed = fixed
    Contents = {broken, fixed, other}
INVARIANTS AcceptedCommitIsRight ReturnedTraceIsComplete VerdictIsAnswered
PROPERTY ImplementsExactSubjectAcceptance
CHECK_DEADLOCK FALSE
