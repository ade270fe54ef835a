SPECIFICATION Spec
CONSTANTS
    c1 = c1
    c2 = c2
    a1 = a1
    a2 = a2
    b1 = b1
    w = w
    v = v
    base = base
    s1 = s1
    s2 = s2
    None = None
    Calls <- MCCalls
    Attempts <- MCAttempts
    Works <- MCWorks
    WorkOf <- MCWorkOf
    Commits <- MCCommits
    BaseCommit = base
SYMMETRY MCSymmetry
PROPERTIES
    ImplementsExactSubjectAcceptance
INVARIANTS
    TypeOK
    AcceptedIsFullyEvidenced
    OneAcceptedSubjectPerExecution
    AcceptedStaysInItsWork
    NoBindingWithoutAllowedAction
    NoVerdictBeforeBinding
CHECK_DEADLOCK FALSE
