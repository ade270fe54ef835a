SPECIFICATION Spec
CONSTANTS
    c1 = c1  c2 = c2
    k1 = k1  k2 = k2  w1 = w1  w2 = w2  m1 = m1  m2 = m2
    a1 = a1  a2 = a2  s1 = s1  s2 = s2
    None = None
    Works = {w1, w2}
    Keys = {k1, k2}
    Missions = {m1, m2}
    Attempts = {a1, a2}
    Subjects = {s1, s2}
    Calls = {c1, c2}
    Requests <- MCRequests
SYMMETRY MCSymmetry
INVARIANTS
    TypeOK HeldIsDurable AcceptanceIsOfItsRequest AcceptancePreservesSubject
    BoundToOneSubject OnlyAskedForIsAccepted
PROPERTIES ImplementsExactlyOnceDispatch
CHECK_DEADLOCK FALSE
