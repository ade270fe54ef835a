SPECIFICATION Spec
CONSTANTS
    m1 = m1
    m2 = m2
    s1 = s1
    s2 = s2
    None = None
    Window = 2
    Missions <- MCMissions
    Shas <- MCShas
    Persona = "agent"
    AgentGrants <- MCAgentGrants
    MaxClock = 2
    MaxMint = 2
SYMMETRY MCSymmetry
INVARIANTS
    TypeOK
    AcceptedOnDelegatedVerdict
    ChildScope
    VerdictIdNamesOneCommit
    LateEffectGoesNoFurther
    ChildOutlivesParentBriefly
    SelfVerificationIsSentinelBound
PROPERTIES
    AuthorityDecays
    ImplementsExactSubjectAcceptance
CHECK_DEADLOCK FALSE
