SPECIFICATION FairEvidenceSpec
CONSTANTS
    m1 = m1  m2 = m2  s1 = s1  s2 = s2  w1 = w1
    None = None
    Persona = "agent"
    Window = 2
    MaxClock = 2
    MaxMint = 1
    Missions <- MCMissions
    Shas <- MCShas
    Workflows <- MCWorkflows
    WorkflowOf <- MCWorkflowOf
    AgentGrants <- MCEvidenceGrants
INVARIANTS MergesOnRecord AcceptedRunOnRecord RefusalOnRecord
PROPERTIES EvidenceOnlyGrows EveryMissionReturns
CHECK_DEADLOCK FALSE
