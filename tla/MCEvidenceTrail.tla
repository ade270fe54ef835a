--------------------------- MODULE MCEvidenceTrail ---------------------------
(* A small instance of EvidenceTrail: two missions, which share an object if  *)
(* both are run as workflows.                                                 *)
EXTENDS EvidenceTrail, MCMissionWorkflow

CONSTANT w1

MCWorkflows == {w1}
MCWorkflowOf == [m \in MCMissions |-> w1]

MCEvidenceGrants == {MergeAgent, NoDelegation, BoundTo(s2), MergesAndVerifies, Malformed}
=============================================================================
