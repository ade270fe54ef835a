-------------------------- MODULE MCMissionWorkflow --------------------------
(* Small instances of MissionWorkflow. *)
EXTENDS MissionWorkflow, TLC

CONSTANTS m1, m2, s1, s2

MCMissions == {m1, m2}
MCShas == {s1, s2}

\* The merge agent of the fixtures: attenuated, active for one instant, with
\* delegation approval, and with verification in its parent set only.
MergeAgent ==
    [grant_id |-> 0, grantee |-> "agent",
     capabilities |-> {"pr:merge", "verify:delegate"},
     parent_capabilities |-> {"pr:merge", "verify:delegate", "verify:exact-subject"},
     granted_at |-> 0, expires_at |-> 1, revoked_at |-> None,
     status |-> "granted", binding |-> None, delegated_by |-> None]

NoDelegation == [MergeAgent EXCEPT !.capabilities = {"pr:merge"}]

ParentCannotVerify ==
    [MergeAgent EXCEPT !.parent_capabilities = {"pr:merge", "verify:delegate"}]

Escalated == [MergeAgent EXCEPT !.capabilities = @ \cup {"repo:admin"}]

MarkedExpired == [MergeAgent EXCEPT !.status = "expired"]

NotYetGranted == [MergeAgent EXCEPT !.granted_at = 1, !.expires_at = 2]

\* Grants that both merge and carry a Sentinel binding, to any commit or to one.
MergesAndVerifies ==
    [MergeAgent EXCEPT !.capabilities = {"pr:merge", "verify:exact-subject"},
                       !.binding = [owner |-> "sentinel", ref |-> 0, subject |-> None]]

BoundTo(s) == [MergesAndVerifies EXCEPT !.binding.subject = s]

Malformed ==
    [MergeAgent EXCEPT !.binding = [owner |-> "agent", ref |-> 0, subject |-> None]]

MCAgentGrants ==
    {MergeAgent, NoDelegation, ParentCannotVerify, Escalated, MarkedExpired,
     MergesAndVerifies, BoundTo(s1), BoundTo(s2), Malformed}

MCNotYetGranted == {NotYetGranted}

\* The missions are interchangeable, and so are the commits.
MCSymmetry == Permutations({m1, m2}) \cup Permutations({s1, s2})
=============================================================================
