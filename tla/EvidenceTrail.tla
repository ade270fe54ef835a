---------------------------- MODULE EvidenceTrail ----------------------------
(***************************************************************************)
(* The evidence the missions of MissionWorkflow leave: the audit trace of  *)
(* the agent, the steps of the workflow object, and the bundle a run       *)
(* returns.  Every step of a mission is taken together with what it logs.  *)
(*                                                                         *)
(* A GovernedMissionWorkflow object owns one agent and may be run again:   *)
(* its trace and its steps go on.  That its runs follow one another is the *)
(* caller's discipline: no lock of the code keeps it.  A Level 4 run and a *)
(* direct caller have an agent of their own.  A bundle copies the audit    *)
(* trace, but holds the object's own list of steps.                        *)
(*                                                                         *)
(* Entries are tagged with their mission, which the code's entries are     *)
(* not; only the properties read the tag.                                  *)
(***************************************************************************)
EXTENDS MissionWorkflow, SequencesExt

CONSTANTS
    Workflows,      \* GovernedMissionWorkflow objects
    WorkflowOf      \* the object a mission is run on if it is run as a workflow

ASSUME WorkflowOfAssumption ==
    WorkflowOf \in [Missions -> Workflows] /\ Workflows \cap Missions = {}

VARIABLES
    trace,          \* GovernedAgent._trace, per agent
    steps,          \* GovernedMissionWorkflow._steps
    bundle          \* the audit trace of the bundle each run returned

evidence == <<trace, steps, bundle>>
allvars == <<vars, evidence>>

Entry(m, what, how) == [mission |-> m, kind |-> what, decision |-> how]

\* The agent of a mission: the workflow object's, or its own.
Agent(m, k) == IF k = "workflow" THEN WorkflowOf[m] ELSE m

EvidenceInit ==
    /\ Init
    /\ trace = [a \in Missions \cup Workflows |-> <<>>]
    /\ steps = [w \in Workflows |-> <<>>]
    /\ bundle = [m \in Missions |-> None]

-----------------------------------------------------------------------------
AppendSteps(m, entries) ==
    steps' = IF kind[m] = "workflow"
             THEN [steps EXCEPT ![WorkflowOf[m]] = @ \o entries]
             ELSE steps

\* A run that returns copies the trace of its agent into its bundle; a direct
\* caller of the library has no bundle.
FillBundle(m) ==
    bundle' = IF pc'[m] \in Returned /\ kind[m] # "stepwise"
              THEN [bundle EXCEPT ![m] = trace'[Agent(m, kind[m])]]
              ELSE bundle

\* A step of m appends to its agent's trace and to its object's steps.
Log(m, events, entries) ==
    /\ trace' = [trace EXCEPT ![Agent(m, kind[m])] = @ \o events]
    /\ AppendSteps(m, entries)
    /\ FillBundle(m)

\* Its caller runs an object again only when the run before has ended.
MayRun(m) ==
    \A n \in Missions :
        kind[n] = "workflow" /\ WorkflowOf[n] = WorkflowOf[m] => pc[n] \in Terminal

StartSteps(m, k) ==
    steps' = IF k = "workflow"
             THEN [steps EXCEPT ![WorkflowOf[m]] =
                     Append(@, Entry(m, "mission.start", "BEGIN"))]
             ELSE steps

FaultyLogBegin(m, k) ==
    /\ Begin(m, k)
    /\ k = "workflow" => MayRun(m)
    /\ StartSteps(m, k)
    /\ trace' = [trace EXCEPT ![Agent(m, k)] = <<>>]
    /\ UNCHANGED bundle

LogBegin(m, k) ==
    /\ Begin(m, k)
    /\ k = "workflow" => MayRun(m)
    /\ StartSteps(m, k)
    /\ UNCHANGED <<trace, bundle>>

LogAllow(m) ==
    AllowMerge(m) /\ Log(m, <<Entry(m, "authority.resolve", "ALLOW")>>, <<>>)

FaultyNoEffect(m) == <<>>

\* accept_mission without an effect, as governed_agent_run calls it.
NoEffect(m) ==
    IF kind[m] = "level4" THEN <<Entry(m, "mission.acceptance", "REJECTED")>> ELSE <<>>

LogBlockEffect(m) ==
    /\ BlockEffect(m)
    /\ Log(m, <<Entry(m, "authority.resolve", "DENY"), Entry(m, "effect.blocked", "DENY")>>
                \o NoEffect(m),
              <<Entry(m, "effect.blocked", "DENY")>>)

\* The merge itself is on no record, nor is any step of a minting.
Unlogged(m) ==
    Merge(m) \/ ApproveDelegation(m) \/ StartMint(m) \/ CountMint(m) \/ NumberChild(m)

LogNothing(m) == Unlogged(m) /\ UNCHANGED evidence

\* The event git.merge comes after the last Git command.
LogReadResult(m) ==
    /\ ReadResult(m)
    /\ Log(m, <<Entry(m, "git.merge", "ALLOW")>>, <<Entry(m, "effect.complete", "ALLOW")>>)

FaultyLogRaise(m) ==
    RaiseInMerge(m) /\ Log(m, <<Entry(m, "git.merge", "ALLOW")>>, <<>>)

\* A failure of Git leaves no event; one to remove its directory comes after it.
LogRaise(m) ==
    /\ RaiseInMerge(m)
    /\ \/ Log(m, <<>>, <<>>)
       \/ pc[m] = "merged" /\ Log(m, <<Entry(m, "git.merge", "ALLOW")>>, <<>>)

FaultyLogSpawn(m) == SpawnVerifier(m) /\ Log(m, <<>>, <<>>)

LogSpawn(m) ==
    SpawnVerifier(m) /\ Log(m, <<>>, <<Entry(m, "delegation.spawned", "ALLOW")>>)

FaultyLogDenyDelegation(m) ==
    pc[m] = "delegate" /\ ~may_mint(grant) /\ UNCHANGED allvars

LogDenyDelegation(m) ==
    DenyDelegation(m) /\ Log(m, <<>>, <<Entry(m, "delegation.denied", "DENY")>>)

LogIssueVerdict(m) ==
    IssueVerdict(m) /\ Log(m, <<>>, <<Entry(m, "verdict.received", "PASS")>>)

LogDenyVerdict(m) ==
    DenyVerdict(m) /\ Log(m, <<>>, <<Entry(m, "verdict.denied", "DENY")>>)

LogAccept(m) ==
    /\ Accept(m)
    /\ Log(m, <<>>,
           <<Entry(m, "mission.acceptance",
                   IF pc'[m] = "accepted" THEN "ACCEPTED" ELSE "REJECTED")>>)

LogClaim(m) ==
    LET Decision(yes, no) == IF verifier'[m] # None THEN yes ELSE no
    IN  /\ ClaimVerification(m)
        /\ Log(m, <<Entry(m, "verification.claim", Decision("ALLOW", "DENY")),
                    Entry(m, "mission.acceptance", Decision("ACCEPTED", "REJECTED"))>>,
               <<>>)

LogReturnBundle(m) == ReturnBundle(m) /\ Log(m, <<>>, <<>>)

LogStep(m) ==
    \/ LogAllow(m) \/ LogBlockEffect(m) \/ LogNothing(m) \/ LogReadResult(m)
    \/ LogRaise(m) \/ LogSpawn(m) \/ LogDenyDelegation(m) \/ LogIssueVerdict(m)
    \/ LogDenyVerdict(m) \/ LogAccept(m) \/ LogClaim(m) \/ LogReturnBundle(m)

EvidenceNext ==
    \/ \E m \in Missions, k \in Kinds : LogBegin(m, k)
    \/ \E m \in Missions : LogStep(m)
    \/ (Revoke \/ Tick) /\ UNCHANGED evidence

EvidenceSpec == EvidenceInit /\ [][EvidenceNext]_allvars

\* A run that began goes on, step after step: run and governed_agent_run wait for
\* nobody but Git, which is assumed to answer.  Nobody else has to go on.
FairEvidenceSpec ==
    EvidenceSpec
    /\ \A m \in Missions : WF_allvars(kind[m] # "stepwise" /\ LogStep(m))

-----------------------------------------------------------------------------
(* What the evidence is worth. *)

\* "an immutable audit trace": also over repeated runs of one object nothing is
\* removed or rewritten, in the trace as in the steps that a bundle shares with
\* its object, and a returned bundle's copy of the trace never changes.
EvidenceOnlyGrows ==
    [][/\ \A a \in DOMAIN trace : IsPrefix(trace[a], trace'[a])
       /\ \A w \in DOMAIN steps : IsPrefix(steps[w], steps'[w])
       /\ \A m \in Missions : bundle[m] # None => bundle'[m] = bundle[m]]_allvars

\* Whatever is merged was allowed on record first, and no merge is on record twice
\* or that did not happen; each stands directly after the ALLOW of its attempt.  A
\* merge that was made is missing only until the agent knows its commit, or for good
\* when the mission failed at that point and never used the commit.
MergesOnRecord ==
    \A m \in Missions :
        LET t == trace[Agent(m, kind[m])]
            merges == {i \in DOMAIN t : t[i] = Entry(m, "git.merge", "ALLOW")}
            allows == {i \in DOMAIN t : t[i] = Entry(m, "authority.resolve", "ALLOW")}
        IN  /\ \A i, j \in merges : i = j
            /\ \A i \in merges : i - 1 \in allows
            /\ merged[m] # None => allows # {}
            /\ merges # {} => merged[m] # None
            /\ merged[m] # None /\ merges = {} =>
                 result[m] = None /\ pc[m] \in {"merged", "raised"}

\* The steps of a run that goes well, in their order.
RunChain == <<"mission.start", "effect.complete", "delegation.spawned",
              "verdict.received", "mission.acceptance">>

\* An accepted run of a workflow is documented from its start to its acceptance
\* without a gap and with nothing of another run in between, and its bundle has
\* its merge as the last thing the agent did.
AcceptedRunOnRecord ==
    \A m \in Missions : kind[m] = "workflow" /\ Accepted(m) =>
        LET s == steps[WorkflowOf[m]]
        IN  /\ \E b \in 0..(Len(s) - 5) :
                 /\ \A i \in DOMAIN s : s[i].mission = m <=> i \in (b + 1)..(b + 5)
                 /\ \A i \in 1..5 : s[b + i].kind = RunChain[i]
            /\ Last(bundle[m]) = Entry(m, "git.merge", "ALLOW")

\* The step that records how a run was refused.
Refusal == [blocked |-> "effect.blocked", delegation_denied |-> "delegation.denied",
            verdict_denied |-> "verdict.denied"]

\* "Refusals are auditable evidence, not silent failures": a workflow run that
\* returned without acceptance has the step that refused it on record, and
\* nothing of its own after it; a Level 4 run has its rejection as the last
\* entry of its bundle.
RefusalOnRecord ==
    \A m \in Missions : bundle[m] # None /\ ~Accepted(m) =>
        IF kind[m] = "workflow"
        THEN LET s == steps[WorkflowOf[m]]
             IN  \E i \in DOMAIN s :
                   /\ s[i] = Entry(m, Refusal[pc[m]], "DENY")
                   /\ \A j \in DOMAIN s : j > i => s[j].mission # m
        ELSE /\ bundle[m] # <<>>
             /\ Last(bundle[m]) = Entry(m, "mission.acceptance", "REJECTED")
=============================================================================
