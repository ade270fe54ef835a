--------------------------- MODULE MissionWorkflow ---------------------------
(***************************************************************************)
(* The governed reference agent: missions that merge under a delegated     *)
(* grant and are accepted on a verdict, while the clock runs and AIE may   *)
(* revoke the grant between any two steps.  A mission is made in one of    *)
(* three ways:                                                             *)
(*   "workflow"  GovernedMissionWorkflow.run, which resolves every step at *)
(*               one instant;                                              *)
(*   "stepwise"  the same calls made by a caller of the library, each at   *)
(*               whatever instant it passes, who may delegate again, ask   *)
(*               the verifier about any commit and present any verdict;    *)
(*   "level4"    governed_agent_run, where the agent's own grant must      *)
(*               carry the Sentinel-bound verification capability.         *)
(* The agent's grant is one object, read anew by every resolution; the     *)
(* effect that an ALLOW permits is made later, and the missions, each on a *)
(* thread of its own, share one mint whose counter no lock guards.         *)
(***************************************************************************)
EXTENDS DelegatedAuthority

CONSTANTS
    Missions,       \* missions of one agent
    Shas,           \* result commits of merges
    Persona,        \* the agent's persona
    AgentGrants,    \* the grants the agent may have been handed
    MaxClock,       \* bound: the last instant, of the clock and of a caller
    MaxMint         \* bound: no repeated delegation beyond this count

Kinds == {"workflow", "stepwise", "level4"}

ASSUME PersonaAssumption == Persona # VERIFIER_PERSONA_ID
ASSUME NoneAssumption == None \notin Shas \cup Kinds \cup {Persona} \cup Nat
ASSUME ClockAssumption == MaxClock \in Nat
ASSUME GrantsAssumption ==
    AgentGrants \subseteq
        Grants({Persona}, {None}, {"sentinel", "agent"}, Shas \cup {None})

VARIABLES
    clock,          \* the time
    grant,          \* the agent's grant
    counter,        \* AieMint._counter
    minted,         \* the child grants AieMint has made
    verdicts,       \* the verdicts spawned verifiers have issued
    pc,             \* where each mission is
    kind,           \* how it is made
    moment,         \* the instant it resolves at, None for the clock's own
    merged,         \* the commit its merge made
    result,         \* result_sha, the commit its merge is known to have made
    seen,           \* what its delegation last read of the counter
    child,          \* the child grant its spawned verifier holds
    verifier,       \* whose verification it was accepted on
    \* History, which no step reads:
    overlapped,     \* two mintings were ever under way at once
    lateMerges,     \* the missions whose merge was made under a lapsed grant
    lateChildren    \* how many verifiers each spawned under a lapsed grant

mission == <<pc, kind, moment, merged, result, seen, child, verifier>>
history == <<overlapped, lateMerges, lateChildren>>
vars == <<clock, grant, counter, minted, verdicts, mission, history>>

Minting == {"mint", "count", "number", "refer"}
Counting == {"count", "number", "refer"}
Running == {"merge", "effect", "merged", "delegate", "verdict", "accept", "claim",
            "bundle"} \cup Minting
Returned == {"blocked", "delegation_denied", "verdict_denied", "rejected", "accepted"}
Terminal == Returned \cup {"raised"}

ChildGrants == Grants({VERIFIER_PERSONA_ID}, {Persona}, {"sentinel"}, Shas)
Verdicts == [verdict_id : Nat, child_grant_id : Nat, subject : Shas,
             verifier_persona_id : {VERIFIER_PERSONA_ID}, delegated_by : {Persona}]

TypeOK ==
    /\ clock \in 0..MaxClock
    /\ grant \in Grants({Persona}, {None}, {"sentinel", "agent"}, Shas \cup {None})
    /\ counter \in Nat
    /\ minted \subseteq ChildGrants
    /\ verdicts \subseteq Verdicts
    /\ pc \in [Missions -> {"idle"} \cup Running \cup Terminal]
    /\ kind \in [Missions -> Kinds \cup {None}]
    /\ moment \in [Missions -> 0..MaxClock \cup {None}]
    /\ merged \in [Missions -> Shas \cup {None}]
    /\ result \in [Missions -> Shas \cup {None}]
    /\ seen \in [Missions -> Nat]
    /\ child \in [Missions -> ChildGrants \cup {None}]
    /\ verifier \in [Missions -> {Persona, VERIFIER_PERSONA_ID, None}]
    /\ overlapped \in BOOLEAN
    /\ lateMerges \subseteq Missions
    /\ lateChildren \in [Missions -> Nat]

Init ==
    /\ clock = 0
    /\ grant \in AgentGrants
    /\ counter = 0
    /\ minted = {}
    /\ verdicts = {}
    /\ pc = [m \in Missions |-> "idle"]
    /\ kind = [m \in Missions |-> None]
    /\ moment = [m \in Missions |-> None]
    /\ merged = [m \in Missions |-> None]
    /\ result = [m \in Missions |-> None]
    /\ seen = [m \in Missions |-> 0]
    /\ child = [m \in Missions |-> None]
    /\ verifier = [m \in Missions |-> None]
    /\ overlapped = FALSE
    /\ lateMerges = {}
    /\ lateChildren = [m \in Missions |-> 0]

Goto(m, step) == pc' = [pc EXCEPT ![m] = step]

world == <<clock, grant>>
ledger == <<counter, minted, verdicts>>

-----------------------------------------------------------------------------
(* The steps of a mission. *)

\* The instants a call may pass as now: one run has one, or asks the clock at
\* every resolution; a caller of the single functions passes what it likes.
Instants(m) ==
    IF kind[m] = "stepwise" THEN 0..MaxClock
    ELSE IF moment[m] = None THEN {clock}
    ELSE {moment[m]}

\* What may be passed to the run: run() replaces an absent now by the clock's at
\* once, governed_agent_run hands it on.
Moments(k) ==
    CASE k = "workflow" -> 0..MaxClock
      [] k = "level4"   -> 0..MaxClock \cup {None}
      [] k = "stepwise" -> {None}

\* A run, or the first call of a sequence, begins.
Begin(m, k) ==
    /\ pc[m] = "idle"
    /\ kind' = [kind EXCEPT ![m] = k]
    /\ \E t \in Moments(k) : moment' = [moment EXCEPT ![m] = t]
    /\ Goto(m, "merge")
    /\ UNCHANGED <<world, ledger, merged, result, seen, child, verifier, history>>

\* attempt_merge: the resolver allows the merge.
AllowMerge(m) ==
    /\ pc[m] = "merge"
    /\ \E t \in Instants(m) : Allows(grant, "pr:merge", None, t)
    /\ Goto(m, "effect")
    /\ UNCHANGED <<world, ledger, kind, moment, merged, result, seen, child, verifier,
                   history>>

\* attempt_merge, denied: effect.blocked.
BlockEffect(m) ==
    /\ pc[m] = "merge"
    /\ \E t \in Instants(m) : ~Allows(grant, "pr:merge", None, t)
    /\ Goto(m, IF kind[m] = "level4" THEN "bundle" ELSE "blocked")
    /\ UNCHANGED <<world, ledger, kind, moment, merged, result, seen, child, verifier,
                   history>>

\* The grant no longer stands, by the time the mission goes by.
Lapsed(m) ==
    \/ revoked(grant)
    \/ kind[m] = "level4" /\ moment[m] = None /\ expired(grant, clock)

\* git merge, about ten commands after the resolution.  The commit is whatever
\* Git computes; missions with the same content may get the same one.
Merge(m) ==
    /\ pc[m] = "effect"
    /\ \E s \in Shas : merged' = [merged EXCEPT ![m] = s]
    /\ lateMerges' = IF Lapsed(m) THEN lateMerges \cup {m} ELSE lateMerges
    /\ Goto(m, "merged")
    /\ UNCHANGED <<world, ledger, kind, moment, result, seen, child, verifier,
                   overlapped, lateChildren>>

\* rev-parse HEAD reads the commit, which is recorded and returned.
ReadResult(m) ==
    /\ pc[m] = "merged"
    /\ result' = [result EXCEPT ![m] = merged[m]]
    /\ Goto(m, IF kind[m] = "level4" THEN "claim" ELSE "delegate")
    /\ UNCHANGED <<world, ledger, kind, moment, merged, seen, child, verifier, history>>

\* Git, or the removal of its directory, fails before the merge or after it:
\* nothing catches the exception.
RaiseInMerge(m) ==
    /\ pc[m] \in {"effect", "merged"}
    /\ Goto(m, "raised")
    /\ UNCHANGED <<world, ledger, kind, moment, merged, result, seen, child, verifier,
                   history>>

FaultyTrustTheMint(m, t) == may_mint(grant)

\* request_sentinel_delegation asks the resolver.
MayDelegate(m, t) == Allows(grant, "verify:delegate", None, t)

\* A caller of the library may ask for another verifier at any time.
Delegating(m) ==
    \/ pc[m] = "delegate"
    \/ pc[m] \in {"verdict", "accept"} /\ kind[m] = "stepwise" /\ counter < MaxMint

\* request_sentinel_delegation: the agent's approval, kept with its instant for
\* the mint.
ApproveDelegation(m) ==
    /\ Delegating(m)
    /\ \E t \in Instants(m) :
         MayDelegate(m, t) /\ moment' = [moment EXCEPT ![m] = t]
    /\ Goto(m, "mint")
    /\ UNCHANGED <<world, ledger, kind, merged, result, seen, child, verifier, history>>

\* mint_child_grant checks the grant again, its state left out, and begins to
\* count: it reads the counter.
StartMint(m) ==
    /\ pc[m] = "mint"
    /\ may_mint(grant)
    /\ seen' = [seen EXCEPT ![m] = counter]
    /\ overlapped' = (overlapped \/ \E n \in Missions : pc[n] \in Counting)
    /\ Goto(m, "count")
    /\ UNCHANGED <<world, ledger, kind, moment, merged, result, child, verifier,
                   lateMerges, lateChildren>>

\* The resolver or the mint denies: delegation.denied ends the run.  (A caller of
\* the library that goes on after a denial is where it was.)
DenyDelegation(m) ==
    /\ \/ pc[m] = "delegate" /\ \E t \in Instants(m) : ~MayDelegate(m, t)
       \/ pc[m] = "mint" /\ ~may_mint(grant)
    /\ Goto(m, "delegation_denied")
    /\ UNCHANGED <<world, ledger, kind, moment, merged, result, seen, child, verifier,
                   history>>

\* It writes the counter back, whatever others have written since.
CountMint(m) ==
    /\ pc[m] = "count"
    /\ counter' = seen[m] + 1
    /\ Goto(m, "number")
    /\ UNCHANGED <<world, minted, verdicts, kind, moment, merged, result, seen, child,
                   verifier, history>>

\* grant_id is formatted from the counter, read anew.
NumberChild(m) ==
    /\ pc[m] = "number"
    /\ seen' = [seen EXCEPT ![m] = counter]
    /\ Goto(m, "refer")
    /\ UNCHANGED <<world, ledger, kind, moment, merged, result, child, verifier, history>>

\* verifier_ref is formatted from the counter, read once more; the child grant is
\* complete, valid, and the verifier is spawned with it.
SpawnVerifier(m) ==
    /\ pc[m] = "refer"
    /\ LET g == mint_child_grant(grant, result[m], moment[m], seen[m], counter)
       IN  /\ validate_grant(g)
           /\ minted' = minted \cup {g}
           /\ child' = [child EXCEPT ![m] = g]
    /\ lateChildren' = IF Lapsed(m) THEN [lateChildren EXCEPT ![m] = @ + 1]
                                    ELSE lateChildren
    /\ Goto(m, "verdict")
    /\ UNCHANGED <<world, counter, verdicts, kind, moment, merged, result, seen,
                   verifier, overlapped, lateMerges>>

\* The commit the verifier is asked about.
Asked(m) == IF kind[m] = "workflow" THEN {result[m]} ELSE Shas

MayIssue(m, s, t) == Allows(child[m], "verify:exact-subject", s, t)

\* The verdict a verifier holding child grant g gives on s.
Verdict(g, s) ==
    [verdict_id |-> g.binding.ref, child_grant_id |-> g.grant_id, subject |-> s,
     verifier_persona_id |-> g.grantee, delegated_by |-> g.delegated_by]

\* issue_verdict: only the child grant is asked, not the agent's.
IssueVerdict(m) ==
    /\ pc[m] = "verdict"
    /\ \E s \in Asked(m), t \in Instants(m) :
         MayIssue(m, s, t) /\ verdicts' = verdicts \cup {Verdict(child[m], s)}
    /\ Goto(m, "accept")
    /\ UNCHANGED <<world, counter, minted, kind, moment, merged, result, seen, child,
                   verifier, history>>

\* issue_verdict raises: verdict.denied.  (Here too a caller of the library that
\* asks again is where it was.)
DenyVerdict(m) ==
    /\ pc[m] = "verdict"
    /\ \E s \in Asked(m), t \in Instants(m) : ~MayIssue(m, s, t)
    /\ Goto(m, "verdict_denied")
    /\ UNCHANGED <<world, ledger, kind, moment, merged, result, seen, child, verifier,
                   history>>

FaultyAnySubject(m, v) == v.verifier_persona_id = VERIFIER_PERSONA_ID

\* accept_mission_with_delegated_verdict, the effect being complete.
Satisfies(m, v) ==
    /\ v.subject = result[m]
    /\ v.verifier_persona_id = VERIFIER_PERSONA_ID

\* The workflow presents the verdict it just received, a caller any verdict.
Presentable(m) ==
    IF kind[m] = "workflow" THEN verdicts \cap {Verdict(child[m], result[m])}
    ELSE verdicts

Accept(m) ==
    /\ pc[m] = "accept" \/ (pc[m] \in {"delegate", "verdict"} /\ kind[m] = "stepwise")
    /\ \E v \in Presentable(m) :
         /\ verifier' = [verifier EXCEPT ![m] =
                           IF Satisfies(m, v) THEN v.verifier_persona_id ELSE None]
         /\ Goto(m, IF Satisfies(m, v) THEN "accepted" ELSE "rejected")
    /\ UNCHANGED <<world, ledger, kind, moment, merged, result, seen, child, history>>

\* verify_independently: the claim is resolved on the agent's own grant, and
\* accept_mission takes its ALLOW for the verdict.
ClaimVerification(m) ==
    /\ pc[m] = "claim"
    /\ \E t \in Instants(m) :
         verifier' = [verifier EXCEPT ![m] =
           IF Allows(grant, "verify:exact-subject", result[m], t)
           THEN grant.grantee ELSE None]
    /\ Goto(m, "bundle")
    /\ UNCHANGED <<world, ledger, kind, moment, merged, result, seen, child, history>>

\* governed_agent_run puts the grant's state in the bundle, which raises for a
\* malformed grant; otherwise the outcome is returned.
ReturnBundle(m) ==
    /\ pc[m] = "bundle"
    /\ Goto(m, IF ~validate_grant(grant) THEN "raised"
               ELSE IF verifier[m] # None THEN "accepted" ELSE "rejected")
    /\ UNCHANGED <<world, ledger, kind, moment, merged, result, seen, child, verifier,
                   history>>

Step(m) ==
    \/ AllowMerge(m) \/ BlockEffect(m) \/ Merge(m) \/ ReadResult(m) \/ RaiseInMerge(m)
    \/ ApproveDelegation(m) \/ DenyDelegation(m) \/ StartMint(m) \/ CountMint(m)
    \/ NumberChild(m) \/ SpawnVerifier(m) \/ IssueVerdict(m) \/ DenyVerdict(m)
    \/ Accept(m) \/ ClaimVerification(m) \/ ReturnBundle(m)

-----------------------------------------------------------------------------
(* The world around the missions. *)

\* AIE revokes the agent's grant.
Revoke ==
    /\ ~revoked(grant)
    /\ grant' = [grant EXCEPT !.revoked_at = clock, !.status = "revoked"]
    /\ UNCHANGED <<clock, ledger, mission, history>>

Tick ==
    /\ clock < MaxClock
    /\ clock' = clock + 1
    /\ UNCHANGED <<grant, ledger, mission, history>>

Next ==
    \/ \E m \in Missions, k \in Kinds : Begin(m, k)
    \/ \E m \in Missions : Step(m)
    \/ Revoke
    \/ Tick

Spec == Init /\ [][Next]_vars

-----------------------------------------------------------------------------
(* What the chain promises. *)

Accepted(m) == pc[m] = "accepted"

\* A mission is never accepted on the merge alone: whoever drives it and
\* whatever verdicts are at hand, the commit it merged has a verdict, issued on
\* a child grant that AIE minted for exactly that commit, that is attenuated
\* against the agent's parent set, and that names the agent as delegator.
AcceptedOnDelegatedVerdict ==
    \A m \in Missions : Accepted(m) /\ kind[m] # "level4" =>
        \E v \in verdicts, g \in minted :
            /\ v.subject = result[m]
            /\ v.verdict_id = g.binding.ref /\ v.child_grant_id = g.grant_id
            /\ g.binding.subject = result[m]
            /\ g.delegated_by = Persona
            /\ g.capabilities \subseteq grant.parent_capabilities

\* The spawned verifier can do exactly one thing: whenever it is asked, its
\* grant allows nothing but exact-subject verification of the bound commit.
ChildScope ==
    \A g \in minted, cap \in Capabilities, s \in Shas \cup {None}, t \in 0..MaxClock :
        Allows(g, cap, s, t) => cap = "verify:exact-subject" /\ s = g.binding.subject

\* A verdict id, on which evidence is correlated, names one commit, also when
\* verifiers are spawned again or for several missions, as long as no two of
\* them were minted at the same time: the mint counts without a lock.
VerdictIdNamesOneCommit ==
    ~overlapped =>
        \A v, w \in verdicts : v.verdict_id = w.verdict_id => v.subject = w.subject

\* An ALLOW may be out of date when its effect is made: AIE may have revoked the
\* grant since, or a run that goes by the clock may have passed its expiry.  A
\* mission makes one such effect at most, and a commit merged so is verified
\* neither by a verifier of the mission's own nor by the agent.
LateEffectGoesNoFurther ==
    \A m \in Missions :
        /\ lateChildren[m] <= 1
        /\ m \in lateMerges => child[m] = None /\ verifier[m] # Persona

\* Authority only decays: when the clock ticks or the grant changes, neither the
\* agent's grant nor a child grant allows anything that it did not allow before.
AuthorityDecays ==
    [][\/ UNCHANGED world
       \/ \A cap \in Capabilities, s \in Shas \cup {None} :
            /\ Allows(grant, cap, s, clock)' => Allows(grant, cap, s, clock)
            /\ \A g \in minted : Allows(g, cap, s, clock') => Allows(g, cap, s, clock)
      ]_vars

\* A child grant may outlive the agent's grant, as no expiry is compared with the
\* parent's, but never by a whole delegation window, however late it is minted.
ChildOutlivesParentBriefly ==
    \A g \in minted : g.expires_at < grant.expires_at + Window

\* The agent that merged is its own verifier at Level 4 only: there a mission is
\* accepted on the agent's claim, and only when its grant, attenuated, carries the
\* verification and a Sentinel binding that is open or names the merged commit.
\* The grant is read again after the claim, and may be revoked in between.
SelfVerificationIsSentinelBound ==
    \A m \in Missions : Accepted(m) /\ verifier[m] = Persona =>
        /\ kind[m] = "level4"
        /\ result[m] # None
        /\ "verify:exact-subject" \in grant.capabilities \cap grant.parent_capabilities
        /\ grant.binding # None
        /\ grant.binding.owner = "sentinel"
        /\ grant.binding.subject \in {None, result[m]}

\* Every run that begins is carried to a result, however it is denied.
EveryMissionReturns ==
    \A m \in Missions :
        pc[m] = "merge" /\ kind[m] # "stepwise" ~> pc[m] \in Terminal

\* "`pr:merge` | merge within grant window": no run merges at an instant before
\* granted_at.
MergeWithinGrantWindow ==
    \A m \in Missions :
        kind[m] = "workflow" /\ merged[m] # None => grant.granted_at <= moment[m]

\* "Refusals are auditable evidence, not silent failures": a mission whose merge
\* was denied still returns its evidence bundle.
RefusalReturnsEvidence ==
    [][\A m \in Missions :
        pc[m] = "bundle" /\ result[m] = None => pc'[m] # "raised"]_vars

-----------------------------------------------------------------------------
(* MissionWorkflow implements ExactSubjectAcceptance. *)

Delegated == {m \in Missions : kind[m] \in {"workflow", "stepwise"}}

Abstract == INSTANCE ExactSubjectAcceptance WITH
    Executions <- Missions, Subjects <- Shas, Unbound <- None,
    subject <- [m \in Missions |-> IF m \in Delegated THEN result[m] ELSE None],
    shipped <- {v.subject : v \in verdicts},
    accepted <- {<<m, result[m]>> : m \in {n \in Delegated : Accepted(n)}}

\* A delegated mission is accepted only for the one commit it merged, and only
\* after a verifier spawned for that commit passed it.
ImplementsExactSubjectAcceptance == Abstract!Spec
=============================================================================
