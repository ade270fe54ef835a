# STEWARD in TLA+

A verification development of the acceptance machinery of STEWARD: when may the
system say that a mission is *accepted*, and what must then be true of the
owners it composes (WORKS, Runtime, Trust Gateway/AIE, Habitat, Sentinel)?
Paths below are relative to the repository.

## 1. Inventory

STEWARD owns no execution, authority or verification truth. It composes other
owners' answers, and accepts when they agree. There are three such compositions:
the **P2 Golden Mission** (`src/steward`), which talks to real owners through
ports, the **governed reference agent** (`src/steward_reference`), where grants,
mint and verifier are local objects, and the **P1 vertical slice**, one coding
task in a temporary repository. Beside them stand the older doors through which
a mission's dispatch reaches WORKS, a readiness gate for the Golden Mission, and
a builder of presence projections.

| Component | State it keeps | Operations | Talks to | What is hard | What makes it correct |
|---|---|---|---|---|---|
| Golden Mission coordinator (`p2_golden_mission.py`) | only the locals of one call of `execute` | `execute` | all six ports, in order | no lock, no journal, no undo: concurrent and repeated calls of the same request, failure after any port call, late effects | accepted only on the complete causal chain; one subject and one request per execution |
| Runtime v2 port, subprocess transport (`ports/runtime.py`) | none | `dispatch` | Runtime, WORKS | lost or crossed receipts, timeout | receipt is of the requested Work |
| Git subject port (`ports/git_subject.py`) | none | `prepare`, `capture`, `is_current` | Habitat | the head moves before and after capture | candidate comes from the prepared worktree |
| Trust Gateway client (`ports/trust_gateway.py`) | none | `execute` | Trust Gateway, AIE | the decision races the client's timeout; approvals | approval and denial stop the call; receipt is of this execution |
| Subject-binding port (`ports/runtime_subject.py`) | none | `bind` | Runtime, WORKS | two candidates for one execution | the subject is bound once, and to this candidate |
| Sentinel port (`ports/sentinel.py`) | none | `verify`, `satisfies` | Sentinel | verdicts on other commits | only SHIP of the exact candidate counts |
| Mission acceptance port (`ports/mission_acceptance.py`) | none | `project` | WORKS | evidence is read per Work, not per attempt | chain names this context and this policy decision |
| Authority resolver (`delegated_authority.py`) | none (pure) | `validate_grant`, `is_attenuated`, `grant_state`, `resolve_action` | - | instants, expiry boundary, malformed grants | DENY unless every condition holds; authority decays |
| Verdict delegation (`sentinel_delegation.py`) | mint counter, child grants | mint, request, `issue_verdict`, accept | resolver | revocation or expiry between steps and between the resolution and the mint; a counter without a lock; several verifiers | a child grant verifies one commit and nothing else |
| Governed agent (`governed_agent.py`) | audit trace | `attempt_merge`, `verify_independently`, `accept_mission`, `governed_agent_run` | resolver, Git | the merge is made some ten Git commands after it was resolved; Git failing before and after it; malformed grants | refusals leave evidence; a merge the agent knows of is on record; no self-verification |
| Governed workflow (`mission_workflow.py`) | step list, agent | `run` | agent, delegation | one frozen instant for a run that takes time | accepted only on a delegated verdict |
| WORKS adapter (`adapters/works.py`) | none | acceptance 1.0 and 2.0, subject binding, reads | WORKS | retries under one idempotency key, late and crossed answers, failures that do not tell whether the request was sent | a returned acceptance is durable and of the caller's own request |
| Runtime v1 port (`ports/runtime.py`) | none | `dispatch` | Runtime, WORKS | a bridge that is killed while its children go on; a receipt that can be compared with nothing | no acceptance that WORKS has not made |
| Live readiness gate (`p2_live_readiness.py`) | none | `inspect_live_readiness` | the environment | the gate and the client it speaks for read the same address in different ways | READY and BLOCKED agree with what the client takes |
| P1 vertical slice (`vertical_slice.py`) | trace | `run` | Git, test runner | what was tested and what was committed differ; failures after the verdict; repeated runs | the accepted commit is right, and its trace complete |
| Presence projection (`presence_projection.py`) | none (pure) | `build_presence_projection` | - | rules written twice, in builder and schema | a visible state never overclaims its source |
| Scripts (`scripts/`) | none | command lines | the above | - | - |

Components interact by synchronous calls; there are no callbacks and no shared
memory inside STEWARD. Concurrency comes from outside: several processes or
threads call `execute` or drive missions, and the owners act on their own time.
The one object that missions on several threads may share is the mint.

## 2. Modules

| Module | What it is |
|---|---|
| `ExactSubjectAcceptance` | the abstract specification the three compositions implement: an execution is tied to one exact subject, ties are for ever, only tied subjects are shipped, only shipped ones accepted |
| `GoldenMission` | `execute`, its six ports, and the owners as far as the ports observe them |
| `GoldenMissionProofs` | its theorems |
| `DelegatedAuthority` | the resolver and the mint as operators on grants |
| `MissionWorkflow` | missions of the reference agent, extending `DelegatedAuthority`: the workflow, a direct caller of the library, and the Level 4 run, with clock and revocation |
| `EvidenceTrail` | extends `MissionWorkflow` with what every step leaves behind: audit trace, step list, bundle, repeated runs of one workflow object |
| `ExactlyOnceDispatch` | the abstract specification of dispatch: a key is spent on one request, and acceptance is reported for that request only |
| `DispatchAcceptance` | WORKS's adapter and the Runtime v1 port, calling WORKS concurrently |
| `VerticalSlice` | the P1 run with Git and the tests as environment |
| `LiveReadiness` | the gate, beside the constructor of the client it speaks for |
| `PresenceProjection` | builder and schema, side by side |
| `AbstractProofs` | the theorems about the two abstract specifications |
| other `...Proofs` | the theorems about the module of that name (section 6) |
| `MC...` | small instances for TLC; a `.cfg` per question |

`ExactSubjectAcceptance` is implemented by `GoldenMission`, `MissionWorkflow` and
`VerticalSlice`; `ExactlyOnceDispatch` by `DispatchAcceptance`. The two abstract
specifications are checked as properties of those runs, and what they promise is
proved (section 6). `EvidenceTrail` conjoins each action of `MissionWorkflow` with
its evidence, so that no step is taken without it.

### GoldenMission

One action per port call, in the order of `execute`:

    Execute -> Dispatch -> Prepare -> Authorize -> ReceiveAllow -> Capture -> Bind -> Verify -> Project
                                            |-> ReceiveApprovalRequired

`Fail` is every way an exception leaves `execute`: owner unavailable, timeout,
rejection, malformed or mismatching answer, death of the process. It undoes
nothing, as the code undoes nothing. It need never come, since the transports of
Habitat and Sentinel have no timeout: `Spec` assumes no fairness, and no property
says that a call ends. A port call that the owner applies but whose answer is lost
is the failing disjunct of `Dispatch`, `Prepare`, `Bind` and `Verify`, and for
Trust Gateway `Fail` while the action is pending, after which `TgAllow` may still
apply the effect.

The locals of a call are `attempt` (the request), `exec`, `worktree`, `pdr`,
`candidate`; the owners' ledgers are `dispatched`, `bound`, `binder` (the attempt
in whose name a subject was bound), `chain`, `outcome` (WORKS), `head` (Habitat),
`action` (Trust Gateway) and `verdicts` (Sentinel).

What the ports check is named: `SameWork`, `SameAttempt`, `SameContext`,
`SameWorktree`, `SameBinding`, `SameHead`, `Satisfies`, `SameChain`, `Verified`.
An answer is always a **true statement of its owner, possibly about another
request**: cached, replayed or crossed. Each check is the comparison the port
makes, on the identities the model keeps: what a port does not compare (the
attempt of a Runtime receipt, the action of a Trust Gateway receipt, anything of
an answer "needs approval") is open in the model. `SameBinding` compares
execution, subject and attempt; the effect and causal ids, which the port compares
too, are fixed by the attempt's one request, and the Work by the execution.

Identities are abstracted: an execution is named by the attempt it was minted
for, a worktree by the call that prepared it, a policy decision by the call
whose action it allows, a subject `git:repo@sha` by its commit. There is one
repository and one base. DO_NOT_SHIP stands for all verdicts that are not SHIP,
which `satisfies` treats alike. The check that a candidate's Work is the
Runtime receipt's (`p2_golden_mission.py:119`) follows from `SameAttempt` and
`SameWork`.

Assumed of the owners, from the documents under `docs/contracts`: WORKS is
durable, replays a repeated dispatch, binds a subject once and answers a
repetition with the binding it has, enters one policy decision in an execution's
identity chain, and settles an outcome once; Trust Gateway's decision on an
action is final, and an approval authorises another attempt rather than the held
one (`P2-TRUST-GATEWAY-PORT.md:45`). Nothing else: they may be slow, silent, or
answer the wrong question, Habitat's heads may move at any time.

### DelegatedAuthority and MissionWorkflow

`validate_grant`, `is_attenuated`, `Allows` (= `resolve_action` returns ALLOW),
`may_mint` and `mint_child_grant` are the functions of the same names; grants
are records, instants naturals, and the reason of a denial is left out. Grants
with missing fields are not modelled.

A mission is driven in one of three ways. `"workflow"` is
`GovernedMissionWorkflow.run`, which resolves every step at one instant;
`"stepwise"` is a caller of the library who makes the same calls each at its own
instant, may spawn verifiers again, ask about any commit and present any verdict
in hand; `"level4"` is `governed_agent_run`, where acceptance rests on the agent's
own grant. An instant is an argument of the caller, never compared with a clock:
`Moments` are the instants a run may be begun with and `Instants` those a
resolution may be made at, and only a Level 4 run that was given none asks the
clock at each resolution.

What an ALLOW permits is made later. A merge is three actions: `AllowMerge`
(`governed_agent.py:78`), `Merge` (the `git merge` at `:108`, after about ten Git
commands) and `ReadResult` (`rev-parse` at `:109`, the event and the return);
`RaiseInMerge` may end the mission before the merge is made and after it. So
`merged` is the commit that was made, `result` the commit the mission knows of. A
delegation is five: `ApproveDelegation` (the resolver), `StartMint` (the mint's own
checks, and the first read of its counter), `CountMint` (the write), `NumberChild`
and `SpawnVerifier` (the two reads from which `grant_id` and `verifier_ref` are
formatted; the third, `grant_ref`, is kept nowhere in the model). Nothing guards
the counter, so mintings of two missions interleave between any of them.

`Revoke` and `Tick` come between any two of these actions. The grant is one object
read anew by every resolution: a revocation between merge and delegation is seen by
the resolver, one between a resolution and its effect is not. Three variables are
history, which no step reads: `overlapped`, `lateMerges` and `lateChildren`. Two
merges may have the same commit, since equal content merged within a second has
the same hash. There is one mint and one grant. A caller of the single functions
who catches a denial and goes on is a mission that has not taken the denying step.

### EvidenceTrail

Every action of `MissionWorkflow` together with the entries its code appends: to
`trace` (`GovernedAgent._trace`, per agent), to `steps` (`_steps`, per workflow
object), and, where the run returns, to `bundle`. A workflow object owns one agent
and may run several missions, one after the other; `governed_agent_run` and a
direct caller make an agent of their own. A bundle copies the trace but holds the
object's own list of steps (`mission_workflow.py:167`), so a bundle's steps are
read from `steps` whenever they are read, and a later run of the object shows in
them; the trace in the bundle is what `AcceptedRunOnRecord` is about. `git.merge`
is recorded by `LogReadResult`, after the last Git command: a failure at
`rev-parse` leaves a merge that no record mentions, one to remove the temporary
directory leaves the event but no step. That the runs of one object follow one
another (`MayRun`) is its caller's discipline, assumed here; no lock of the code
keeps it. Sequence numbers are positions. Entries are tagged with the mission,
which only the properties read.

### DispatchAcceptance

A call is made at one of three doors. `"works"` is a client with credentials and
`"bare"` one without, both with `accept_dispatch` (1.0) or `accept_dispatch_v2`
(2.0, which needs the credentials, and is followed by
`bind_verification_subject`); `"runtime"` is `RuntimePort.dispatch` through the
subprocess bridge (1.0):

    CallWorks -> Send -> Receive -> BindSubject -> SendBinding -> ReceiveBinding
              |       |-> Fail                  |              |-> FailBinding -> BindSubject
              |-> FailToSend                    |-> FailToSendBinding -> BindSubject
    CallRuntime -> ReceiveReceipt | Fail

`FailToSend` is a request that cannot be built or finds no connection: nothing is
on its way. What was sent stays on its way: `WorksAccept` may apply a request
before or after its call has failed, `Forward` lets the descendants of a killed
bridge go on, and a retry is another call with the same request. An answer is a
true statement of WORKS about the execution of *some* key, and is taken when the
comparisons of the door let it pass (`PreservedV1`, `PreservedV2`, `SameBinding`);
a Runtime receipt is compared with nothing, so it may name any execution. Which
exception a failure raises is left out. The attempt and the subject a caller binds
are its free choice, as in the code. Fields of a request are grouped by who
compares them: `mission` stands for mission and runtime dispatch id, `attempt` for
attempt, effect, causal id and the rest 1.0 does not compare. Executions and their
correlation ids are named by their key. Assumed of WORKS: one execution per key,
one subject per execution, both for ever.

### VerticalSlice

One action per recorded event of `run`, `Accept` or `Reject` at the end, and
`Raise` for every command that fails. A tree or commit is the content of
`mathlib.py`. Nothing is assumed of what Git commits, only that a worktree at a
commit holds that commit; a test may fail on anything and passes only on the
fix. Runs of one object share its trace.

### LiveReadiness

The gate is one call without state: the initial states are the environments it may
find, `inspect_live_readiness` its only step. It is set beside `ClientAccepts`, the
checks of `TrustGatewayClient.__init__` on the same address and token, because the
two read an address differently: `urlparse` strips blanks before it, drops tabs and
line breaks and lowers the scheme, where the client asks for `http://` or `https://`
to the letter, and the client does not ask for a host. An unclosed bracket makes the
gate itself raise (`Error`). An address is a record of just these features. Nothing
else under `src` reads the variables: the coordinator and its ports are given
objects, so what a mission does under a report is not the code's to say and not
modelled.

### PresenceProjection

The builder is one call without state: the initial states are the arguments of
`Calls`, which may be any strings. The vocabularies are the code's own; which
strings the schema takes for a commit or an instant are the constants `Shas` and
`Times`. `MCPresenceProjection` has an example of every kind of argument builder
or schema treats differently. The schema's rules are split into those about
states and those about single fields.

## 3. Properties and runs

| Run | Instance | Distinct states | Shows |
|---|---|---|---|
| `golden_mission` | 2 calls, attempts a1, a2 of one Work and b1 of another, base and 2 commits | about 881,000 (under symmetry) | all safety properties, refinement |
| `mission_workflow` | 2 missions, 2 commits, 8 kinds of grant, window 2, instants 0..2 | about 488,000 (under symmetry) | all safety properties, late effects, decay, refinement |
| `dispatch` | 2 calls at any door, 8 requests of both versions that share keys, missions, attempts and subjects | about 724,000 (under symmetry) | all safety properties, refinement |
| `evidence_trail` | 2 missions, which share an object if both are workflows, 5 grants, instants 0..2 | about 573,000 | merges, acceptances, refusals on record; nothing rewritten; `EveryMissionReturns` |
| `vertical_slice` | 3 runs of one object, 3 contents | about 101,000 | the accepted commit is right, traces complete, refinement |
| `live_readiness` | every kind of address, 3 kinds of token, 4 of each command | about 116,000 | `GateAgreesWithClient` |
| `presence` | all combinations of the example arguments | about 93,000 | `BuilderAgreesWithStateRules` |
| `golden_mission_head`, `golden_mission_base`, `mission_workflow_window`, `mission_workflow_refusal` | as `golden_mission` and `mission_workflow` | - | what a document says and the code does not, section 5 |

*GoldenMission.* `AcceptedIsFullyEvidenced`: acceptance implies the whole chain
in the owners' ledgers, though no line of `execute` sees all of it (the evidence
bundle names no subject, the verdict no execution).
`OneAcceptedSubjectPerExecution`, `AcceptedStaysInItsWork`,
`NoBindingWithoutAllowedAction`, `NoVerdictBeforeBinding` relate calls that race
or repeat each other.

*MissionWorkflow.* `AcceptedOnDelegatedVerdict`, `ChildScope` and
`VerdictIdNamesOneCommit` say what an acceptance, a spawned verifier and a
verdict id are worth, the last as long as no two mintings overlapped, since
overlapping ones do give out one id twice. `LateEffectGoesNoFurther` says how far a
mission gets on an ALLOW that a revocation, or the expiry of a run by the clock, has
overtaken: one effect, and a commit merged so gets no verifier of its own and no
verification by the agent. `AuthorityDecays` is about the resolver over time.
`ChildOutlivesParentBriefly` and `SelfVerificationIsSentinelBound` give the exact
limits of what the code allows beyond its documents (section 5).

*EvidenceTrail.* `MergesOnRecord` relates what happened to what is on record, also
when Git fails half way: a merge on record was made and allowed, and one that was
made is missing only while the mission does not know its commit, for good if it
fails there. `AcceptedRunOnRecord` and `RefusalOnRecord` say that a run's own record
is whole, whatever earlier runs of the object left: an accepted run has its five
steps in one piece, a refused one the step that refused it, of the right kind, and
nothing after it, or, at Level 4, its rejection as the last event of its bundle.
`EvidenceOnlyGrows` says that nothing is rewritten, in the traces as in the steps.

*DispatchAcceptance.* What a returned acceptance or binding is worth after
timeouts, retries, crossed answers and conflicting callers. `HeldIsDurable` holds
at all doors; `AcceptanceIsOfItsRequest`, `AcceptancePreservesSubject` and
`BoundToOneSubject` where the code compares enough. `OnlyAskedForIsAccepted` says
that nothing becomes durable that no sendable request asked for.

*VerticalSlice.* `AcceptedCommitIsRight` though Git may commit other content than
the builder tested; `VerdictIsAnswered` and `ReturnedTraceIsComplete` though runs
fail and share a trace.

*LiveReadiness.* `GateAgreesWithClient`: READY means that the Trust Gateway client
can be constructed, unless the address is written in an unusual way; BLOCKED, where
it could be, means an address without a host or a command that is not found. The
documents call READY necessary and not sufficient, so this is a limit, not a
contradiction.

*PresenceProjection.* The builder refuses exactly what the schema's state rules
forbid, except that it demands Sentinel as the owner of a success where the
schema does not; a projection it returns is invalid only for an argument it passes
on unchecked.

*Why the bounds are enough.* Two calls are what a race, a retry of the same
request and a crossed answer need, and every safety property speaks of at most two
calls or verdicts; three attempts in two Works give an answer of the same attempt,
of another attempt of the same Work, and of another Work; base plus two commits
separate "unchanged", "candidate" and "moved". Instants 0..2 with an expiry at 1
and window 2 lie before the expiry, at it and after it, and let a child grant be
minted, used and outlive its parent; one minted at 0 has itself expired at 2.
`MaxMint` bounds how often a caller spawns again. Two calls at the doors of WORKS are a call and its retry, or two competitors under one key, each of
whose requests may still arrive late or twice; requests that differ in one
compared field each show whether it is compared. Two missions on one object are a
run and its repetition, three runs of a slice one that failed before and one
after. The theorems of section 6 hold without these bounds.

The symmetry sets permute calls, attempts of one Work and the non-base commits
(`GoldenMission`), missions and commits (`MissionWorkflow`, whose set of grants is
closed under it) and calls (`DispatchAcceptance`). The run that checks liveness uses
no symmetry.

Deadlock is not checked, because in every one of these systems all calls, missions
or runs may have returned, after which nothing need happen. That no run of a mission
is stuck before is what `EveryMissionReturns` says.

Definitions named `Faulty...` are seeded faults: nothing uses them. Each stands
before the definition it would replace and shows that the property named with it
in `PROJECT.json` notices the fault.

## 4. Fairness

Only `EvidenceTrail` assumes any: weak fairness of the steps of each begun run, of
`run` or `governed_agent_run`, which are straight-line code in one thread. They wait
for nobody but Git, whose commands have no timeout and are assumed to end. A mission
that is never begun, a caller of the single functions who stops, a clock that does
not move and a revocation that never comes are all allowed.

`GoldenMission` and `DispatchAcceptance` assume none. The Habitat and Sentinel
transports have no timeout in this repository, and that of `urlopen` bounds a socket
operation, not a call: nothing in the code guarantees that a call of `execute` or of
the WORKS adapter ends, and no property claims it (section 8).

## 5. Where code and documents differ

Four runs end in a counterexample, each to a sentence of a document:

1. `golden_mission_head`: a call accepts commit A after its worktree moved to B;
   `satisfies` gets the captured commit, not the current one.
2. `golden_mission_base`: an allowed action that commits nothing leaves the base
   commit as candidate, and it is bound as the exact subject.
3. `mission_workflow_window`: a merge before `granted_at`.
4. `mission_workflow_refusal`: a run refused for a malformed grant raises and
   returns no evidence.

Other places where the code is laxer than a text beside it show in the models. A
property that passes says how far each one goes, where there is such a limit:

| The code | The text | How far it goes |
|---|---|---|
| A child grant's expiry is counted from now and compared with no other (`sentinel_delegation.py:81`) | `docs/10-AUTHORITY-EGRESS.md:8` | less than one window beyond the parent: `ChildOutlivesParentBriefly` |
| A Level 4 agent is accepted on its own verification claim (`governed_agent.py:128`) | `docs/20-DELEGATED-AUTONOMY.md:30` | only with a Sentinel binding that is open or names the commit: `SelfVerificationIsSentinelBound` |
| A run keeps the instant it began at, and delegates after the grant's expiry (`mission_workflow.py:96`) | `docs/20-DELEGATED-AUTONOMY.md:75` | the instant the caller passed is before the expiry, so the child's window is counted from there: `ChildOutlivesParentBriefly`; after a revocation nothing new is resolved: `LateEffectGoesNoFurther` |
| A merge allowed before a revocation is made after it (`governed_agent.py:78`, `:108`), a verifier likewise (`sentinel_delegation.py:142`, `:149`) | the same | one such effect of a mission, and no verification of a commit merged so by its own verifier or the agent: `LateEffectGoesNoFurther` |
| A failure of `rev-parse` leaves a merge on no record (`governed_agent.py:109`) | `docs/20-DELEGATED-AUTONOMY.md:32` speaks of refusals only | only at that point, and its mission never uses the commit: `MergesOnRecord` |
| Two threads may get one verdict id from the mint (`sentinel_delegation.py:79`) | - | only when two mintings overlap: `VerdictIdNamesOneCommit` |
| Gate and client read an address differently (`p2_live_readiness.py:51`, `trust_gateway.py:129`) | `docs/contracts/P2-LIVE-READINESS.md` | only for unusual writing and a missing host: `GateAgreesWithClient` |
| The builder passes arguments on that the projection's schema rejects | `schemas/presence-projection.schema.json` | the state rules agree, and only an unchecked argument is invalid: `BuilderAgreesWithStateRules` |
| A second run of a workflow object appends to the steps in the bundle of the first (`mission_workflow.py:167`) | - | no step that was there is changed or removed, and the trace in the bundle stays: `EvidenceOnlyGrows`; each run's own steps stay whole: `AcceptedRunOnRecord` |
| An id with a final newline passes as a WORKS-minted one (`mission_workflow.py:50`: `$` matches before it) | the message of the check | not modelled |

## 6. What is proved

`tlapm` checks the eight proof modules to the last leaf, for every value of the
constants. The assumptions are the named ones of the modules: `WorkOf` gives each
attempt a Work, the base is a commit, `None` is none of the values it is absent
from, the persona is not the verifier's, the window is positive, the clock is
bounded, the agent grants have the shape of a grant, a request has its fields and
a version 2 one no subject, a workflow object is not a mission, the fix is a
content, `None` and `Error` are no arguments of the builder, lowering a scheme
leaves `http` and `https` as they are. Attenuation, validity or expiry of the
agent's grants is *not* assumed. The theorems about the two abstract
specifications state what they need of their constants as a hypothesis
(`UnboundIsNoSubject`, `WellKeyed`); the modules that implement them satisfy it by
their own assumptions.

| Theorem | Property |
|---|---|
| `GoldenMissionProofs`: `TypeCorrect` | `TypeOK` |
| `EvidenceTheorem` | `AcceptedIsFullyEvidenced` |
| `OneSubjectTheorem` | `OneAcceptedSubjectPerExecution` |
| `WorkIsolationTheorem` | `AcceptedStaysInItsWork` |
| `BindingTheorem` | `NoBindingWithoutAllowedAction` |
| `VerdictTheorem` | `NoVerdictBeforeBinding` |
| `Refinement` | `ImplementsExactSubjectAcceptance` |
| `MissionWorkflowProofs`: `TypeCorrect` | `TypeOK` |
| `DelegatedVerdictTheorem` | `AcceptedOnDelegatedVerdict` |
| `ChildScopeTheorem` | `ChildScope` |
| `VerdictIdTheorem` | `VerdictIdNamesOneCommit` |
| `LateEffectTheorem` | `LateEffectGoesNoFurther` |
| `OutliveTheorem` | `ChildOutlivesParentBriefly` |
| `SelfVerificationTheorem` | `SelfVerificationIsSentinelBound` |
| `DecayTheorem` | `AuthorityDecays` |
| `Refinement` | `ImplementsExactSubjectAcceptance` |
| `EvidenceTrailProofs`: `EvidenceMissionsAreMissions` | `EvidenceSpec` implies `Spec` of `MissionWorkflow` |
| `MergesAreOnRecord` | `MergesOnRecord` |
| `AcceptedRunsAreOnRecord` | `AcceptedRunOnRecord` |
| `RefusalsAreOnRecord` | `RefusalOnRecord` |
| `NothingIsRewritten` | `EvidenceOnlyGrows` |
| `DispatchAcceptanceProofs`: `TypeCorrect` | `TypeOK` |
| `NoOptimisticFallback` | `HeldIsDurable` |
| `OwnRequestIsAccepted` | `AcceptanceIsOfItsRequest` |
| `SubjectIsPreserved` | `AcceptancePreservesSubject` |
| `OneSubjectIsBound` | `BoundToOneSubject` |
| `NothingUnasked` | `OnlyAskedForIsAccepted` |
| `Refinement` | `ImplementsExactlyOnceDispatch` |
| `VerticalSliceProofs`: `AcceptedIsRight` | `AcceptedCommitIsRight` |
| `ReturnedTracesAreComplete` | `ReturnedTraceIsComplete` |
| `VerdictsAreAnswered` | `VerdictIsAnswered` |
| `Refinement` | `ImplementsExactSubjectAcceptance` |
| `LiveReadinessProofs`: `GateIsInStepWithClient` | `GateAgreesWithClient` |
| `PresenceProjectionProofs`: `BuilderAgrees` | `BuilderAgreesWithStateRules` |
| `AbstractProofs`: `TypeCorrect`, `AcceptanceStaysExact` | `TypeOK`, `AcceptanceIsExact` of `ExactSubjectAcceptance` |
| `OneRequestIsReported` | `OneRequestPerKey` of `ExactlyOnceDispatch` |

*GoldenMission.* The properties speak of calls that have ended, so none is
inductive. `IInv` says what a call has secured at each step: `OriginInv` (the
execution is of the requested Work, the worktree of the requested attempt),
`DecisionInv` (a kept policy decision allows an action of the same execution),
`SubjectInv` (from `verify` on WORKS holds the candidate for the execution, in the
name of the call's own attempt, from `project` on Sentinel has shipped it),
`EvidenceInv` (an accepted call saw a passed outcome under its own decision),
`FreshInv` (a call has posted no action before it authorises). The steps of other
calls cannot undo this because the ledgers only grow: a bound subject, an allowed
action, a chained decision and a settled outcome are never changed. There is one
lemma per action.

*MissionWorkflow.* `MissionInv` says what a mission holds at each step,
`MintInv` what the mint has given out, `VerdictInv` that a verdict is about the
commit its minted grant is bound to (the resolver lets the verifier pass no other),
`AcceptInv` that acceptance found a verdict on the mission's commit. `CountInv` is the
argument about the unlocked counter: as long as no two mintings overlapped, the
counter belongs to the one that counts, lies above every reference given out, and
separates them. Lemmas about the operators come first: `AllowsHeld`,
`AllowsBoundSubject`, `AllowsDecays`, `MintType`, `MintFields`. For the late effects,
`LapsedDenies` says that at no instant the mission may pass a lapsed grant allows
anything, `LapseIsForEver` that it stays lapsed for that mission, and `LateInv` where
a mission with a late effect can still be. Each of the remaining properties has an
invariant or a lemma per step of its own.

*EvidenceTrail.* Dropping the evidence turns every step into one of
`MissionWorkflow`, which gives `EvidenceMissionsAreMissions`. `EInv` then says:
entries about a mission that has not begun do not exist (`FreshInv`), only a
mission that has returned has a bundle (`BundleInv`), at most one run of an object
is under way (`TurnInv`), and what the trace says of a mission at each place
(`OnRecord`): its ALLOW is the last event until its merge is recorded, there is at
most one merge, directly after it, and a merge that was made is missing only where
its commit is not known. Appending to a trace leaves earlier entries in place,
which is a lemma about sequences.

The two properties about a run's own record speak of runs that have ended, in a
list that others may have written to since, so what is inductive is about runs
that have not: besides `TurnInv`, `StepsInv`, that a run under way has its steps
at the end of the object's list, as many links of `RunChain` as its place in the
run says (`EndsInRun`), none before it begins. Every step of a workflow that is
recorded takes one link of `Onward` or `Refusals`, but for the exception of Git
(`WorkflowTakes`). When the run ends, what stands at the end of the list becomes a
statement about a position in it (`Documented`, `EndsWith`), which no later run
disturbs (`OthersAppend`). `EndsInv` does the same for the bundle: from its merge
on a workflow run has the merge as its agent's last event, and a Level 4 run,
whose agent is its own, its outcome (`OwnAgent`). It needs the turns as well:
another run of the object that logged in between would break it.

*DispatchAcceptance.* `IInv` adds to the types that a call past `idle` has a
request its door may send (`AskedInv`), that what is on its way was asked for by
such a call (`SentInv`), that the ledgers of WORKS hold only what was sent, under
its own key (`WorksInv`), and that what a call holds is backed by the ledger in
just the fields its door compares (`BackedInv`), that of the Runtime door only in
that there is an execution. The ledger never changes an entry, so failures and
retries of others cannot take the backing away. In the refinement `WorksAccept` is
`Spend`, a `Receive` that succeeds at the version 2 door is `Report`, all else
stutters.

*VerticalSlice.* `VerdictInv`: from the checkout on the verifier's content is the
candidate's, and a PASS means that content is the fix. `TraceInv` is about the
trace that all runs of an object share: a run under way has its events at the end
of it, as far along `Chain` as it has come, and a run that has ended after a verdict has
its answer somewhere in it; a returned trace is a copy of the first kind.

*LiveReadiness.* A report says what the checks say (`GateInv`); `ReadyIsAccepted` and
`AcceptedIsReady` are the two directions of the comparison, for any environment.

*Refinement of acceptance.* `Bind`, `Verify` and `Project` map to the abstract
`Bind`, `Ship` and `Accept`, as do `ReadResult`, `IssueVerdict` and `Accept` of the
delegated missions, and `Commit`, `Verify` and `Accept` of the slice; every other
step stutters.

*PresenceProjection.* Strings are compared, never computed with, so the proof
quantifies over any set of them; the one change the builder makes to an argument,
an empty commit that becomes none, touches no field a state rule reads.

Only model-checked: `EveryMissionReturns`, since fairness and `ENABLED` are beyond
these proofs, and the four counterexamples. Every other property a passing run checks
is a theorem above.

## 7. Plan

Done: both acceptance compositions and their evidence, the slice, dispatch into
WORKS, the gate and the projections, with the proofs above. What could follow:

1. Two mints, or one after a restart, whose ids collide, once some code of the
   repository compares them.
2. `create_work` and its retries, when it gets an idempotency key to retry under.
3. The release of worktrees, when the Git subject port gets such an operation.

## 8. Not modelled, and why

Of the WORKS adapter `create_work`, `get_work` and `list_events`, which pass their
arguments on and keep nothing; `is_current` of the Git subject port, which nothing
calls. Formats (regular expressions of ids, JSON, HTTP status decoding) are
abstracted to "accepted" or "refused" except where a property is about them: the
readiness checks and the projection's fields. `WorksCorrelation`'s check of its
ids is left out with them. Exception classes are one outcome: no class of the
adapters tells reliably whether a request was sent (`WorksUnavailableError` is a
refused connection, one that broke while the request was written, and a 503).
Scripts parse arguments and write files around the modelled functions. Schemas,
fixtures and architecture documents are data; the documents are quoted where a run
compares them with the code. Release of worktrees and cancellation do not exist in
the code. Nothing in the modelled code survives a restart, so a crash is a call
that raises and never acts again.

Hazards that no property of the project reaches, besides the transports without a
timeout (section 4): the ids of two mints, or of one after a restart, collide
(`sentinel_delegation.py:79`); every call of `execute` prepares a worktree and
none is released (`p2_golden_mission.py:92`), a leak without a limit in the code
to run into; a timeout while the Trust Gateway client reads a body is a bare
`TimeoutError` (`trust_gateway.py:157`), which the coordinator passes on like any
other exception; the timeout of `urlopen` is per socket operation
(`works.py:469`); `create_work` has no idempotency key, so that a retry makes a
second Work (`works.py:338`).
