------------------------ MODULE MissionWorkflowProofs ------------------------
(***************************************************************************)
(* Proofs about MissionWorkflow, for any number of missions and commits,   *)
(* any set of agent grants, well formed or not, any window and any bounds. *)
(***************************************************************************)
EXTENDS MissionWorkflow, TLAPS

AgentGrant == Grants({Persona}, {None}, {"sentinel", "agent"}, Shas \cup {None})

(***************************************************************************)
(* The resolver and the mint.                                              *)
(***************************************************************************)

\* A grant that allows anything is not revoked, and holds what it allows.
LEMMA AllowsHeld ==
    ASSUME NEW g, NEW cap, NEW sha, NEW now, Allows(g, cap, sha, now)
    PROVE  ~revoked(g) /\ cap \in g.capabilities
BY DEF Allows, active

\* An exact-subject ALLOW of a grant bound to a commit is about that commit.
LEMMA AllowsBoundSubject ==
    ASSUME NEW g, NEW sha, NEW now, Allows(g, "verify:exact-subject", sha, now),
           g.binding.subject # None
    PROVE  g.binding.subject = sha
BY DEF Allows, sentinel_bound, VERIFY_CAPABILITIES

\* As time passes, a grant that stays as it is allows no more than before.
LEMMA AllowsDecays ==
    ASSUME NEW g, g.expires_at \in Nat, NEW cap, NEW sha,
           NEW t \in Nat, NEW u \in Nat, t <= u, Allows(g, cap, sha, u)
    PROVE  Allows(g, cap, sha, t)
BY DEF Allows, active, expired

\* The mint makes child grants of the type the agent's grants have.
LEMMA MintType ==
    ASSUME NEW g \in AgentGrant, NEW s \in Shas, NEW now \in Nat,
           NEW id \in Nat, NEW ref \in Nat
    PROVE  mint_child_grant(g, s, now, id, ref) \in ChildGrants
BY WindowAssumption DEF mint_child_grant, ChildGrants, Grants, AgentGrant, Capabilities

\* The fields of a minted grant that the properties speak of.
LEMMA MintFields ==
    ASSUME NEW g \in AgentGrant, NEW s \in Shas, NEW now \in Nat,
           NEW id \in Nat, NEW ref \in Nat
    PROVE  LET c == mint_child_grant(g, s, now, id, ref)
           IN  /\ c.grant_id = id
               /\ c.binding.ref = ref
               /\ c.grantee = VERIFIER_PERSONA_ID
               /\ c.capabilities = {"verify:exact-subject"}
               /\ c.parent_capabilities = g.parent_capabilities
               /\ c.expires_at = now + Window
               /\ c.binding.subject = s
               /\ c.delegated_by = Persona
BY DEF mint_child_grant, Grants, AgentGrant

(***************************************************************************)
(* AcceptedOnDelegatedVerdict is not inductive.  The strengthening says    *)
(* what each mission holds at each step, what the mint has given out, that *)
(* its counter separates the references as long as no two mintings         *)
(* overlap, and that every verdict comes from a minted grant and is about  *)
(* the commit that grant is bound to.                                      *)
(***************************************************************************)

\* A mission knows its commit exactly from the merge's record on, only a
\* delegated one gets as far as a verifier, and one that is having it minted was
\* approved at an instant before the grant's expiry.
MissionInv ==
    \A m \in Missions :
        /\ pc[m] = "idle" <=> kind[m] = None
        /\ pc[m] \in {"idle", "merge", "effect"} => merged[m] = None
        /\ pc[m] \in {"idle", "merge", "effect", "merged"} => result[m] = None
        /\ pc[m] = "merged" => merged[m] # None
        /\ pc[m] \in {"delegate", "verdict", "accept"} \cup Minting =>
             result[m] # None /\ m \in Delegated
        /\ pc[m] \in Minting => moment[m] \in Nat /\ moment[m] < grant.expires_at
        /\ pc[m] \in {"claim", "bundle"} => kind[m] = "level4"
        /\ pc[m] = "verdict" => /\ child[m] \in minted
                               /\ child[m].binding.subject = result[m]

\* What the mint has given out, and to whom.
MintInv ==
    /\ \A g \in minted :
         /\ g.capabilities = {"verify:exact-subject"}
         /\ g.capabilities \subseteq grant.parent_capabilities
         /\ g.binding.ref \in Nat
         /\ g.binding.subject \in Shas
         /\ g.delegated_by = Persona
    /\ \A m \in Missions :
         pc[m] \in Counting => "verify:exact-subject" \in grant.parent_capabilities

\* Mintings that never overlapped count one after the other: the counter is
\* nobody else's while one counts, and no reference is given out twice.
CountsAlone ==
    /\ \A m, n \in Missions : pc[m] \in Counting /\ pc[n] \in Counting => m = n
    /\ \A m \in Missions : pc[m] = "count" => seen[m] = counter
    /\ \A g \in minted : g.binding.ref <= counter
    /\ \A m \in Missions, g \in minted :
         pc[m] \in {"number", "refer"} => g.binding.ref < counter
    /\ \A g, h \in minted : g.binding.ref = h.binding.ref => g = h

CountInv == ~overlapped => CountsAlone

\* Verdicts come from minted grants, about the commit they are bound to.
VerdictInv ==
    \A v \in verdicts : \E g \in minted :
        /\ v.verdict_id = g.binding.ref /\ v.child_grant_id = g.grant_id
        /\ v.subject = g.binding.subject

\* Acceptance found a verdict on the mission's commit.
AcceptInv ==
    \A m \in Missions : Accepted(m) /\ kind[m] # "level4" =>
        m \in Delegated /\ \E v \in verdicts : v.subject = result[m]

IInv ==
    TypeOK /\ MissionInv /\ MintInv /\ CountInv /\ VerdictInv /\ AcceptInv

USE NoneAssumption DEF Running, Returned, Terminal, Minting, Counting, Goto, mission,
    history, world, ledger, Kinds, Accepted, Delegated

\* The initial states: no mission has begun and nothing has been minted.
LEMMA InitInv == Init => IInv
<1> SUFFICES ASSUME Init PROVE IInv
    OBVIOUS
<1>1. TypeOK
  <2>1. overlapped \in BOOLEAN
      BY Zenon DEF Init
  <2> QED BY <2>1, ClockAssumption, GrantsAssumption DEF Init, TypeOK
<1>2. MissionInv /\ AcceptInv
    BY DEF Init, MissionInv, AcceptInv
<1>3. MintInv /\ CountInv /\ VerdictInv
    BY DEF Init, MintInv, CountInv, CountsAlone, VerdictInv
<1> QED BY <1>1, <1>2, <1>3 DEF IInv

\* The steps that touch neither the mint nor a verdict, nor what a mission counts.
Quiet ==
    /\ UNCHANGED <<counter, minted, verdicts, overlapped, seen>>
    /\ grant' = grant
    /\ \A m \in Missions : pc'[m] \in Counting => pc'[m] = pc[m]

\* They leave what holds of the mint as it was.
LEMMA QuietMint ==
    ASSUME MintInv, CountInv, VerdictInv, Quiet
    PROVE  MintInv' /\ CountInv' /\ VerdictInv'
BY DEF MintInv, CountInv, CountsAlone, VerdictInv, Quiet

\* The instants a call may pass are instants.
LEMMA InstantsNat ==
    ASSUME TypeOK, NEW m \in Missions
    PROVE  Instants(m) \subseteq 0..MaxClock
BY ClockAssumption DEF TypeOK, Instants

\* A mission that begins holds nothing yet.
LEMMA BeginInv ==
    ASSUME IInv, NEW m \in Missions, NEW k \in Kinds, Begin(m, k)
    PROVE  IInv'
<1> USE DEF IInv, Begin
<1>1. PICK t \in Moments(k) : moment' = [moment EXCEPT ![m] = t]
    OBVIOUS
<1>2. t \in 0..MaxClock \cup {None}
    BY DEF Moments
<1>3. TypeOK'
    BY <1>1, <1>2 DEF TypeOK
<1>4. MissionInv'
    BY <1>1 DEF TypeOK, MissionInv
<1>5. Quiet
    BY DEF TypeOK, Quiet
<1>6. AcceptInv'
    BY DEF TypeOK, MissionInv, AcceptInv
<1> QED BY <1>3, <1>4, <1>5, <1>6, QuietMint

\* An ALLOW for the merge is no merge yet.
LEMMA AllowMergeInv ==
    ASSUME IInv, NEW m \in Missions, AllowMerge(m)
    PROVE  IInv'
<1> USE DEF IInv, AllowMerge
<1>1. TypeOK'
    BY DEF TypeOK
<1>2. MissionInv'
    BY DEF TypeOK, MissionInv
<1>3. Quiet
    BY DEF TypeOK, Quiet
<1>4. AcceptInv'
    BY DEF TypeOK, MissionInv, AcceptInv
<1> QED BY <1>1, <1>2, <1>3, <1>4, QuietMint

\* A denied merge leaves the mission without a commit.
LEMMA BlockEffectInv ==
    ASSUME IInv, NEW m \in Missions, BlockEffect(m)
    PROVE  IInv'
<1> USE DEF IInv, BlockEffect
<1>1. TypeOK'
    BY DEF TypeOK
<1>2. MissionInv'
    BY DEF TypeOK, MissionInv
<1>3. Quiet
    BY DEF TypeOK, Quiet
<1>4. AcceptInv'
    BY DEF TypeOK, MissionInv, AcceptInv
<1> QED BY <1>1, <1>2, <1>3, <1>4, QuietMint

\* A merge makes a commit that the mission does not know yet.
LEMMA MergeInv ==
    ASSUME IInv, NEW m \in Missions, Merge(m)
    PROVE  IInv'
<1> USE DEF IInv, Merge
<1>1. TypeOK'
    BY DEF TypeOK
<1>2. MissionInv'
    BY DEF TypeOK, MissionInv
<1>3. Quiet
    BY DEF TypeOK, Quiet
<1>4. AcceptInv'
    BY DEF TypeOK, MissionInv, AcceptInv
<1> QED BY <1>1, <1>2, <1>3, <1>4, QuietMint

\* From its record on the mission has its commit, before it has a verifier.
LEMMA ReadResultInv ==
    ASSUME IInv, NEW m \in Missions, ReadResult(m)
    PROVE  IInv'
<1> USE DEF IInv, ReadResult
<1>1. TypeOK'
    BY DEF TypeOK
<1>2. MissionInv'
    BY DEF TypeOK, MissionInv
<1>3. Quiet
    BY DEF TypeOK, Quiet
<1>4. AcceptInv'
    BY DEF TypeOK, MissionInv, AcceptInv
<1> QED BY <1>1, <1>2, <1>3, <1>4, QuietMint

\* A mission whose merge fails never knows a commit.
LEMMA RaiseInMergeInv ==
    ASSUME IInv, NEW m \in Missions, RaiseInMerge(m)
    PROVE  IInv'
<1> USE DEF IInv, RaiseInMerge
<1>1. TypeOK'
    BY DEF TypeOK
<1>2. MissionInv'
    BY DEF TypeOK, MissionInv
<1>3. Quiet
    BY DEF TypeOK, Quiet
<1>4. AcceptInv'
    BY DEF TypeOK, MissionInv, AcceptInv
<1> QED BY <1>1, <1>2, <1>3, <1>4, QuietMint

\* An approval holds at an instant before the grant's expiry.
LEMMA ApproveDelegationInv ==
    ASSUME IInv, NEW m \in Missions, ApproveDelegation(m)
    PROVE  IInv'
<1> USE DEF IInv, ApproveDelegation, Delegating
<1>1. PICK t \in Instants(m) :
          MayDelegate(m, t) /\ moment' = [moment EXCEPT ![m] = t]
    OBVIOUS
<1>2. t \in 0..MaxClock /\ t \in Nat
    BY <1>1, InstantsNat, ClockAssumption
<1>3. t < grant.expires_at
    BY <1>1, <1>2 DEF MayDelegate, Allows, active, expired, TypeOK, Grants
<1>4. TypeOK'
    BY <1>1, <1>2 DEF TypeOK
<1>5. MissionInv'
    BY <1>1, <1>2, <1>3 DEF TypeOK, MissionInv
<1>6. Quiet
    BY DEF TypeOK, Quiet
<1>7. AcceptInv'
    BY DEF TypeOK, MissionInv, AcceptInv
<1> QED BY <1>4, <1>5, <1>6, <1>7, QuietMint

\* A denied delegation mints nothing.
LEMMA DenyDelegationInv ==
    ASSUME IInv, NEW m \in Missions, DenyDelegation(m)
    PROVE  IInv'
<1> USE DEF IInv, DenyDelegation
<1>1. TypeOK'
    BY DEF TypeOK
<1>2. MissionInv'
    BY DEF TypeOK, MissionInv
<1>3. Quiet
    BY DEF TypeOK, Quiet
<1>4. AcceptInv'
    BY DEF TypeOK, MissionInv, AcceptInv
<1> QED BY <1>1, <1>2, <1>3, <1>4, QuietMint

\* The mint reads the counter: alone, or there is an overlap.
LEMMA StartMintInv ==
    ASSUME IInv, NEW m \in Missions, StartMint(m)
    PROVE  IInv'
<1> USE DEF IInv, StartMint
<1>1. TypeOK'
    BY DEF TypeOK
<1>2. MissionInv'
    BY DEF TypeOK, MissionInv
<1>3. MintInv'
    BY DEF TypeOK, MintInv, may_mint
<1>4. CountInv'
    BY DEF TypeOK, CountInv, CountsAlone
<1>5. VerdictInv' /\ AcceptInv'
    BY DEF TypeOK, MissionInv, VerdictInv, AcceptInv
<1> QED BY <1>1, <1>2, <1>3, <1>4, <1>5

\* A minting that is alone makes the counter greater than every reference.
LEMMA CountMintInv ==
    ASSUME IInv, NEW m \in Missions, CountMint(m)
    PROVE  IInv'
<1> USE DEF IInv, CountMint
<1>1. TypeOK'
    BY DEF TypeOK
<1>2. MissionInv'
    BY DEF TypeOK, MissionInv
<1>3. MintInv'
    BY DEF TypeOK, MintInv
<1>4. CountInv'
  <2> SUFFICES ASSUME ~overlapped PROVE CountsAlone'
      BY DEF CountInv
  <2> USE DEF CountsAlone
  <2>1. /\ counter' = counter + 1 /\ counter \in Nat
        /\ UNCHANGED <<minted, seen, overlapped>>
        /\ pc[m] = "count" /\ pc' = [pc EXCEPT ![m] = "number"]
        /\ pc \in [Missions -> {"idle"} \cup Running \cup Terminal]
      BY DEF TypeOK, CountInv, CountsAlone
  <2>2. \A g \in minted : g.binding.ref \in Nat /\ g.binding.ref < counter'
      BY <2>1 DEF MintInv, CountInv
  <2>3. \A n \in Missions \ {m} : pc'[n] \notin Counting
      BY <2>1 DEF CountInv
  <2>4. /\ \A n, k \in Missions : pc'[n] \in Counting /\ pc'[k] \in Counting => n = k
        /\ \A n \in Missions : pc'[n] # "count"
      BY <2>1, <2>3
  <2>5. \A g \in minted : g.binding.ref <= counter'
      BY <2>1, <2>2
  <2>6. \A g, h \in minted : g.binding.ref = h.binding.ref => g = h
      BY DEF CountInv
  <2> HIDE DEF IInv, CountMint, Counting
  <2> QED BY <2>1, <2>2, <2>4, <2>5, <2>6
<1>5. VerdictInv' /\ AcceptInv'
    BY DEF TypeOK, MissionInv, VerdictInv, AcceptInv
<1> QED BY <1>1, <1>2, <1>3, <1>4, <1>5

\* The child's number is read.
LEMMA NumberChildInv ==
    ASSUME IInv, NEW m \in Missions, NumberChild(m)
    PROVE  IInv'
<1> USE DEF IInv, NumberChild
<1>1. TypeOK'
    BY DEF TypeOK
<1>2. MissionInv'
    BY DEF TypeOK, MissionInv
<1>3. MintInv'
    BY DEF TypeOK, MintInv
<1>4. CountInv'
    BY DEF TypeOK, CountInv, CountsAlone
<1>5. VerdictInv' /\ AcceptInv'
    BY DEF TypeOK, MissionInv, VerdictInv, AcceptInv
<1> QED BY <1>1, <1>2, <1>3, <1>4, <1>5

\* A verifier is spawned with one more child grant, bound to the mission's commit,
\* and with a reference of its own if its minting was alone.
LEMMA SpawnVerifierInv ==
    ASSUME IInv, NEW m \in Missions, SpawnVerifier(m)
    PROVE  IInv'
<1> USE DEF IInv, SpawnVerifier
<1> DEFINE g == mint_child_grant(grant, result[m], moment[m], seen[m], counter)
<1>1. /\ grant \in AgentGrant /\ result[m] \in Shas /\ moment[m] \in Nat
      /\ counter \in Nat /\ seen[m] \in Nat /\ m \in Delegated /\ pc[m] = "refer"
    BY DEF TypeOK, MissionInv, AgentGrant
<1>2. g \in ChildGrants
    BY <1>1, MintType
<1>3. /\ g.binding.ref = counter
      /\ g.capabilities = {"verify:exact-subject"}
      /\ g.binding.subject = result[m]
      /\ g.delegated_by = Persona
    BY <1>1, MintFields
<1>4. /\ minted' = minted \cup {g}
      /\ child' = [child EXCEPT ![m] = g]
      /\ pc' = [pc EXCEPT ![m] = "verdict"]
      /\ lateChildren' = IF Lapsed(m) THEN [lateChildren EXCEPT ![m] = @ + 1]
                                      ELSE lateChildren
      /\ UNCHANGED <<clock, grant, counter, verdicts, kind, moment, merged, result,
                     seen, verifier, overlapped, lateMerges>>
    OBVIOUS
<1>5. g.capabilities \subseteq grant.parent_capabilities
    BY <1>1, <1>3 DEF MintInv
<1> HIDE DEF g, SpawnVerifier
<1>6. TypeOK'
    BY <1>2, <1>4 DEF TypeOK
<1>7. MissionInv'
    BY <1>1, <1>3, <1>4 DEF TypeOK, MissionInv
<1>8. MintInv'
    BY <1>1, <1>3, <1>4, <1>5 DEF TypeOK, MintInv
<1>9. CountInv'
  <2> SUFFICES ASSUME ~overlapped PROVE CountsAlone'
      BY <1>4 DEF CountInv
  <2> USE DEF CountsAlone
  <2>1. \A h \in minted : h.binding.ref \in Nat /\ h.binding.ref < counter
      BY <1>1 DEF MintInv, CountInv
  <2>2. pc \in [Missions -> {"idle"} \cup Running \cup Terminal]
      BY DEF TypeOK
  <2>3. \A n \in Missions : pc'[n] \notin Counting
      BY <1>1, <1>4, <2>2 DEF CountInv
  <2>4. \A h \in minted' : h.binding.ref <= counter
      BY <1>1, <1>3, <1>4, <2>1
  <2>5. \A h, k \in minted : h.binding.ref = k.binding.ref => h = k
      BY DEF CountInv
  <2>6. \A h, k \in minted' : h.binding.ref = k.binding.ref => h = k
      BY <1>1, <1>3, <1>4, <2>1, <2>5
  <2> HIDE DEF IInv
  <2> QED BY <1>4, <2>3, <2>4, <2>6
<1>10. VerdictInv' /\ AcceptInv'
    BY <1>4 DEF TypeOK, VerdictInv, AcceptInv
<1> QED BY <1>6, <1>7, <1>8, <1>9, <1>10

\* A verdict is about the commit the child grant is bound to: the resolver
\* allows the verifier no other.
LEMMA IssueVerdictInv ==
    ASSUME IInv, NEW m \in Missions, IssueVerdict(m)
    PROVE  IInv'
<1> USE DEF IInv, IssueVerdict
<1>1. PICK s \in Asked(m), t \in Instants(m) :
          MayIssue(m, s, t) /\ verdicts' = verdicts \cup {Verdict(child[m], s)}
    OBVIOUS
<1>2. /\ child[m] \in ChildGrants /\ child[m] \in minted
      /\ child[m].binding.subject = result[m] /\ result[m] \in Shas
      /\ child[m].binding.ref \in Nat
    BY DEF TypeOK, MissionInv, MintInv
<1>3. s = result[m]
    BY <1>1, <1>2, AllowsBoundSubject DEF MayIssue
<1>4. /\ child[m].grant_id \in Nat /\ child[m].grantee = VERIFIER_PERSONA_ID
      /\ child[m].delegated_by = Persona
    BY <1>2 DEF ChildGrants, Grants
<1>5. TypeOK'
    BY <1>1, <1>2, <1>3, <1>4 DEF TypeOK, Verdicts, Verdict
<1>6. MissionInv'
    BY DEF TypeOK, MissionInv
<1>7. MintInv' /\ CountInv'
    BY DEF TypeOK, MintInv, CountInv, CountsAlone
<1>8. VerdictInv'
    BY <1>1, <1>2, <1>3 DEF VerdictInv, Verdict
<1>9. AcceptInv'
    BY <1>1 DEF TypeOK, AcceptInv
<1> QED BY <1>5, <1>6, <1>7, <1>8, <1>9

\* A denied verifier issues nothing.
LEMMA DenyVerdictInv ==
    ASSUME IInv, NEW m \in Missions, DenyVerdict(m)
    PROVE  IInv'
<1> USE DEF IInv, DenyVerdict
<1>1. TypeOK'
    BY DEF TypeOK
<1>2. MissionInv'
    BY DEF TypeOK, MissionInv
<1>3. Quiet
    BY DEF TypeOK, Quiet
<1>4. AcceptInv'
    BY DEF TypeOK, MissionInv, AcceptInv
<1> QED BY <1>1, <1>2, <1>3, <1>4, QuietMint

\* Acceptance only presents verdicts that were issued.
LEMMA AcceptMissionInv ==
    ASSUME IInv, NEW m \in Missions, Accept(m)
    PROVE  IInv'
<1> USE DEF IInv, Accept
<1>1. PICK v \in verdicts :
        /\ verifier' = [verifier EXCEPT ![m] =
                          IF Satisfies(m, v) THEN v.verifier_persona_id ELSE None]
        /\ Goto(m, IF Satisfies(m, v) THEN "accepted" ELSE "rejected")
    BY DEF Presentable
<1>2. v.verifier_persona_id = VERIFIER_PERSONA_ID
    BY DEF TypeOK, Verdicts
<1>3. TypeOK'
    BY <1>1, <1>2 DEF TypeOK
<1>4. MissionInv'
    BY <1>1 DEF TypeOK, MissionInv
<1>5. Quiet
    BY <1>1 DEF TypeOK, Quiet
<1>6. AcceptInv'
    BY <1>1 DEF TypeOK, MissionInv, AcceptInv, Satisfies
<1> QED BY <1>3, <1>4, <1>5, <1>6, QuietMint

\* A Level 4 claim touches no verdict and no child grant.
LEMMA ClaimVerificationInv ==
    ASSUME IInv, NEW m \in Missions, ClaimVerification(m)
    PROVE  IInv'
<1> USE DEF IInv, ClaimVerification
<1>1. TypeOK'
    BY DEF TypeOK, Grants
<1>2. MissionInv'
    BY DEF TypeOK, MissionInv
<1>3. Quiet
    BY DEF TypeOK, Quiet
<1>4. AcceptInv'
    BY DEF TypeOK, MissionInv, AcceptInv
<1> QED BY <1>1, <1>2, <1>3, <1>4, QuietMint

\* A Level 4 run ends without a delegated verdict.
LEMMA ReturnBundleInv ==
    ASSUME IInv, NEW m \in Missions, ReturnBundle(m)
    PROVE  IInv'
<1> USE DEF IInv, ReturnBundle
<1>1. TypeOK'
    BY DEF TypeOK
<1>2. MissionInv'
    BY DEF TypeOK, MissionInv
<1>3. Quiet
    BY DEF TypeOK, Quiet
<1>4. AcceptInv'
    BY DEF TypeOK, MissionInv, AcceptInv
<1> QED BY <1>1, <1>2, <1>3, <1>4, QuietMint

\* A revocation changes neither what was minted, nor the parent set, nor the expiry.
LEMMA RevokeInv == IInv /\ Revoke => IInv'
<1> SUFFICES ASSUME IInv, Revoke PROVE IInv'
    OBVIOUS
<1> USE DEF IInv, Revoke
<1>1. /\ grant' \in AgentGrant
      /\ grant'.parent_capabilities = grant.parent_capabilities
      /\ grant'.expires_at = grant.expires_at
  <2>1. grant \in AgentGrant /\ clock \in Nat
      BY ClockAssumption DEF TypeOK, AgentGrant
  <2>2. grant' = [grant EXCEPT !.revoked_at = clock, !.status = "revoked"]
      OBVIOUS
  <2> HIDE DEF IInv, Revoke
  <2> QED BY <2>1, <2>2 DEF AgentGrant, Grants
<1>2. TypeOK'
    BY <1>1 DEF TypeOK, AgentGrant
<1>3. CountInv' /\ VerdictInv' /\ AcceptInv'
    BY DEF CountInv, CountsAlone, VerdictInv, AcceptInv
<1>4. MissionInv' /\ MintInv'
    BY <1>1 DEF MissionInv, MintInv
<1> QED BY <1>2, <1>3, <1>4

\* The clock touches nothing else.
LEMMA TickInv == IInv /\ Tick => IInv'
BY ClockAssumption DEF IInv, Tick, TypeOK, MissionInv, MintInv, CountInv, CountsAlone,
    VerdictInv, AcceptInv

\* A stuttering step.
LEMMA StutterInv == IInv /\ UNCHANGED vars => IInv'
BY DEF vars, IInv, TypeOK, MissionInv, MintInv, CountInv, CountsAlone,
    VerdictInv, AcceptInv

\* The strengthening is inductive.
LEMMA NextInv == IInv /\ [Next]_vars => IInv'
<1> SUFFICES ASSUME IInv, [Next]_vars PROVE IInv'
    OBVIOUS
<1>1. ASSUME NEW m \in Missions, NEW k \in Kinds, Begin(m, k) PROVE IInv'
    BY <1>1, BeginInv
<1>2. ASSUME NEW m \in Missions, Step(m) PROVE IInv'
    BY <1>2, AllowMergeInv, BlockEffectInv, MergeInv, ReadResultInv, RaiseInMergeInv,
       ApproveDelegationInv, DenyDelegationInv, StartMintInv, CountMintInv,
       NumberChildInv, SpawnVerifierInv, IssueVerdictInv, DenyVerdictInv,
       AcceptMissionInv, ClaimVerificationInv, ReturnBundleInv DEF Step
<1> QED BY <1>1, <1>2, RevokeInv, TickInv, StutterInv DEF Next

\* And so it holds of every behaviour.
LEMMA Invariance == Spec => []IInv
BY InitInv, NextInv, PTL DEF Spec

-----------------------------------------------------------------------------
\* Every variable keeps its type: in particular AIE only ever mints grants for
\* the verifier persona, bound to Sentinel and to a commit.
THEOREM TypeCorrect == Spec => []TypeOK
BY Invariance, PTL DEF IInv

\* A delegated mission is never accepted without a verdict on its commit, issued
\* on an attenuated grant that AIE minted for that commit.
THEOREM DelegatedVerdictTheorem == Spec => []AcceptedOnDelegatedVerdict
<1>1. IInv => AcceptedOnDelegatedVerdict
  <2> SUFFICES ASSUME IInv, NEW m \in Missions, Accepted(m), kind[m] # "level4"
               PROVE  \E v \in verdicts, g \in minted :
                        /\ v.subject = result[m]
                        /\ v.verdict_id = g.binding.ref /\ v.child_grant_id = g.grant_id
                        /\ g.binding.subject = result[m]
                        /\ g.delegated_by = Persona
                        /\ g.capabilities \subseteq grant.parent_capabilities
      BY DEF AcceptedOnDelegatedVerdict
  <2>1. PICK v \in verdicts : v.subject = result[m]
      BY DEF IInv, AcceptInv
  <2>2. PICK g \in minted :
            /\ v.verdict_id = g.binding.ref /\ v.child_grant_id = g.grant_id
            /\ v.subject = g.binding.subject
      BY <2>1 DEF IInv, VerdictInv
  <2> QED BY <2>1, <2>2 DEF IInv, MintInv
<1> QED BY <1>1, Invariance, PTL

\* A spawned verifier can only verify the commit it was spawned for.
THEOREM ChildScopeTheorem == Spec => []ChildScope
<1>1. IInv => ChildScope
  <2> SUFFICES ASSUME IInv, NEW g \in minted, NEW cap \in Capabilities,
                      NEW s \in Shas \cup {None}, NEW t \in 0..MaxClock,
                      Allows(g, cap, s, t)
               PROVE  cap = "verify:exact-subject" /\ s = g.binding.subject
      BY DEF ChildScope
  <2>1. /\ g.capabilities = {"verify:exact-subject"}
        /\ g.binding.subject # None
      BY DEF IInv, MintInv
  <2>2. cap = "verify:exact-subject"
      BY <2>1, AllowsHeld
  <2> QED BY <2>1, <2>2, AllowsBoundSubject
<1> QED BY <1>1, Invariance, PTL

\* No verdict id stands for two commits, unless two mintings ever overlapped.
THEOREM VerdictIdTheorem == Spec => []VerdictIdNamesOneCommit
<1>1. IInv => VerdictIdNamesOneCommit
    BY DEF IInv, VerdictInv, CountInv, CountsAlone, VerdictIdNamesOneCommit
<1> QED BY <1>1, Invariance, PTL

(***************************************************************************)
(* Late effects, on top of IInv.  A mission whose merge was late still has *)
(* a lapsed grant, and is held up before a verifier is minted or a claim   *)
(* is allowed; one that spawned a verifier late is not having another one  *)
(* minted, and the grant is revoked.                                       *)
(***************************************************************************)
LateInv ==
    \A m \in Missions :
        /\ pc[m] \in {"idle", "merge", "effect", "merged"} => child[m] = None
        /\ pc[m] \in ({"idle"} \cup Running) \ {"bundle"} => verifier[m] = None
        /\ m \in lateMerges =>
             /\ Lapsed(m) /\ child[m] = None /\ verifier[m] # Persona
             /\ pc[m] \in {"merged", "delegate", "claim", "bundle"} \cup Terminal
        /\ lateChildren[m] <= 1
        /\ lateChildren[m] # 0 => revoked(grant) /\ pc[m] \notin Minting

\* At no instant the mission may pass does a lapsed grant allow it anything.
LEMMA LapsedDenies ==
    ASSUME TypeOK, NEW m \in Missions, Lapsed(m), NEW t \in Instants(m),
           NEW cap, NEW s
    PROVE  ~Allows(grant, cap, s, t)
BY DEF Lapsed, Instants, Allows, active, TypeOK

\* A mission's authority stays lapsed, whatever others do.
LEMMA LapseIsForEver ==
    ASSUME IInv, Next, NEW m \in Missions, Lapsed(m), pc[m] # "idle"
    PROVE  Lapsed(m)'
<1> USE DEF IInv, TypeOK
<1>1. revoked(grant) => revoked(grant)'
    BY DEF Next, Step, Begin, AllowMerge, BlockEffect, Merge, ReadResult, RaiseInMerge,
       ApproveDelegation, DenyDelegation, StartMint, CountMint, NumberChild,
       SpawnVerifier, IssueVerdict, DenyVerdict, Accept, ClaimVerification,
       ReturnBundle, Revoke, Tick, revoked
<1>2. SUFFICES ASSUME ~revoked(grant), ~revoked(grant)'
               PROVE  Lapsed(m)'
    BY <1>1 DEF Lapsed
<1>3. kind[m] = "level4" /\ moment[m] = None /\ expired(grant, clock)
    BY <1>2 DEF Lapsed
<1>4. kind'[m] = kind[m] /\ moment'[m] = moment[m]
  <2>1. ASSUME NEW n \in Missions, ApproveDelegation(n) PROVE n # m
      BY <2>1, <1>3 DEF ApproveDelegation, Delegating, MissionInv
  <2> QED BY <2>1, <1>3 DEF Next, Step, Begin, AllowMerge, BlockEffect, Merge, ReadResult,
       RaiseInMerge, ApproveDelegation, DenyDelegation, StartMint, CountMint,
       NumberChild, SpawnVerifier, IssueVerdict, DenyVerdict, Accept,
       ClaimVerification, ReturnBundle, Revoke, Tick
<1>5. expired(grant, clock)'
  <2>1. /\ clock \in Nat /\ clock' \in Nat /\ clock <= clock'
        /\ grant.expires_at \in Nat
      BY ClockAssumption DEF Next, Step, Begin, AllowMerge, BlockEffect, Merge,
         ReadResult, RaiseInMerge, ApproveDelegation, DenyDelegation, StartMint,
         CountMint, NumberChild, SpawnVerifier, IssueVerdict, DenyVerdict, Accept,
         ClaimVerification, ReturnBundle, Revoke, Tick, Grants
  <2>2. grant' = grant
      BY <1>2 DEF Next, Step, Begin, AllowMerge, BlockEffect, Merge, ReadResult,
         RaiseInMerge, ApproveDelegation, DenyDelegation, StartMint, CountMint,
         NumberChild, SpawnVerifier, IssueVerdict, DenyVerdict, Accept,
         ClaimVerification, ReturnBundle, Revoke, Tick, revoked, Grants
  <2> QED BY <1>3, <2>1, <2>2 DEF expired
<1> QED BY <1>3, <1>4, <1>5 DEF Lapsed

\* No step lets a mission with a late effect go on to another.
LEMMA LateStep == IInv /\ LateInv /\ [Next]_vars => LateInv'
<1> SUFFICES ASSUME IInv, LateInv, [Next]_vars PROVE LateInv'
    OBVIOUS
<1> USE PersonaAssumption DEF IInv, TypeOK
<1>1. CASE UNCHANGED vars
    BY <1>1 DEF vars, LateInv, Lapsed
<1>2. ASSUME Next PROVE LateInv'
  <2>1. \A n \in Missions : Lapsed(n) /\ pc[n] # "idle" => Lapsed(n)'
      BY <1>2, LapseIsForEver
  <2>2. revoked(grant) => revoked(grant)'
      BY <1>2 DEF Next, Step, Begin, AllowMerge, BlockEffect, Merge, ReadResult,
         RaiseInMerge, ApproveDelegation, DenyDelegation, StartMint, CountMint,
         NumberChild, SpawnVerifier, IssueVerdict, DenyVerdict, Accept,
         ClaimVerification, ReturnBundle, Revoke, Tick, revoked
  <2>3. ASSUME NEW m \in Missions, NEW k \in Kinds, Begin(m, k) PROVE LateInv'
      BY <2>1, <2>2, <2>3 DEF Begin, LateInv
  <2>4. ASSUME NEW m \in Missions, Merge(m) PROVE LateInv'
    <3>1. /\ UNCHANGED <<child, verifier, lateChildren>>
          /\ lateMerges' \subseteq lateMerges \cup {m}
          /\ m \in lateMerges' => Lapsed(m)'
          /\ pc[m] = "effect" /\ pc' = [pc EXCEPT ![m] = "merged"]
        BY <2>1, <2>4 DEF Merge, LateInv
    <3> QED BY <2>1, <2>2, <3>1 DEF LateInv
  <2>5. ASSUME NEW m \in Missions, ApproveDelegation(m) PROVE LateInv'
    <3>1. ~Lapsed(m)
        BY <2>5, LapsedDenies DEF ApproveDelegation, MayDelegate
    <3>2. m \notin lateMerges /\ lateChildren[m] = 0
        BY <3>1 DEF LateInv, Lapsed
    <3> QED BY <2>1, <2>2, <2>5, <3>2 DEF ApproveDelegation, Delegating, LateInv
  <2>6. ASSUME NEW m \in Missions, SpawnVerifier(m) PROVE LateInv'
    <3>1. /\ Lapsed(m) => revoked(grant)
          /\ m \notin lateMerges /\ lateChildren[m] = 0
        BY <2>6 DEF SpawnVerifier, Lapsed, LateInv, MissionInv
    <3> QED BY <2>1, <2>2, <2>6, <3>1 DEF SpawnVerifier, LateInv
  <2>7. ASSUME NEW m \in Missions, Accept(m) PROVE LateInv'
    <3>1. verifier'[m] # Persona
        BY <2>7 DEF Accept, Satisfies
    <3> QED BY <2>1, <2>2, <2>7, <3>1 DEF Accept, LateInv
  <2>8. ASSUME NEW m \in Missions, ClaimVerification(m) PROVE LateInv'
    <3>1. m \in lateMerges => verifier'[m] = None
        BY <2>8, LapsedDenies DEF ClaimVerification, LateInv
    <3> QED BY <2>1, <2>2, <2>8, <3>1 DEF ClaimVerification, LateInv
  <2>9. ASSUME NEW m \in Missions,
               AllowMerge(m) \/ BlockEffect(m) \/ ReadResult(m) \/ RaiseInMerge(m)
                 \/ DenyDelegation(m) \/ StartMint(m) \/ CountMint(m)
                 \/ NumberChild(m) \/ IssueVerdict(m) \/ DenyVerdict(m)
                 \/ ReturnBundle(m)
        PROVE  LateInv'
    <3>1. CASE AllowMerge(m) \/ BlockEffect(m) \/ ReadResult(m) \/ RaiseInMerge(m)
        BY <2>1, <2>2, <3>1 DEF AllowMerge, BlockEffect, ReadResult, RaiseInMerge,
           LateInv
    <3>2. CASE DenyDelegation(m) \/ IssueVerdict(m) \/ DenyVerdict(m) \/ ReturnBundle(m)
        BY <2>1, <2>2, <3>2 DEF DenyDelegation, IssueVerdict, DenyVerdict, ReturnBundle,
           LateInv
    <3>3. CASE StartMint(m) \/ CountMint(m) \/ NumberChild(m)
        BY <2>1, <2>2, <3>3 DEF StartMint, CountMint, NumberChild, LateInv
    <3> QED BY <2>9, <3>1, <3>2, <3>3
  <2>10. CASE Revoke \/ Tick
      BY <2>1, <2>2, <2>10 DEF Revoke, Tick, LateInv
  <2> QED BY <1>2, <2>3, <2>4, <2>5, <2>6, <2>7, <2>8, <2>9, <2>10 DEF Next, Step
<1> QED BY <1>1, <1>2

\* An effect made on an ALLOW that was out of date is the last of its mission, and
\* is verified by nobody on the mission's behalf.
THEOREM LateEffectTheorem == Spec => []LateEffectGoesNoFurther
<1>1. Init => LateInv
    BY DEF Init, LateInv
<1>2. LateInv => LateEffectGoesNoFurther
    BY DEF LateInv, LateEffectGoesNoFurther
<1> QED BY <1>1, <1>2, LateStep, Invariance, PTL DEF Spec

(***************************************************************************)
(* What holds of single missions and grants, on top of IInv: a Level 4     *)
(* mission has no verifier before its claim, and from then on only one its *)
(* grant was bound for, which no revocation changes.                       *)
(***************************************************************************)
Bound(m) ==
    /\ result[m] # None
    /\ "verify:exact-subject" \in grant.capabilities \cap grant.parent_capabilities
    /\ grant.binding # None
    /\ grant.binding.owner = "sentinel"
    /\ grant.binding.subject \in {None, result[m]}

ClaimInv ==
    \A m \in Missions :
        /\ pc[m] \in ({"idle"} \cup Running) \ {"bundle"} => verifier[m] = None
        /\ pc[m] = "claim" => result[m] # None
        /\ verifier[m] = Persona => kind[m] = "level4" /\ Bound(m)

\* The merges and claims are what moves it; a revocation leaves the binding.
LEMMA ClaimStep == IInv /\ ClaimInv /\ [Next]_vars => ClaimInv'
<1> SUFFICES ASSUME IInv, ClaimInv, [Next]_vars PROVE ClaimInv'
    OBVIOUS
<1> USE PersonaAssumption DEF IInv, TypeOK, ClaimInv, Bound
<1>1. ASSUME NEW m \in Missions, NEW k \in Kinds, Begin(m, k) PROVE ClaimInv'
    BY <1>1 DEF Begin
<1>2. ASSUME NEW m \in Missions, ReadResult(m) PROVE ClaimInv'
    BY <1>2 DEF ReadResult, MissionInv
<1>3. ASSUME NEW m \in Missions, ClaimVerification(m) PROVE ClaimInv'
  <2>1. PICK t \in Instants(m) :
          verifier' = [verifier EXCEPT ![m] =
            IF Allows(grant, "verify:exact-subject", result[m], t)
            THEN grant.grantee ELSE None]
      BY <1>3 DEF ClaimVerification
  <2>2. Allows(grant, "verify:exact-subject", result[m], t) => Bound(m)
      BY <1>3 DEF ClaimVerification, Allows, is_attenuated, sentinel_bound,
         VERIFY_CAPABILITIES
  <2>3. kind[m] = "level4"
      BY <1>3 DEF ClaimVerification, MissionInv
  <2>4. /\ UNCHANGED <<grant, result, kind>>
        /\ pc' = [pc EXCEPT ![m] = "bundle"]
        /\ \A n \in Missions \ {m} : verifier'[n] = verifier[n]
        /\ verifier'[m] # None => Bound(m)
      BY <1>3, <2>1, <2>2 DEF ClaimVerification
  <2> QED BY <2>3, <2>4
<1>4. ASSUME NEW m \in Missions, Accept(m) PROVE ClaimInv'
  <2>1. verifier'[m] # Persona /\ \A n \in Missions \ {m} : verifier'[n] = verifier[n]
      BY <1>4 DEF Accept, Satisfies
  <2> QED BY <1>4, <2>1 DEF Accept
<1>5. ASSUME NEW m \in Missions,
             AllowMerge(m) \/ BlockEffect(m) \/ Merge(m) \/ RaiseInMerge(m)
               \/ ApproveDelegation(m) \/ DenyDelegation(m) \/ StartMint(m)
               \/ CountMint(m) \/ NumberChild(m) \/ SpawnVerifier(m)
               \/ IssueVerdict(m) \/ DenyVerdict(m) \/ ReturnBundle(m)
      PROVE  ClaimInv'
  <2>1. /\ UNCHANGED <<grant, kind, result, verifier>>
        /\ \A n \in Missions : pc'[n] = "claim" => pc[n] = "claim"
        /\ \A n \in Missions :
             pc'[n] \in ({"idle"} \cup Running) \ {"bundle"} =>
                 pc[n] \in ({"idle"} \cup Running) \ {"bundle"}
      BY <1>5 DEF AllowMerge, BlockEffect, Merge, RaiseInMerge, ApproveDelegation,
         Delegating, DenyDelegation, StartMint, CountMint, NumberChild, SpawnVerifier,
         IssueVerdict, DenyVerdict, ReturnBundle
  <2> QED BY <2>1
<1>6. CASE Revoke
  <2>1. /\ grant'.capabilities = grant.capabilities
        /\ grant'.parent_capabilities = grant.parent_capabilities
        /\ grant'.binding = grant.binding
      BY <1>6 DEF Revoke, Grants
  <2> QED BY <1>6, <2>1 DEF Revoke
<1>7. CASE Tick \/ UNCHANGED vars
    BY <1>7 DEF Tick, vars
<1> QED BY <1>1, <1>2, <1>3, <1>4, <1>5, <1>6, <1>7 DEF Next, Step

\* A mission is accepted on the agent's own verification at Level 4 only, under a
\* Sentinel binding that is open or names the merged commit.
THEOREM SelfVerificationTheorem == Spec => []SelfVerificationIsSentinelBound
<1>1. Init => ClaimInv
    BY DEF Init, ClaimInv
<1>2. ClaimInv => SelfVerificationIsSentinelBound
    BY DEF ClaimInv, Bound, SelfVerificationIsSentinelBound
<1> QED BY <1>1, <1>2, ClaimStep, Invariance, PTL DEF Spec

\* A child grant begins at the instant of the agent's approval, before the agent's
\* grant expires, so a window later it has expired as well.
LEMMA OutliveStep ==
    IInv /\ ChildOutlivesParentBriefly /\ [Next]_vars => ChildOutlivesParentBriefly'
<1> SUFFICES ASSUME IInv, ChildOutlivesParentBriefly, [Next]_vars
             PROVE  ChildOutlivesParentBriefly'
    OBVIOUS
<1> USE DEF ChildOutlivesParentBriefly
<1>1. grant.expires_at \in Nat /\ Window \in Nat
    BY WindowAssumption DEF IInv, TypeOK, Grants
<1>2. ASSUME NEW m \in Missions, SpawnVerifier(m) PROVE ChildOutlivesParentBriefly'
  <2> DEFINE g == mint_child_grant(grant, result[m], moment[m], seen[m], counter)
  <2>1. moment[m] \in Nat /\ moment[m] < grant.expires_at
      BY <1>2 DEF SpawnVerifier, IInv, MissionInv
  <2>2. g.expires_at = moment[m] + Window
      BY DEF mint_child_grant
  <2>3. minted' = minted \cup {g} /\ grant' = grant
      BY <1>2 DEF SpawnVerifier
  <2> HIDE DEF g
  <2> QED BY <1>1, <2>1, <2>2, <2>3
<1>3. ASSUME NEW m \in Missions, Step(m), ~SpawnVerifier(m)
      PROVE  UNCHANGED <<minted, grant>>
    BY <1>3 DEF Step, AllowMerge, BlockEffect, Merge, ReadResult, RaiseInMerge,
       ApproveDelegation, DenyDelegation, StartMint, CountMint, NumberChild,
       IssueVerdict, DenyVerdict, Accept, ClaimVerification, ReturnBundle
<1>4. CASE Revoke
  <2>1. grant'.expires_at = grant.expires_at
      BY <1>4 DEF Revoke, IInv, TypeOK, Grants
  <2> QED BY <1>4, <2>1 DEF Revoke
<1> QED BY <1>2, <1>3, <1>4 DEF Next, Begin, Tick, vars

\* No child grant outlives the agent's grant by a whole window.
THEOREM OutliveTheorem == Spec => []ChildOutlivesParentBriefly
<1>1. Init => ChildOutlivesParentBriefly
    BY DEF Init, ChildOutlivesParentBriefly
<1> QED BY <1>1, OutliveStep, Invariance, PTL DEF Spec

\* No authority ever comes back.
THEOREM DecayTheorem == Spec => AuthorityDecays
<1> DEFINE Decays ==
      \A cap \in Capabilities, s \in Shas \cup {None} :
        /\ Allows(grant, cap, s, clock)' => Allows(grant, cap, s, clock)
        /\ \A g \in minted : Allows(g, cap, s, clock') => Allows(g, cap, s, clock)
<1>1. ASSUME IInv, [Next]_vars PROVE Decays
  <2>1. clock \in Nat /\ clock' \in Nat /\ clock <= clock'
    <3>1. clock \in Nat
        BY <1>1, ClockAssumption DEF IInv, TypeOK
    <3>2. clock' = clock \/ clock' = clock + 1
        BY <1>1 DEF Next, Step, Begin, AllowMerge, BlockEffect, Merge, ReadResult, RaiseInMerge,
           ApproveDelegation, DenyDelegation, StartMint, CountMint, NumberChild,
           SpawnVerifier, IssueVerdict, DenyVerdict, Accept, ClaimVerification,
           ReturnBundle, Revoke, Tick, vars
    <3> QED BY <3>1, <3>2
  <2>2. grant' = grant \/ revoked(grant)'
      BY <1>1 DEF Next, Step, Begin, AllowMerge, BlockEffect, Merge, ReadResult, RaiseInMerge,
         ApproveDelegation, DenyDelegation, StartMint, CountMint, NumberChild,
         SpawnVerifier, IssueVerdict, DenyVerdict, Accept, ClaimVerification,
         ReturnBundle, Revoke, Tick, vars, revoked, IInv, TypeOK, Grants
  <2>3. /\ grant.expires_at \in Nat
        /\ \A g \in minted : g.expires_at \in Nat
      BY <1>1 DEF IInv, TypeOK, ChildGrants, Grants
  <2>4. ASSUME NEW cap \in Capabilities, NEW s \in Shas \cup {None},
               Allows(grant, cap, s, clock)'
        PROVE  Allows(grant, cap, s, clock)
    <3>1. ~revoked(grant)'
        BY <2>4 DEF Allows, active
    <3>2. Allows(grant, cap, s, clock')
        BY <2>2, <2>4, <3>1
    <3> QED BY <2>1, <2>3, <3>2, AllowsDecays
  <2>5. ASSUME NEW cap \in Capabilities, NEW s \in Shas \cup {None},
               NEW g \in minted, Allows(g, cap, s, clock')
        PROVE  Allows(g, cap, s, clock)
      BY <2>1, <2>3, <2>5, AllowsDecays
  <2> QED BY <2>4, <2>5
<1>2. IInv /\ [Next]_vars => [UNCHANGED world \/ Decays]_vars
    BY <1>1
<1> QED BY <1>2, Invariance, PTL DEF Spec, AuthorityDecays

(***************************************************************************)
(* The refinement.  ReadResult ties a delegated mission to its commit,     *)
(* IssueVerdict ships that commit, Accept accepts the mission; everything  *)
(* else, Level 4 missions included, leaves the abstract state alone.       *)
(***************************************************************************)
Subject == [m \in Missions |-> IF m \in Delegated THEN result[m] ELSE None]
ShippedShas == {v.subject : v \in verdicts}
AcceptedPairs == {<<m, result[m]>> : m \in {n \in Delegated : Accepted(n)}}

\* A step that changes no result or verdict, makes no mission that has a commit
\* delegated, and accepts no delegated mission, stutters.
LEMMA AbstractStutter ==
    ASSUME UNCHANGED <<result, verdicts>>,
           \A m \in Missions :
             \/ /\ kind'[m] = kind[m]
                /\ m \in Delegated => (pc'[m] = "accepted" <=> pc[m] = "accepted")
             \/ result[m] = None /\ pc[m] # "accepted" /\ pc'[m] # "accepted"
    PROVE  UNCHANGED Abstract!vars
<1>1. Subject' = Subject
    BY DEF Subject
<1>2. {n \in Delegated : Accepted(n)}' = {n \in Delegated : Accepted(n)}
    OBVIOUS
<1>3. AcceptedPairs' = AcceptedPairs
    BY <1>2 DEF AcceptedPairs
<1> QED BY <1>1, <1>3 DEF Subject, AcceptedPairs, Abstract!vars

\* The record of its merge ties a delegated mission to its commit.
LEMMA ReadResultStep ==
    ASSUME IInv, NEW m \in Missions, ReadResult(m)
    PROVE  [Abstract!Next]_Abstract!vars
<1> USE DEF IInv, TypeOK
<1>1. PICK s \in Shas : result' = [result EXCEPT ![m] = s]
    BY DEF ReadResult, MissionInv
<1>2. /\ pc[m] = "merged" /\ result[m] = None /\ UNCHANGED <<verdicts, kind>>
      /\ pc'[m] # "accepted" /\ \A n \in Missions \ {m} : pc'[n] = pc[n]
    BY DEF ReadResult, MissionInv
<1>3. AcceptedPairs' = AcceptedPairs
  <2>1. {n \in Delegated : Accepted(n)}' = {n \in Delegated : Accepted(n)}
      BY <1>2
  <2>2. \A n \in {d \in Delegated : Accepted(d)} : result'[n] = result[n]
      BY <1>1, <1>2
  <2> QED BY <2>1, <2>2 DEF AcceptedPairs
<1>4. CASE m \in Delegated
  <2>1. Subject[m] = None /\ Subject' = [Subject EXCEPT ![m] = s]
      BY <1>1, <1>2, <1>4 DEF Subject
  <2>2. Abstract!Bind(m, s)
      BY <1>2, <1>3, <2>1 DEF Abstract!Bind, Subject, ShippedShas, AcceptedPairs
  <2> QED BY <2>2 DEF Abstract!Next
<1>5. CASE m \notin Delegated
  <2>1. Subject' = Subject
      BY <1>1, <1>2, <1>5 DEF Subject
  <2> QED BY <1>2, <1>3, <2>1 DEF Abstract!vars, Subject, AcceptedPairs
<1> QED BY <1>4, <1>5

\* A verdict ships the commit of the mission the verifier was spawned for.
LEMMA IssueVerdictStep ==
    ASSUME IInv, NEW m \in Missions, IssueVerdict(m)
    PROVE  [Abstract!Next]_Abstract!vars
<1> USE DEF IInv, TypeOK
<1>1. PICK s \in Asked(m), t \in Instants(m) :
          MayIssue(m, s, t) /\ verdicts' = verdicts \cup {Verdict(child[m], s)}
    BY DEF IssueVerdict
<1>2. /\ child[m].binding.subject = result[m] /\ result[m] \in Shas
      /\ m \in Delegated
    BY DEF IssueVerdict, MissionInv, MintInv
<1>3. s = result[m]
    BY <1>1, <1>2, AllowsBoundSubject DEF MayIssue
<1>4. ShippedShas' = ShippedShas \cup {s}
  <2> DEFINE w == Verdict(child[m], s)
  <2>1. w.subject = s /\ verdicts' = verdicts \cup {w}
      BY <1>1 DEF Verdict
  <2> HIDE DEF w, IInv, TypeOK
  <2> QED BY <2>1 DEF ShippedShas
<1>5. /\ UNCHANGED <<result, kind>>
      /\ pc[m] # "accepted" /\ pc'[m] # "accepted"
      /\ \A n \in Missions \ {m} : pc'[n] = pc[n]
    BY DEF IssueVerdict
<1>6. Subject' = Subject /\ AcceptedPairs' = AcceptedPairs
  <2>1. {n \in Delegated : Accepted(n)}' = {n \in Delegated : Accepted(n)}
      BY <1>5
  <2> QED BY <1>5, <2>1 DEF Subject, AcceptedPairs
<1>7. Abstract!Ship(s)
    BY <1>2, <1>3, <1>4, <1>6
    DEF Abstract!Ship, Subject, ShippedShas, AcceptedPairs
<1> QED BY <1>2, <1>3, <1>7 DEF Abstract!Next

\* Acceptance is of the mission's own, shipped commit.
LEMMA AcceptStep ==
    ASSUME IInv, NEW m \in Missions, Accept(m)
    PROVE  [Abstract!Next]_Abstract!vars
<1> USE DEF IInv, TypeOK
<1>1. PICK v \in verdicts :
          Goto(m, IF Satisfies(m, v) THEN "accepted" ELSE "rejected")
    BY DEF Accept, Presentable
<1>2. /\ UNCHANGED <<result, kind, verdicts>> /\ m \in Delegated
      /\ pc[m] # "accepted"
    BY DEF Accept, MissionInv
<1>3. CASE Satisfies(m, v)
  <2>1. {n \in Delegated : Accepted(n)}' = {n \in Delegated : Accepted(n)} \cup {m}
      BY <1>1, <1>2, <1>3
  <2>2. AcceptedPairs' = AcceptedPairs \cup {<<m, Subject[m]>>}
      BY <1>2, <2>1 DEF AcceptedPairs, Subject
  <2>3. Subject[m] \in ShippedShas
      BY <1>2, <1>3 DEF Subject, ShippedShas, Satisfies
  <2>4. Abstract!Accept(m)
      BY <1>2, <2>2, <2>3 DEF Abstract!Accept, Subject, ShippedShas, AcceptedPairs
  <2> QED BY <2>4 DEF Abstract!Next
<1>4. CASE ~Satisfies(m, v)
    BY <1>1, <1>2, <1>4, AbstractStutter
<1> QED BY <1>3, <1>4

\* MissionWorkflow implements ExactSubjectAcceptance.
THEOREM Refinement == Spec => ImplementsExactSubjectAcceptance
<1>1. Init => Abstract!Init
    BY DEF Init, Abstract!Init
<1>2. IInv /\ [Next]_vars => [Abstract!Next]_Abstract!vars
  <2> SUFFICES ASSUME IInv, [Next]_vars PROVE [Abstract!Next]_Abstract!vars
      OBVIOUS
  <2> USE DEF IInv, TypeOK
  <2>1. ASSUME NEW m \in Missions, NEW k \in Kinds, Begin(m, k)
        PROVE  UNCHANGED Abstract!vars
      BY <2>1, AbstractStutter DEF Begin, MissionInv
  <2>2. ASSUME NEW m \in Missions,
               AllowMerge(m) \/ BlockEffect(m) \/ Merge(m) \/ RaiseInMerge(m)
                 \/ ApproveDelegation(m) \/ DenyDelegation(m) \/ StartMint(m)
                 \/ CountMint(m) \/ NumberChild(m) \/ SpawnVerifier(m)
                 \/ DenyVerdict(m) \/ ClaimVerification(m)
        PROVE  UNCHANGED Abstract!vars
      BY <2>2, AbstractStutter DEF AllowMerge, BlockEffect, Merge, RaiseInMerge,
         ApproveDelegation, Delegating, DenyDelegation, StartMint, CountMint,
         NumberChild, SpawnVerifier, DenyVerdict, ClaimVerification
  <2>3. ASSUME NEW m \in Missions, ReturnBundle(m)
        PROVE  UNCHANGED Abstract!vars
      BY <2>3, AbstractStutter DEF ReturnBundle, MissionInv
  <2>4. CASE Revoke \/ Tick \/ UNCHANGED vars
      BY <2>4, AbstractStutter DEF Revoke, Tick, vars
  <2> QED BY <2>1, <2>2, <2>3, <2>4, ReadResultStep, IssueVerdictStep, AcceptStep
      DEF Next, Step
<1> QED BY <1>1, <1>2, Invariance, PTL
    DEF Spec, ImplementsExactSubjectAcceptance, Abstract!Spec
=============================================================================
