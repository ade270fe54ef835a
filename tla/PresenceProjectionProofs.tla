----------------------- MODULE PresenceProjectionProofs -----------------------
(***************************************************************************)
(* Proofs about PresenceProjection: whatever strings the builder is called *)
(* with, it agrees with the schema's rules about states.                   *)
(***************************************************************************)
EXTENDS PresenceProjection, TLAPS

USE OutcomeAssumption, CallsAssumption

\* The call has not returned, or it returned what the builder makes of its
\* arguments.
CallInv ==
    /\ input \in Calls
    /\ output \in {None, IF Refused(input) THEN Error ELSE Projection(input)}

LEMMA Invariance == Spec => []CallInv
<1>1. Init => CallInv
  BY DEF Init, CallInv
<1>2. CallInv /\ [Next]_vars => CallInv'
  BY DEF CallInv, Next, vars, build_presence_projection
<1> QED  BY <1>1, <1>2, PTL DEF Spec

\* A projection differs from the arguments in an empty commit at most, which is
\* no commit in it.
LEMMA ProjectionFields ==
    ASSUME NEW i \in Inputs
    PROVE  /\ Projection(i) \in Inputs
           /\ Projection(i).displayed_state = i.displayed_state
           /\ Projection(i).owner = i.owner
           /\ Projection(i).source_kind = i.source_kind
           /\ Projection(i).id = i.id
           /\ Projection(i).verdict_id = i.verdict_id
BY DEF Inputs, Projection

\* What the builder takes satisfies the schema's rules about what it checks.
LEMMA TakenIsValid ==
    ASSUME NEW i \in Inputs, ~Refused(i)
    PROVE  CheckedFieldRules(Projection(i)) /\ StateRules(Projection(i))
BY ProjectionFields DEF Refused, Backed, CheckedFieldRules, StateRules

\* What the schema allows the builder takes, but for a success of another owner.
LEMMA ValidIsTaken ==
    ASSUME NEW i \in Inputs, CheckedFieldRules(i), OtherFieldRules(i), StateRules(i),
           Refused(i)
    PROVE  i.displayed_state = "succeeded" /\ i.owner # "sentinel"
<1>1. ~Backed(i)
  BY DEF Refused, CheckedFieldRules
<1> QED  BY <1>1 DEF Backed, StateRules, OtherFieldRules

\* What is built satisfies the schema's state rules and its rules about the fields
\* the builder checks, and nothing the schema allows is refused but a success that
\* does not come from Sentinel: for arguments that are any strings at all.
THEOREM BuilderAgrees == Spec => []BuilderAgreesWithStateRules
<1>1. ASSUME CallInv
      PROVE  BuilderAgreesWithStateRules
  <2>1. input \in Inputs /\ Projection(input) \notin {None, Error}
    BY <1>1, ProjectionFields DEF CallInv
  <2>2. Built => ~Refused(input) /\ output = Projection(input)
    BY <1>1 DEF CallInv, Built
  <2>3. output = Error => Refused(input)
    BY <1>1, <2>1 DEF CallInv
  <2> QED  BY <2>1, <2>2, <2>3, TakenIsValid, ValidIsTaken
           DEF BuilderAgreesWithStateRules
<1>2. CallInv => BuilderAgreesWithStateRules
  BY <1>1
<1> QED  BY <1>2, Invariance, PTL
=============================================================================
