---------------------------- MODULE AbstractProofs ----------------------------
(***************************************************************************)
(* Proofs about the two abstract specifications, ExactSubjectAcceptance    *)
(* and ExactlyOnceDispatch.  What they establish, every specification that *)
(* implements them inherits.                                               *)
(***************************************************************************)
EXTENDS ExactSubjectAcceptance, TLAPS

CONSTANTS Requests, Keys, KeyOf, Unspent

VARIABLES spent, reported

Dispatch == INSTANCE ExactlyOnceDispatch

-----------------------------------------------------------------------------
(* ExactSubjectAcceptance. *)

\* The types say that what is shipped is a commit, never "no subject": without
\* that an execution that is tied to nothing could be accepted, and then tied.
IInv == TypeOK /\ AcceptanceIsExact

LEMMA InitInv == Init => IInv
BY DEF Init, IInv, TypeOK, AcceptanceIsExact

LEMMA StepInv ==
    ASSUME UnboundIsNoSubject
    PROVE  IInv /\ [Next]_vars => IInv'
<1> SUFFICES ASSUME IInv, [Next]_vars
             PROVE  IInv'
  OBVIOUS
<1> USE DEF UnboundIsNoSubject, IInv, TypeOK, AcceptanceIsExact
<1>1. ASSUME NEW e \in Executions, NEW s \in Subjects, Bind(e, s)
      PROVE  IInv'
  <2>1. TypeOK'
    BY <1>1 DEF Bind
  <2>2. \A p \in accepted : p[1] # e
    BY <1>1 DEF Bind
  <2>3. AcceptanceIsExact'
    BY <1>1, <2>2 DEF Bind
  <2> QED  BY <2>1, <2>3
<1>2. ASSUME NEW s \in Subjects, Ship(s)
      PROVE  IInv'
  BY <1>2 DEF Ship
<1>3. ASSUME NEW e \in Executions, Accept(e)
      PROVE  IInv'
  BY <1>3 DEF Accept
<1>4. CASE UNCHANGED vars
  BY <1>4 DEF vars
<1> QED  BY <1>1, <1>2, <1>3, <1>4 DEF Next

LEMMA Invariant ==
    ASSUME UnboundIsNoSubject
    PROVE  Spec => []IInv
BY InitInv, StepInv, PTL DEF Spec

\* The types of the abstract state hold in every behaviour.
THEOREM TypeCorrect ==
    ASSUME UnboundIsNoSubject
    PROVE  Spec => []TypeOK
<1>1. IInv => TypeOK
  BY DEF IInv
<1> QED  BY <1>1, Invariant, PTL

\* An execution is only ever accepted for the one subject it is tied to, and
\* for a subject that was shipped.
THEOREM AcceptanceStaysExact ==
    ASSUME UnboundIsNoSubject
    PROVE  Spec => []AcceptanceIsExact
<1>1. IInv => AcceptanceIsExact
  BY DEF IInv
<1> QED  BY <1>1, Invariant, PTL

-----------------------------------------------------------------------------
(* ExactlyOnceDispatch. *)

\* OneRequestPerKey only compares reports with each other.  What is inductive
\* is that each is still backed by what its key was spent on.
ReportsAreBacked ==
    /\ spent \in [Keys -> Requests \cup {Unspent}]
    /\ reported \subseteq Requests
    /\ \A r \in reported : spent[KeyOf[r]] = r

LEMMA InitBacked == Dispatch!Init => ReportsAreBacked
BY DEF Dispatch!Init, ReportsAreBacked

LEMMA StepBacked ==
    ASSUME Dispatch!WellKeyed
    PROVE  ReportsAreBacked /\ [Dispatch!Next]_Dispatch!vars => ReportsAreBacked'
<1> SUFFICES ASSUME ReportsAreBacked, [Dispatch!Next]_Dispatch!vars
             PROVE  ReportsAreBacked'
  OBVIOUS
<1> USE DEF Dispatch!WellKeyed, ReportsAreBacked
<1>1. ASSUME NEW r \in Requests, Dispatch!Spend(r)
      PROVE  ReportsAreBacked'
  BY <1>1 DEF Dispatch!Spend
<1>2. ASSUME NEW r \in Requests, Dispatch!Report(r)
      PROVE  ReportsAreBacked'
  BY <1>2 DEF Dispatch!Report
<1>3. CASE UNCHANGED Dispatch!vars
  BY <1>3 DEF Dispatch!vars
<1> QED  BY <1>1, <1>2, <1>3 DEF Dispatch!Next

\* No two requests that share a key are both reported as accepted.
THEOREM OneRequestIsReported ==
    ASSUME Dispatch!WellKeyed
    PROVE  Dispatch!Spec => []Dispatch!OneRequestPerKey
<1>1. ReportsAreBacked => Dispatch!OneRequestPerKey
  BY DEF ReportsAreBacked, Dispatch!OneRequestPerKey
<1> QED  BY <1>1, InitBacked, StepBacked, PTL DEF Dispatch!Spec
=============================================================================
