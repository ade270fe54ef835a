----------------------- MODULE ExactSubjectAcceptance -----------------------
(***************************************************************************)
(* What every STEWARD acceptance path promises, stated without its         *)
(* machinery: an execution is tied to at most one exact Git subject, only  *)
(* a tied subject is ever shipped by the independent verifier, and an      *)
(* execution is accepted only for the subject it is tied to and only once  *)
(* that subject has been shipped.  The composed P2 coordinator             *)
(* (GoldenMission), the Level 5 delegated workflow (MissionWorkflow) and   *)
(* the P1 vertical slice (VerticalSlice) are all shown to implement it.    *)
(***************************************************************************)
CONSTANTS
    Executions,     \* durable executions (WORKS executions, workflow runs)
    Subjects,       \* exact Git commits
    Unbound         \* the value of an execution that has no subject yet

VARIABLES
    subject,        \* the exact subject each execution is tied to
    shipped,        \* the subjects the verifier has shipped
    accepted        \* the <<execution, subject>> pairs that were accepted

vars == <<subject, shipped, accepted>>

TypeOK ==
    /\ subject \in [Executions -> Subjects \cup {Unbound}]
    /\ shipped \subseteq Subjects
    /\ accepted \subseteq Executions \X Subjects

Init ==
    /\ subject = [e \in Executions |-> Unbound]
    /\ shipped = {}
    /\ accepted = {}

-----------------------------------------------------------------------------
\* An execution is tied to a subject once and for ever.
Bind(e, s) ==
    /\ subject[e] = Unbound
    /\ subject' = [subject EXCEPT ![e] = s]
    /\ UNCHANGED <<shipped, accepted>>

\* The independent verifier ships a subject some execution is tied to.
Ship(s) ==
    /\ \E e \in Executions : subject[e] = s
    /\ shipped' = shipped \cup {s}
    /\ UNCHANGED <<subject, accepted>>

\* Acceptance names the execution's own subject, and that subject is shipped.
Accept(e) ==
    /\ subject[e] \in shipped
    /\ accepted' = accepted \cup {<<e, subject[e]>>}
    /\ UNCHANGED <<subject, shipped>>

Next ==
    \/ \E e \in Executions, s \in Subjects : Bind(e, s)
    \/ \E s \in Subjects : Ship(s)
    \/ \E e \in Executions : Accept(e)

Spec == Init /\ [][Next]_vars

\* The promises are kept when "no subject yet" is not itself a commit.
UnboundIsNoSubject == Unbound \notin Subjects

-----------------------------------------------------------------------------
\* Acceptance is exact: an execution is only ever accepted for one subject, the
\* one it is still tied to, and that subject was shipped.  It rests on ties
\* being for ever: an execution tied anew after its acceptance would break it.
AcceptanceIsExact ==
    \A p \in accepted : subject[p[1]] = p[2] /\ p[2] \in shipped
=============================================================================
