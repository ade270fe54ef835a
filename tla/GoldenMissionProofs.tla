------------------------- MODULE GoldenMissionProofs -------------------------
(***************************************************************************)
(* Proofs about GoldenMission, for any number of calls, attempts, Works    *)
(* and commits.                                                            *)
(***************************************************************************)
EXTENDS GoldenMission, TLAPS

(***************************************************************************)
(* AcceptedIsFullyEvidenced is not inductive: it only speaks of calls that *)
(* have ended.  The strengthening says, for every step of execute, what    *)
(* the call has already secured in the owners' ledgers when it gets there. *)
(***************************************************************************)
HasDecision == {"capture", "bind", "verify", "project",
                "not_shipped", "not_accepted", "accepted"}
HasCandidate == HasDecision \ {"capture"}
HasBinding == HasCandidate \ {"bind"}
HasShip == {"project", "not_accepted", "accepted"}

\* A call that has not dispatched owns nothing; before it is called it has not
\* even a request.
FreshInv ==
    \A c \in Calls :
        /\ pc[c] = "idle" <=> attempt[c] = None
        /\ pc[c] \in {"idle", "dispatch"} => exec[c] = None
        /\ pc[c] \in {"idle", "dispatch", "prepare", "authorize"} => action[c] = "none"
        /\ pc[c] \in Running \cup Returned => pc[c] = "dispatch" \/ exec[c] # None

\* The execution is of the requested Work, the worktree of the requested attempt.
OriginInv ==
    \A c \in Calls :
        /\ exec[c] # None => /\ attempt[c] # None
                             /\ WorkOf[exec[c]] = WorkOf[attempt[c]]
        /\ worktree[c] # None => /\ attempt[c] # None
                                 /\ attempt[worktree[c]] = attempt[c]
        /\ pc[c] \in {"authorize", "awaiting"} \cup HasDecision => worktree[c] # None

\* An action is only posted in an execution, and a PDR kept only if it allows
\* an action in the same execution.
DecisionInv ==
    \A c \in Calls :
        /\ action[c] # "none" => exec[c] # None /\ worktree[c] # None
        /\ pdr[c] # None => action[pdr[c]] = "allowed" /\ exec[pdr[c]] = exec[c]
        /\ pc[c] \in HasDecision => pdr[c] # None

\* From verify on the candidate is what WORKS holds for the execution, and from
\* project on Sentinel has shipped it.
SubjectInv ==
    \A c \in Calls :
        /\ pc[c] \in HasCandidate => candidate[c] # None
        /\ pc[c] \in HasBinding => /\ bound[exec[c]] = candidate[c]
                                  /\ binder[exec[c]] = attempt[c]
        /\ pc[c] \in HasShip => "SHIP" \in verdicts[candidate[c]]

\* What acceptance itself read in the evidence bundle.
EvidenceInv ==
    \A c \in Calls : Accepted(c) =>
        outcome[exec[c]] = "passed" /\ chain[exec[c]] = pdr[c]

IInv ==
    /\ TypeOK
    /\ FreshInv
    /\ OriginInv
    /\ DecisionInv
    /\ SubjectInv
    /\ EvidenceInv
    /\ NoBindingWithoutAllowedAction
    /\ NoVerdictBeforeBinding

USE DEF Running, Returned, Terminal, HasDecision, HasCandidate, HasBinding,
        HasShip, Goto, local, works, Accepted

\* Initially no call has been made and every ledger is empty.
LEMMA InitInv == Init => IInv
BY NoneAssumption, WorkAssumption
DEF Init, IInv, TypeOK, FreshInv, OriginInv, DecisionInv, SubjectInv, EvidenceInv,
    NoBindingWithoutAllowedAction, NoVerdictBeforeBinding

\* A call that begins has its request and nothing else.
LEMMA ExecuteInv ==
    ASSUME IInv, NEW c \in Calls, NEW a \in Attempts, Execute(c, a)
    PROVE  IInv'
<1> USE NoneAssumption, WorkAssumption, BaseAssumption DEF IInv, TypeOK, Execute
<1>1. TypeOK'
    BY DEF Verdicts, FreshInv, DecisionInv, OriginInv
<1>2. FreshInv'
    BY <1>1 DEF FreshInv
<1>3. OriginInv'
    BY <1>1 DEF OriginInv, FreshInv
<1>4. DecisionInv'
    BY <1>1 DEF DecisionInv, FreshInv
<1>5. SubjectInv' /\ EvidenceInv' /\ NoBindingWithoutAllowedAction' /\ NoVerdictBeforeBinding'
    BY <1>1 DEF SubjectInv, EvidenceInv, NoBindingWithoutAllowedAction, NoVerdictBeforeBinding
<1> QED BY <1>1, <1>2, <1>3, <1>4, <1>5

\* An exception takes the call out of execute and undoes nothing.
LEMMA FailInv ==
    ASSUME IInv, NEW c \in Calls, Fail(c)
    PROVE  IInv'
<1> USE NoneAssumption, WorkAssumption, BaseAssumption DEF IInv, TypeOK, Fail
<1>1. TypeOK'
    BY DEF Verdicts, FreshInv, DecisionInv, OriginInv
<1>2. FreshInv' /\ OriginInv' /\ DecisionInv' /\ SubjectInv' /\ EvidenceInv' /\ NoBindingWithoutAllowedAction' /\ NoVerdictBeforeBinding'
    BY <1>1 DEF FreshInv, OriginInv, DecisionInv, SubjectInv, EvidenceInv, NoBindingWithoutAllowedAction, NoVerdictBeforeBinding
<1> QED BY <1>1, <1>2

\* The receipt names an execution of the requested Work.
LEMMA DispatchInv ==
    ASSUME IInv, NEW c \in Calls, Dispatch(c)
    PROVE  IInv'
<1> USE NoneAssumption, WorkAssumption, BaseAssumption DEF IInv, TypeOK, Dispatch, SameWork
<1>1. TypeOK'
    BY DEF Verdicts, FreshInv, DecisionInv, OriginInv
<1>2. FreshInv'
    BY <1>1 DEF FreshInv
<1>3. OriginInv'
    BY <1>1 DEF OriginInv, FreshInv
<1>4. DecisionInv'
    BY <1>1 DEF DecisionInv, FreshInv
<1>5. SubjectInv' /\ EvidenceInv' /\ NoVerdictBeforeBinding'
    BY <1>1 DEF SubjectInv, EvidenceInv, NoVerdictBeforeBinding, FreshInv
<1>6. NoBindingWithoutAllowedAction'
    BY <1>1 DEF NoBindingWithoutAllowedAction, FreshInv
<1> QED BY <1>1, <1>2, <1>3, <1>4, <1>5, <1>6

\* The worktree was prepared for the requested attempt.
LEMMA PrepareInv ==
    ASSUME IInv, NEW c \in Calls, Prepare(c)
    PROVE  IInv'
<1> USE NoneAssumption, WorkAssumption, BaseAssumption DEF IInv, TypeOK, Prepare, SameAttempt
<1>1. TypeOK'
    BY DEF Verdicts, FreshInv, DecisionInv, OriginInv
<1>2. FreshInv'
    BY <1>1 DEF FreshInv
<1>3. OriginInv'
    BY <1>1 DEF OriginInv, FreshInv
<1>4. DecisionInv' /\ SubjectInv' /\ EvidenceInv' /\ NoBindingWithoutAllowedAction' /\ NoVerdictBeforeBinding'
    BY <1>1 DEF DecisionInv, SubjectInv, EvidenceInv, NoBindingWithoutAllowedAction, NoVerdictBeforeBinding
<1> QED BY <1>1, <1>2, <1>3, <1>4

\* An action is posted only by a call that has an execution and a worktree.
LEMMA AuthorizeInv ==
    ASSUME IInv, NEW c \in Calls, Authorize(c)
    PROVE  IInv'
<1> USE NoneAssumption, WorkAssumption, BaseAssumption DEF IInv, TypeOK, Authorize
<1>1. TypeOK'
    BY DEF Verdicts, FreshInv, DecisionInv, OriginInv
<1>2. FreshInv'
    BY <1>1 DEF FreshInv
<1>3. OriginInv'
    BY <1>1 DEF OriginInv, FreshInv
<1>4. DecisionInv'
    BY <1>1 DEF DecisionInv, FreshInv, OriginInv
<1>5. NoBindingWithoutAllowedAction'
    BY <1>1 DEF NoBindingWithoutAllowedAction, FreshInv, DecisionInv
<1>6. SubjectInv' /\ EvidenceInv' /\ NoVerdictBeforeBinding'
    BY <1>1 DEF SubjectInv, EvidenceInv, NoVerdictBeforeBinding
<1> QED BY <1>1, <1>2, <1>3, <1>4, <1>5, <1>6

\* The PDR kept is of an action allowed in the same execution.
LEMMA ReceiveAllowInv ==
    ASSUME IInv, NEW c \in Calls, ReceiveAllow(c)
    PROVE  IInv'
<1> USE NoneAssumption, WorkAssumption, BaseAssumption DEF IInv, TypeOK, ReceiveAllow, SameContext
<1>1. TypeOK'
    BY DEF Verdicts, FreshInv, DecisionInv, OriginInv
<1>2. DecisionInv'
    BY <1>1 DEF DecisionInv, FreshInv
<1>3. OriginInv'
    BY <1>1 DEF OriginInv, FreshInv
<1>4. FreshInv' /\ SubjectInv' /\ EvidenceInv' /\ NoBindingWithoutAllowedAction' /\ NoVerdictBeforeBinding'
    BY <1>1 DEF FreshInv, SubjectInv, EvidenceInv, NoBindingWithoutAllowedAction, NoVerdictBeforeBinding
<1> QED BY <1>1, <1>2, <1>3, <1>4

\* A held action ends the call before it has a decision.
LEMMA ReceiveApprovalRequiredInv ==
    ASSUME IInv, NEW c \in Calls, ReceiveApprovalRequired(c)
    PROVE  IInv'
<1> USE NoneAssumption, WorkAssumption, BaseAssumption DEF IInv, TypeOK, ReceiveApprovalRequired
<1>1. TypeOK'
    BY DEF Verdicts, FreshInv, DecisionInv, OriginInv
<1>2. FreshInv'
    BY <1>1 DEF FreshInv
<1>3. OriginInv' /\ DecisionInv' /\ SubjectInv' /\ EvidenceInv' /\ NoBindingWithoutAllowedAction' /\ NoVerdictBeforeBinding'
    BY <1>1 DEF OriginInv, DecisionInv, SubjectInv, EvidenceInv, NoBindingWithoutAllowedAction, NoVerdictBeforeBinding
<1> QED BY <1>1, <1>2, <1>3

\* A captured candidate is a commit, and nothing is bound by it.
LEMMA CaptureInv ==
    ASSUME IInv, NEW c \in Calls, Capture(c)
    PROVE  IInv'
<1> USE NoneAssumption, WorkAssumption, BaseAssumption DEF IInv, TypeOK, Capture, SameWorktree, CapturedHead
<1>1. TypeOK'
    BY DEF Verdicts, FreshInv, DecisionInv, OriginInv
<1>2. SubjectInv'
    BY <1>1 DEF SubjectInv, FreshInv, DecisionInv
<1>3. FreshInv' /\ OriginInv' /\ DecisionInv' /\ EvidenceInv' /\ NoBindingWithoutAllowedAction' /\ NoVerdictBeforeBinding'
    BY <1>1 DEF FreshInv, OriginInv, DecisionInv, EvidenceInv, NoBindingWithoutAllowedAction, NoVerdictBeforeBinding
<1> QED BY <1>1, <1>2, <1>3

\* A call passes the binding only when WORKS holds its candidate.
LEMMA BindInv ==
    ASSUME IInv, NEW c \in Calls, Bind(c)
    PROVE  IInv'
<1> USE NoneAssumption, WorkAssumption, BaseAssumption DEF IInv, TypeOK, Bind, SameBinding, BindOnce
<1>1. TypeOK'
    BY DEF Verdicts, FreshInv, DecisionInv, OriginInv
<1>2. SubjectInv'
    BY <1>1 DEF SubjectInv, FreshInv, DecisionInv
<1>3. NoBindingWithoutAllowedAction'
    BY <1>1 DEF NoBindingWithoutAllowedAction, FreshInv, DecisionInv
<1>4. NoVerdictBeforeBinding'
    BY <1>1 DEF NoVerdictBeforeBinding, SubjectInv, FreshInv
<1>5. FreshInv' /\ OriginInv' /\ DecisionInv' /\ EvidenceInv'
    BY <1>1 DEF FreshInv, OriginInv, DecisionInv, EvidenceInv
<1> QED BY <1>1, <1>2, <1>3, <1>4, <1>5

\* A call goes on to project only when its candidate has been shipped.
LEMMA VerifyInv ==
    ASSUME IInv, NEW c \in Calls, Verify(c)
    PROVE  IInv'
<1> USE NoneAssumption, WorkAssumption, BaseAssumption DEF IInv, TypeOK, Verify, SameHead, Satisfies, Verdicts
<1>1. TypeOK'
  <2>1. PICK v \in Verdicts :
            verdicts' = [verdicts EXCEPT ![candidate[c]] = @ \cup {v}]
      OBVIOUS
  <2>2. pc' \in [Calls -> {"idle"} \cup Running \cup Terminal]
      OBVIOUS
  <2>3. verdicts' \in [Commits -> SUBSET Verdicts]
      BY <2>1
  <2> QED BY <2>2, <2>3
<1>2. SubjectInv'
    BY <1>1 DEF SubjectInv, FreshInv, DecisionInv
<1>3. NoVerdictBeforeBinding'
    BY <1>1 DEF NoVerdictBeforeBinding, SubjectInv, FreshInv
<1>4. FreshInv' /\ OriginInv' /\ DecisionInv' /\ EvidenceInv' /\ NoBindingWithoutAllowedAction'
    BY <1>1 DEF FreshInv, OriginInv, DecisionInv, EvidenceInv, NoBindingWithoutAllowedAction
<1> QED BY <1>1, <1>2, <1>3, <1>4

\* A call is accepted only on a passed outcome under its own PDR.
LEMMA ProjectInv ==
    ASSUME IInv, NEW c \in Calls, Project(c)
    PROVE  IInv'
<1> USE NoneAssumption, WorkAssumption, BaseAssumption DEF IInv, TypeOK, Project, SameChain, Verified
<1>1. TypeOK'
    BY DEF Verdicts, FreshInv, DecisionInv, OriginInv
<1>2. SubjectInv'
    BY <1>1 DEF SubjectInv, FreshInv, DecisionInv
<1>3. EvidenceInv'
    BY <1>1 DEF EvidenceInv, DecisionInv, FreshInv
<1>4. FreshInv' /\ OriginInv' /\ DecisionInv' /\ NoBindingWithoutAllowedAction' /\ NoVerdictBeforeBinding'
    BY <1>1 DEF FreshInv, OriginInv, DecisionInv, NoBindingWithoutAllowedAction, NoVerdictBeforeBinding
<1> QED BY <1>1, <1>2, <1>3, <1>4

\* An allowed action stays in the execution it was posted in.
LEMMA TgAllowInv ==
    ASSUME IInv, NEW c \in Calls, TgAllow(c)
    PROVE  IInv'
<1> USE NoneAssumption, WorkAssumption, BaseAssumption DEF IInv, TypeOK, TgAllow
<1>1. TypeOK'
    BY DEF Verdicts, FreshInv, DecisionInv, OriginInv
<1>2. DecisionInv'
    BY <1>1 DEF DecisionInv, FreshInv
<1>3. NoBindingWithoutAllowedAction'
    BY <1>1 DEF NoBindingWithoutAllowedAction, FreshInv, DecisionInv
<1>4. FreshInv' /\ OriginInv' /\ SubjectInv' /\ EvidenceInv' /\ NoVerdictBeforeBinding'
    BY <1>1 DEF FreshInv, OriginInv, SubjectInv, EvidenceInv, NoVerdictBeforeBinding
<1> QED BY <1>1, <1>2, <1>3, <1>4

\* A refusal or a hold adds no allowed action and removes none.
LEMMA TgRefuseInv ==
    ASSUME IInv, NEW c \in Calls, TgRefuse(c)
    PROVE  IInv'
<1> USE NoneAssumption, WorkAssumption, BaseAssumption DEF IInv, TypeOK, TgRefuse
<1>1. TypeOK'
    BY DEF Verdicts, FreshInv, DecisionInv, OriginInv
<1>2. DecisionInv'
    BY <1>1 DEF DecisionInv, FreshInv
<1>3. NoBindingWithoutAllowedAction'
    BY <1>1 DEF NoBindingWithoutAllowedAction, FreshInv, DecisionInv
<1>4. FreshInv' /\ OriginInv' /\ SubjectInv' /\ EvidenceInv' /\ NoVerdictBeforeBinding'
    BY <1>1 DEF FreshInv, OriginInv, SubjectInv, EvidenceInv, NoVerdictBeforeBinding
<1> QED BY <1>1, <1>2, <1>3, <1>4

\* A moving head touches none of the ledgers.
LEMMA MoveHeadInv ==
    ASSUME IInv, NEW w \in Calls, MoveHead(w)
    PROVE  IInv'
<1> USE NoneAssumption, WorkAssumption, BaseAssumption DEF IInv, TypeOK, MoveHead
<1>1. TypeOK'
    BY DEF Verdicts, FreshInv, DecisionInv, OriginInv
<1>2. FreshInv' /\ OriginInv' /\ DecisionInv' /\ SubjectInv' /\ EvidenceInv' /\ NoBindingWithoutAllowedAction' /\ NoVerdictBeforeBinding'
    BY <1>1 DEF FreshInv, OriginInv, DecisionInv, SubjectInv, EvidenceInv, NoBindingWithoutAllowedAction, NoVerdictBeforeBinding
<1> QED BY <1>1, <1>2

\* WORKS enters a PDR only in a chain that has none: accepted chains have one.
LEMMA RecordDecisionInv ==
    ASSUME IInv, NEW e \in Attempts, RecordDecision(e)
    PROVE  IInv'
<1> USE NoneAssumption, WorkAssumption, BaseAssumption DEF IInv, TypeOK, RecordDecision
<1>1. TypeOK'
    BY DEF Verdicts, FreshInv, DecisionInv, OriginInv
<1>2. EvidenceInv'
    BY <1>1 DEF EvidenceInv, DecisionInv, FreshInv
<1>3. FreshInv' /\ OriginInv' /\ DecisionInv' /\ SubjectInv' /\ NoBindingWithoutAllowedAction' /\ NoVerdictBeforeBinding'
    BY <1>1 DEF FreshInv, OriginInv, DecisionInv, SubjectInv, NoBindingWithoutAllowedAction, NoVerdictBeforeBinding
<1> QED BY <1>1, <1>2, <1>3

\* WORKS settles only pending outcomes: accepted executions have passed.
LEMMA SettleOutcomeInv ==
    ASSUME IInv, NEW e \in Attempts, SettleOutcome(e)
    PROVE  IInv'
<1> USE NoneAssumption, WorkAssumption, BaseAssumption DEF IInv, TypeOK, SettleOutcome
<1>1. TypeOK'
    BY DEF Verdicts, FreshInv, DecisionInv, OriginInv
<1>2. EvidenceInv'
    BY <1>1 DEF EvidenceInv, DecisionInv, FreshInv
<1>3. FreshInv' /\ OriginInv' /\ DecisionInv' /\ SubjectInv' /\ NoBindingWithoutAllowedAction' /\ NoVerdictBeforeBinding'
    BY <1>1 DEF FreshInv, OriginInv, DecisionInv, SubjectInv, NoBindingWithoutAllowedAction, NoVerdictBeforeBinding
<1> QED BY <1>1, <1>2, <1>3

\* A stuttering step.
LEMMA StutterInv == IInv /\ UNCHANGED vars => IInv'
BY DEF IInv, TypeOK, FreshInv, OriginInv, DecisionInv, SubjectInv, EvidenceInv,
    NoBindingWithoutAllowedAction, NoVerdictBeforeBinding, vars

\* The strengthening is inductive.
LEMMA NextInv == IInv /\ [Next]_vars => IInv'
<1> SUFFICES ASSUME IInv, [Next]_vars PROVE IInv'
    OBVIOUS
<1>1. ASSUME NEW c \in Calls, NEW a \in Attempts, Execute(c, a) PROVE IInv'
    BY <1>1, ExecuteInv
<1>2. ASSUME NEW c \in Calls, Step(c) PROVE IInv'
    BY <1>2, DispatchInv, PrepareInv, AuthorizeInv, ReceiveAllowInv,
       ReceiveApprovalRequiredInv, CaptureInv, BindInv, VerifyInv, ProjectInv,
       FailInv DEF Step
<1>3. ASSUME Owners PROVE IInv'
    BY <1>3, TgAllowInv, TgRefuseInv, MoveHeadInv, RecordDecisionInv,
       SettleOutcomeInv DEF Owners
<1>4. CASE UNCHANGED vars
    BY <1>4, StutterInv
<1> QED BY <1>1, <1>2, <1>3, <1>4 DEF Next

\* And so it holds of every behaviour.
LEMMA Invariance == Spec => []IInv
BY InitInv, NextInv, PTL DEF Spec

\* Every variable keeps its type.
THEOREM TypeCorrect == Spec => []TypeOK
BY Invariance, PTL DEF IInv

\* An accepted call has the whole causal chain in the owners' ledgers.
THEOREM EvidenceTheorem == Spec => []AcceptedIsFullyEvidenced
<1>1. IInv => AcceptedIsFullyEvidenced
    BY NoneAssumption DEF IInv, TypeOK, DecisionInv, SubjectInv, EvidenceInv,
       AcceptedIsFullyEvidenced
<1> QED BY <1>1, Invariance, PTL

\* Calls accepted for one execution were asked for one attempt, and accepted one
\* commit under one decision.
THEOREM OneSubjectTheorem == Spec => []OneAcceptedSubjectPerExecution
<1>1. IInv => OneAcceptedSubjectPerExecution
    BY DEF IInv, SubjectInv, EvidenceInv, OneAcceptedSubjectPerExecution
<1> QED BY <1>1, Invariance, PTL

\* Nothing of another Work enters an accepted chain.
THEOREM WorkIsolationTheorem == Spec => []AcceptedStaysInItsWork
<1>1. IInv => AcceptedStaysInItsWork
    BY DEF IInv, TypeOK, FreshInv, OriginInv, DecisionInv, AcceptedStaysInItsWork
<1> QED BY <1>1, Invariance, PTL

\* WORKS holds a subject only for an execution with an allowed action.
THEOREM BindingTheorem == Spec => []NoBindingWithoutAllowedAction
BY Invariance, PTL DEF IInv

\* Sentinel is asked only about bound commits.
THEOREM VerdictTheorem == Spec => []NoVerdictBeforeBinding
BY Invariance, PTL DEF IInv

(***************************************************************************)
(* The refinement.  Only Bind, Verify and Project can move the abstract    *)
(* state; every other action leaves the ledgers it is read from and the    *)
(* accepted calls alone.                                                   *)
(***************************************************************************)
\* The accepted pairs move only with the accepted calls.
LEMMA SameAcceptedPairs ==
    ASSUME \A d \in Calls : /\ Accepted(d)' <=> Accepted(d)
                            /\ Accepted(d) => UNCHANGED <<exec[d], candidate[d]>>
    PROVE  AcceptedPairs' = AcceptedPairs
BY DEF AcceptedPairs

\* A step that leaves bindings, verdicts and accepted calls alone stutters.
LEMMA AbstractStutter ==
    ASSUME UNCHANGED <<bound, verdicts>>,
           \A d \in Calls : /\ Accepted(d)' <=> Accepted(d)
                            /\ Accepted(d) => UNCHANGED <<exec[d], candidate[d]>>
    PROVE  UNCHANGED Abstract!vars
BY SameAcceptedPairs DEF Abstract!vars, Shipped

\* GoldenMission implements ExactSubjectAcceptance.
THEOREM Refinement == Spec => ImplementsExactSubjectAcceptance
<1>1. Init => Abstract!Init
    BY NoneAssumption DEF Init, Abstract!Init, Shipped, AcceptedPairs
<1>2. IInv /\ [Next]_vars => [Abstract!Next]_Abstract!vars
  <2> SUFFICES ASSUME IInv, [Next]_vars PROVE [Abstract!Next]_Abstract!vars
      OBVIOUS
  <2> USE NoneAssumption DEF IInv, TypeOK
  <2>1. ASSUME NEW c \in Calls, Bind(c) PROVE [Abstract!Next]_Abstract!vars
    <3>1. exec[c] \in Attempts /\ candidate[c] \in Commits
        BY <2>1 DEF Bind, FreshInv, SubjectInv
    <3>2. Shipped' = Shipped /\ AcceptedPairs' = AcceptedPairs
      <4>1. AcceptedPairs' = AcceptedPairs
          BY <2>1, SameAcceptedPairs DEF Bind
      <4> QED BY <4>1, <2>1 DEF Bind, Shipped
    <3>3. CASE bound[exec[c]] = None
      <4>1. Abstract!Bind(exec[c], candidate[c])
          BY <2>1, <3>1, <3>2, <3>3 DEF Bind, BindOnce, Abstract!Bind
      <4> QED BY <3>1, <4>1 DEF Abstract!Next
    <3>4. CASE bound[exec[c]] # None
        BY <2>1, <3>1, <3>2, <3>4 DEF Bind, BindOnce, Abstract!vars
    <3> QED BY <3>3, <3>4
  <2>2. ASSUME NEW c \in Calls, Verify(c) PROVE [Abstract!Next]_Abstract!vars
    <3>1. PICK v \in Verdicts :
              verdicts' = [verdicts EXCEPT ![candidate[c]] = @ \cup {v}]
        BY <2>2 DEF Verify
    <3>2. /\ exec[c] \in Attempts /\ candidate[c] \in Commits
          /\ bound[exec[c]] = candidate[c]
        BY <2>2 DEF Verify, FreshInv, SubjectInv
    <3>3. pc[c] = "verify" /\ \E t \in {"project", "not_shipped", "failed"} : Goto(c, t)
        BY <2>2 DEF Verify
    <3>4. AcceptedPairs' = AcceptedPairs
        BY <2>2, <3>3, SameAcceptedPairs DEF Verify
    <3>5. UNCHANGED bound
        BY <2>2 DEF Verify
    <3>6. CASE v = "SHIP"
      <4>1. Shipped' = Shipped \cup {candidate[c]}
          BY <3>1, <3>2, <3>6 DEF Shipped
      <4>2. Abstract!Ship(candidate[c])
          BY <3>2, <3>4, <3>5, <4>1 DEF Abstract!Ship
      <4> QED BY <3>2, <4>2 DEF Abstract!Next
    <3>7. CASE v # "SHIP"
      <4>1. Shipped' = Shipped
          BY <3>1, <3>2, <3>7 DEF Shipped
      <4> QED BY <3>4, <3>5, <4>1 DEF Abstract!vars
    <3> QED BY <3>6, <3>7
  <2>3. ASSUME NEW c \in Calls, Project(c) PROVE [Abstract!Next]_Abstract!vars
    <3>1. pc[c] = "project" /\ UNCHANGED <<bound, verdicts, exec, candidate>>
        BY <2>3 DEF Project
    <3>2. /\ exec[c] \in Attempts /\ bound[exec[c]] = candidate[c]
          /\ candidate[c] \in Shipped
        BY <3>1 DEF FreshInv, SubjectInv, Shipped
    <3>3. CASE Goto(c, "accepted")
      <4>1. {d \in Calls : Accepted(d)}' = {d \in Calls : Accepted(d)} \cup {c}
          BY <3>3
      <4>2. AcceptedPairs' = AcceptedPairs \cup {<<exec[c], bound[exec[c]]>>}
          BY <3>1, <3>2, <4>1 DEF AcceptedPairs
      <4>3. Abstract!Accept(exec[c])
          BY <3>1, <3>2, <4>2 DEF Abstract!Accept, Shipped
      <4> QED BY <3>2, <4>3 DEF Abstract!Next
    <3>4. CASE Goto(c, "not_accepted")
        BY <3>1, <3>4, AbstractStutter
    <3> QED BY <2>3, <3>3, <3>4 DEF Project
  <2>4. ASSUME NEW c \in Calls, NEW a \in Attempts, Execute(c, a)
        PROVE  UNCHANGED Abstract!vars
      BY <2>4, AbstractStutter DEF Execute
  <2>5. ASSUME NEW c \in Calls, Dispatch(c) \/ Prepare(c) \/ Authorize(c)
                    \/ ReceiveAllow(c) \/ ReceiveApprovalRequired(c)
                    \/ Capture(c) \/ Fail(c)
        PROVE  UNCHANGED Abstract!vars
      BY <2>5, AbstractStutter DEF Dispatch, Prepare, Authorize, ReceiveAllow,
         ReceiveApprovalRequired, Capture, Fail
  <2>6. ASSUME Owners PROVE UNCHANGED Abstract!vars
      BY <2>6, AbstractStutter DEF Owners, TgAllow, TgRefuse, MoveHead,
         RecordDecision, SettleOutcome
  <2>7. CASE UNCHANGED vars
      BY <2>7, AbstractStutter DEF vars
  <2> QED BY <2>1, <2>2, <2>3, <2>4, <2>5, <2>6, <2>7 DEF Next, Step
<1> QED BY <1>1, <1>2, Invariance, PTL
    DEF Spec, ImplementsExactSubjectAcceptance, Abstract!Spec
=============================================================================
