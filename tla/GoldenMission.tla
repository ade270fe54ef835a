---------------------------- MODULE GoldenMission ----------------------------
(***************************************************************************)
(* The composed P2 Golden Mission gate: concurrent and repeated calls of   *)
(* GoldenMissionCoordinator.execute against the six ports it composes, and *)
(* the owners behind the ports as far as the ports can observe them.       *)
(*                                                                         *)
(* One action is one port call: what the owner does with the request, the  *)
(* answer, and the port's validation of the answer.  An answer is always a *)
(* true statement of its owner, but it may be about another request (a     *)
(* cached, replayed or crossed answer); a call the port refuses, an answer *)
(* that is lost and a coordinator that dies all end the call with an error *)
(* and leave what the owners already did in place.  The Trust Gateway call *)
(* is split in request, decision and receipt, because the decision may     *)
(* come after the client has timed out.                                    *)
(*                                                                         *)
(* Identities: a WORKS execution and its context id are named by the       *)
(* attempt they were minted for, a worktree by the call that had it        *)
(* prepared, a policy decision record (PDR) by the call whose action it    *)
(* allows.  A Git subject "git:<repo>@<sha>" is its commit.                *)
(***************************************************************************)
CONSTANTS
    Calls,          \* calls of execute, each made at most once
    Attempts,       \* dispatch requests; a call may repeat another's request
    Works,          \* Work ids
    WorkOf,         \* the Work of each attempt
    Commits,        \* Git commits
    BaseCommit,     \* the base_sha every request names
    None            \* no value yet

ASSUME WorkAssumption == WorkOf \in [Attempts -> Works]
ASSUME BaseAssumption == BaseCommit \in Commits
ASSUME NoneAssumption == None \notin Attempts \cup Commits \cup Calls

VARIABLES
    pc,             \* where each call is in execute
    attempt,        \* the request's attempt_id (and with it its Work)
    exec,           \* the execution the Runtime receipt names
    worktree,       \* the worktree binding
    pdr,            \* the execution_pdr_id of the Trust Gateway receipt
    candidate,      \* the captured candidate_sha
    dispatched,     \* WORKS: attempts dispatched, i.e. executions minted
    bound,          \* WORKS: the exact subject bound to each execution
    binder,         \* WORKS: the attempt in whose name it was bound
    chain,          \* WORKS: the PDR in each execution's identity chain
    outcome,        \* WORKS: platform outcome verification per execution
    head,           \* Habitat: the head of each prepared worktree
    action,         \* Trust Gateway: its record of each call's action
    verdicts        \* Sentinel: the verdicts issued on each commit

local == <<attempt, exec, worktree, pdr, candidate>>
works == <<dispatched, bound, binder, chain, outcome>>
vars == <<pc, local, works, head, action, verdicts>>

Running == {"dispatch", "prepare", "authorize", "awaiting", "capture",
            "bind", "verify", "project"}
Returned == {"needs_approval", "not_shipped", "not_accepted", "accepted"}
Terminal == Returned \cup {"failed"}
\* DO_NOT_SHIP stands for every verdict other than SHIP.
Verdicts == {"SHIP", "DO_NOT_SHIP"}

TypeOK ==
    /\ pc \in [Calls -> {"idle"} \cup Running \cup Terminal]
    /\ attempt \in [Calls -> Attempts \cup {None}]
    /\ exec \in [Calls -> Attempts \cup {None}]
    /\ worktree \in [Calls -> Calls \cup {None}]
    /\ pdr \in [Calls -> Calls \cup {None}]
    /\ candidate \in [Calls -> Commits \cup {None}]
    /\ dispatched \subseteq Attempts
    /\ bound \in [Attempts -> Commits \cup {None}]
    /\ binder \in [Attempts -> Attempts \cup {None}]
    /\ chain \in [Attempts -> Calls \cup {None}]
    /\ outcome \in [Attempts -> {"pending", "passed", "failed"}]
    /\ head \in [Calls -> Commits \cup {None}]
    /\ action \in [Calls -> {"none", "pending", "allowed", "held", "denied"}]
    /\ verdicts \in [Commits -> SUBSET Verdicts]

Init ==
    /\ pc = [c \in Calls |-> "idle"]
    /\ attempt = [c \in Calls |-> None]
    /\ exec = [c \in Calls |-> None]
    /\ worktree = [c \in Calls |-> None]
    /\ pdr = [c \in Calls |-> None]
    /\ candidate = [c \in Calls |-> None]
    /\ dispatched = {}
    /\ bound = [e \in Attempts |-> None]
    /\ binder = [e \in Attempts |-> None]
    /\ chain = [e \in Attempts |-> None]
    /\ outcome = [e \in Attempts |-> "pending"]
    /\ head = [c \in Calls |-> None]
    /\ action = [c \in Calls |-> "none"]
    /\ verdicts = [s \in Commits |-> {}]

Goto(c, step) == pc' = [pc EXCEPT ![c] = step]

-----------------------------------------------------------------------------
(* What each port demands of an answer before the coordinator may use it.  *)
(* A definition named Faulty... is a seeded fault: no action uses it; each  *)
(* shows which property notices when the definition after it goes wrong.   *)

FaultyAnyWork(c, e) == TRUE

\* The Runtime receipt must carry the requested Work; nothing in it names
\* the attempt.
SameWork(c, e) == WorkOf[e] = WorkOf[attempt[c]]

\* The worktree must be bound to the requested Work and Attempt.
SameAttempt(c, w) == attempt[w] = attempt[c]

\* The Trust Gateway receipt must carry the execution context of the request.
SameContext(c, p) == exec[p] = exec[c]

\* The candidate must come from the prepared worktree.
SameWorktree(c, w) == w = worktree[c]

FaultyAnySubject(c, e, s, a) == e = exec[c] /\ a = attempt[c]

\* The binding receipt must repeat the execution, the exact subject and the
\* attempt (with it the effect and causal ids, which one request fixes).
SameBinding(c, e, s, a) == e = exec[c] /\ s = candidate[c] /\ a = attempt[c]

\* The Sentinel projection must be about the requested head.
SameHead(c, s) == s = candidate[c]

FaultyAnyVerdict(v) == TRUE

\* satisfies: only a SHIP lets the mission reach acceptance.
Satisfies(v) == v = "SHIP"

FaultyAnyDecision(c, e) == e = exec[c]

\* The identity chain must repeat mission, Work, context and PDR.
SameChain(c, e) == e = exec[c] /\ chain[e] = pdr[c]

\* WORKS owns the outcome: accepted means verified and passed.
Verified(e) == outcome[e] = "passed"

\* What Habitat reports as candidateSha of a worktree.
CapturedHead(w) == head[w]

\* WORKS binds a subject once and keeps it.
BindOnce(old, new) == IF old = None THEN new ELSE old

-----------------------------------------------------------------------------
(* The coordinator. *)

\* execute is called with a request.
Execute(c, a) ==
    /\ pc[c] = "idle"
    /\ attempt' = [attempt EXCEPT ![c] = a]
    /\ Goto(c, "dispatch")
    /\ UNCHANGED <<exec, worktree, pdr, candidate, works, head, action, verdicts>>

\* An unavailable owner, a refused or malformed answer, a crash: an exception may
\* leave execute at any port call, and undoes nothing.  It need never come: the
\* transports of Habitat and Sentinel have no timeout.
Fail(c) ==
    /\ pc[c] \in Running
    /\ Goto(c, "failed")
    /\ UNCHANGED <<local, works, head, action, verdicts>>

\* runtime.dispatch: WORKS mints the attempt's execution, or replays it.
Dispatch(c) ==
    /\ pc[c] = "dispatch"
    /\ dispatched' = dispatched \cup {attempt[c]}
    /\ \/ \E e \in dispatched' :
            /\ SameWork(c, e)
            /\ exec' = [exec EXCEPT ![c] = e]
            /\ Goto(c, "prepare")
       \/ Goto(c, "failed") /\ UNCHANGED exec
    /\ UNCHANGED <<attempt, worktree, pdr, candidate, bound, binder, chain, outcome,
                   head, action, verdicts>>

\* git_subject.prepare: Habitat creates a clean worktree at the base.
Prepare(c) ==
    /\ pc[c] = "prepare"
    /\ head' = [head EXCEPT ![c] = BaseCommit]
    /\ \/ \E w \in Calls :
            /\ head'[w] # None
            /\ SameAttempt(c, w)
            /\ worktree' = [worktree EXCEPT ![c] = w]
            /\ Goto(c, "authorize")
       \/ Goto(c, "failed") /\ UNCHANGED worktree
    /\ UNCHANGED <<attempt, exec, pdr, candidate, works, action, verdicts>>

\* trust_gateway.execute: the action is posted.
Authorize(c) ==
    /\ pc[c] = "authorize"
    /\ action' = [action EXCEPT ![c] = "pending"]
    /\ Goto(c, "awaiting")
    /\ UNCHANGED <<local, works, head, verdicts>>

\* 200 allow: the receipt's PDR is kept.  A repeated action may be answered
\* with the record of an earlier one.
ReceiveAllow(c) ==
    /\ pc[c] = "awaiting"
    /\ \E p \in Calls :
         /\ action[p] = "allowed"
         /\ SameContext(c, p)
         /\ pdr' = [pdr EXCEPT ![c] = p]
    /\ Goto(c, "capture")
    /\ UNCHANGED <<attempt, exec, worktree, candidate, works, head, action, verdicts>>

FaultyApprovalIsSuccess(c) ==
    /\ pc[c] = "awaiting"
    /\ \E p \in Calls : action[p] = "held"
    /\ Goto(c, "capture")
    /\ UNCHANGED <<local, works, head, action, verdicts>>

\* 202 needs_approval, which names neither the action nor its context: execute
\* returns, there is no way to resume the call.
ReceiveApprovalRequired(c) ==
    /\ pc[c] = "awaiting"
    /\ \E p \in Calls : action[p] = "held"
    /\ Goto(c, "needs_approval")
    /\ UNCHANGED <<local, works, head, action, verdicts>>

\* The worktree's name passed on as the candidate.
FaultyCaptureRef(c) ==
    /\ pc[c] = "capture"
    /\ candidate' = [candidate EXCEPT ![c] = worktree[c]]
    /\ Goto(c, "bind")
    /\ UNCHANGED <<attempt, exec, worktree, pdr, works, head, action, verdicts>>

\* git_subject.capture: the worktree's head at this moment.
Capture(c) ==
    /\ pc[c] = "capture"
    /\ \E w \in Calls :
         /\ head[w] # None
         /\ SameWorktree(c, w)
         /\ candidate' = [candidate EXCEPT ![c] = CapturedHead(w)]
    /\ Goto(c, "bind")
    /\ UNCHANGED <<attempt, exec, worktree, pdr, works, head, action, verdicts>>

\* subject_binding.bind: WORKS binds an execution's subject once, answers a
\* repetition with the binding it has, and the port compares.
Bind(c) ==
    /\ pc[c] = "bind"
    /\ bound' = [bound EXCEPT ![exec[c]] = BindOnce(@, candidate[c])]
    /\ binder' = [binder EXCEPT ![exec[c]] = BindOnce(@, attempt[c])]
    /\ \/ \E e \in Attempts :
            /\ bound'[e] # None
            /\ SameBinding(c, e, bound'[e], binder'[e])
            /\ Goto(c, "verify")
       \/ Goto(c, "failed")
    /\ UNCHANGED <<local, dispatched, chain, outcome, head, action, verdicts>>

\* sentinel.verify: a verdict is issued for the candidate, and one received.
Verify(c) ==
    /\ pc[c] = "verify"
    /\ \E v \in Verdicts :
         verdicts' = [verdicts EXCEPT ![candidate[c]] = @ \cup {v}]
    /\ \/ \E s \in Commits : \E v \in verdicts'[s] :
            /\ SameHead(c, s)
            /\ Goto(c, IF Satisfies(v) THEN "project" ELSE "not_shipped")
       \/ Goto(c, "failed")
    /\ UNCHANGED <<local, works, head, action>>

\* mission_acceptance.project: the evidence bundle of the Work, which WORKS
\* may take from any execution of that Work.
Project(c) ==
    /\ pc[c] = "project"
    /\ \E e \in dispatched :
         /\ WorkOf[e] = WorkOf[exec[c]]
         /\ \/ chain[e] = None /\ Goto(c, "not_accepted")      \* provenance_gap
            \/ /\ chain[e] # None
               /\ SameChain(c, e)
               /\ Goto(c, IF Verified(e) THEN "accepted" ELSE "not_accepted")
    /\ UNCHANGED <<local, works, head, action, verdicts>>

Step(c) ==
    \/ Dispatch(c) \/ Prepare(c) \/ Authorize(c) \/ ReceiveAllow(c)
    \/ ReceiveApprovalRequired(c) \/ Capture(c) \/ Bind(c) \/ Verify(c)
    \/ Project(c) \/ Fail(c)

-----------------------------------------------------------------------------
(* The owners, on their own time. *)

\* Trust Gateway/AIE allows the action and applies it in the worktree, at
\* once or after the client has given up.  A no-op tool leaves the base.
TgAllow(c) ==
    /\ action[c] = "pending"
    /\ action' = [action EXCEPT ![c] = "allowed"]
    /\ \E s \in Commits : head' = [head EXCEPT ![worktree[c]] = s]
    /\ UNCHANGED <<pc, local, works, verdicts>>

TgRefuse(c) ==
    /\ action[c] = "pending"
    /\ \E d \in {"held", "denied"} : action' = [action EXCEPT ![c] = d]
    /\ UNCHANGED <<pc, local, works, head, verdicts>>

\* Somebody else working in the Habitat moves a worktree's head.
MoveHead(w) ==
    /\ head[w] # None
    /\ \E s \in Commits \ {head[w]} : head' = [head EXCEPT ![w] = s]
    /\ UNCHANGED <<pc, local, works, action, verdicts>>

\* WORKS enters one allowed action of the execution in its identity chain.
RecordDecision(e) ==
    /\ chain[e] = None
    /\ \E p \in Calls :
         /\ action[p] = "allowed"
         /\ exec[p] = e
         /\ chain' = [chain EXCEPT ![e] = p]
    /\ UNCHANGED <<pc, local, dispatched, bound, binder, outcome, head, action,
                   verdicts>>

\* WORKS settles the platform outcome of an execution that has a subject.
SettleOutcome(e) ==
    /\ bound[e] # None
    /\ outcome[e] = "pending"
    /\ \E o \in {"passed", "failed"} : outcome' = [outcome EXCEPT ![e] = o]
    /\ UNCHANGED <<pc, local, dispatched, bound, binder, chain, head, action,
                   verdicts>>

Owners ==
    \/ \E c \in Calls : TgAllow(c) \/ TgRefuse(c) \/ MoveHead(c)
    \/ \E e \in Attempts : RecordDecision(e) \/ SettleOutcome(e)

Next ==
    \/ \E c \in Calls, a \in Attempts : Execute(c, a)
    \/ \E c \in Calls : Step(c)
    \/ Owners

Spec == Init /\ [][Next]_vars

-----------------------------------------------------------------------------
(* What the gate promises. *)

Accepted(c) == pc[c] = "accepted"

\* A call accepts only on the full causal chain, read in the owners' own
\* ledgers: its candidate is the subject WORKS holds for its execution,
\* Sentinel shipped that commit, and WORKS saw the outcome pass under the very
\* policy decision by which the Trust Gateway allowed an action in that
\* execution.  No conjunct is checked by a single line of execute: the
\* evidence bundle names no subject and the verdict names no execution.
AcceptedIsFullyEvidenced ==
    \A c \in Calls : Accepted(c) =>
        /\ bound[exec[c]] = candidate[c]
        /\ "SHIP" \in verdicts[candidate[c]]
        /\ outcome[exec[c]] = "passed"
        /\ chain[exec[c]] = pdr[c]
        /\ action[pdr[c]] = "allowed"
        /\ exec[pdr[c]] = exec[c]

\* However often a dispatch is repeated, concurrently, after an approval or
\* after a failure, two calls that end accepted for the same execution accepted
\* the same commit under the same policy decision, and were asked for the same
\* attempt: a receipt of another attempt of the Work is not noticed when it comes,
\* but only one attempt can have an execution accepted.
OneAcceptedSubjectPerExecution ==
    \A c, d \in Calls :
        Accepted(c) /\ Accepted(d) /\ exec[c] = exec[d]
            => candidate[c] = candidate[d] /\ pdr[c] = pdr[d] /\ attempt[c] = attempt[d]

\* Everything an accepted call composed belongs to the Work it was asked for,
\* whatever answers crossed: the execution, the worktree, and the execution the
\* policy decision was made in.
AcceptedStaysInItsWork ==
    \A c \in Calls : Accepted(c) =>
        /\ WorkOf[exec[c]] = WorkOf[attempt[c]]
        /\ WorkOf[attempt[worktree[c]]] = WorkOf[attempt[c]]
        /\ WorkOf[exec[pdr[c]]] = WorkOf[attempt[c]]

\* needs_approval, a denial and a timeout stop before subject binding: WORKS
\* never holds a subject for an execution in which no action was allowed.
NoBindingWithoutAllowedAction ==
    \A e \in Attempts : bound[e] # None =>
        \E p \in Calls : action[p] = "allowed" /\ exec[p] = e

\* Sentinel is only ever asked about a commit that WORKS already holds as an
\* execution's subject, also when two calls race for the binding.
NoVerdictBeforeBinding ==
    \A s \in Commits : verdicts[s] # {} => \E e \in Attempts : bound[e] = s

\* "A later SHA B makes a prior projection for A unusable even if A was SHIP":
\* when a call becomes accepted its worktree's head is still the candidate.
AcceptedHeadIsCurrent ==
    [][\A c \in Calls : ~Accepted(c) /\ Accepted(c)' =>
        head[worktree[c]] = candidate[c]]_vars

\* "branch/base/placeholder subjects fail before transport": the base commit is
\* never bound as the subject of an execution.
BaseIsNeverBound ==
    \A e \in Attempts : bound[e] # BaseCommit

-----------------------------------------------------------------------------
(* GoldenMission implements ExactSubjectAcceptance. *)

Shipped == {s \in Commits : "SHIP" \in verdicts[s]}
AcceptedPairs == {<<exec[c], candidate[c]>> : c \in {d \in Calls : Accepted(d)}}

Abstract == INSTANCE ExactSubjectAcceptance WITH
    Executions <- Attempts, Subjects <- Commits, Unbound <- None,
    subject <- bound, shipped <- Shipped, accepted <- AcceptedPairs

\* An execution is accepted only for the one subject it is bound to, and only
\* after Sentinel shipped that subject.
ImplementsExactSubjectAcceptance == Abstract!Spec
=============================================================================
