---------------------------- MODULE VerticalSlice ----------------------------
(***************************************************************************)
(* ReferenceVerticalSlice.run: seed a failing subject, fix it in a builder *)
(* worktree, test, commit, check the commit out again, test that, accept.  *)
(* Runs of one object follow one another and share its trace.              *)
(*                                                                         *)
(* What a tree or a commit holds is the content of mathlib.py.  Git may    *)
(* fail at any command and may commit something else than the tree it is   *)
(* run in (the hooks of the user's configuration run in the temporary      *)
(* repository too); it checks out what was committed.  A test run may fail *)
(* for reasons of the machine; it passes only on content that is right.    *)
(***************************************************************************)
EXTENDS Integers, Sequences

CONSTANTS
    Runs,           \* runs of one ReferenceVerticalSlice object
    Contents,       \* contents a commit may get
    Fixed,          \* the fix
    None            \* no value yet

ASSUME ContentsAssumption == Fixed \in Contents
ASSUME NoneAssumption == None \notin Contents \cup {"PASS", "FAIL"}

VARIABLES
    pc,             \* where each run is
    tree,           \* content of the builder worktree
    candidate,      \* content of the commit candidate_sha
    verifier,       \* content of the verifier worktree
    verdict,        \* verdict of the independent test
    trace,          \* ReferenceVerticalSlice._trace
    returned        \* the trace in the result each run returned

vars == <<pc, tree, candidate, verifier, verdict, trace, returned>>

\* The places in run at which an event is recorded, in their order.
Chain == <<"mission.created", "work.created", "git.baseline", "worktree.provisioned",
           "test.failed", "code.mutated", "test.passed", "git.commit",
           "verification.worktree", "verification.verdict", "mission.acceptance">>

Places == {"idle", "seed", "provision", "before", "mutate", "after", "commit",
           "checkout", "verify", "accept"}

Terminal == {"accepted", "raised"}

Verdicts == {"PASS", "FAIL"}

TypeOK ==
    /\ pc \in [Runs -> Places \cup Terminal]
    /\ tree \in [Runs -> Contents \cup {None}]
    /\ candidate \in [Runs -> Contents \cup {None}]
    /\ verifier \in [Runs -> Contents \cup {None}]
    /\ verdict \in [Runs -> Verdicts \cup {None}]
    /\ DOMAIN returned = Runs

Init ==
    /\ pc = [r \in Runs |-> "idle"]
    /\ tree = [r \in Runs |-> None]
    /\ candidate = [r \in Runs |-> None]
    /\ verifier = [r \in Runs |-> None]
    /\ verdict = [r \in Runs |-> None]
    /\ trace = <<>>
    /\ returned = [r \in Runs |-> None]

Event(r, what, detail) == [run |-> r, kind |-> what, detail |-> detail]

\* Run r goes on to a place and records an event.
Record(r, place, what, detail) ==
    /\ pc' = [pc EXCEPT ![r] = place]
    /\ trace' = Append(trace, Event(r, what, detail))

\* A test passes only on the fix; it may fail on any content.
MayPass(content) == content = Fixed

-----------------------------------------------------------------------------
Start(r) ==
    /\ pc[r] = "idle"
    /\ \A s \in Runs : pc[s] \in Terminal \cup {"idle"}
    /\ pc' = [pc EXCEPT ![r] = "seed"]
    /\ trace' = trace \o <<Event(r, "mission.created", None), Event(r, "work.created", None)>>
    /\ UNCHANGED <<tree, candidate, verifier, verdict, returned>>

\* The failing subject is committed.
Seed(r) ==
    /\ pc[r] = "seed"
    /\ Record(r, "provision", "git.baseline", None)
    /\ UNCHANGED <<tree, candidate, verifier, verdict, returned>>

\* The builder worktree is added from it.
Provision(r) ==
    /\ pc[r] = "provision"
    /\ \E c \in Contents : tree' = [tree EXCEPT ![r] = c]
    /\ Record(r, "before", "worktree.provisioned", None)
    /\ UNCHANGED <<candidate, verifier, verdict, returned>>

\* The test must fail on the baseline; it may fail on the fix, too.
TestBefore(r) ==
    /\ pc[r] = "before"
    /\ Record(r, "mutate", "test.failed", None)
    /\ UNCHANGED <<tree, candidate, verifier, verdict, returned>>

Mutate(r) ==
    /\ pc[r] = "mutate"
    /\ tree' = [tree EXCEPT ![r] = Fixed]
    /\ Record(r, "after", "code.mutated", None)
    /\ UNCHANGED <<candidate, verifier, verdict, returned>>

TestAfter(r) ==
    /\ pc[r] = "after"
    /\ MayPass(tree[r])
    /\ Record(r, "commit", "test.passed", None)
    /\ UNCHANGED <<tree, candidate, verifier, verdict, returned>>

\* What is committed is not necessarily what was tested.
Commit(r) ==
    /\ pc[r] = "commit"
    /\ \E c \in Contents : candidate' = [candidate EXCEPT ![r] = c]
    /\ Record(r, "checkout", "git.commit", None)
    /\ UNCHANGED <<tree, verifier, verdict, returned>>

FaultyCheckout(r) ==
    /\ pc[r] = "checkout"
    /\ verifier' = [verifier EXCEPT ![r] = tree[r]]
    /\ Record(r, "verify", "verification.worktree", None)
    /\ UNCHANGED <<tree, candidate, verdict, returned>>

\* A detached worktree at candidate_sha; its head is compared with it.
Checkout(r) ==
    /\ pc[r] = "checkout"
    /\ verifier' = [verifier EXCEPT ![r] = candidate[r]]
    /\ Record(r, "verify", "verification.worktree", None)
    /\ UNCHANGED <<tree, candidate, verdict, returned>>

\* The independent test, in the verifier worktree.
Verify(r) ==
    /\ pc[r] = "verify"
    /\ \E v \in Verdicts :
         /\ v = "PASS" => MayPass(verifier[r])
         /\ verdict' = [verdict EXCEPT ![r] = v]
         /\ Record(r, "accept", "verification.verdict", v)
    /\ UNCHANGED <<tree, candidate, verifier, returned>>

FaultyAccept(r) ==
    /\ pc[r] = "accept"
    /\ verdict[r] = "PASS"
    /\ Record(r, "accepted", "mission.acceptance", "ACCEPTED")
    /\ returned' = [returned EXCEPT ![r] = trace]
    /\ UNCHANGED <<tree, candidate, verifier, verdict>>

\* The mission is accepted and the result, with a copy of the trace, returned.
Accept(r) ==
    /\ pc[r] = "accept"
    /\ verdict[r] = "PASS"
    /\ Record(r, "accepted", "mission.acceptance", "ACCEPTED")
    /\ returned' = [returned EXCEPT ![r] = trace']
    /\ UNCHANGED <<tree, candidate, verifier, verdict>>

FaultyReject(r) ==
    /\ pc[r] = "accept"
    /\ verdict[r] # "PASS"
    /\ pc' = [pc EXCEPT ![r] = "raised"]
    /\ UNCHANGED <<tree, candidate, verifier, verdict, trace, returned>>

\* Rejection is recorded before AssertionError is raised.
Reject(r) ==
    /\ pc[r] = "accept"
    /\ verdict[r] # "PASS"
    /\ Record(r, "raised", "mission.acceptance", "REJECTED")
    /\ UNCHANGED <<tree, candidate, verifier, verdict, returned>>

\* A Git command, a test run or the file system fails, at any place before the
\* verdict: nothing catches it, and nothing is recorded.
Raise(r) ==
    /\ pc[r] \in Places \ {"idle", "accept"}
    /\ pc' = [pc EXCEPT ![r] = "raised"]
    /\ UNCHANGED <<tree, candidate, verifier, verdict, trace, returned>>

Step(r) ==
    \/ Seed(r) \/ Provision(r) \/ TestBefore(r) \/ Mutate(r) \/ TestAfter(r)
    \/ Commit(r) \/ Checkout(r) \/ Verify(r) \/ Accept(r) \/ Reject(r) \/ Raise(r)

Next == \E r \in Runs : Start(r) \/ Step(r)

Spec == Init /\ [][Next]_vars

-----------------------------------------------------------------------------
\* "deterministic unit test passes at exact commit": what is accepted is a
\* commit whose own content is right, also when Git commits something else
\* than the tree the builder tested.
AcceptedCommitIsRight ==
    \A r \in Runs : pc[r] = "accepted" => candidate[r] = Fixed

\* A returned result ends in its run's whole chain, in order and without a gap,
\* with ACCEPTED at last, after whatever earlier runs of the object have left in
\* the trace.
ReturnedTraceIsComplete ==
    \A r \in Runs : returned[r] # None =>
        LET t == returned[r]
            before == Len(t) - Len(Chain)
        IN  /\ before >= 0
            /\ \A i \in DOMAIN t : t[i].run = r <=> i > before
            /\ \A i \in DOMAIN Chain : t[before + i].kind = Chain[i]
            /\ t[Len(t)].detail = "ACCEPTED"

\* Every run that issued a verdict has its acceptance or rejection on record, in
\* agreement with the verdict, and nothing of its own after it.
VerdictIsAnswered ==
    \A r \in Runs : verdict[r] # None /\ pc[r] \in Terminal =>
        \E i \in DOMAIN trace :
            /\ trace[i] = Event(r, "mission.acceptance",
                                IF verdict[r] = "PASS" THEN "ACCEPTED" ELSE "REJECTED")
            /\ \A j \in DOMAIN trace : j > i => trace[j].run # r

-----------------------------------------------------------------------------
(* A run accepts one exact subject: its candidate. *)
Acceptance == INSTANCE ExactSubjectAcceptance WITH
    Executions <- Runs, Subjects <- Runs \X Contents, Unbound <- None,
    subject <- [r \in Runs |-> IF candidate[r] = None THEN None ELSE <<r, candidate[r]>>],
    shipped <- {<<r, verifier[r]>> : r \in {s \in Runs : verdict[s] = "PASS"}},
    accepted <- {<<r, <<r, candidate[r]>>>> : r \in {s \in Runs : pc[s] = "accepted"}}

\* The verdict a run accepts on is about the commit it made.
ImplementsExactSubjectAcceptance == Acceptance!Spec
=============================================================================
