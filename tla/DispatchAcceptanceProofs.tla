----------------------- MODULE DispatchAcceptanceProofs -----------------------
(***************************************************************************)
(* Proofs about DispatchAcceptance, for any number of calls, keys and      *)
(* requests.                                                               *)
(***************************************************************************)
EXTENDS DispatchAcceptance, TLAPS

(***************************************************************************)
(* The properties speak of calls that hold an acceptance.  The             *)
(* strengthening says where that acceptance came from: what is on the wire *)
(* and in the ledger was put there by a valid request of some call, so an  *)
(* answer that preserves all a caller compared can only be about the       *)
(* request the caller made.                                                *)
(***************************************************************************)
Valid(r) == r \in Requests /\ r.form = "valid"

Live(c) == pc[c] \in {"calling", "waiting"} \/ Holds(c)

\* Some call has asked for r, at a door that lets it through.
AskedFor(r) ==
    \E c \in Calls :
        /\ pc[c] # "idle"
        /\ request[c] = r
        /\ r.form = "valid"
        /\ r.api = "2.0" => door[c] = "works"

\* A call that has begun has its request and its door; what it waits for, or
\* holds, it has asked for with a valid request.
AskedInv ==
    \A c \in Calls :
        /\ pc[c] # "idle" => request[c] \in Requests
        /\ door[c] # None => pc[c] # "idle"
        /\ pc[c] # "idle" /\ door[c] = "runtime" => request[c].api = "1.0"
        /\ Live(c) => door[c] \in {"works", "bare", "runtime"} /\ Valid(request[c])
        /\ Live(c) /\ request[c].api = "2.0" => door[c] = "works"
        /\ pc[c] = "calling" => door[c] # "runtime"
        /\ pc[c] \in {"asking", "binding", "bind_failed", "bound"} =>
             HoldsV2(c) /\ asked[c] \in Bindings /\ asked[c].key = exec[c]

\* WORKS has only what was sent to it, each request under its own key.
WorksInv ==
    /\ \A r \in sent : Valid(r)
    /\ \A k \in Keys : ledger[k] # None =>
         Valid(ledger[k]) /\ ledger[k].key = k /\ ledger[k] \in sent
    /\ \A k \in Keys : bound[k] # None => bound[k].key = k

\* What is on its way was asked for.
SentInv == \A r \in sent : AskedFor(r)

\* What a call holds is backed by the ledger, and what it was told is bound is.
BackedInv ==
    \A c \in Calls :
        /\ Holds(c) => exec[c] \in Keys /\ ledger[exec[c]] # None
        /\ HoldsV2(c) => ledger[exec[c]] = request[c]
        /\ Holds(c) /\ door[c] # "runtime" /\ request[c].api = "1.0" =>
             PreservedV1(request[c], ledger[exec[c]])
        /\ pc[c] = "bound" => bound[exec[c]] # None /\ SameBinding(c, bound[exec[c]])

IInv == TypeOK /\ AskedInv /\ WorksInv /\ SentInv /\ BackedInv

USE NoneAssumption, RequestsAssumption
    DEF Goto, local, wire, Bindings, RequestFields

\* Initially nothing was asked, sent or accepted.
LEMMA InitInv == Init => IInv
<1> SUFFICES ASSUME Init
             PROVE  IInv
  OBVIOUS
<1>1. TypeOK
  BY DEF Init, TypeOK
<1>2. AskedInv /\ WorksInv /\ BackedInv
  BY DEF Init, AskedInv, WorksInv, BackedInv, Live, Holds, HoldsV2
<1>3. SentInv
  BY DEF Init, SentInv, Live, Holds
<1> QED  BY <1>1, <1>2, <1>3 DEF IInv

\* Whatever accept_dispatch_v2 compares is all that tells two valid requests of
\* version 2 apart.
LEMMA PreservedV2IsEquality ==
    ASSUME NEW r, NEW s, Valid(r), Valid(s), r.api = "2.0", s.api = "2.0",
           PreservedV2(r, s)
    PROVE  r = s
BY NoSubjectAssumption DEF Valid, PreservedV2

\* What was asked for stays asked for: a call makes its request once.
LEMMA AskedForStays ==
    ASSUME NEW r, AskedFor(r),
           \A d \in Calls : pc[d] # "idle" => /\ pc'[d] # "idle"
                                            /\ request'[d] = request[d]
                                            /\ door'[d] = door[d]
    PROVE  AskedFor(r)'
BY DEF AskedFor

LEMMA CallWorksInv ==
    ASSUME IInv, NEW c \in Calls, NEW client \in {"works", "bare"},
           NEW r \in Requests, CallWorks(c, client, r)
    PROVE  IInv'
<1> USE DEF IInv
<1>1. TypeOK'
  BY DEF TypeOK, CallWorks
<1>2. AskedInv'
  BY DEF TypeOK, CallWorks, AskedInv, Sendable, Valid, Live, Holds, HoldsV2
<1>3. WorksInv'
  BY DEF TypeOK, CallWorks, WorksInv, Sendable, Valid
<1>4. BackedInv'
  BY DEF TypeOK, CallWorks, BackedInv, Holds, HoldsV2, SameBinding
<1>5. \A q : AskedFor(q) => AskedFor(q)'
  BY AskedForStays DEF TypeOK, CallWorks
<1>6. SentInv'
  BY <1>5 DEF CallWorks, SentInv
<1> QED  BY <1>1, <1>2, <1>3, <1>4, <1>6

LEMMA CallRuntimeInv ==
    ASSUME IInv, NEW c \in Calls, NEW r \in Requests, CallRuntime(c, r)
    PROVE  IInv'
<1> USE DEF IInv
<1>1. TypeOK'
  BY DEF TypeOK, CallRuntime
<1>2. AskedInv'
  BY DEF TypeOK, CallRuntime, AskedInv, Valid, Live, Holds, HoldsV2
<1>3. WorksInv'
  BY DEF CallRuntime, WorksInv, Valid
<1>4. BackedInv'
  BY DEF TypeOK, CallRuntime, BackedInv, Holds, HoldsV2, SameBinding
<1>5. \A q : AskedFor(q) => AskedFor(q)'
  BY AskedForStays DEF TypeOK, CallRuntime
<1>6. SentInv'
  BY <1>5 DEF CallRuntime, SentInv
<1> QED  BY <1>1, <1>2, <1>3, <1>4, <1>6

\* What goes on the wire is the request of a call that may send it.
LEMMA SendInv ==
    ASSUME IInv, NEW c \in Calls, Send(c)
    PROVE  IInv'
<1> USE DEF IInv
<1>1. Valid(request[c]) /\ AskedFor(request[c])
  BY DEF Send, AskedInv, AskedFor, Live, Valid
<1>2. TypeOK'
  BY <1>1 DEF TypeOK, Send, Valid
<1>3. AskedInv'
  BY DEF TypeOK, Send, AskedInv, Valid, Live, Holds, HoldsV2
<1>4. WorksInv'
  BY <1>1 DEF Send, WorksInv, Valid
<1>5. BackedInv'
  BY DEF TypeOK, Send, BackedInv, Holds, HoldsV2, SameBinding
<1>6. \A q : AskedFor(q) => AskedFor(q)'
  BY AskedForStays DEF TypeOK, Send
<1>7. SentInv'
  BY <1>1, <1>6 DEF Send, SentInv
<1> QED  BY <1>2, <1>3, <1>4, <1>5, <1>7

\* The one step that makes a call hold an acceptance: each door compares enough.
LEMMA ReceiveInv ==
    ASSUME IInv, NEW c \in Calls, Receive(c)
    PROVE  IInv'
<1> USE DEF IInv
<1>1. TypeOK'
  BY DEF TypeOK, Receive
<1>2. AskedInv'
  BY DEF TypeOK, Receive, AskedInv, Valid, Live, Holds, HoldsV2
<1>3. WorksInv'
  BY DEF Receive, WorksInv, Valid
<1>4. BackedInv'
  <2>1. PICK k \in Keys :
          /\ ledger[k] # None
          /\ \/ /\ Accepts(c, ledger[k])
                /\ exec' = [exec EXCEPT ![c] = k]
                /\ Goto(c, "held")
             \/ /\ Goto(c, "failed")
                /\ UNCHANGED exec
    BY DEF Receive
  <2>2. /\ Valid(request[c]) /\ Valid(ledger[k])
        /\ pc[c] = "waiting" /\ door[c] \in {"works", "bare"}
    BY <2>1 DEF Receive, AskedInv, WorksInv, Live
  <2>3. CASE Goto(c, "failed") /\ UNCHANGED exec
    BY <2>2, <2>3 DEF TypeOK, Receive, BackedInv, Holds, HoldsV2, SameBinding
  <2>4. CASE /\ Accepts(c, ledger[k])
             /\ exec' = [exec EXCEPT ![c] = k]
             /\ Goto(c, "held")
    <3>1. door[c] = "works" /\ request[c].api = "2.0" => ledger[k] = request[c]
      BY <2>2, <2>4, PreservedV2IsEquality DEF Accepts
    <3>2. door[c] # "runtime" /\ request[c].api = "1.0" =>
            PreservedV1(request[c], ledger[k])
      BY <2>2, <2>4 DEF Accepts
    <3> QED  BY <2>1, <2>2, <2>4, <3>1, <3>2
             DEF TypeOK, Receive, BackedInv, Holds, HoldsV2, SameBinding
  <2> QED  BY <2>1, <2>3, <2>4
<1>5. \A q : AskedFor(q) => AskedFor(q)'
  BY AskedForStays DEF TypeOK, Receive
<1>6. SentInv'
  BY <1>5 DEF Receive, SentInv
<1> QED  BY <1>1, <1>2, <1>3, <1>4, <1>6

LEMMA ReceiveReceiptInv ==
    ASSUME IInv, NEW c \in Calls, ReceiveReceipt(c)
    PROVE  IInv'
<1> USE DEF IInv
<1>1. TypeOK'
  BY DEF TypeOK, ReceiveReceipt
<1>2. AskedInv'
  BY DEF TypeOK, ReceiveReceipt, AskedInv, Valid, Live, Holds, HoldsV2
<1>3. WorksInv'
  BY DEF ReceiveReceipt, WorksInv, Valid
<1>4. BackedInv'
  BY DEF TypeOK, ReceiveReceipt, BackedInv, Holds, HoldsV2, SameBinding
<1>5. \A q : AskedFor(q) => AskedFor(q)'
  BY AskedForStays DEF TypeOK, ReceiveReceipt
<1>6. SentInv'
  BY <1>5 DEF ReceiveReceipt, SentInv
<1> QED  BY <1>1, <1>2, <1>3, <1>4, <1>6

LEMMA FailInv ==
    ASSUME IInv, NEW c \in Calls, Fail(c)
    PROVE  IInv'
<1> USE DEF IInv
<1>1. TypeOK'
  BY DEF TypeOK, Fail
<1>2. AskedInv'
  BY DEF TypeOK, Fail, AskedInv, Valid, Live, Holds, HoldsV2
<1>3. WorksInv'
  BY DEF Fail, WorksInv, Valid
<1>4. BackedInv'
  BY DEF TypeOK, Fail, BackedInv, Holds, HoldsV2, SameBinding
<1>5. \A q : AskedFor(q) => AskedFor(q)'
  BY AskedForStays DEF TypeOK, Fail
<1>6. SentInv'
  BY <1>5 DEF Fail, SentInv
<1> QED  BY <1>1, <1>2, <1>3, <1>4, <1>6

LEMMA FailToSendInv ==
    ASSUME IInv, NEW c \in Calls, FailToSend(c)
    PROVE  IInv'
<1> USE DEF IInv
<1>1. TypeOK'
  BY DEF TypeOK, FailToSend, AskedInv
<1>2. AskedInv'
  BY DEF TypeOK, FailToSend, AskedInv, Valid, Live, Holds, HoldsV2
<1>3. WorksInv'
  BY DEF FailToSend, WorksInv, AskedInv, Live, Valid
<1>4. BackedInv'
  BY DEF TypeOK, FailToSend, BackedInv, Holds, HoldsV2, SameBinding, PreservedV1
<1>5. \A q : AskedFor(q) => AskedFor(q)'
  BY AskedForStays DEF TypeOK, FailToSend
<1>6. SentInv'
  BY <1>5 DEF FailToSend, SentInv
<1> QED  BY <1>1, <1>2, <1>3, <1>4, <1>6

LEMMA BindSubjectInv ==
    ASSUME IInv, NEW c \in Calls, NEW a \in Attempts, NEW s \in Subjects,
           BindSubject(c, a, s)
    PROVE  IInv'
<1> USE DEF IInv
<1>1. exec[c] \in Keys
  BY DEF BindSubject, BackedInv, Holds, HoldsV2
<1>2. TypeOK'
  BY <1>1 DEF TypeOK, BindSubject
<1>3. AskedInv'
  BY <1>1 DEF TypeOK, BindSubject, AskedInv, Valid, Live, Holds, HoldsV2
<1>4. WorksInv'
  BY DEF BindSubject, WorksInv, Valid
<1>5. BackedInv'
  BY DEF TypeOK, BindSubject, BackedInv, Holds, HoldsV2, SameBinding, PreservedV1
<1>6. \A q : AskedFor(q) => AskedFor(q)'
  BY AskedForStays DEF TypeOK, BindSubject
<1>7. SentInv'
  BY <1>6 DEF BindSubject, SentInv
<1> QED  BY <1>2, <1>3, <1>4, <1>5, <1>7

LEMMA SendBindingInv ==
    ASSUME IInv, NEW c \in Calls, SendBinding(c)
    PROVE  IInv'
<1> USE DEF IInv
<1>1. TypeOK'
  BY DEF TypeOK, SendBinding, AskedInv
<1>2. AskedInv'
  BY DEF TypeOK, SendBinding, AskedInv, Valid, Live, Holds, HoldsV2
<1>3. WorksInv'
  BY DEF SendBinding, WorksInv, AskedInv, Live, Valid
<1>4. BackedInv'
  BY DEF TypeOK, SendBinding, BackedInv, Holds, HoldsV2, SameBinding, PreservedV1
<1>5. \A q : AskedFor(q) => AskedFor(q)'
  BY AskedForStays DEF TypeOK, SendBinding
<1>6. SentInv'
  BY <1>5 DEF SendBinding, SentInv
<1> QED  BY <1>1, <1>2, <1>3, <1>4, <1>6

LEMMA FailToSendBindingInv ==
    ASSUME IInv, NEW c \in Calls, FailToSendBinding(c)
    PROVE  IInv'
<1> USE DEF IInv
<1>1. TypeOK'
  BY DEF TypeOK, FailToSendBinding, AskedInv
<1>2. AskedInv'
  BY DEF TypeOK, FailToSendBinding, AskedInv, Valid, Live, Holds, HoldsV2
<1>3. WorksInv'
  BY DEF FailToSendBinding, WorksInv, AskedInv, Live, Valid
<1>4. BackedInv'
  BY DEF TypeOK, FailToSendBinding, BackedInv, Holds, HoldsV2, SameBinding, PreservedV1
<1>5. \A q : AskedFor(q) => AskedFor(q)'
  BY AskedForStays DEF TypeOK, FailToSendBinding
<1>6. SentInv'
  BY <1>5 DEF FailToSendBinding, SentInv
<1> QED  BY <1>1, <1>2, <1>3, <1>4, <1>6

\* The answer names the execution it was asked for, so the binding compared is
\* that execution's.
LEMMA ReceiveBindingInv ==
    ASSUME IInv, NEW c \in Calls, ReceiveBinding(c)
    PROVE  IInv'
<1> USE DEF IInv
<1>1. TypeOK'
  BY DEF TypeOK, ReceiveBinding
<1>2. AskedInv'
  BY DEF TypeOK, ReceiveBinding, AskedInv, Valid, Live, Holds, HoldsV2
<1>3. WorksInv'
  BY DEF ReceiveBinding, WorksInv, Valid
<1>4. BackedInv'
  BY DEF TypeOK, ReceiveBinding, AskedInv, WorksInv, BackedInv, Holds, HoldsV2, SameBinding, PreservedV1
<1>5. \A q : AskedFor(q) => AskedFor(q)'
  BY AskedForStays DEF TypeOK, ReceiveBinding
<1>6. SentInv'
  BY <1>5 DEF ReceiveBinding, SentInv
<1> QED  BY <1>1, <1>2, <1>3, <1>4, <1>6

LEMMA FailBindingInv ==
    ASSUME IInv, NEW c \in Calls, FailBinding(c)
    PROVE  IInv'
<1> USE DEF IInv
<1>1. TypeOK'
  BY DEF TypeOK, FailBinding
<1>2. AskedInv'
  BY DEF TypeOK, FailBinding, AskedInv, Valid, Live, Holds, HoldsV2
<1>3. WorksInv'
  BY DEF FailBinding, WorksInv, Valid
<1>4. BackedInv'
  BY DEF TypeOK, FailBinding, BackedInv, Holds, HoldsV2, SameBinding, PreservedV1
<1>5. \A q : AskedFor(q) => AskedFor(q)'
  BY AskedForStays DEF TypeOK, FailBinding
<1>6. SentInv'
  BY <1>5 DEF FailBinding, SentInv
<1> QED  BY <1>1, <1>2, <1>3, <1>4, <1>6

\* The bridge forwards a valid request of its own call only.
LEMMA ForwardInv ==
    ASSUME IInv, NEW c \in Calls, Forward(c)
    PROVE  IInv'
<1> USE DEF IInv
<1>1. TypeOK'
  BY DEF TypeOK, Forward, AskedInv
<1>2. AskedInv' /\ BackedInv'
  BY DEF Forward, AskedInv, BackedInv, Valid, Live, Holds, HoldsV2, SameBinding
<1>3. WorksInv'
  BY DEF Forward, WorksInv, AskedInv, Valid
<1>4. \A q : AskedFor(q) => AskedFor(q)'
  BY AskedForStays DEF TypeOK, Forward
<1>5. SentInv'
  BY <1>4 DEF Forward, SentInv, AskedInv, AskedFor
<1> QED  BY <1>1, <1>2, <1>3, <1>5

\* A key that is spent stays spent, so what calls hold stays backed.
LEMMA WorksAcceptInv ==
    ASSUME IInv, NEW r \in Requests, WorksAccept(r)
    PROVE  IInv'
<1> USE DEF IInv
<1>1. Valid(r) /\ r.key \in Keys
  BY DEF WorksAccept, WorksInv, Valid
<1>2. TypeOK'
  BY <1>1 DEF TypeOK, WorksAccept
<1>3. AskedInv'
  BY DEF WorksAccept, AskedInv, Valid, Live, Holds, HoldsV2
<1>4. WorksInv'
  BY <1>1 DEF TypeOK, WorksAccept, WorksInv, Valid
<1>5. \A c \in Calls : Holds(c) => ledger'[exec[c]] = ledger[exec[c]]
  BY DEF TypeOK, WorksAccept, BackedInv
<1>6. BackedInv'
  BY <1>5 DEF WorksAccept, BackedInv, Holds, HoldsV2, SameBinding
<1>7. \A q : AskedFor(q) => AskedFor(q)'
  BY AskedForStays DEF TypeOK, WorksAccept
<1>8. SentInv'
  BY <1>7 DEF WorksAccept, SentInv
<1> QED  BY <1>2, <1>3, <1>4, <1>6, <1>8

LEMMA WorksBindInv ==
    ASSUME IInv, NEW b \in Bindings, WorksBind(b)
    PROVE  IInv'
<1> USE DEF IInv
<1>1. TypeOK'
  BY DEF TypeOK, WorksBind
<1>2. AskedInv'
  BY DEF WorksBind, AskedInv, Valid, Live, Holds, HoldsV2
<1>3. WorksInv'
  BY DEF TypeOK, WorksBind, WorksInv, Valid
<1>4. \A c \in Calls : pc[c] = "bound" => bound'[exec[c]] = bound[exec[c]]
  BY DEF TypeOK, WorksBind, BackedInv
<1>5. BackedInv'
  BY <1>4 DEF WorksBind, BackedInv, Holds, HoldsV2, SameBinding
<1>6. \A q : AskedFor(q) => AskedFor(q)'
  BY AskedForStays DEF TypeOK, WorksBind
<1>7. SentInv'
  BY <1>6 DEF WorksBind, SentInv
<1> QED  BY <1>1, <1>2, <1>3, <1>5, <1>7

LEMMA StutterInv == IInv /\ UNCHANGED vars => IInv'
BY DEF vars, IInv, TypeOK, AskedInv, WorksInv, SentInv, BackedInv, AskedFor, Valid,
       Live, Holds, HoldsV2, SameBinding

LEMMA StepInv == IInv /\ [Next]_vars => IInv'
BY CallWorksInv, CallRuntimeInv, SendInv, FailToSendInv, ReceiveInv, FailInv,
   ReceiveReceiptInv,
   BindSubjectInv, SendBindingInv, FailToSendBindingInv,
   ReceiveBindingInv, FailBindingInv, ForwardInv, WorksAcceptInv, WorksBindInv,
   StutterInv
DEF Next

LEMMA Invariant == Spec => []IInv
BY InitInv, StepInv, PTL DEF Spec

-----------------------------------------------------------------------------
\* The state of callers and of WORKS is of its types in every behaviour.
THEOREM TypeCorrect == Spec => []TypeOK
<1>1. IInv => TypeOK
  BY DEF IInv
<1> QED  BY <1>1, Invariant, PTL

\* No door ever returns an acceptance WORKS has not made durable.
THEOREM NoOptimisticFallback == Spec => []HeldIsDurable
<1>1. IInv => HeldIsDurable
  BY DEF IInv, BackedInv, HeldIsDurable
<1> QED  BY <1>1, Invariant, PTL

\* accept_dispatch_v2 returns only when its own request was accepted.
THEOREM OwnRequestIsAccepted == Spec => []AcceptanceIsOfItsRequest
<1>1. IInv => AcceptanceIsOfItsRequest
  BY DEF IInv, BackedInv, AcceptanceIsOfItsRequest
<1> QED  BY <1>1, Invariant, PTL

\* accept_dispatch returns the execution of its own key and subject.
THEOREM SubjectIsPreserved == Spec => []AcceptancePreservesSubject
<1>1. IInv => AcceptancePreservesSubject
  BY DEF IInv, WorksInv, BackedInv, PreservedV1, AcceptancePreservesSubject
<1> QED  BY <1>1, Invariant, PTL

\* Nobody is told of a second subject of one execution.
THEOREM OneSubjectIsBound == Spec => []BoundToOneSubject
<1>1. ASSUME IInv
      PROVE  BoundToOneSubject
  <2> SUFFICES ASSUME NEW c \in Calls, NEW d \in Calls,
                      pc[c] = "bound", pc[d] = "bound", exec[c] = exec[d]
               PROVE  asked[c] = asked[d] /\ request[c] = request[d]
    BY DEF BoundToOneSubject
  <2>1. HoldsV2(c) /\ HoldsV2(d)
    BY <1>1 DEF IInv, AskedInv
  <2>2. request[c] = request[d]
    BY <1>1, <2>1 DEF IInv, BackedInv
  <2>3. asked[c] \in Bindings /\ asked[d] \in Bindings
    BY <1>1 DEF IInv, AskedInv
  <2>4. SameBinding(c, bound[exec[c]]) /\ SameBinding(d, bound[exec[c]])
    BY <1>1 DEF IInv, BackedInv
  <2>5. /\ asked[c].key = asked[d].key
        /\ asked[c].attempt = asked[d].attempt
        /\ asked[c].subject = asked[d].subject
    BY <2>4 DEF SameBinding
  <2>6. asked[c] = asked[d]
    BY <2>3, <2>5
  <2> QED  BY <2>2, <2>6
<1>2. IInv => BoundToOneSubject
  BY <1>1
<1> QED  BY <1>2, Invariant, PTL

\* Nothing becomes durable that no call could ask for.
THEOREM NothingUnasked == Spec => []OnlyAskedForIsAccepted
<1>1. IInv => OnlyAskedForIsAccepted
  BY DEF IInv, WorksInv, SentInv, AskedFor, OnlyAskedForIsAccepted
<1> QED  BY <1>1, Invariant, PTL

-----------------------------------------------------------------------------
(***************************************************************************)
(* The refinement.  WorksAccept is Spend; a Receive that accepts at the    *)
(* door of version 2 is Report; nothing else moves the abstract state.     *)
(***************************************************************************)
Reported == {request[c] : c \in {d \in Calls : HoldsV2(d)}}

\* The reports move only with the calls that hold an acceptance of version 2.
LEMMA SameReports ==
    ASSUME \A c \in Calls : /\ HoldsV2(c)' <=> HoldsV2(c)
                            /\ HoldsV2(c) => UNCHANGED request[c]
    PROVE  Reported' = Reported
BY DEF Reported

\* A step that leaves both alone stutters.
LEMMA AbstractStutter ==
    ASSUME UNCHANGED ledger,
           \A c \in Calls : /\ HoldsV2(c)' <=> HoldsV2(c)
                            /\ HoldsV2(c) => UNCHANGED request[c]
    PROVE  UNCHANGED Abstract!vars
BY SameReports DEF Abstract!vars, Reported

LEMMA ReceiveReports ==
    ASSUME IInv, NEW c \in Calls, Receive(c)
    PROVE  [Abstract!Next]_Abstract!vars
<1>1. IInv' /\ UNCHANGED <<door, request, ledger>>
  BY ReceiveInv DEF Receive
<1>2. \A d \in Calls \ {c} : HoldsV2(d)' <=> HoldsV2(d)
  BY DEF Receive, Holds, HoldsV2, IInv, TypeOK
<1>3. ~HoldsV2(c)
  BY DEF Receive, Holds, HoldsV2
<1>4. CASE HoldsV2(c)'
  <2>1. ledger[request[c].key] = request[c] /\ request[c] \in Requests
    <3>1. /\ Valid(request[c])
          /\ exec'[c] \in Keys /\ ledger[exec'[c]] # None
          /\ ledger[exec'[c]] = request[c]
      BY <1>1, <1>4 DEF IInv, AskedInv, BackedInv, Holds, HoldsV2, Live, Valid
    <3>2. request[c].key = exec'[c]
      BY <3>1 DEF IInv, WorksInv
    <3> QED  BY <3>1, <3>2 DEF Valid
  <2>2. {d \in Calls : HoldsV2(d)}' = {d \in Calls : HoldsV2(d)} \cup {c}
    BY <1>2, <1>4
  <2>3. Reported' = Reported \cup {request[c]}
    BY <1>1, <2>2 DEF Reported
  <2>4. Abstract!Report(request[c])
    BY <1>1, <2>1, <2>3 DEF Abstract!Report, Reported
  <2>5. \E r \in Requests : Abstract!Report(r)
    BY <2>1, <2>4 DEF Abstract!Report
  <2> QED  BY <2>5 DEF Abstract!Next
<1>5. CASE ~HoldsV2(c)'
  BY <1>1, <1>2, <1>3, <1>5, AbstractStutter
<1> QED  BY <1>4, <1>5

LEMMA WorksAcceptSpends ==
    ASSUME IInv, NEW r \in Requests, WorksAccept(r)
    PROVE  [Abstract!Next]_Abstract!vars
<1>1. Reported' = Reported
  BY SameReports DEF WorksAccept, Holds, HoldsV2
<1>2. Abstract!Spend(r)
  BY <1>1 DEF WorksAccept, Abstract!Spend, Reported
<1> QED  BY <1>2 DEF Abstract!Next

\* DispatchAcceptance implements ExactlyOnceDispatch.
THEOREM Refinement == Spec => ImplementsExactlyOnceDispatch
<1>1. Init => Abstract!Init
  BY DEF Init, Abstract!Init, Holds, HoldsV2
<1>2. IInv /\ [Next]_vars => [Abstract!Next]_Abstract!vars
  <2> SUFFICES ASSUME IInv, [Next]_vars
               PROVE  [Abstract!Next]_Abstract!vars
    OBVIOUS
  <2> USE DEF IInv, TypeOK, Holds, HoldsV2
  <2>1. ASSUME NEW c \in Calls, NEW r \in Requests,
               \/ \E client \in {"works", "bare"} : CallWorks(c, client, r)
               \/ CallRuntime(c, r)
        PROVE  UNCHANGED Abstract!vars
    BY <2>1, AbstractStutter DEF CallWorks, CallRuntime
  <2>2. ASSUME NEW c \in Calls, Send(c) \/ FailToSend(c) \/ Fail(c)
        PROVE  UNCHANGED Abstract!vars
    BY <2>2, AbstractStutter DEF Send, FailToSend, Fail
  <2>3. ASSUME NEW c \in Calls, NEW a \in Attempts, NEW s \in Subjects,
               BindSubject(c, a, s)
        PROVE  UNCHANGED Abstract!vars
    BY <2>3, AbstractStutter DEF BindSubject
  <2>7. ASSUME NEW c \in Calls,
               \/ SendBinding(c) \/ FailToSendBinding(c)
               \/ ReceiveBinding(c) \/ FailBinding(c)
        PROVE  UNCHANGED Abstract!vars
    BY <2>7, AbstractStutter
    DEF SendBinding, FailToSendBinding, ReceiveBinding, FailBinding
  <2>4. ASSUME NEW c \in Calls, ReceiveReceipt(c) \/ Forward(c)
        PROVE  UNCHANGED Abstract!vars
    BY <2>4, AbstractStutter DEF ReceiveReceipt, Forward
  <2>5. ASSUME NEW b \in Bindings, WorksBind(b)
        PROVE  UNCHANGED Abstract!vars
    BY <2>5, AbstractStutter DEF WorksBind
  <2>6. CASE UNCHANGED vars
    BY <2>6, AbstractStutter DEF vars
  <2> QED  BY <2>1, <2>2, <2>3, <2>4, <2>5, <2>6, <2>7, ReceiveReports, WorksAcceptSpends
           DEF Next
<1> QED  BY <1>1, <1>2, Invariant, PTL
    DEF Spec, ImplementsExactlyOnceDispatch, Abstract!Spec
=============================================================================
