-------------------------- MODULE DispatchAcceptance -------------------------
(***************************************************************************)
(* Dispatch into WORKS as the callers of three doors see it:               *)
(*   WorksClient.accept_dispatch       "works", dispatch.acceptance/1.0    *)
(*   WorksClient.accept_dispatch_v2    "works", dispatch.acceptance/2.0,   *)
(*     after which bind_verification_subject binds the observed subject    *)
(*   RuntimePort.dispatch              "runtime", 1.0 through the          *)
(*     subprocess bridge, which forwards to WORKS                          *)
(* Calls run concurrently.  A retry is another call with the same request. *)
(* A request that was sent may be applied late, after its call has failed, *)
(* and again.  An answer is a true statement of WORKS, but may be about    *)
(* another request: the answers are where the doors differ, since each     *)
(* compares other fields with what it sent.  A failed call undoes nothing; *)
(* which of the adapter's exceptions it raised is left out.                *)
(*                                                                         *)
(* The fields of a request are grouped by who compares them: "mission"     *)
(* stands for mission_id and runtime_dispatch_id, "attempt" for attempt_id *)
(* and the other fields version 1 does not compare.  An execution and its  *)
(* correlation ids are named by the idempotency key they were minted for.  *)
(***************************************************************************)
EXTENDS Naturals

CONSTANTS
    Calls,          \* calls, each made at most once
    Works, Keys, Missions, Attempts, Subjects,
    Requests,       \* requests the callers may make
    None            \* no value yet

RequestFields ==
    [api : {"1.0", "2.0"}, work : Works, key : Keys, mission : Missions,
     attempt : Attempts, subject : Subjects \cup {None},
     form : {"valid", "invalid"}]

ASSUME RequestsAssumption == Requests \subseteq RequestFields
ASSUME NoSubjectAssumption == \A r \in Requests : r.api = "2.0" => r.subject = None
ASSUME NoneAssumption ==
    None \notin Requests /\ None \notin Keys \cup Subjects

VARIABLES
    pc,             \* where each call is
    door,           \* the door it was made at: a WorksClient that has
                    \* platform_token and bridge_secret ("works"), one that
                    \* has not ("bare"), or RuntimePort ("runtime")
    request,        \* its request
    exec,           \* works_execution_id of the acceptance it returned
    asked,          \* the binding it last asked WORKS for
    sent,           \* requests that are or were on their way to WORKS
    bindings,       \* subject bindings that are or were on their way
    ledger,         \* WORKS: the request each key's execution was minted for
    bound           \* WORKS: the binding of each execution

local == <<pc, door, request, exec, asked>>
wire == <<sent, bindings>>
vars == <<local, wire, ledger, bound>>

Bindings == [key : Keys, attempt : Attempts, subject : Subjects]

TypeOK ==
    /\ pc \in [Calls -> {"idle", "calling", "waiting", "failed", "held",
                         "asking", "binding", "bind_failed", "bound"}]
    /\ door \in [Calls -> {"works", "bare", "runtime", None}]
    /\ request \in [Calls -> Requests \cup {None}]
    /\ exec \in [Calls -> Keys \cup {None}]
    /\ asked \in [Calls -> Bindings \cup {None}]
    /\ sent \subseteq Requests
    /\ bindings \subseteq Bindings
    /\ ledger \in [Keys -> Requests \cup {None}]
    /\ bound \in [Keys -> Bindings \cup {None}]

Init ==
    /\ pc = [c \in Calls |-> "idle"]
    /\ door = [c \in Calls |-> None]
    /\ request = [c \in Calls |-> None]
    /\ exec = [c \in Calls |-> None]
    /\ asked = [c \in Calls |-> None]
    /\ sent = {}
    /\ bindings = {}
    /\ ledger = [k \in Keys |-> None]
    /\ bound = [k \in Keys |-> None]

Goto(c, step) == pc' = [pc EXCEPT ![c] = step]

-----------------------------------------------------------------------------
(* The WORKS adapter. *)

FaultySendable(client, r) == r.form = "valid"

\* Credentials are checked before the request is put on the wire, and to_wire
\* refuses what violates the contract's minima.
Sendable(client, r) ==
    r.form = "valid" /\ (r.api = "2.0" => client = "works")

CallWorks(c, client, r) ==
    /\ pc[c] = "idle"
    /\ door' = [door EXCEPT ![c] = client]
    /\ request' = [request EXCEPT ![c] = r]
    /\ Goto(c, IF Sendable(client, r) THEN "calling" ELSE "failed")
    /\ UNCHANGED <<exec, asked, wire, ledger, bound>>

\* urlopen has a connection and writes the request.
Send(c) ==
    /\ pc[c] = "calling"
    /\ sent' = sent \cup {request[c]}
    /\ Goto(c, "waiting")
    /\ UNCHANGED <<door, request, exec, asked, bindings, ledger, bound>>

\* The request cannot be built, or there is no connection: nothing is sent.
FailToSend(c) ==
    /\ pc[c] = "calling"
    /\ Goto(c, "failed")
    /\ UNCHANGED <<door, request, exec, asked, wire, ledger, bound>>

FaultyPreservedV1(r, s) == s.mission = r.mission /\ s.key = r.key

\* What accept_dispatch compares.
PreservedV1(r, s) ==
    s.mission = r.mission /\ s.key = r.key /\ s.subject = r.subject

FaultyPreservedV2(r, s) ==
    s.work = r.work /\ s.mission = r.mission /\ s.key = r.key

\* What accept_dispatch_v2 compares: the Work and every field it sent.
PreservedV2(r, s) ==
    /\ s.work = r.work
    /\ s.mission = r.mission
    /\ s.key = r.key
    /\ s.attempt = r.attempt

\* The answer is of the right shape and preserves the request.
Accepts(c, s) ==
    /\ s.api = request[c].api
    /\ IF s.api = "1.0" THEN PreservedV1(request[c], s) ELSE PreservedV2(request[c], s)

\* A well-formed answer arrives, about the execution of some key.
Receive(c) ==
    /\ pc[c] = "waiting" /\ door[c] # "runtime"
    /\ \E k \in Keys :
         /\ ledger[k] # None
         /\ \/ /\ Accepts(c, ledger[k])
               /\ exec' = [exec EXCEPT ![c] = k]
               /\ Goto(c, "held")
            \/ /\ ~Accepts(c, ledger[k])
               /\ Goto(c, "failed")
               /\ UNCHANGED exec
    /\ UNCHANGED <<door, request, asked, wire, ledger, bound>>

FaultyFallBack(c) ==
    /\ pc[c] = "waiting"
    /\ exec' = [exec EXCEPT ![c] = request[c].key]
    /\ Goto(c, "held")
    /\ UNCHANGED <<door, request, asked, wire, ledger, bound>>

\* No answer, a refusal or a malformed one; the request may still be applied.
Fail(c) ==
    /\ pc[c] = "waiting"
    /\ Goto(c, "failed")
    /\ UNCHANGED <<door, request, exec, asked, wire, ledger, bound>>

\* A call that returned an acceptance of version 2 at its own client.
HoldsV2(c) ==
    /\ pc[c] \in {"held", "asking", "binding", "bind_failed", "bound"}
    /\ door[c] = "works" /\ request[c].api = "2.0"

FaultyBindSubject(c, a, s) ==
    /\ pc[c] \in {"waiting", "held", "bind_failed"}
    /\ door[c] = "works" /\ request[c].api = "2.0"
    /\ asked' = [asked EXCEPT ![c] = [key |-> exec[c], attempt |-> a, subject |-> s]]
    /\ Goto(c, "asking")
    /\ UNCHANGED <<door, request, exec, wire, ledger, bound>>

\* bind_verification_subject, for the execution the call was told of, with the
\* attempt and the subject its caller chooses: nothing ties that attempt to the
\* request.  After a failure the caller may ask again, for the same or another.
BindSubject(c, a, s) ==
    /\ HoldsV2(c) /\ pc[c] \in {"held", "bind_failed"}
    /\ asked' = [asked EXCEPT ![c] = [key |-> exec[c], attempt |-> a, subject |-> s]]
    /\ Goto(c, "asking")
    /\ UNCHANGED <<door, request, exec, wire, ledger, bound>>

SendBinding(c) ==
    /\ pc[c] = "asking"
    /\ bindings' = bindings \cup {asked[c]}
    /\ Goto(c, "binding")
    /\ UNCHANGED <<door, request, exec, asked, sent, ledger, bound>>

FailToSendBinding(c) ==
    /\ pc[c] = "asking"
    /\ Goto(c, "bind_failed")
    /\ UNCHANGED <<door, request, exec, asked, wire, ledger, bound>>

FaultySameBinding(c, b) == b.key = asked[c].key /\ b.attempt = asked[c].attempt

\* What bind_verification_subject compares.
SameBinding(c, b) ==
    /\ b.key = asked[c].key
    /\ b.attempt = asked[c].attempt
    /\ b.subject = asked[c].subject

ReceiveBinding(c) ==
    /\ pc[c] = "binding"
    /\ \E k \in Keys :
         /\ bound[k] # None
         /\ Goto(c, IF SameBinding(c, bound[k]) THEN "bound" ELSE "bind_failed")
    /\ UNCHANGED <<door, request, exec, asked, wire, ledger, bound>>

FailBinding(c) ==
    /\ pc[c] = "binding"
    /\ Goto(c, "bind_failed")
    /\ UNCHANGED <<door, request, exec, asked, wire, ledger, bound>>

-----------------------------------------------------------------------------
(* The Runtime port, version 1. *)

\* to_runtime_wire refuses an invalid request before the bridge is started.
CallRuntime(c, r) ==
    /\ pc[c] = "idle"
    /\ r.api = "1.0"
    /\ door' = [door EXCEPT ![c] = "runtime"]
    /\ request' = [request EXCEPT ![c] = r]
    /\ Goto(c, IF r.form = "valid" THEN "waiting" ELSE "failed")
    /\ UNCHANGED <<exec, asked, wire, ledger, bound>>

\* The receipt of the bridge names an execution, and nothing of it is compared
\* with the request.
ReceiveReceipt(c) ==
    /\ pc[c] = "waiting" /\ door[c] = "runtime"
    /\ \E k \in Keys : ledger[k] # None /\ exec' = [exec EXCEPT ![c] = k]
    /\ Goto(c, "held")
    /\ UNCHANGED <<door, request, asked, wire, ledger, bound>>

\* The bridge forwards the request.  The timeout kills the bridge, but not
\* what the bridge has started, so this may happen after the call has failed.
Forward(c) ==
    /\ pc[c] # "idle"
    /\ door[c] = "runtime" /\ request[c].form = "valid"
    /\ sent' = sent \cup {request[c]}
    /\ UNCHANGED <<local, bindings, ledger, bound>>

-----------------------------------------------------------------------------
(* WORKS, as its clients observe it. *)

\* Durable acceptance; a repeated key changes nothing.
WorksAccept(r) ==
    /\ r \in sent
    /\ ledger[r.key] = None
    /\ ledger' = [ledger EXCEPT ![r.key] = r]
    /\ UNCHANGED <<local, wire, bound>>

\* The subject of an execution is bound exactly once.
WorksBind(b) ==
    /\ b \in bindings
    /\ bound[b.key] = None
    /\ bound' = [bound EXCEPT ![b.key] = b]
    /\ UNCHANGED <<local, wire, ledger>>

-----------------------------------------------------------------------------
Next ==
    \/ \E c \in Calls, r \in Requests :
         (\E client \in {"works", "bare"} : CallWorks(c, client, r)) \/ CallRuntime(c, r)
    \/ \E c \in Calls : Send(c) \/ FailToSend(c) \/ Receive(c) \/ Fail(c)
    \/ \E c \in Calls : ReceiveReceipt(c) \/ Forward(c)
    \/ \E c \in Calls, a \in Attempts, s \in Subjects : BindSubject(c, a, s)
    \/ \E c \in Calls : \/ SendBinding(c) \/ FailToSendBinding(c)
                       \/ ReceiveBinding(c) \/ FailBinding(c)
    \/ \E r \in Requests : WorksAccept(r)
    \/ \E b \in Bindings : WorksBind(b)

Spec == Init /\ [][Next]_vars

-----------------------------------------------------------------------------
(* What a returned acceptance or binding is worth. *)

Holds(c) == pc[c] \in {"held", "asking", "binding", "bind_failed", "bound"}

\* "no optimistic fallback": an acceptance any of the doors returns names an
\* execution WORKS has durably accepted, also after timeouts and retries.
HeldIsDurable == \A c \in Calls : Holds(c) => ledger[exec[c]] # None

\* accept_dispatch_v2 returns only when exactly its own request was accepted:
\* neither the answer to another call nor the acceptance of another request
\* under the same key is taken for it.
AcceptanceIsOfItsRequest ==
    \A c \in Calls : HoldsV2(c) => ledger[exec[c]] = request[c]

\* "the response preserves mission_id, runtime_dispatch_id, idempotency_key, and
\* verification_subject": what accept_dispatch returns is about the execution
\* of its own key, and WORKS will verify the subject the caller named.
AcceptancePreservesSubject ==
    \A c \in Calls : Holds(c) /\ door[c] # "runtime" /\ request[c].api = "1.0" =>
        /\ exec[c] = request[c].key
        /\ ledger[exec[c]].mission = request[c].mission
        /\ ledger[exec[c]].subject = request[c].subject

\* "bound exactly once": two callers that were told their subject is bound to
\* one execution asked for one subject and one attempt, whoever came first, and
\* hold the acceptance of one request.
BoundToOneSubject ==
    \A c, d \in Calls :
        pc[c] = "bound" /\ pc[d] = "bound" /\ exec[c] = exec[d] =>
            asked[c] = asked[d] /\ request[c] = request[d]

\* Nothing becomes durable that nobody could ask for: every execution WORKS has,
\* by whichever door, late or twice, was asked for by a call with a valid request
\* whose client had the credentials its version needs.
OnlyAskedForIsAccepted ==
    \A k \in Keys : ledger[k] # None =>
        \E c \in Calls :
            /\ request[c] = ledger[k]
            /\ request[c].form = "valid"
            /\ request[c].api = "2.0" => door[c] = "works"

-----------------------------------------------------------------------------
(* Version 2 implements ExactlyOnceDispatch. *)

Abstract == INSTANCE ExactlyOnceDispatch WITH
    Unspent <- None,
    KeyOf <- [r \in Requests |-> r.key],
    spent <- ledger,
    reported <- {request[c] : c \in {d \in Calls : HoldsV2(d)}}

\* Retried, late, crossed and conflicting calls of accept_dispatch_v2 together
\* spend each key on one request and report only what was accepted.
ImplementsExactlyOnceDispatch == Abstract!Spec
=============================================================================
