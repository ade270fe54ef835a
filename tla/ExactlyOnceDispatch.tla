------------------------- MODULE ExactlyOnceDispatch -------------------------
(***************************************************************************)
(* What a client of WORKS may rely on, whatever happens to its calls: an   *)
(* idempotency key is spent on one request, for ever, and an acceptance is *)
(* reported only for the very request its key was spent on.                *)
(***************************************************************************)
CONSTANTS
    Requests,       \* dispatch requests
    Keys,           \* idempotency keys
    KeyOf,          \* the key of each request
    Unspent         \* the key is not spent yet

VARIABLES
    spent,          \* the request each key is spent on
    reported        \* the requests reported as accepted

vars == <<spent, reported>>

Init ==
    /\ spent = [k \in Keys |-> Unspent]
    /\ reported = {}

\* WORKS makes the one execution of request r.
Spend(r) ==
    /\ spent[KeyOf[r]] = Unspent
    /\ spent' = [spent EXCEPT ![KeyOf[r]] = r]
    /\ UNCHANGED reported

\* A caller learns that its request was accepted.
Report(r) ==
    /\ spent[KeyOf[r]] = r
    /\ reported' = reported \cup {r}
    /\ UNCHANGED spent

Next == \E r \in Requests : Spend(r) \/ Report(r)

Spec == Init /\ [][Next]_vars

\* Every request has a key, and "unspent" is not itself a request.
WellKeyed == KeyOf \in [Requests -> Keys] /\ Unspent \notin Requests

\* Two requests that share a key are never both reported as accepted.
OneRequestPerKey ==
    \A r, s \in reported : KeyOf[r] = KeyOf[s] => r = s
=============================================================================
