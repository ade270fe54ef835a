------------------------ MODULE MCDispatchAcceptance ------------------------
(* A small instance of DispatchAcceptance for TLC. *)
EXTENDS DispatchAcceptance, TLC

CONSTANTS c1, c2, k1, k2, w1, w2, m1, m2, a1, a2, s1, s2

Make(api, w, k, m, a, s, v) ==
    [api |-> api, work |-> w, key |-> k, mission |-> m, attempt |-> a,
     subject |-> s, form |-> v]

\* Version 2: a key used for two attempts, another key for the same attempt of
\* another Work.  Version 1, by callers that have not migrated: the first key
\* again, for two subjects and for two missions, and the second key.  One request
\* violates the contract.
MCRequests ==
    {Make("2.0", w1, k1, m1, a1, None, "valid"), Make("2.0", w1, k1, m1, a2, None, "valid"),
     Make("2.0", w2, k2, m1, a1, None, "valid"),
     Make("1.0", w1, k1, m1, a1, s1, "valid"), Make("1.0", w1, k1, m1, a1, s2, "valid"),
     Make("1.0", w1, k1, m2, a1, s1, "valid"),
     Make("1.0", w1, k2, m1, a2, s1, "valid"), Make("1.0", w1, k2, m1, a1, s1, "invalid")}

\* The calls are alike.
MCSymmetry == Permutations(Calls)
=============================================================================
