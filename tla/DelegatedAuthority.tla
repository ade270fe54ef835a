------------------------- MODULE DelegatedAuthority -------------------------
(***************************************************************************)
(* The resolver of delegated agent authority and the AIE mint, as          *)
(* operators on grants.  A grant is a record; instants are naturals; the   *)
(* wording of a denial is left out, its being one is not.                  *)
(*                                                                         *)
(* A definition named Faulty... is a seeded fault: nothing uses it; each   *)
(* shows which property notices when the definition after it goes wrong.   *)
(***************************************************************************)
EXTENDS Integers

CONSTANTS
    Window,         \* DELEGATION_WINDOW
    None            \* an absent value

ASSUME WindowAssumption == Window \in Nat \ {0}

Capabilities == {"pr:merge", "repo:admin", "verify:exact-subject",
                 "verify:projection", "verify:delegate"}

VERIFY_CAPABILITIES == {"verify:exact-subject", "verify:projection"}

VERIFIER_PERSONA_ID == "verifier"

\* The grants held by some grantees, well formed or not.
Grants(Grantees, Delegators, Owners, Subjects) ==
    [grant_id : Nat, grantee : Grantees, capabilities : SUBSET Capabilities,
     parent_capabilities : SUBSET Capabilities,
     granted_at : Nat, expires_at : Nat, revoked_at : Nat \cup {None},
     status : {"granted", "revoked", "expired"},
     binding : [owner : Owners, ref : Nat, subject : Subjects] \cup {None},
     delegated_by : Delegators]

-----------------------------------------------------------------------------
(* The resolver. *)

validate_grant(g) ==
    /\ g.expires_at > g.granted_at
    /\ g.revoked_at # None => g.revoked_at > g.granted_at
    /\ g.binding # None => g.binding.owner = "sentinel"

is_attenuated(g) == g.capabilities \subseteq g.parent_capabilities

revoked(g) == g.revoked_at # None \/ g.status = "revoked"

FaultyExpiredOnlyAt(g, now) == now = g.expires_at \/ g.status = "expired"

\* The expiry instant itself is expired; granted_at is not looked at.
expired(g, now) == now >= g.expires_at \/ g.status = "expired"

active(g, now) == ~revoked(g) /\ ~expired(g, now)

FaultyAnyBoundSubject(g, cap, sha) == g.binding # None

\* Verification needs a Sentinel binding, and exact-subject verification a
\* subject that the binding, if it names one, names too.
sentinel_bound(g, cap, sha) ==
    /\ g.binding # None
    /\ g.binding.owner = "sentinel"
    /\ cap = "verify:exact-subject" =>
         sha # None /\ g.binding.subject \in {None, sha}

\* resolve_action returns an ALLOW receipt.
Allows(g, cap, sha, now) ==
    /\ validate_grant(g)
    /\ is_attenuated(g)
    /\ cap \in g.capabilities
    /\ active(g, now)
    /\ cap \in VERIFY_CAPABILITIES => sentinel_bound(g, cap, sha)

-----------------------------------------------------------------------------
(* The mint. *)

\* What AieMint.mint_child_grant checks again, whatever the agent resolved.
may_mint(parent) ==
    /\ is_attenuated(parent)
    /\ "verify:delegate" \in parent.capabilities
    /\ "verify:exact-subject" \in parent.parent_capabilities

FaultySelfGrant(parent, sha, now, id, ref) ==
    [grant_id |-> id, grantee |-> parent.grantee,
     capabilities |-> {"verify:exact-subject"},
     parent_capabilities |-> parent.parent_capabilities,
     granted_at |-> now, expires_at |-> now + Window,
     revoked_at |-> None, status |-> "granted",
     binding |-> [owner |-> "sentinel", ref |-> ref, subject |-> sha],
     delegated_by |-> parent.grantee]

FaultyUnboundChild(parent, sha, now, id, ref) ==
    [FaultySelfGrant(parent, sha, now, id, ref) EXCEPT
        !.grantee = VERIFIER_PERSONA_ID, !.binding.subject = None]

FaultySameId(parent, sha, now, id, ref) ==
    [FaultySelfGrant(parent, sha, now, 1, 1) EXCEPT !.grantee = VERIFIER_PERSONA_ID]

\* The child grant: exact-subject verification of one commit, for one window
\* from now, whatever is left of the parent's.  Its grant_id and the reference
\* of its binding are formatted from the mint's counter, read twice.
mint_child_grant(parent, sha, now, id, ref) ==
    [grant_id |-> id, grantee |-> VERIFIER_PERSONA_ID,
     capabilities |-> {"verify:exact-subject"},
     parent_capabilities |-> parent.parent_capabilities,
     granted_at |-> now, expires_at |-> now + Window,
     revoked_at |-> None, status |-> "granted",
     binding |-> [owner |-> "sentinel", ref |-> ref, subject |-> sha],
     delegated_by |-> parent.grantee]
=============================================================================
