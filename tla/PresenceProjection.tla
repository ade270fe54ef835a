-------------------------- MODULE PresenceProjection --------------------------
(***************************************************************************)
(* build_presence_projection against the schema of what it builds.  The    *)
(* builder is one call without state, so every behaviour is one call, and  *)
(* the initial states are its arguments.  The three identifiers are one    *)
(* field, and so are observed_at, stale_after and generated_at.            *)
(***************************************************************************)
CONSTANTS
    None,           \* an argument not given, a key not present
    Error,          \* PresenceProjectionError
    Strings,        \* what an argument may be
    Shas,           \* strings the schema takes for a commit
    Times,          \* strings the schema takes for an instant
    Calls           \* the arguments of the calls considered

PRESENCE_STATES ==
    {"idle", "thinking", "planning", "executing", "inspecting", "waiting",
     "blocked", "approval", "verifying", "approving", "succeeded", "failed"}
SOURCE_OWNERS ==
    {"steward", "aie", "trust-gateway", "works-execution", "runtime", "sentinel"}
SOURCE_KINDS ==
    {"projection-local", "authority-state", "policy-state", "work-state",
     "runtime-state", "verification-verdict"}

SubjectKinds == {"mission", "work", "attempt", "action", "effect", "verification"}
ReducedMotions == {"static-final-pose", "static-labeled-state"}

Inputs ==
    [displayed_state : Strings, owner : Strings, source_kind : Strings, id : Strings,
     subject_kind : Strings, verdict_id : Strings \cup {None}, sha : Strings \cup {None},
     evidence_ref : Strings \cup {None}, time : Strings \cup {None},
     reduced_motion : Strings \cup {None}]

ASSUME OutcomeAssumption == None # Error /\ {None, Error} \cap Inputs = {}
ASSUME CallsAssumption == Calls \subseteq Inputs

VARIABLES
    input,          \* the arguments of the call
    output          \* None before it returns; the projection, or Error

vars == <<input, output>>

-----------------------------------------------------------------------------
(* The builder. *)

FaultyBacked(i) ==
    i.displayed_state = "succeeded" =>
        i.owner = "sentinel" /\ i.source_kind = "verification-verdict"

\* The visible state is backed by its canonical source.
Backed(i) ==
    /\ i.displayed_state \in {"succeeded", "verifying"} =>
         i.owner = "sentinel" /\ i.source_kind = "verification-verdict"
    /\ i.displayed_state = "succeeded" => i.verdict_id \notin {None, ""}

Refused(i) ==
    \/ i.id = ""
    \/ i.displayed_state \notin PRESENCE_STATES
    \/ i.owner \notin SOURCE_OWNERS
    \/ i.source_kind \notin SOURCE_KINDS
    \/ ~Backed(i)

\* An empty sha is left out of the projection, and a missing generated_at is
\* filled in; every other argument is passed on as it is.
Projection(i) == [i EXCEPT !.sha = IF @ = "" THEN None ELSE @]

Init == input \in Calls /\ output = None

build_presence_projection ==
    /\ output = None
    /\ output' = IF Refused(input) THEN Error ELSE Projection(input)
    /\ UNCHANGED input

Next == build_presence_projection

Spec == Init /\ [][Next]_vars

-----------------------------------------------------------------------------
(* The schema. *)

\* Its rules about states.
StateRules(p) ==
    /\ p.displayed_state = "succeeded" =>
         p.source_kind = "verification-verdict" /\ p.verdict_id # None
    /\ p.displayed_state = "verifying" =>
         p.owner = "sentinel" /\ p.source_kind = "verification-verdict"

\* Its rules about the single fields the builder checks, and about the others.
CheckedFieldRules(p) ==
    /\ p.displayed_state \in PRESENCE_STATES
    /\ p.owner \in SOURCE_OWNERS
    /\ p.source_kind \in SOURCE_KINDS
    /\ p.id # ""

OtherFieldRules(p) ==
    /\ p.verdict_id # ""
    /\ p.subject_kind \in SubjectKinds
    /\ p.sha \in Shas \cup {None}
    /\ p.evidence_ref # ""
    /\ p.time \in Times \cup {None}
    /\ p.reduced_motion \in ReducedMotions \cup {None}

Built == output \notin {None, Error}

\* "Raised when a visible state would overclaim its canonical source": what is
\* built satisfies the state rules of the schema, and those of the fields the
\* builder checks, whatever the other arguments are, so that a projection is
\* invalid only where an argument was passed on unchecked; and no projection the
\* schema allows is refused, but for a success that does not come from Sentinel.
BuilderAgreesWithStateRules ==
    /\ Built => CheckedFieldRules(output) /\ StateRules(output)
    /\ output = Error /\ CheckedFieldRules(input) /\ OtherFieldRules(input)
         /\ StateRules(input) =>
         input.displayed_state = "succeeded" /\ input.owner # "sentinel"
=============================================================================
