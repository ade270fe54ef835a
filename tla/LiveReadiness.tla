---------------------------- MODULE LiveReadiness ----------------------------
(***************************************************************************)
(* inspect_live_readiness against the constructor of the client that its   *)
(* address and its token are for, TrustGatewayClient.  The gate is one     *)
(* call without state, so every behaviour is one inspection, and the       *)
(* initial states are the environments it may find.                        *)
(*                                                                         *)
(* A command is its first word, "" if it has none.  An address is what the *)
(* two sides tell apart in it: blanks before it, a tab or line break       *)
(* within its scheme, the scheme, what follows the scheme, and the host    *)
(* part, which "bracket" makes one urlparse raises an exception for.       *)
(***************************************************************************)
CONSTANTS
    None,           \* a variable that is not set, or no report yet
    Error,          \* ValueError of urlparse
    Words,          \* first words of commands
    Path,           \* those shutil.which resolves
    Schemes, Lower, \* schemes as written, "" for none; str.lower on them
    Tokens,         \* values of the token that are not empty
    Environments    \* the environments considered

Addresses ==
    [lead : {"", "blank"}, broken : BOOLEAN, scheme : Schemes,
     sep : {"://", "//", ":/", ":", ""}, host : {"", "host", "bracket"}]

Bindings ==
    [runtime_command : Words \cup {"", None},
     trust_gateway_url : Addresses \cup {None},
     trust_gateway_token : Tokens \cup {"", None},
     habitat_command : Words \cup {"", None},
     sentinel_command : Words \cup {"", None}]

ASSUME EnvironmentsAssumption == Environments \subseteq Bindings
ASSUME PathAssumption == Path \subseteq Words \ {"", None}
ASSUME LowerAssumption ==
    /\ {"http", "https", ""} \subseteq Schemes
    /\ Lower \in [Schemes -> Schemes]
    /\ Lower["http"] = "http" /\ Lower["https"] = "https" /\ Lower[""] = ""
ASSUME OutcomeAssumption ==
    /\ {None, Error} \cap {"READY", "BLOCKED"} = {} /\ None # Error
    /\ None \notin Addresses

VARIABLES
    environment,    \* what the gate finds
    report          \* state of the report, or Error; None before it returns

vars == <<environment, report>>

-----------------------------------------------------------------------------
(* The gate. *)

\* The command is set, and its first word is found.
CommandCheck(value) == value \in Path

\* urlparse takes what follows "//" for the host part, and raises an exception
\* when there is a bracket in it that is not closed.
HasHostPart(u) == u.sep = IF u.scheme = "" THEN "//" ELSE "://"

UrlRaises(value) == value # None /\ HasHostPart(value) /\ value.host = "bracket"

FaultyUrlCheck(value) == value # None /\ HasHostPart(value) /\ value.host # ""

\* urlparse strips blanks before the address (since Python 3.11.4), removes tabs
\* and line breaks anywhere, and lowers the scheme.  An address of nothing but
\* blanks has no scheme.
UrlCheck(value) ==
    /\ value # None
    /\ Lower[value.scheme] \in {"http", "https"}
    /\ HasHostPart(value) /\ value.host # ""

\* Of the token only its presence is recorded.
SecretCheck(value) == value \notin {None, ""}

Ready(env) ==
    /\ CommandCheck(env.runtime_command)
    /\ UrlCheck(env.trust_gateway_url)
    /\ SecretCheck(env.trust_gateway_token)
    /\ CommandCheck(env.habitat_command)
    /\ CommandCheck(env.sentinel_command)

Init == environment \in Environments /\ report = None

inspect_live_readiness ==
    /\ report = None
    /\ report' = IF UrlRaises(environment.trust_gateway_url) THEN Error
                 ELSE IF Ready(environment) THEN "READY" ELSE "BLOCKED"
    /\ UNCHANGED environment

Next == inspect_live_readiness

Spec == Init /\ [][Next]_vars

-----------------------------------------------------------------------------
(* The client. *)

\* TrustGatewayClient can be constructed of the address and the token: the address
\* starts with http:// or https:// to the letter, and there is a token.
ClientAccepts(url, token) ==
    /\ url # None
    /\ url.lead = "" /\ ~url.broken
    /\ url.scheme \in {"http", "https"} /\ url.sep = "://"
    /\ token \notin {None, ""}

\* Written in another way than urlparse gives it back.
Unusual(url) ==
    \/ url.lead = "blank"
    \/ url.broken
    \/ url.scheme # Lower[url.scheme]

\* "Exit 0 means every declared binding is ready", "2 means the mission is blocked
\* before dispatch": under READY the client of Trust Gateway can be constructed,
\* unless the address is written in an unusual way, which urlparse puts right and
\* the client does not; and no environment is BLOCKED that the client would take,
\* but for an address without a host or a command that is not found.
GateAgreesWithClient ==
    LET url == environment.trust_gateway_url
        accepted == ClientAccepts(url, environment.trust_gateway_token)
    IN  /\ report = "READY" => accepted \/ Unusual(url)
        /\ report = "BLOCKED" /\ accepted =>
             \/ url.host = ""
             \/ {environment.runtime_command, environment.habitat_command,
                 environment.sentinel_command} \ Path # {}
=============================================================================
