------------------------- MODULE LiveReadinessProofs -------------------------
(***************************************************************************)
(* Proofs about LiveReadiness: whatever the environment, the gate agrees   *)
(* with the client of Trust Gateway up to the exceptions listed there.     *)
(***************************************************************************)
EXTENDS LiveReadiness, TLAPS

USE EnvironmentsAssumption, PathAssumption, LowerAssumption, OutcomeAssumption

\* The inspection has not returned, or it reported what the checks say.
GateInv ==
    /\ environment \in Environments
    /\ report \in {None, Error, "READY", "BLOCKED"}
    /\ report = "READY" => Ready(environment)
    /\ report = "BLOCKED" =>
         ~UrlRaises(environment.trust_gateway_url) /\ ~Ready(environment)

LEMMA Invariance == Spec => []GateInv
<1>1. Init => GateInv
  BY DEF Init, GateInv
<1>2. GateInv /\ [Next]_vars => GateInv'
  BY DEF GateInv, Next, vars, inspect_live_readiness
<1> QED  BY <1>1, <1>2, PTL DEF Spec

\* An address the gate takes and the client does not is written unusually.
LEMMA ReadyIsAccepted ==
    ASSUME NEW env \in Bindings, Ready(env)
    PROVE  \/ ClientAccepts(env.trust_gateway_url, env.trust_gateway_token)
           \/ Unusual(env.trust_gateway_url)
<1> DEFINE url == env.trust_gateway_url
           token == env.trust_gateway_token
<1>1. url \in Addresses /\ token \notin {None, ""}
  BY DEF Bindings, Ready, UrlCheck, SecretCheck
<1>2. url.scheme \in Schemes /\ Lower[url.scheme] \in {"http", "https"} /\ url.sep = "://"
  BY <1>1 DEF Addresses, Ready, UrlCheck, HasHostPart
<1>3. CASE Unusual(url)
  BY <1>3
<1>4. CASE ~Unusual(url)
  <2>1. url # None /\ url.lead = "" /\ ~url.broken /\ url.scheme = Lower[url.scheme]
    BY <1>1, <1>4 DEF Unusual, Addresses
  <2> QED  BY <1>1, <1>2, <2>1 DEF ClientAccepts
<1> QED  BY <1>3, <1>4

\* What the client takes passes the gate, if it has a host and the commands are
\* found.
LEMMA AcceptedIsReady ==
    ASSUME NEW env \in Bindings,
           ClientAccepts(env.trust_gateway_url, env.trust_gateway_token),
           env.trust_gateway_url.host # "",
           {env.runtime_command, env.habitat_command, env.sentinel_command} \subseteq Path
    PROVE  Ready(env)
<1>1. UrlCheck(env.trust_gateway_url) /\ SecretCheck(env.trust_gateway_token)
  BY DEF ClientAccepts, UrlCheck, HasHostPart, SecretCheck
<1> QED  BY <1>1 DEF Ready, CommandCheck

\* READY means that the client of Trust Gateway can be constructed, but for an
\* address in unusual writing, and BLOCKED that it cannot, or that a host or a
\* command is wanting: for every environment, whatever words it is made of.
THEOREM GateIsInStepWithClient == Spec => []GateAgreesWithClient
<1>1. ASSUME GateInv
      PROVE  GateAgreesWithClient
  <2>1. environment \in Bindings
    BY <1>1 DEF GateInv
  <2>2. report = "READY" => Ready(environment)
    BY <1>1 DEF GateInv
  <2>3. report = "BLOCKED" => ~Ready(environment)
    BY <1>1 DEF GateInv
  <2> QED  BY <2>1, <2>2, <2>3, ReadyIsAccepted, AcceptedIsReady
           DEF GateAgreesWithClient
<1>2. GateInv => GateAgreesWithClient
  BY <1>1
<1> QED  BY <1>2, Invariance, PTL
=============================================================================
