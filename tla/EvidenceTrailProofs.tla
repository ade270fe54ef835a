------------------------- MODULE EvidenceTrailProofs -------------------------
(***************************************************************************)
(* Proofs about EvidenceTrail, for any missions, workflow objects and      *)
(* grants: the missions behave as MissionWorkflow says, what is on record  *)
(* about merges is true and only a merge that a mission failed at once     *)
(* stays off it, accepted and refused runs have their own record whole,    *)
(* and nothing on record is ever changed.                                  *)
(***************************************************************************)
EXTENDS EvidenceTrail, MissionWorkflowProofs

USE NoneAssumption, WorkflowOfAssumption
    DEF Running, Returned, Terminal, Minting, Counting, Goto, mission, Kinds

\* Every step of EvidenceTrail is a step of MissionWorkflow.
LEMMA LogStepIsStep ==
    ASSUME NEW m \in Missions, LogStep(m)
    PROVE  Step(m)
BY DEF LogStep, Step, LogAllow, LogBlockEffect, LogNothing, Unlogged, LogReadResult,
   LogRaise, LogSpawn, LogDenyDelegation, LogIssueVerdict, LogDenyVerdict, LogAccept,
   LogClaim, LogReturnBundle

THEOREM EvidenceMissionsAreMissions == EvidenceSpec => Spec
<1>1. EvidenceInit => Init
  BY DEF EvidenceInit
<1>2. ASSUME NEW m \in Missions, NEW k \in Kinds, LogBegin(m, k)
      PROVE  Begin(m, k)
  BY <1>2 DEF LogBegin
<1>3. [EvidenceNext]_allvars => [Next]_vars
  BY <1>2, LogStepIsStep DEF EvidenceNext, Next, allvars
<1> QED  BY <1>1, <1>3, PTL DEF EvidenceSpec, Spec

-----------------------------------------------------------------------------
(* What a step logs. *)

EventKinds == {"authority.resolve", "git.merge", "effect.blocked",
               "verification.claim", "mission.acceptance"}
Decisions == {"ALLOW", "DENY", "ACCEPTED", "REJECTED"}

Entries == [mission : Missions, kind : EventKinds, decision : Decisions]

Allowed(m) == Entry(m, "authority.resolve", "ALLOW")
Merged(m) == Entry(m, "git.merge", "ALLOW")

\* The events of m that are not of a merge.
Other(m) == {e \in Entries : e.mission = m /\ e.kind # "git.merge"}
OtherEvents(m) == Seq(Other(m))

Adds(m, ev) == trace' = [trace EXCEPT ![Agent(m, kind[m])] = @ \o ev]

Early == {"idle", "merge", "effect", "merged"}

LogsAllow(m) ==
    /\ pc[m] = "merge" /\ pc'[m] = "effect"
    /\ UNCHANGED <<merged, result>>
    /\ Adds(m, <<Allowed(m)>>)

MakesMerge(m) ==
    /\ pc[m] = "effect" /\ pc'[m] = "merged"
    /\ \E c \in Shas : merged' = [merged EXCEPT ![m] = c]
    /\ UNCHANGED <<result, trace>>

LogsMerge(m) ==
    /\ pc[m] = "merged" /\ pc'[m] \notin Early
    /\ UNCHANGED merged
    /\ \E r : result' = [result EXCEPT ![m] = r]
    /\ Adds(m, <<Merged(m)>>)

LogsOther(m) ==
    /\ pc'[m] \notin Early
    /\ pc[m] = "merged" => pc'[m] = "raised"
    /\ UNCHANGED <<merged, result>>
    /\ \E ev \in OtherEvents(m) : Adds(m, ev)

LEMMA FewEvents ==
    ASSUME NEW m \in Missions, NEW x \in Other(m), NEW y \in Other(m)
    PROVE  <<x>> \in OtherEvents(m) /\ <<x, y>> \in OtherEvents(m)
BY DEF OtherEvents

LEMMA MoreEvents ==
    ASSUME NEW m, NEW s \in OtherEvents(m), NEW t \in OtherEvents(m)
    PROVE  s \o t \in OtherEvents(m)
BY DEF OtherEvents

LEMMA NoEvents ==
    ASSUME NEW m
    PROVE  <<>> \in OtherEvents(m)
BY DEF OtherEvents

LEMMA EntryFields ==
    ASSUME NEW m \in Missions, NEW what \in EventKinds \ {"git.merge"},
           NEW how \in Decisions
    PROVE  Entry(m, what, how) \in Other(m)
BY DEF Entry, Entries, Other

\* The types the traces and bundles have; the rest is MissionWorkflow's.
TypeInv ==
    /\ trace \in [Missions \cup Workflows -> Seq(Entries)]
    /\ bundle \in [Missions -> Seq(Entries) \cup {None}]

\* A trace of the agent of a mission, whatever kind of mission it is.
LEMMA AgentHasTrace ==
    ASSUME NEW m \in Missions, NEW k
    PROVE  Agent(m, k) \in Missions \cup Workflows
BY DEF Agent

\* A step of a mission moves the mission and fills its bundle in the end.
LEMMA StepMoves ==
    ASSUME IInv, NEW m \in Missions, LogStep(m)
    PROVE  /\ pc[m] \in Running
           /\ \E p \in Running \cup Terminal : pc' = [pc EXCEPT ![m] = p]
           /\ UNCHANGED kind
           /\ FillBundle(m)
<1> USE DEF IInv, TypeOK
<1>1. CASE LogAllow(m) \/ LogBlockEffect(m) \/ LogReadResult(m) \/ LogRaise(m)
  BY <1>1 DEF LogAllow, AllowMerge, LogBlockEffect, BlockEffect, LogReadResult,
     ReadResult, LogRaise, RaiseInMerge, Log
<1>2. CASE LogNothing(m)
  <2>1. /\ pc[m] \in Running /\ UNCHANGED kind
        /\ \E p \in Running : pc' = [pc EXCEPT ![m] = p]
    BY <1>2 DEF LogNothing, Unlogged, Merge, ApproveDelegation, Delegating, StartMint,
       CountMint, NumberChild
  <2>2. pc'[m] \notin Returned /\ bundle' = bundle
    BY <1>2, <2>1 DEF LogNothing, evidence
  <2> QED  BY <2>1, <2>2 DEF FillBundle
<1>3. CASE LogSpawn(m) \/ LogDenyDelegation(m) \/ LogIssueVerdict(m) \/ LogDenyVerdict(m)
  BY <1>3 DEF LogSpawn, SpawnVerifier, LogDenyDelegation, DenyDelegation,
     LogIssueVerdict, IssueVerdict, LogDenyVerdict, DenyVerdict, Log
<1>4. CASE LogAccept(m) \/ LogClaim(m) \/ LogReturnBundle(m)
  BY <1>4 DEF LogAccept, Accept, LogClaim, ClaimVerification, LogReturnBundle,
     ReturnBundle, Log
<1> QED  BY <1>1, <1>2, <1>3, <1>4 DEF LogStep

\* A step of a mission appends to its agent's trace: its ALLOW, its merge, or
\* nothing that speaks of merges.
LEMMA StepLogs ==
    ASSUME IInv, TypeInv, NEW m \in Missions, LogStep(m)
    PROVE  LogsAllow(m) \/ MakesMerge(m) \/ LogsMerge(m) \/ LogsOther(m)
<1> USE DEF IInv, TypeOK, Log, Early
<1>0. Adds(m, <<>>) \/ trace' = trace => \E ev \in OtherEvents(m) : Adds(m, ev)
  <2>1. trace[Agent(m, kind[m])] \in Seq(Entries)
    BY AgentHasTrace DEF TypeInv
  <2>2. trace = [trace EXCEPT ![Agent(m, kind[m])] = @ \o <<>>]
    BY <2>1 DEF TypeInv
  <2> QED  BY <2>2, NoEvents DEF Adds
<1>1. CASE LogAllow(m)
  BY <1>1 DEF LogAllow, AllowMerge, LogsAllow, Adds, Allowed
<1>2. CASE LogBlockEffect(m)
  <2>1. NoEffect(m) \in OtherEvents(m)
    <3>1. Entry(m, "mission.acceptance", "REJECTED") \in Other(m)
      BY EntryFields DEF EventKinds, Decisions
    <3> QED  BY <3>1, FewEvents, NoEvents DEF NoEffect
  <2>2. <<Entry(m, "authority.resolve", "DENY"), Entry(m, "effect.blocked", "DENY")>>
          \o NoEffect(m) \in OtherEvents(m)
    <3>1. /\ Entry(m, "authority.resolve", "DENY") \in Other(m)
          /\ Entry(m, "effect.blocked", "DENY") \in Other(m)
      BY EntryFields DEF EventKinds, Decisions
    <3>2. <<Entry(m, "authority.resolve", "DENY"), Entry(m, "effect.blocked", "DENY")>>
            \in OtherEvents(m)
      BY <3>1, FewEvents
    <3> QED  BY <2>1, <3>2, MoreEvents
  <2> QED  BY <1>2, <2>2 DEF LogBlockEffect, BlockEffect, LogsOther, Adds
<1>3. CASE LogNothing(m) /\ Merge(m)
  BY <1>3 DEF LogNothing, Merge, MakesMerge, evidence
<1>4. CASE LogNothing(m) /\ ~Merge(m)
  BY <1>0, <1>4 DEF LogNothing, Unlogged, ApproveDelegation, Delegating, StartMint,
     CountMint, NumberChild, LogsOther, evidence
<1>5. CASE LogReadResult(m)
  BY <1>5 DEF LogReadResult, ReadResult, LogsMerge, Adds, Merged
<1>6. CASE LogRaise(m)
  <2>1. pc'[m] = "raised" /\ UNCHANGED <<merged, result>>
    BY <1>6 DEF LogRaise, RaiseInMerge
  <2>2. Adds(m, <<>>) \/ (pc[m] = "merged" /\ Adds(m, <<Merged(m)>>))
    BY <1>6 DEF LogRaise, Adds, Merged
  <2>3. result' = [result EXCEPT ![m] = result[m]]
    BY <2>1
  <2> QED  BY <1>0, <2>1, <2>2, <2>3 DEF LogsMerge, LogsOther
<1>7. CASE LogSpawn(m) \/ LogDenyDelegation(m) \/ LogIssueVerdict(m) \/ LogDenyVerdict(m)
           \/ LogAccept(m) \/ LogReturnBundle(m)
  <2>1. pc'[m] \notin Early /\ pc[m] # "merged" /\ UNCHANGED <<merged, result>>
    BY <1>7 DEF LogSpawn, SpawnVerifier, LogDenyDelegation, DenyDelegation,
       LogIssueVerdict, IssueVerdict, LogDenyVerdict, DenyVerdict, LogAccept, Accept,
       LogReturnBundle, ReturnBundle
  <2>2. Adds(m, <<>>)
    BY <1>7 DEF LogSpawn, LogDenyDelegation, LogIssueVerdict, LogDenyVerdict, LogAccept,
       LogReturnBundle, Adds
  <2> QED  BY <1>0, <2>1, <2>2 DEF LogsOther
<1>8. CASE LogClaim(m)
  <2> DEFINE Events(d, a) ==
        <<Entry(m, "verification.claim", d), Entry(m, "mission.acceptance", a)>>
  <2>1. ASSUME NEW d \in Decisions, NEW a \in Decisions
        PROVE  Events(d, a) \in OtherEvents(m)
    <3>1. /\ Entry(m, "verification.claim", d) \in Other(m)
          /\ Entry(m, "mission.acceptance", a) \in Other(m)
      BY EntryFields DEF EventKinds, Decisions
    <3> QED  BY <3>1, FewEvents
  <2>2. \E d, a \in Decisions : Adds(m, Events(d, a))
    BY <1>8 DEF LogClaim, Decisions, Adds
  <2>3. pc'[m] \notin Early /\ pc[m] # "merged" /\ UNCHANGED <<merged, result>>
    BY <1>8 DEF LogClaim, ClaimVerification
  <2> QED  BY <2>1, <2>2, <2>3 DEF LogsOther
<1> QED  BY <1>1, <1>2, <1>3, <1>4, <1>5, <1>6, <1>7, <1>8 DEF LogStep

-----------------------------------------------------------------------------
(***************************************************************************)
(* The invariants.  Entries are only logged for missions that have begun,  *)
(* so that a mission gets its agent before anything is on record about it; *)
(* a mission under way has its agent to itself, so that its ALLOW is still *)
(* the last entry when its merge is recorded; and a bundle is only         *)
(* returned by a mission that has ended.                                   *)
(***************************************************************************)
LastEntry(t, e) == t # <<>> /\ t[Len(t)] = e

\* Nothing is on record about a mission that has not begun.
FreshInv ==
    \A m \in Missions, a \in Missions \cup Workflows :
        pc[m] = "idle" => \A i \in DOMAIN trace[a] : trace[a][i].mission # m

BundleInv == \A m \in Missions : bundle[m] # None => pc[m] \in Returned

\* At most one run of an object is under way.
TurnInv ==
    \A m, n \in Missions :
        kind[m] = "workflow" /\ kind[n] = "workflow" /\ WorkflowOf[m] = WorkflowOf[n]
            /\ pc[m] \in Running /\ m # n => pc[n] \in Terminal

OnTrace(e, t) == \E i \in DOMAIN t : t[i] = e

\* What a trace t of its agent says of a mission m at a place, which made the
\* merge c and knows of the commit r.
OnRecord(m, place, c, r, t) ==
    /\ \A i, j \in DOMAIN t : t[i] = Merged(m) /\ t[j] = Merged(m) => i = j
    /\ \A i \in DOMAIN t : t[i] = Merged(m) => i > 1 /\ t[i - 1] = Allowed(m)
    /\ place \in {"effect", "merged"} => LastEntry(t, Allowed(m))
    /\ c # None => OnTrace(Allowed(m), t)
    /\ OnTrace(Merged(m), t) => c # None /\ place \notin Early
    /\ c # None /\ ~OnTrace(Merged(m), t) => r = None /\ place \in {"merged", "raised"}

RecordInv ==
    \A m \in Missions :
        OnRecord(m, pc[m], merged[m], result[m], trace[Agent(m, kind[m])])

EInv == TypeInv /\ FreshInv /\ BundleInv /\ TurnInv /\ RecordInv

LEMMA InitEInv == EvidenceInit => EInv
<1> SUFFICES ASSUME EvidenceInit
             PROVE  EInv
  OBVIOUS
<1>1. \A a \in Missions \cup Workflows : trace[a] = <<>>
  BY DEF EvidenceInit
<1>2. \A m \in Missions : trace[Agent(m, kind[m])] = <<>>
  BY <1>1, AgentHasTrace
<1>3. TypeInv /\ FreshInv /\ BundleInv /\ TurnInv
  BY <1>1 DEF EvidenceInit, Init, TypeInv, FreshInv, BundleInv, TurnInv
<1>4. RecordInv
  BY <1>2 DEF EvidenceInit, Init, RecordInv, OnRecord, OnTrace
<1> QED  BY <1>3, <1>4 DEF EInv

\* A mission gets its agent before anything is on record about it.
LEMMA BeginEInv ==
    ASSUME IInv, EInv, NEW m \in Missions, NEW k \in Kinds, LogBegin(m, k)
    PROVE  EInv'
<1> USE DEF EInv
<1>0. /\ pc[m] = "idle" /\ pc'[m] = "merge" /\ kind'[m] = k
      /\ \A n \in Missions \ {m} : pc'[n] = pc[n] /\ kind'[n] = kind[n]
      /\ UNCHANGED <<trace, bundle, merged, result>>
      /\ merged[m] = None
      /\ k = "workflow" => MayRun(m)
  BY DEF LogBegin, Begin, IInv, TypeOK, MissionInv
<1>1. TypeInv' /\ FreshInv' /\ BundleInv'
  <2>1. TypeInv'
    BY <1>0 DEF TypeInv
  <2>2. FreshInv'
    BY <1>0 DEF FreshInv
  <2>3. BundleInv'
    BY <1>0 DEF BundleInv
  <2> QED  BY <2>1, <2>2, <2>3
<1>2. TurnInv'
  BY <1>0 DEF TurnInv, MayRun
<1>3. OnRecord(m, "merge", None, result[m], trace[Agent(m, k)])
  <2>1. ~OnTrace(Merged(m), trace[Agent(m, k)])
    BY <1>0, AgentHasTrace DEF FreshInv, Merged, Entry, OnTrace
  <2> QED  BY <2>1 DEF OnRecord, OnTrace
<1>4. RecordInv'
  BY <1>0, <1>3 DEF RecordInv
<1> QED  BY <1>1, <1>2, <1>4

\* What is appended to a trace of entries.
LEMMA Appended ==
    ASSUME NEW s \in Seq(Entries), NEW ev \in Seq(Entries)
    PROVE  /\ s \o ev \in Seq(Entries)
           /\ IsPrefix(s, s \o ev)
           /\ DOMAIN s \subseteq DOMAIN (s \o ev)
           /\ \A i \in DOMAIN s : (s \o ev)[i] = s[i]
           /\ \A i \in DOMAIN (s \o ev) \ DOMAIN s :
                i - Len(s) \in DOMAIN ev /\ (s \o ev)[i] = ev[i - Len(s)]
BY DEF IsPrefix

\* A mission that goes on without another word about its merge.
LEMMA RecordKept ==
    ASSUME NEW m, NEW p, NEW q, NEW c, NEW r, NEW s \in Seq(Entries),
           NEW ev \in Seq(Entries), OnRecord(m, p, c, r, s),
           \A i \in DOMAIN ev : ev[i] # Merged(m),
           q \notin {"effect", "merged"}, q \in Early => q = p,
           p \in {"merged", "raised"} => q = "raised"
    PROVE  OnRecord(m, q, c, r, s \o ev)
<1> DEFINE t == s \o ev
<1>1. /\ DOMAIN s \subseteq DOMAIN t /\ \A i \in DOMAIN s : t[i] = s[i]
      /\ \A i \in DOMAIN t : t[i] = Merged(m) <=> i \in DOMAIN s /\ s[i] = Merged(m)
  BY Appended
<1>2. \A i \in DOMAIN s : i > 1 => i - 1 \in DOMAIN s
  OBVIOUS
<1> HIDE DEF t
<1>3. OnTrace(Merged(m), t) <=> OnTrace(Merged(m), s)
  BY <1>1 DEF OnTrace
<1>4. OnTrace(Allowed(m), s) => OnTrace(Allowed(m), t)
  BY <1>1 DEF OnTrace
<1>5. /\ \A i, j \in DOMAIN t : t[i] = Merged(m) /\ t[j] = Merged(m) => i = j
      /\ \A i \in DOMAIN t : t[i] = Merged(m) => i > 1 /\ t[i - 1] = Allowed(m)
  BY <1>1, <1>2 DEF OnRecord
<1>6. OnRecord(m, q, c, r, t)
  BY <1>3, <1>4, <1>5 DEF OnRecord, Early
<1> QED  BY <1>6 DEF t

\* What is put on record last.
LEMMA RecordLast ==
    ASSUME NEW s \in Seq(Entries), NEW e \in Entries
    PROVE  /\ LastEntry(s \o <<e>>, e)
           /\ OnTrace(e, s \o <<e>>)
           /\ DOMAIN (s \o <<e>>) = 1..(Len(s) + 1) /\ Len(s) \in Nat
           /\ \A i \in DOMAIN s : (s \o <<e>>)[i] = s[i]
           /\ (s \o <<e>>)[Len(s) + 1] = e
<1>1. /\ DOMAIN (s \o <<e>>) = 1..(Len(s) + 1) /\ Len(s) \in Nat
      /\ \A i \in DOMAIN s : (s \o <<e>>)[i] = s[i]
      /\ (s \o <<e>>)[Len(s) + 1] = e /\ Len(s \o <<e>>) = Len(s) + 1
  OBVIOUS
<1>2. s \o <<e>> # <<>>
  BY <1>1
<1> QED  BY <1>1, <1>2 DEF LastEntry, OnTrace

\* The merge of m is allowed, and may be allowed once.
LEMMA RecordAllowed ==
    ASSUME NEW m, NEW r, NEW s \in Seq(Entries), Allowed(m) \in Entries,
           OnRecord(m, "merge", None, r, s)
    PROVE  OnRecord(m, "effect", None, r, s \o <<Allowed(m)>>)
<1> DEFINE t == s \o <<Allowed(m)>>
<1>1. Allowed(m) # Merged(m)
  BY DEF Allowed, Merged, Entry
<1>2. ~OnTrace(Merged(m), s)
  BY DEF OnRecord
<1>3. ~OnTrace(Merged(m), t)
  BY <1>1, <1>2, RecordLast DEF OnTrace
<1>4. LastEntry(t, Allowed(m))
  BY RecordLast
<1> HIDE DEF t
<1>5. OnRecord(m, "effect", None, r, t)
  BY <1>3, <1>4 DEF OnRecord, OnTrace
<1> QED  BY <1>5 DEF t

\* It is made, and is not on record yet.
LEMMA RecordMade ==
    ASSUME NEW m, NEW c, NEW s \in Seq(Entries), OnRecord(m, "effect", None, None, s)
    PROVE  OnRecord(m, "merged", c, None, s)
<1>1. LastEntry(s, Allowed(m)) /\ ~OnTrace(Merged(m), s)
  BY DEF OnRecord
<1>2. OnTrace(Allowed(m), s)
  BY <1>1 DEF LastEntry, OnTrace
<1> QED  BY <1>1, <1>2 DEF OnRecord, OnTrace

\* It goes on record, directly after its ALLOW.
LEMMA RecordMerged ==
    ASSUME NEW m, NEW q, q \notin Early, NEW c, c # None, NEW r, NEW v,
           NEW s \in Seq(Entries), Merged(m) \in Entries,
           OnRecord(m, "merged", c, r, s)
    PROVE  OnRecord(m, q, c, v, s \o <<Merged(m)>>)
<1> DEFINE t == s \o <<Merged(m)>>
<1>1. /\ LastEntry(s, Allowed(m)) /\ ~OnTrace(Merged(m), s) /\ OnTrace(Allowed(m), s)
  BY DEF OnRecord, Early
<1>2. /\ DOMAIN t = 1..(Len(s) + 1) /\ Len(s) \in Nat
      /\ \A i \in DOMAIN s : t[i] = s[i]
      /\ t[Len(s) + 1] = Merged(m) /\ OnTrace(Merged(m), t)
  BY RecordLast
<1>3. DOMAIN s = 1..Len(s) /\ Len(s) > 0
  BY <1>1 DEF LastEntry
<1> HIDE DEF t
<1>4. \A i \in DOMAIN t : t[i] = Merged(m) => i = Len(s) + 1
  BY <1>1, <1>2, <1>3 DEF OnTrace
<1>5. t[Len(s)] = Allowed(m)
  BY <1>1, <1>2, <1>3 DEF LastEntry
<1>6. \A i \in DOMAIN t : t[i] = Merged(m) => i > 1 /\ t[i - 1] = Allowed(m)
  BY <1>2, <1>3, <1>4, <1>5
<1>7. OnTrace(Allowed(m), t)
  BY <1>1, <1>2, <1>3 DEF OnTrace
<1>8. OnRecord(m, q, c, v, t)
  BY <1>2, <1>4, <1>6, <1>7 DEF OnRecord, Early
<1> QED  BY <1>8 DEF t

\* A mission under way has its agent to itself, and so has for ever one that has
\* an agent of its own.
LEMMA OwnAgent ==
    ASSUME TurnInv, NEW m \in Missions, NEW n \in Missions \ {m}, pc[m] \in Running,
           kind[n] # "workflow" \/ pc[n] \in Running
    PROVE  Agent(n, kind[n]) # Agent(m, kind[m])
<1>1. CASE kind[n] # "workflow"
  BY <1>1 DEF Agent
<1>2. CASE kind[n] = "workflow" /\ pc[n] \in Running
  <2>1. pc[n] \notin Terminal
    BY <1>2
  <2> QED  BY <1>2, <2>1 DEF Agent, TurnInv
<1> QED  BY <1>1, <1>2

\* What every step of a mission does to the traces: its agent's grows by its
\* events, and the others stay.
LEMMA StepAppends ==
    ASSUME IInv, EInv, NEW m \in Missions, LogStep(m)
    PROVE  \E ev \in Seq(Entries) :
             /\ Adds(m, ev)
             /\ \A i \in DOMAIN ev : ev[i].mission = m
<1> USE DEF EInv
<1>1. /\ Allowed(m) \in Entries /\ Merged(m) \in Entries
      /\ Allowed(m).mission = m /\ Merged(m).mission = m
  BY DEF Allowed, Merged, Entry, Entries, EventKinds, Decisions
<1>2. CASE LogsAllow(m)
  <2>1. <<Allowed(m)>> \in Seq(Entries)
        /\ \A i \in DOMAIN <<Allowed(m)>> : <<Allowed(m)>>[i].mission = m
    BY <1>1
  <2> QED  BY <1>2, <2>1 DEF LogsAllow
<1>3. CASE LogsMerge(m)
  <2>1. <<Merged(m)>> \in Seq(Entries)
        /\ \A i \in DOMAIN <<Merged(m)>> : <<Merged(m)>>[i].mission = m
    BY <1>1
  <2> QED  BY <1>3, <2>1 DEF LogsMerge
<1>4. CASE MakesMerge(m)
  <2>1. trace[Agent(m, kind[m])] \in Seq(Entries)
    BY AgentHasTrace DEF TypeInv
  <2>2. Adds(m, <<>>)
    BY <1>4, <2>1 DEF MakesMerge, TypeInv, Adds
  <2>3. <<>> \in Seq(Entries) /\ \A i \in DOMAIN <<>> : <<>>[i].mission = m
    OBVIOUS
  <2> QED  BY <2>2, <2>3, Zenon
<1>5. CASE LogsOther(m)
  <2>1. PICK ev \in OtherEvents(m) : Adds(m, ev)
    BY <1>5 DEF LogsOther
  <2>2. ev \in Seq(Entries) /\ \A i \in DOMAIN ev : ev[i] \in Other(m)
    BY DEF OtherEvents, Other
  <2> QED  BY <2>1, <2>2 DEF Other
<1> QED  BY <1>2, <1>3, <1>4, <1>5, StepLogs

\* What a step of m says of its own merge.
LEMMA OwnRecord ==
    ASSUME IInv, EInv, NEW m \in Missions, LogStep(m)
    PROVE  OnRecord(m, pc'[m], merged'[m], result'[m], trace'[Agent(m, kind[m])])
<1> USE DEF EInv
<1> DEFINE A == Agent(m, kind[m])
           s == trace[A]
<1>1. A \in Missions \cup Workflows /\ s \in Seq(Entries)
  BY AgentHasTrace DEF TypeInv
<1>2. OnRecord(m, pc[m], merged[m], result[m], s)
  BY DEF RecordInv
<1>3. ASSUME NEW ev, Adds(m, ev)
      PROVE  trace'[A] = s \o ev
  BY <1>1, <1>3 DEF Adds, TypeInv
<1>4. Allowed(m) \in Entries /\ Merged(m) \in Entries
  BY DEF Allowed, Merged, Entry, Entries, EventKinds, Decisions
<1>5. /\ pc[m] \in {"merge", "effect"} => merged[m] = None
      /\ pc[m] \in Early => result[m] = None
      /\ pc[m] = "merged" => merged[m] # None
      /\ pc[m] \in Running
  BY StepMoves DEF IInv, MissionInv, Early
<1> HIDE DEF A, s
<1>6. CASE LogsAllow(m)
  <2>1. trace'[A] = s \o <<Allowed(m)>>
    BY <1>3, <1>6 DEF LogsAllow
  <2>2. OnRecord(m, "effect", None, result[m], trace'[A])
    BY <1>1, <1>2, <1>4, <1>5, <1>6, <2>1, RecordAllowed DEF LogsAllow
  <2> QED  BY <1>5, <1>6, <2>2 DEF LogsAllow, A
<1>7. CASE MakesMerge(m)
  <2>1. OnRecord(m, "merged", merged'[m], None, s)
    BY <1>1, <1>2, <1>5, <1>7, RecordMade DEF MakesMerge, Early
  <2> QED  BY <1>5, <1>7, <2>1 DEF MakesMerge, A, s, Early
<1>8. CASE LogsMerge(m)
  <2>1. trace'[A] = s \o <<Merged(m)>>
    BY <1>3, <1>8 DEF LogsMerge
  <2>2. OnRecord(m, pc'[m], merged[m], result'[m], s \o <<Merged(m)>>)
    BY <1>1, <1>2, <1>4, <1>5, <1>8, RecordMerged DEF LogsMerge
  <2> QED  BY <1>8, <2>1, <2>2 DEF LogsMerge, A
<1>9. CASE LogsOther(m)
  <2>1. PICK ev \in OtherEvents(m) : Adds(m, ev)
    BY <1>9 DEF LogsOther
  <2>2. ev \in Seq(Entries) /\ \A i \in DOMAIN ev : ev[i] \in Other(m)
    BY DEF OtherEvents, Other
  <2>3. \A i \in DOMAIN ev : ev[i] # Merged(m)
    BY <2>2 DEF Other, Merged, Entry
  <2>4. OnRecord(m, pc'[m], merged[m], result[m], s \o ev)
    BY <1>1, <1>2, <1>5, <1>9, <2>2, <2>3, RecordKept DEF LogsOther, Early
  <2> QED  BY <1>3, <1>9, <2>1, <2>4 DEF LogsOther, A
<1> QED  BY <1>6, <1>7, <1>8, <1>9, StepLogs

LEMMA StepEInv ==
    ASSUME IInv, EInv, NEW m \in Missions, LogStep(m)
    PROVE  EInv'
<1> USE DEF EInv
<1> DEFINE A == Agent(m, kind[m])
<1>1. PICK ev \in Seq(Entries) : Adds(m, ev) /\ \A i \in DOMAIN ev : ev[i].mission = m
  BY StepAppends
<1>2. /\ pc[m] \in Running /\ UNCHANGED kind /\ FillBundle(m)
      /\ pc'[m] \in Running \cup Terminal
      /\ \A n \in Missions \ {m} : pc'[n] = pc[n]
  BY StepMoves DEF IInv, TypeOK
<1>3. A \in Missions \cup Workflows /\ trace[A] \in Seq(Entries)
  BY AgentHasTrace DEF TypeInv
<1>4. /\ trace' \in [Missions \cup Workflows -> Seq(Entries)]
      /\ trace'[A] = trace[A] \o ev
      /\ \A a \in (Missions \cup Workflows) \ {A} : trace'[a] = trace[a]
  BY <1>1, <1>3, Appended DEF TypeInv, Adds
<1>5. \A n \in Missions \ {m} : merged'[n] = merged[n] /\ result'[n] = result[n]
  BY StepLogs DEF LogsAllow, MakesMerge, LogsMerge, LogsOther, IInv, TypeOK
<1> HIDE DEF A
<1>6. TypeInv'
  <2>1. trace'[Agent(m, kind[m])] \in Seq(Entries)
    BY <1>4, AgentHasTrace
  <2>2. bundle' \in [Missions -> Seq(Entries) \cup {None}]
    BY <1>2, <2>1 DEF FillBundle, TypeInv
  <2> QED  BY <1>4, <2>2 DEF TypeInv
<1>7. FreshInv'
  <2> SUFFICES ASSUME NEW n \in Missions, NEW a \in Missions \cup Workflows,
                      pc'[n] = "idle", NEW i \in DOMAIN trace'[a]
               PROVE  trace'[a][i].mission # n
    BY DEF FreshInv
  <2>1. n # m /\ pc[n] = "idle"
    BY <1>2
  <2>2. CASE a # A
    BY <1>4, <2>1, <2>2 DEF FreshInv
  <2>3. CASE a = A
    <3> DEFINE s == trace[A]
    <3>2. trace'[a] = s \o ev /\ s \in Seq(Entries)
      BY <1>3, <1>4, <2>3
    <3> HIDE DEF s
    <3>3. \/ i \in DOMAIN s /\ trace'[a][i] = s[i]
          \/ i - Len(s) \in DOMAIN ev /\ trace'[a][i] = ev[i - Len(s)]
      BY <3>2, Appended
    <3>1. \/ i \in DOMAIN trace[A] /\ trace'[a][i] = trace[A][i]
          \/ i - Len(trace[A]) \in DOMAIN ev /\ trace'[a][i] = ev[i - Len(trace[A])]
      BY <3>3 DEF s
    <3> QED  BY <1>1, <1>3, <2>1, <3>1 DEF FreshInv
  <2> QED  BY <2>2, <2>3
<1>8. BundleInv'
  BY <1>2 DEF FillBundle, BundleInv, TypeInv
<1>9. TurnInv'
  BY <1>2 DEF TurnInv
<1>10. ASSUME NEW n \in Missions \ {m}
       PROVE  OnRecord(n, pc[n], merged[n], result[n], trace'[Agent(n, kind[n])])
  <2> DEFINE B == Agent(n, kind[n])
  <2>1. /\ B \in Missions \cup Workflows /\ trace[B] \in Seq(Entries)
        /\ OnRecord(n, pc[n], merged[n], result[n], trace[B])
    BY AgentHasTrace DEF TypeInv, RecordInv
  <2>2. CASE B # A
    BY <1>4, <2>1, <2>2
  <2>3. CASE B = A
    <3>1. pc[n] \notin Running
      BY <1>2, <2>3, OwnAgent DEF A
    <3>2. \A i \in DOMAIN ev : ev[i] # Merged(n)
      BY <1>1 DEF Merged, Entry
    <3> HIDE DEF B
    <3>3. OnRecord(n, pc[n], merged[n], result[n], trace[B] \o ev)
      BY <2>1, <3>1, <3>2, RecordKept DEF Early
    <3> QED  BY <1>4, <2>3, <3>3 DEF B
  <2> QED  BY <2>2, <2>3
<1>11. RecordInv'
  BY <1>2, <1>5, <1>10, OwnRecord DEF RecordInv
<1> QED  BY <1>6, <1>7, <1>8, <1>9, <1>11

LEMMA WorldEInv ==
    ASSUME EInv, UNCHANGED <<mission, evidence>>
    PROVE  EInv'
BY DEF EInv, TypeInv, FreshInv, BundleInv, TurnInv, RecordInv, evidence

LEMMA NextEInv == IInv /\ EInv /\ [EvidenceNext]_allvars => EInv'
<1>1. Revoke \/ Tick => UNCHANGED mission
  BY DEF Revoke, Tick
<1>2. UNCHANGED allvars => UNCHANGED <<mission, evidence>>
  BY DEF allvars, vars
<1> QED  BY <1>1, <1>2, BeginEInv, StepEInv, WorldEInv DEF EvidenceNext

LEMMA EInvariance == EvidenceSpec => [](IInv /\ EInv)
BY InitEInv, NextEInv, EvidenceMissionsAreMissions, Invariance, PTL DEF EvidenceSpec

-----------------------------------------------------------------------------
\* Whatever is merged was allowed on record; no merge is on record twice or
\* without having been made; and one that is not on record was followed by
\* nothing but the mission's failure, with its commit never learnt.
THEOREM MergesAreOnRecord == EvidenceSpec => []MergesOnRecord
<1>1. ASSUME EInv
      PROVE  MergesOnRecord
  <2> SUFFICES ASSUME NEW m \in Missions
               PROVE  LET t == trace[Agent(m, kind[m])]
                          merges == {i \in DOMAIN t : t[i] = Merged(m)}
                          allows == {i \in DOMAIN t : t[i] = Allowed(m)}
                      IN  /\ \A i, j \in merges : i = j
                          /\ \A i \in merges : i - 1 \in allows
                          /\ merged[m] # None => allows # {}
                          /\ merges # {} => merged[m] # None
                          /\ merged[m] # None /\ merges = {} =>
                               result[m] = None /\ pc[m] \in {"merged", "raised"}
    BY DEF MergesOnRecord, Merged, Allowed
  <2> DEFINE t == trace[Agent(m, kind[m])]
  <2>1. OnRecord(m, pc[m], merged[m], result[m], t) /\ t \in Seq(Entries)
    BY <1>1, AgentHasTrace DEF EInv, RecordInv, TypeInv
  <2> HIDE DEF t
  <2>2. \A i \in DOMAIN t : i > 1 => i - 1 \in DOMAIN t
    BY <2>1
  <2>3. LET merges == {i \in DOMAIN t : t[i] = Merged(m)}
            allows == {i \in DOMAIN t : t[i] = Allowed(m)}
        IN  /\ \A i, j \in merges : i = j
            /\ \A i \in merges : i - 1 \in allows
            /\ merged[m] # None => allows # {}
            /\ merges # {} => merged[m] # None
            /\ merged[m] # None /\ merges = {} =>
                 result[m] = None /\ pc[m] \in {"merged", "raised"}
    BY <2>1, <2>2 DEF OnRecord, OnTrace
  <2> QED  BY <2>3 DEF t
<1>2. EInv => MergesOnRecord
  BY <1>1
<1> QED  BY <1>2, EInvariance, PTL

-----------------------------------------------------------------------------
(***************************************************************************)
(* The steps of a workflow object.  Its runs follow one another, so that a *)
(* run that is under way finds its own steps at the end: as many links of  *)
(* the run's chain, from the first on, as its place says.                  *)
(***************************************************************************)
StepKinds == {RunChain[i] : i \in 1..5} \cup
             {"effect.blocked", "delegation.denied", "verdict.denied"}
StepDecisions == {"BEGIN", "ALLOW", "DENY", "PASS", "ACCEPTED"}

StepEntries == [mission : Missions, kind : StepKinds, decision : StepDecisions]

Steps(m) == steps[WorkflowOf[m]]

\* The steps a run has recorded when it is at a place.
Progress == [merge |-> 1, effect |-> 1, merged |-> 1, delegate |-> 2, mint |-> 2,
             count |-> 2, number |-> 2, refer |-> 2, verdict |-> 3, accept |-> 4]

\* How a run goes on, and how it is refused: from a place to a place, with a step.
Onward == {<<"merged", "delegate", "effect.complete", "ALLOW">>,
           <<"refer", "verdict", "delegation.spawned", "ALLOW">>,
           <<"verdict", "accept", "verdict.received", "PASS">>,
           <<"accept", "accepted", "mission.acceptance", "ACCEPTED">>}

Refusals == {<<"merge", "blocked", "effect.blocked", "DENY">>,
             <<"delegate", "delegation_denied", "delegation.denied", "DENY">>,
             <<"mint", "delegation_denied", "delegation.denied", "DENY">>,
             <<"verdict", "verdict_denied", "verdict.denied", "DENY">>}

Takes(m, link) ==
    /\ pc[m] = link[1]
    /\ pc' = [pc EXCEPT ![m] = link[2]]
    /\ steps' = [steps EXCEPT ![WorkflowOf[m]] = @ \o <<Entry(m, link[3], link[4])>>]

\* A step that is on no record: the run is as far as it was, or has raised.
Silent(m) ==
    /\ \E q \in DOMAIN Progress \cup {"raised"} :
         /\ pc' = [pc EXCEPT ![m] = q]
         /\ q # "raised" =>
              pc[m] \in DOMAIN Progress /\ Progress[q] = Progress[pc[m]]
    /\ steps' = steps \/ steps' = [steps EXCEPT ![WorkflowOf[m]] = @ \o <<>>]

\* Every step of a workflow run takes a link, or is silent.
LEMMA WorkflowTakes ==
    ASSUME IInv, NEW m \in Missions, kind[m] = "workflow", LogStep(m)
    PROVE  (\E link \in Onward \cup Refusals : Takes(m, link)) \/ Silent(m)
<1> USE DEF Log, AppendSteps
<1>0. ASSUME NEW link \in Onward \cup Refusals, Takes(m, link)
      PROVE  \E l \in Onward \cup Refusals : Takes(m, l)
  BY <1>0
<1>1. CASE LogReadResult(m)
  <2>1. Takes(m, <<"merged", "delegate", "effect.complete", "ALLOW">>)
    BY <1>1 DEF LogReadResult, ReadResult, Takes
  <2> QED  BY <1>0, <2>1 DEF Onward
<1>2. CASE LogBlockEffect(m)
  <2>1. Takes(m, <<"merge", "blocked", "effect.blocked", "DENY">>)
    BY <1>2 DEF LogBlockEffect, BlockEffect, Takes
  <2> QED  BY <1>0, <2>1 DEF Refusals
<1>3. CASE LogRaise(m)
  BY <1>3 DEF LogRaise, RaiseInMerge, Silent
<1>4. CASE LogSpawn(m)
  <2>1. Takes(m, <<"refer", "verdict", "delegation.spawned", "ALLOW">>)
    BY <1>4 DEF LogSpawn, SpawnVerifier, Takes
  <2> QED  BY <1>0, <2>1 DEF Onward
<1>5. CASE LogDenyDelegation(m)
  <2>1. \/ Takes(m, <<"delegate", "delegation_denied", "delegation.denied", "DENY">>)
        \/ Takes(m, <<"mint", "delegation_denied", "delegation.denied", "DENY">>)
    BY <1>5 DEF LogDenyDelegation, DenyDelegation, Takes
  <2> QED  BY <1>0, <2>1 DEF Refusals
<1>6. CASE LogIssueVerdict(m)
  <2>1. Takes(m, <<"verdict", "accept", "verdict.received", "PASS">>)
    BY <1>6 DEF LogIssueVerdict, IssueVerdict, Takes
  <2> QED  BY <1>0, <2>1 DEF Onward
<1>7. CASE LogDenyVerdict(m)
  <2>1. Takes(m, <<"verdict", "verdict_denied", "verdict.denied", "DENY">>)
    BY <1>7 DEF LogDenyVerdict, DenyVerdict, Takes
  <2> QED  BY <1>0, <2>1 DEF Refusals
<1>8. CASE LogAccept(m)
  <2>1. PICK v \in Presentable(m) :
          pc' = [pc EXCEPT ![m] = IF Satisfies(m, v) THEN "accepted" ELSE "rejected"]
    BY <1>8 DEF LogAccept, Accept
  <2>2. Satisfies(m, v)
    BY DEF Presentable, Satisfies, Verdict, IInv, TypeOK, Verdicts
  <2>3. pc[m] = "accept" /\ pc' = [pc EXCEPT ![m] = "accepted"] /\ pc'[m] = "accepted"
    BY <1>8, <2>1, <2>2 DEF LogAccept, Accept, IInv, TypeOK
  <2>4. Takes(m, <<"accept", "accepted", "mission.acceptance", "ACCEPTED">>)
    BY <1>8, <2>3 DEF LogAccept, Takes
  <2> QED  BY <1>0, <2>4 DEF Onward
<1>9. CASE LogClaim(m) \/ LogReturnBundle(m)
  BY <1>9 DEF LogClaim, ClaimVerification, LogReturnBundle, ReturnBundle, IInv, MissionInv
<1>10. CASE LogAllow(m) \/ LogNothing(m)
  <2>1. ASSUME NEW p \in DOMAIN Progress, NEW q \in DOMAIN Progress,
               Progress[p] = Progress[q], pc[m] = p, pc' = [pc EXCEPT ![m] = q],
               steps' = steps \/ steps' = [steps EXCEPT ![WorkflowOf[m]] = @ \o <<>>]
        PROVE  Silent(m)
    BY <2>1 DEF Silent
  <2>2. /\ {"merge", "effect", "merged", "delegate"} \cup Minting \subseteq DOMAIN Progress
        /\ Progress["merge"] = 1 /\ Progress["effect"] = 1 /\ Progress["merged"] = 1
        /\ \A p \in {"delegate"} \cup Minting : Progress[p] = 2
    BY DEF Progress
  <2>3. steps' = steps \/ steps' = [steps EXCEPT ![WorkflowOf[m]] = @ \o <<>>]
    BY <1>10 DEF LogAllow, LogNothing, evidence
  <2>5. CASE LogAllow(m) \/ Merge(m)
    <3>1. pc[m] \in {"merge", "effect"}
          /\ \E q \in {"effect", "merged"} : pc' = [pc EXCEPT ![m] = q]
      BY <2>5 DEF LogAllow, AllowMerge, Merge
    <3> QED  BY <2>1, <2>2, <2>3, <3>1
  <2>6. CASE ApproveDelegation(m) \/ StartMint(m) \/ CountMint(m) \/ NumberChild(m)
    <3>1. pc[m] \in {"delegate"} \cup Minting
          /\ \E q \in Minting : pc' = [pc EXCEPT ![m] = q]
      BY <2>6 DEF ApproveDelegation, Delegating, StartMint, CountMint, NumberChild
    <3> QED  BY <2>1, <2>2, <2>3, <3>1
  <2> QED  BY <1>10, <2>5, <2>6 DEF LogNothing, Unlogged
<1> QED  BY <1>1, <1>2, <1>3, <1>4, <1>5, <1>6, <1>7, <1>8, <1>9, <1>10 DEF LogStep

\* Nobody else writes steps.
LEMMA OthersWriteNoSteps ==
    ASSUME NEW m \in Missions, kind[m] # "workflow", LogStep(m)
    PROVE  steps' = steps
BY DEF LogStep, LogAllow, LogBlockEffect, LogNothing, LogReadResult, LogRaise, LogSpawn,
   LogDenyDelegation, LogIssueVerdict, LogDenyVerdict, LogAccept, LogClaim,
   LogReturnBundle, Log, AppendSteps, evidence

\* The last n steps in s, and no others, are m's, and they are the first n links
\* of the chain.
EndsInRun(m, s, n) ==
    /\ n <= Len(s)
    /\ \A i \in DOMAIN s : s[i].mission = m <=> i > Len(s) - n
    /\ \A i \in 1..n : s[Len(s) - n + i].kind = RunChain[i]

\* The run of m stands in s from beginning to end.
Documented(m, s) ==
    \E b \in 0..(Len(s) - 5) :
        /\ \A i \in DOMAIN s : s[i].mission = m <=> i \in (b + 1)..(b + 5)
        /\ \A i \in 1..5 : s[b + i].kind = RunChain[i]

\* The last step of m in s is e.
EndsWith(m, s, e) ==
    \E i \in DOMAIN s : s[i] = e /\ \A j \in DOMAIN s : j > i => s[j].mission # m

Refused == {"blocked", "delegation_denied", "verdict_denied"}

\* What the object of m has on record when m is a run of it at a place.
OnSteps(m, place, s) ==
    /\ place \in DOMAIN Progress => EndsInRun(m, s, Progress[place])
    /\ place = "accepted" => Documented(m, s)
    /\ place \in Refused => EndsWith(m, s, Entry(m, Refusal[place], "DENY"))
    /\ place # "rejected"

StepsInv ==
    /\ steps \in [Workflows -> Seq(StepEntries)]
    /\ \A m \in Missions :
         /\ pc[m] = "idle" => \A w \in Workflows : EndsInRun(m, steps[w], 0)
         /\ kind[m] = "workflow" => OnSteps(m, pc[m], Steps(m))

LEMMA RunGrows ==
    ASSUME NEW m, NEW s \in Seq(StepEntries), NEW e \in StepEntries, NEW n \in 1..5,
           EndsInRun(m, s, n - 1), e.mission = m, e.kind = RunChain[n]
    PROVE  EndsInRun(m, s \o <<e>>, n)
<1> DEFINE u == s \o <<e>>
<1>1. /\ Len(u) = Len(s) + 1 /\ u[Len(s) + 1] = e /\ DOMAIN u = 1..(Len(s) + 1)
      /\ \A i \in DOMAIN s : u[i] = s[i]
  OBVIOUS
<1> HIDE DEF u, RunChain
<1>2. n <= Len(u)
  BY <1>1 DEF EndsInRun
<1>3. ASSUME NEW i \in DOMAIN u
      PROVE  u[i].mission = m <=> i > Len(u) - n
  <2>1. CASE i \in DOMAIN s
    <3>1. s[i].mission = m <=> i > Len(s) - (n - 1)
      BY <2>1 DEF EndsInRun
    <3>2. Len(u) - n = Len(s) - (n - 1)
      BY <1>1
    <3> QED  BY <1>1, <2>1, <3>1, <3>2
  <2>2. CASE i = Len(s) + 1
    BY <1>1, <2>2
  <2>3. i \in DOMAIN s \/ i = Len(s) + 1
    BY <1>1
  <2> QED  BY <2>1, <2>2, <2>3
<1>4. ASSUME NEW i \in 1..n
      PROVE  u[Len(u) - n + i].kind = RunChain[i]
  <2>1. CASE i = n
    <3>1. u[Len(u) - n + i] = e
      BY <1>1, <2>1
    <3> QED  BY <2>1, <3>1
  <2>2. CASE i # n
    <3>1. Len(u) - n + i = Len(s) - (n - 1) + i /\ i \in 1..(n - 1)
      BY <1>1, <2>2
    <3>2. Len(u) - n + i \in DOMAIN s
      BY <3>1 DEF EndsInRun
    <3>3. s[Len(s) - (n - 1) + i].kind = RunChain[i]
      BY <3>1 DEF EndsInRun
    <3> QED  BY <1>1, <3>1, <3>2, <3>3
  <2> QED  BY <2>1, <2>2
<1>5. EndsInRun(m, u, n)
  BY <1>2, <1>3, <1>4, Zenon DEF EndsInRun
<1> QED  BY <1>5 DEF u

\* A run whose five steps stand at the end is documented.
LEMMA RunDocumented ==
    ASSUME NEW m, NEW s \in Seq(StepEntries), EndsInRun(m, s, 5)
    PROVE  Documented(m, s)
<1> HIDE DEF RunChain
<1> DEFINE b == Len(s) - 5
<1>1. b \in 0..(Len(s) - 5) /\ b + 5 = Len(s)
  BY DEF EndsInRun
<1>2. \A i \in DOMAIN s : s[i].mission = m <=> i \in (b + 1)..(b + 5)
  BY DEF EndsInRun
<1>3. \A i \in 1..5 : s[b + i].kind = RunChain[i]
  BY DEF EndsInRun
<1> QED  BY <1>1, <1>2, <1>3 DEF Documented

LEMMA RefusalEnds ==
    ASSUME NEW m, NEW s \in Seq(StepEntries), NEW e \in StepEntries
    PROVE  EndsWith(m, s \o <<e>>, e)
<1> DEFINE u == s \o <<e>>
<1>1. Len(s) + 1 \in DOMAIN u /\ u[Len(s) + 1] = e /\ DOMAIN u = 1..(Len(s) + 1)
  OBVIOUS
<1> HIDE DEF u
<1>2. \A j \in DOMAIN u : ~(j > Len(s) + 1)
  BY <1>1
<1>3. EndsWith(m, u, e)
  BY <1>1, <1>2 DEF EndsWith
<1> QED  BY <1>3 DEF u

\* Steps of another run leave what is on record about a mission that has not
\* begun or has ended.
LEMMA OthersAppend ==
    ASSUME NEW m, NEW s \in Seq(StepEntries), NEW es \in Seq(StepEntries),
           \A i \in DOMAIN es : es[i].mission # m
    PROVE  /\ EndsInRun(m, s, 0) => EndsInRun(m, s \o es, 0)
           /\ Documented(m, s) => Documented(m, s \o es)
           /\ \A e : EndsWith(m, s, e) => EndsWith(m, s \o es, e)
<1> HIDE DEF RunChain
<1> DEFINE u == s \o es
<1>1. /\ Len(u) = Len(s) + Len(es) /\ Len(es) \in Nat /\ Len(s) \in Nat
      /\ DOMAIN u = 1..(Len(s) + Len(es)) /\ DOMAIN s = 1..Len(s)
      /\ \A i \in DOMAIN s : u[i] = s[i]
  OBVIOUS
<1>2. \A i \in DOMAIN u \ DOMAIN s : u[i].mission # m
  OBVIOUS
<1> HIDE DEF u
<1>3. ASSUME EndsInRun(m, s, 0)
      PROVE  EndsInRun(m, u, 0)
  <2>1. \A i \in DOMAIN u : u[i].mission # m
    BY <1>1, <1>2, <1>3 DEF EndsInRun
  <2> QED  BY <1>1, <2>1 DEF EndsInRun
<1>4. ASSUME Documented(m, s)
      PROVE  Documented(m, u)
  <2>1. PICK b \in 0..(Len(s) - 5) :
          /\ \A i \in DOMAIN s : s[i].mission = m <=> i \in (b + 1)..(b + 5)
          /\ \A i \in 1..5 : s[b + i].kind = RunChain[i]
    BY <1>4 DEF Documented
  <2>2. b \in 0..(Len(u) - 5) /\ \A i \in 1..5 : b + i \in DOMAIN s
    BY <1>1
  <2>3. \A i \in DOMAIN u : u[i].mission = m <=> i \in (b + 1)..(b + 5)
    BY <1>1, <1>2, <2>1
  <2>4. \A i \in 1..5 : u[b + i].kind = RunChain[i]
    BY <1>1, <2>1, <2>2
  <2> QED  BY <2>2, <2>3, <2>4 DEF Documented
<1>5. ASSUME NEW e, EndsWith(m, s, e)
      PROVE  EndsWith(m, u, e)
  BY <1>1, <1>2, <1>5 DEF EndsWith
<1> QED  BY <1>3, <1>4, <1>5 DEF u

LEMMA EndedKept ==
    ASSUME NEW m, NEW place \in Terminal, NEW s \in Seq(StepEntries),
           NEW es \in Seq(StepEntries), \A i \in DOMAIN es : es[i].mission # m,
           OnSteps(m, place, s)
    PROVE  OnSteps(m, place, s \o es)
<1>1. place \notin DOMAIN Progress
  BY DEF Progress
<1>2. Documented(m, s) => Documented(m, s \o es)
  BY OthersAppend
<1>3. \A e : EndsWith(m, s, e) => EndsWith(m, s \o es, e)
  BY OthersAppend
<1> QED  BY <1>1, <1>2, <1>3 DEF OnSteps

LEMMA StepIsEntry ==
    ASSUME NEW m \in Missions, NEW link \in Onward \cup Refusals
    PROVE  /\ Entry(m, link[3], link[4]) \in StepEntries
           /\ Entry(m, link[3], link[4]).mission = m
           /\ Entry(m, link[3], link[4]).kind = link[3]
BY DEF Entry, StepEntries, StepKinds, StepDecisions, Onward, Refusals, RunChain

\* The link a run takes is the next one of its chain, or its refusal.
LEMMA LinkTaken ==
    ASSUME NEW m \in Missions, NEW s \in Seq(StepEntries),
           NEW link \in Onward \cup Refusals, OnSteps(m, link[1], s)
    PROVE  OnSteps(m, link[2], s \o <<Entry(m, link[3], link[4])>>)
<1> DEFINE e == Entry(m, link[3], link[4])
           u == s \o <<e>>
<1>1. e \in StepEntries /\ e.mission = m /\ e.kind = link[3]
  BY StepIsEntry
<1>2. ASSUME link \in Onward
      PROVE  OnSteps(m, link[2], u)
  <2> DEFINE n == Progress[link[1]] + 1
  <2>1. /\ link[1] \in DOMAIN Progress /\ n \in 1..5 /\ n - 1 = Progress[link[1]]
        /\ link[3] = RunChain[n]
        /\ \/ link[2] \in DOMAIN Progress /\ Progress[link[2]] = n
              /\ link[2] \notin {"accepted", "rejected"} \cup Refused
           \/ link[2] = "accepted" /\ n = 5
    <3>1. /\ DOMAIN Progress = {"merge", "effect", "merged", "delegate", "verdict",
                                "accept"} \cup Minting
          /\ Progress["merged"] = 1 /\ Progress["delegate"] = 2
          /\ Progress["refer"] = 2 /\ Progress["verdict"] = 3 /\ Progress["accept"] = 4
      BY DEF Progress
    <3>2. /\ RunChain[2] = "effect.complete" /\ RunChain[3] = "delegation.spawned"
          /\ RunChain[4] = "verdict.received" /\ RunChain[5] = "mission.acceptance"
      BY DEF RunChain
    <3> HIDE DEF Progress, RunChain
    <3>3. CASE link = <<"merged", "delegate", "effect.complete", "ALLOW">>
      BY <3>1, <3>2, <3>3 DEF Refused
    <3>4. CASE link = <<"refer", "verdict", "delegation.spawned", "ALLOW">>
      BY <3>1, <3>2, <3>4 DEF Refused
    <3>5. CASE link = <<"verdict", "accept", "verdict.received", "PASS">>
      BY <3>1, <3>2, <3>5 DEF Refused
    <3>6. CASE link = <<"accept", "accepted", "mission.acceptance", "ACCEPTED">>
      BY <3>1, <3>2, <3>6 DEF Refused
    <3> QED  BY <1>2, <3>3, <3>4, <3>5, <3>6 DEF Onward
  <2>2. EndsInRun(m, s, n - 1)
    BY <2>1 DEF OnSteps
  <2> HIDE DEF n, e, RunChain
  <2>3. EndsInRun(m, u, n)
    BY <1>1, <2>1, <2>2, RunGrows
  <2>4. u \in Seq(StepEntries)
    BY <1>1
  <2> HIDE DEF u
  <2>5. CASE link[2] = "accepted"
    <3>1. Documented(m, u)
      BY <2>1, <2>3, <2>4, <2>5, RunDocumented DEF Progress
    <3> QED  BY <2>5, <3>1 DEF OnSteps, Progress, Refused
  <2>6. CASE link[2] # "accepted"
    BY <2>1, <2>3, <2>6 DEF OnSteps
  <2> QED  BY <2>5, <2>6
<1>3. ASSUME link \in Refusals
      PROVE  OnSteps(m, link[2], u)
  <2>1. /\ link[2] \in Refused /\ link[2] \notin DOMAIN Progress
        /\ e = Entry(m, Refusal[link[2]], "DENY")
    BY <1>3 DEF Refusals, Refused, Progress, Refusal
  <2>2. EndsWith(m, u, e)
    <3> HIDE DEF e
    <3> QED  BY <1>1, RefusalEnds
  <2> HIDE DEF u, e
  <2> QED  BY <2>1, <2>2 DEF OnSteps, Refused
<1> QED  BY <1>2, <1>3

LEMMA InitSteps == EvidenceInit => StepsInv
<1> SUFFICES ASSUME EvidenceInit
             PROVE  StepsInv
  OBVIOUS
<1>1. \A m \in Missions : EndsInRun(m, <<>>, 0)
  BY DEF EndsInRun
<1>2. /\ steps = [w \in Workflows |-> <<>>]
      /\ \A m \in Missions : kind[m] = None
  BY DEF EvidenceInit, Init
<1> QED  BY <1>1, <1>2 DEF StepsInv

LEMMA BeginSteps ==
    ASSUME IInv, StepsInv, NEW m \in Missions, NEW k \in Kinds, LogBegin(m, k)
    PROVE  StepsInv'
<1>1. /\ pc[m] = "idle" /\ kind[m] = None /\ kind'[m] = k /\ pc'[m] = "merge"
      /\ \A n \in Missions \ {m} : kind'[n] = kind[n] /\ pc'[n] = pc[n]
      /\ k = "workflow" => MayRun(m)
  BY DEF LogBegin, Begin, IInv, TypeOK, MissionInv
<1>2. WorkflowOf[m] \in Workflows /\ \A w \in Workflows : steps[w] \in Seq(StepEntries)
  BY DEF StepsInv
<1>4. CASE k # "workflow"
  <2>1. steps' = steps
    BY <1>4 DEF LogBegin, StartSteps
  <2> QED  BY <1>1, <1>4, <2>1 DEF StepsInv, Steps
<1>5. CASE k = "workflow"
  <2> DEFINE e == Entry(m, "mission.start", "BEGIN")
             W == WorkflowOf[m]
  <2>1. e \in StepEntries /\ e.mission = m /\ e.kind = RunChain[1]
    BY DEF Entry, StepEntries, StepKinds, StepDecisions, RunChain
  <2>2. steps' = [steps EXCEPT ![W] = Append(@, e)]
    BY <1>5 DEF LogBegin, StartSteps
  <2>0. W \in Workflows
    BY <1>2
  <2> HIDE DEF e, W, RunChain
  <2>3. /\ steps' \in [Workflows -> Seq(StepEntries)]
        /\ steps'[W] = steps[W] \o <<e>>
        /\ \A w \in Workflows \ {W} : steps'[w] = steps[w]
    BY <1>2, <2>0, <2>1, <2>2 DEF StepsInv
  <2>4. <<e>> \in Seq(StepEntries) /\ \A i \in DOMAIN <<e>> : <<e>>[i].mission = m
    BY <2>1
  <2>5. OnSteps(m, "merge", steps'[W])
    <3>1. EndsInRun(m, steps[W], 1 - 1)
      BY <1>1, <1>2 DEF StepsInv, W
    <3>2. EndsInRun(m, steps[W] \o <<e>>, 1)
      BY <1>2, <2>1, <3>1, RunGrows DEF W
    <3> QED  BY <2>3, <3>2 DEF OnSteps, Progress, Refused
  <2>6. ASSUME NEW n \in Missions \ {m}, pc[n] = "idle", NEW w \in Workflows
        PROVE  EndsInRun(n, steps'[w], 0)
    <3>1. EndsInRun(n, steps[w], 0)
      BY <2>6 DEF StepsInv
    <3>2. EndsInRun(n, steps[w] \o <<e>>, 0)
      BY <1>2, <2>4, <2>6, <3>1, OthersAppend
    <3> QED  BY <2>3, <3>1, <3>2
  <2>7. ASSUME NEW n \in Missions \ {m}, kind[n] = "workflow"
        PROVE  OnSteps(n, pc[n], steps'[WorkflowOf[n]])
    <3>1. OnSteps(n, pc[n], steps[WorkflowOf[n]]) /\ WorkflowOf[n] \in Workflows
      BY <2>7 DEF StepsInv, Steps
    <3>2. CASE WorkflowOf[n] = W
      <4>1. pc[n] \in Terminal
        BY <1>1, <1>5, <2>7, <3>2 DEF MayRun, W
      <4>2. OnSteps(n, pc[n], steps[W] \o <<e>>)
        BY <1>2, <2>4, <2>7, <3>1, <3>2, <4>1, EndedKept
      <4> QED  BY <2>3, <3>2, <4>2
    <3>3. CASE WorkflowOf[n] # W
      BY <2>3, <3>1, <3>3
    <3> QED  BY <3>2, <3>3
  <2> QED  BY <1>1, <2>3, <2>5, <2>6, <2>7 DEF StepsInv, Steps, W
<1> QED  BY <1>4, <1>5

LEMMA StepSteps ==
    ASSUME IInv, StepsInv, TurnInv, NEW m \in Missions, LogStep(m)
    PROVE  StepsInv'
<1>1. /\ pc[m] \in Running /\ UNCHANGED kind /\ pc'[m] \in Running \cup Terminal
      /\ \A n \in Missions \ {m} : pc'[n] = pc[n]
  BY StepMoves DEF IInv, TypeOK
<1>3. CASE kind[m] # "workflow"
  <2>1. steps' = steps
    BY <1>3, OthersWriteNoSteps
  <2> QED  BY <1>1, <1>3, <2>1 DEF StepsInv, Steps
<1>4. CASE kind[m] = "workflow"
  <2> DEFINE W == WorkflowOf[m]
  <2>1. W \in Workflows /\ \A w \in Workflows : steps[w] \in Seq(StepEntries)
    BY DEF StepsInv
  <2>2. OnSteps(m, pc[m], steps[W])
    BY <1>4 DEF StepsInv, Steps
  <2>3. PICK es \in Seq(StepEntries) :
          /\ steps' = [steps EXCEPT ![W] = @ \o es]
          /\ \A i \in DOMAIN es : es[i].mission = m
          /\ OnSteps(m, pc'[m], steps[W] \o es)
    <3>1. CASE \E link \in Onward \cup Refusals : Takes(m, link)
      <4>1. PICK link \in Onward \cup Refusals : Takes(m, link)
        BY <3>1
      <4> DEFINE e == Entry(m, link[3], link[4])
      <4>2. e \in StepEntries /\ e.mission = m
        BY StepIsEntry
      <4>3. /\ pc[m] = link[1] /\ pc'[m] = link[2]
            /\ steps' = [steps EXCEPT ![W] = @ \o <<e>>]
        BY <4>1 DEF Takes, IInv, TypeOK
      <4>4. OnSteps(m, link[2], steps[W] \o <<e>>)
        BY <2>1, <2>2, <4>3, LinkTaken
      <4> HIDE DEF e, W
      <4>5. <<e>> \in Seq(StepEntries) /\ \A i \in DOMAIN <<e>> : <<e>>[i].mission = m
        BY <4>2
      <4> QED  BY <4>3, <4>4, <4>5
    <3>2. CASE Silent(m)
      <4>1. steps[W] \o <<>> = steps[W] /\ <<>> \in Seq(StepEntries)
            /\ steps = [steps EXCEPT ![W] = @ \o <<>>]
        BY <2>1 DEF StepsInv
      <4>2. steps' = [steps EXCEPT ![W] = @ \o <<>>]
        BY <3>2, <4>1 DEF Silent
      <4>3. OnSteps(m, pc'[m], steps[W])
        <5>1. /\ "raised" \notin DOMAIN Progress
              /\ DOMAIN Progress \cap ({"accepted", "rejected"} \cup Refused) = {}
          BY DEF Progress, Refused
        <5>2. \/ pc'[m] = "raised"
              \/ /\ pc[m] \in DOMAIN Progress /\ pc'[m] \in DOMAIN Progress
                 /\ Progress[pc'[m]] = Progress[pc[m]]
          BY <3>2 DEF Silent, IInv, TypeOK
        <5> QED  BY <2>2, <5>1, <5>2 DEF OnSteps, Refused
      <4>4. \A i \in DOMAIN <<>> : <<>>[i].mission = m
        OBVIOUS
      <4> HIDE DEF W
      <4> QED  BY <4>1, <4>2, <4>3, <4>4, Zenon
    <3> QED  BY <1>4, <3>1, <3>2, WorkflowTakes
  <2> HIDE DEF W
  <2>4. /\ steps' \in [Workflows -> Seq(StepEntries)]
        /\ steps'[W] = steps[W] \o es
        /\ \A w \in Workflows \ {W} : steps'[w] = steps[w]
    BY <2>1, <2>3 DEF StepsInv
  <2>5. ASSUME NEW n \in Missions, pc'[n] = "idle", NEW w \in Workflows
        PROVE  EndsInRun(n, steps'[w], 0)
    <3>1. n # m /\ EndsInRun(n, steps[w], 0)
      BY <1>1, <2>5 DEF StepsInv
    <3>2. EndsInRun(n, steps[w] \o es, 0)
      BY <2>1, <2>3, <3>1, OthersAppend
    <3> QED  BY <2>4, <3>1, <3>2
  <2>6. ASSUME NEW n \in Missions \ {m}, kind[n] = "workflow"
        PROVE  OnSteps(n, pc[n], steps'[WorkflowOf[n]])
    <3>1. OnSteps(n, pc[n], steps[WorkflowOf[n]]) /\ WorkflowOf[n] \in Workflows
      BY <2>6 DEF StepsInv, Steps
    <3>2. CASE WorkflowOf[n] = W
      <4>1. pc[n] \in Terminal
        BY <1>1, <1>4, <2>6, <3>2 DEF TurnInv, W
      <4>2. OnSteps(n, pc[n], steps[W] \o es)
        BY <2>1, <2>3, <2>6, <3>1, <3>2, <4>1, EndedKept
      <4> QED  BY <2>4, <3>2, <4>2
    <3>3. CASE WorkflowOf[n] # W
      BY <2>4, <3>1, <3>3
    <3> QED  BY <3>2, <3>3
  <2> QED  BY <1>1, <2>3, <2>4, <2>5, <2>6 DEF StepsInv, Steps, W
<1> QED  BY <1>3, <1>4

-----------------------------------------------------------------------------
(***************************************************************************)
(* The end of the audit trace.  After its merge a workflow run logs no     *)
(* more events, and no other run of its object can in between; a Level 4   *)
(* run, which has an agent of its own, logs its outcome last.              *)
(***************************************************************************)
Outcome(m) ==
    Entry(m, "mission.acceptance", IF verifier[m] # None THEN "ACCEPTED" ELSE "REJECTED")

WorkflowEnds(m) ==
    /\ pc[m] \in {"delegate", "verdict", "accept"} \cup Minting =>
         LastEntry(trace[WorkflowOf[m]], Merged(m))
    /\ pc[m] = "accepted" => LastEntry(bundle[m], Merged(m))

Level4Ends(m) ==
    /\ pc[m] \in Early => verifier[m] = None
    /\ pc[m] = "bundle" => LastEntry(trace[m], Outcome(m))
    /\ pc[m] = "rejected" =>
         LastEntry(bundle[m], Entry(m, "mission.acceptance", "REJECTED"))
    /\ pc[m] \notin Refused

EndsInv ==
    \A m \in Missions :
        /\ pc[m] = "idle" => verifier[m] = None
        /\ kind[m] = "workflow" => WorkflowEnds(m)
        /\ kind[m] = "level4" => Level4Ends(m)
        /\ kind[m] = "stepwise" => bundle[m] = None

LEMMA LastOfAppended ==
    ASSUME NEW s \in Seq(Entries), NEW t \in Seq(Entries), Len(t) > 0
    PROVE  LastEntry(s \o t, t[Len(t)])
<1>1. Len(s \o t) = Len(s) + Len(t)
  OBVIOUS
<1>2. (s \o t)[Len(s) + Len(t)] = t[Len(t)]
  OBVIOUS
<1>3. s \o t # <<>>
  BY <1>1
<1> QED  BY <1>1, <1>2, <1>3, Zenon DEF LastEntry

LEMMA LastAppended ==
    ASSUME NEW s \in Seq(Entries), NEW x \in Entries, NEW y \in Entries
    PROVE  /\ s \o <<>> = s
           /\ LastEntry(s \o <<x, y>>, y)
           /\ \A z \in Entries : LastEntry(s \o (<<x, y>> \o <<z>>), z)
<1>1. s \o <<>> = s
  OBVIOUS
<1>2. <<x, y>> \in Seq(Entries) /\ Len(<<x, y>>) = 2 /\ <<x, y>>[2] = y
  OBVIOUS
<1>3. ASSUME NEW z \in Entries
      PROVE  LastEntry(s \o (<<x, y>> \o <<z>>), z)
  <2> DEFINE t == <<x, y>> \o <<z>>
  <2>1. t \in Seq(Entries) /\ Len(t) = 3 /\ t[3] = z
    OBVIOUS
  <2> HIDE DEF t
  <2>2. Len(t) > 0 /\ t[Len(t)] = z
    BY <2>1
  <2>3. LastEntry(s \o t, t[Len(t)])
    BY <2>1, <2>2, LastOfAppended, Zenon
  <2>4. LastEntry(s \o t, z)
    BY <2>2, <2>3, Zenon
  <2> QED  BY <2>4 DEF t
<1>4. LastEntry(s \o <<x, y>>, y)
  <2> DEFINE t == <<x, y>>
  <2> HIDE DEF t
  <2>1. t \in Seq(Entries) /\ Len(t) > 0 /\ t[Len(t)] = y
    BY <1>2 DEF t
  <2>2. LastEntry(s \o t, t[Len(t)])
    BY <2>1, LastOfAppended, Zenon
  <2>3. LastEntry(s \o t, y)
    BY <2>1, <2>2, Zenon
  <2> QED  BY <2>3 DEF t
<1> QED  BY <1>1, <1>3, <1>4, Zenon

LEMMA InitEnds == EvidenceInit => EndsInv
BY DEF EvidenceInit, Init, EndsInv

LEMMA BeginEnds ==
    ASSUME IInv, EInv, EndsInv, NEW m \in Missions, NEW k \in Kinds, LogBegin(m, k)
    PROVE  EndsInv'
<1>1. /\ pc[m] = "idle" /\ kind'[m] = k /\ pc'[m] = "merge"
      /\ \A n \in Missions \ {m} : kind'[n] = kind[n] /\ pc'[n] = pc[n]
      /\ UNCHANGED <<trace, bundle, verifier>>
  BY DEF LogBegin, Begin, IInv, TypeOK
<1>2. verifier[m] = None /\ bundle[m] = None
  BY <1>1 DEF EndsInv, EInv, BundleInv
<1>3. ASSUME NEW n \in Missions \ {m}
      PROVE  /\ pc'[n] = "idle" => verifier'[n] = None
             /\ kind'[n] = "workflow" => WorkflowEnds(n)'
             /\ kind'[n] = "level4" => Level4Ends(n)'
             /\ kind'[n] = "stepwise" => bundle'[n] = None
  BY <1>1, <1>3 DEF EndsInv, WorkflowEnds, Level4Ends, Outcome
<1>4. /\ pc'[m] # "idle" /\ bundle'[m] = None
      /\ WorkflowEnds(m)' /\ Level4Ends(m)'
  BY <1>1, <1>2 DEF WorkflowEnds, Level4Ends, Refused, Early
<1> QED  BY <1>3, <1>4 DEF EndsInv

\* What a step of m leaves alone of another mission.
LEMMA StepFrame ==
    ASSUME IInv, EInv, NEW m \in Missions, LogStep(m), NEW n \in Missions \ {m}
    PROVE  /\ UNCHANGED <<pc[n], kind[n], verifier[n], bundle[n]>>
           /\ kind[n] = "level4" => UNCHANGED trace[n]
           /\ kind[n] = "workflow" /\ pc[n] \in Running => UNCHANGED trace[WorkflowOf[n]]
<1>1. /\ pc[m] \in Running /\ UNCHANGED kind /\ pc'[n] = pc[n]
      /\ bundle'[n] = bundle[n] /\ TurnInv
  <2>1. pc[m] \in Running /\ UNCHANGED kind /\ pc'[n] = pc[n] /\ TurnInv
    BY StepMoves DEF IInv, TypeOK, EInv
  <2>2. FillBundle(m) /\ n \in DOMAIN bundle
    BY StepMoves DEF EInv, TypeInv
  <2>3. bundle'[n] = bundle[n]
    BY <2>2 DEF FillBundle
  <2> QED  BY <2>1, <2>3
<1>2. verifier'[n] = verifier[n]
  BY LogStepIsStep DEF Step, AllowMerge, BlockEffect, Merge, ReadResult, RaiseInMerge,
     ApproveDelegation, DenyDelegation, StartMint, CountMint, NumberChild, SpawnVerifier,
     IssueVerdict, DenyVerdict, Accept, ClaimVerification, ReturnBundle, IInv, TypeOK
<1>3. ASSUME NEW a \in Missions \cup Workflows, a # Agent(m, kind[m])
      PROVE  trace'[a] = trace[a]
  BY <1>3, StepAppends DEF EInv, TypeInv, Adds
<1>4. CASE kind[n] = "level4"
  BY <1>1, <1>2, <1>3, <1>4, OwnAgent DEF Agent
<1>5. CASE kind[n] = "workflow"
  <2>1. ASSUME pc[n] \in Running
        PROVE  trace'[WorkflowOf[n]] = trace[WorkflowOf[n]]
    BY <1>1, <1>3, <1>5, <2>1, OwnAgent DEF Agent
  <2> QED  BY <1>1, <1>2, <1>5, <2>1
<1> QED  BY <1>1, <1>2, <1>4, <1>5

LEMMA WorkflowStepEnds ==
    ASSUME IInv, EInv, EndsInv, NEW m \in Missions, kind[m] = "workflow", LogStep(m)
    PROVE  WorkflowEnds(m)'
<1> USE DEF WorkflowEnds, IInv, TypeOK, Log, Agent
<1> DEFINE W == WorkflowOf[m]
<1>1. W \in DOMAIN trace /\ trace[W] \in Seq(Entries)
  BY DEF EInv, TypeInv
<1>2. Merged(m) \in Entries
  BY DEF Merged, Entry, Entries, EventKinds, Decisions
<1>3. trace[W] \o <<>> = trace[W]
  BY <1>1, <1>2, LastAppended
<1>4. CASE LogReadResult(m)
  <2>1. pc'[m] = "delegate"
    BY <1>4 DEF LogReadResult, ReadResult
  <2>2. trace'[W] = trace[W] \o <<Merged(m)>>
    BY <1>1, <1>4 DEF LogReadResult, Merged
  <2>3. LastEntry(trace'[W], Merged(m))
    BY <1>1, <1>2, <2>2, RecordLast
  <2> QED  BY <2>1, <2>3
<1>5. CASE LogSpawn(m) \/ LogIssueVerdict(m) \/ LogAccept(m)
  <2>1. trace'[W] = trace[W]
    BY <1>1, <1>3, <1>5 DEF LogSpawn, LogIssueVerdict, LogAccept
  <2>2. LastEntry(trace[W], Merged(m))
    BY <1>5 DEF LogSpawn, LogIssueVerdict, LogAccept, SpawnVerifier, IssueVerdict,
       Accept, EndsInv
  <2>3. FillBundle(m)
    BY <1>5 DEF LogSpawn, LogIssueVerdict, LogAccept
  <2>4. pc'[m] = "accepted" => bundle'[m] = trace'[W]
    BY <2>3 DEF FillBundle, EInv, TypeInv
  <2>5. LastEntry(trace'[W], Merged(m))
    BY <2>1, <2>2
  <2> QED  BY <2>4, <2>5
<1>6. CASE LogNothing(m)
  <2>1. /\ pc'[m] \in Minting \cup {"merged"} /\ trace' = trace
        /\ pc'[m] \in Minting => pc[m] \in {"delegate"} \cup Minting
    BY <1>6 DEF LogNothing, Unlogged, Merge, ApproveDelegation, Delegating, StartMint,
       CountMint, NumberChild, evidence
  <2> QED  BY <2>1 DEF EndsInv
<1>7. CASE LogAllow(m) \/ LogBlockEffect(m) \/ LogRaise(m) \/ LogDenyDelegation(m)
           \/ LogDenyVerdict(m)
  <2>1. pc'[m] \in {"effect", "bundle", "blocked", "raised", "delegation_denied",
                    "verdict_denied"}
    BY <1>7 DEF LogAllow, LogBlockEffect, LogRaise, LogDenyDelegation, LogDenyVerdict,
       AllowMerge, BlockEffect, RaiseInMerge, DenyDelegation, DenyVerdict
  <2> QED  BY <2>1
<1>8. CASE LogClaim(m) \/ LogReturnBundle(m)
  BY <1>8 DEF LogClaim, ClaimVerification, LogReturnBundle, ReturnBundle, MissionInv
<1> QED  BY <1>4, <1>5, <1>6, <1>7, <1>8 DEF LogStep

LEMMA Level4StepEnds ==
    ASSUME IInv, EInv, EndsInv, NEW m \in Missions, kind[m] = "level4", LogStep(m)
    PROVE  Level4Ends(m)'
<1> USE DEF Level4Ends, IInv, TypeOK, Log, Agent, Refused, Early
<1>1. m \in DOMAIN trace /\ trace[m] \in Seq(Entries)
  BY DEF EInv, TypeInv
<1>2. ASSUME NEW what \in EventKinds, NEW how \in Decisions
      PROVE  Entry(m, what, how) \in Entries
  BY DEF Entry, Entries
<1>3. CASE LogAllow(m) \/ (LogNothing(m) /\ Merge(m)) \/ LogReadResult(m) \/ LogRaise(m)
  BY <1>3 DEF LogAllow, AllowMerge, LogNothing, Merge, LogReadResult, ReadResult,
     LogRaise, RaiseInMerge, EndsInv
<1>4. CASE LogBlockEffect(m)
  <2> DEFINE x == Entry(m, "authority.resolve", "DENY")
             y == Entry(m, "effect.blocked", "DENY")
             z == Entry(m, "mission.acceptance", "REJECTED")
  <2>1. pc'[m] = "bundle" /\ verifier' = verifier /\ verifier[m] = None
    BY <1>4 DEF LogBlockEffect, BlockEffect, EndsInv
  <2>2. /\ x \in Entries /\ y \in Entries /\ z \in Entries
    BY <1>2 DEF EventKinds, Decisions
  <2>3. trace'[m] = trace[m] \o (<<x, y>> \o <<z>>)
    BY <1>1, <1>4 DEF LogBlockEffect, NoEffect
  <2>4. z = Outcome(m)'
    BY <2>1 DEF Outcome
  <2> HIDE DEF x, y, z
  <2>5. LastEntry(trace[m] \o (<<x, y>> \o <<z>>), z)
    BY <1>1, <2>2, LastAppended
  <2> QED  BY <2>1, <2>3, <2>4, <2>5
<1>5. CASE LogClaim(m)
  <2> DEFINE x == Entry(m, "verification.claim",
                        IF verifier'[m] # None THEN "ALLOW" ELSE "DENY")
  <2>1. pc'[m] = "bundle"
    BY <1>5 DEF LogClaim, ClaimVerification
  <2>2. x \in Entries /\ Outcome(m)' \in Entries
    BY <1>2 DEF EventKinds, Decisions, Outcome
  <2>3. trace'[m] = trace[m] \o <<x, Outcome(m)'>>
    BY <1>1, <1>5 DEF LogClaim, Outcome
  <2> HIDE DEF x
  <2>4. LastEntry(trace'[m], Outcome(m)')
    BY <1>1, <2>2, <2>3, LastAppended
  <2> QED  BY <2>1, <2>4
<1>6. CASE LogReturnBundle(m)
  <2>1. trace[m] \o <<>> = trace[m]
    BY <1>1
  <2>2. trace'[m] = trace[m] /\ LastEntry(trace[m], Outcome(m)) /\ FillBundle(m)
    BY <1>1, <1>6, <2>1 DEF LogReturnBundle, ReturnBundle, EndsInv
  <2>3. /\ pc'[m] \in {"raised", "accepted", "rejected"}
        /\ pc'[m] = "rejected" => verifier[m] = None
    BY <1>6 DEF LogReturnBundle, ReturnBundle
  <2>4. ASSUME pc'[m] = "rejected"
        PROVE  LastEntry(bundle'[m], Entry(m, "mission.acceptance", "REJECTED"))
    <3>1. bundle'[m] = trace[m]
      BY <1>6, <2>2, <2>4 DEF FillBundle, LogReturnBundle, ReturnBundle, EInv, TypeInv
    <3> QED  BY <2>2, <2>3, <2>4, <3>1 DEF Outcome
  <2> QED  BY <2>3, <2>4
<1>7. CASE \/ LogSpawn(m) \/ LogDenyDelegation(m) \/ LogIssueVerdict(m)
           \/ LogDenyVerdict(m) \/ LogAccept(m) \/ (LogNothing(m) /\ ~Merge(m))
  <2>1. pc[m] \in {"delegate", "verdict", "accept"} \cup Minting
    BY <1>7 DEF LogSpawn, LogDenyDelegation, LogIssueVerdict, LogDenyVerdict, LogAccept,
       LogNothing, Unlogged, ApproveDelegation, Delegating, StartMint, CountMint,
       NumberChild, SpawnVerifier, DenyDelegation, IssueVerdict, DenyVerdict, Accept
  <2> QED  BY <2>1 DEF MissionInv, Delegated
<1> QED  BY <1>3, <1>4, <1>5, <1>6, <1>7 DEF LogStep

LEMMA StepEnds ==
    ASSUME IInv, EInv, EndsInv, NEW m \in Missions, LogStep(m)
    PROVE  EndsInv'
<1>1. /\ pc[m] \in Running /\ UNCHANGED kind /\ pc'[m] \in Running \cup Terminal
      /\ FillBundle(m)
  BY StepMoves DEF IInv, TypeOK
<1>2. ASSUME NEW n \in Missions \ {m}
      PROVE  /\ pc'[n] = "idle" => verifier'[n] = None
             /\ kind'[n] = "workflow" => WorkflowEnds(n)'
             /\ kind'[n] = "level4" => Level4Ends(n)'
             /\ kind'[n] = "stepwise" => bundle'[n] = None
  BY <1>2, StepFrame DEF EndsInv, WorkflowEnds, Level4Ends, Outcome
<1>3. kind[m] = "stepwise" => bundle'[m] = None
  BY <1>1 DEF FillBundle, EndsInv
<1> QED  BY <1>1, <1>2, <1>3, WorkflowStepEnds, Level4StepEnds DEF EndsInv

-----------------------------------------------------------------------------
(* The three theorems, from the invariants together. *)

ChainInv == StepsInv /\ EndsInv

LEMMA WorldChain ==
    ASSUME ChainInv, UNCHANGED <<mission, evidence>>
    PROVE  ChainInv'
BY DEF ChainInv, StepsInv, EndsInv, Steps, WorkflowEnds, Level4Ends, Outcome,
   evidence

LEMMA NextChain == IInv /\ EInv /\ ChainInv /\ [EvidenceNext]_allvars => ChainInv'
<1>1. ASSUME IInv, EInv, ChainInv, NEW m \in Missions, NEW k \in Kinds, LogBegin(m, k)
      PROVE  ChainInv'
  BY <1>1, BeginSteps, BeginEnds DEF ChainInv, EInv
<1>2. ASSUME IInv, EInv, ChainInv, NEW m \in Missions, LogStep(m)
      PROVE  ChainInv'
  BY <1>2, StepSteps, StepEnds DEF ChainInv, EInv
<1>3. Revoke \/ Tick => UNCHANGED mission
  BY DEF Revoke, Tick
<1>4. UNCHANGED allvars => UNCHANGED <<mission, evidence>>
  BY DEF allvars, vars
<1> QED  BY <1>1, <1>2, <1>3, <1>4, WorldChain DEF EvidenceNext

LEMMA ChainInvariance == EvidenceSpec => [](IInv /\ EInv /\ ChainInv)
<1>1. EvidenceInit => ChainInv
  BY InitSteps, InitEnds DEF ChainInv
<1> QED  BY <1>1, NextChain, EInvariance, PTL DEF EvidenceSpec

\* An accepted run of a workflow object stands in the object's steps from its
\* start to its acceptance, without a gap, and its merge is the last event of its
\* bundle.
THEOREM AcceptedRunsAreOnRecord == EvidenceSpec => []AcceptedRunOnRecord
<1>1. ASSUME IInv, EInv, ChainInv
      PROVE  AcceptedRunOnRecord
  <2> SUFFICES ASSUME NEW m \in Missions, kind[m] = "workflow", pc[m] = "accepted"
               PROVE  /\ Documented(m, steps[WorkflowOf[m]])
                      /\ Last(bundle[m]) = Merged(m)
    BY DEF AcceptedRunOnRecord, Documented, Merged, Accepted
  <2>1. Documented(m, steps[WorkflowOf[m]])
    BY <1>1 DEF ChainInv, StepsInv, Steps, OnSteps
  <2>2. Last(bundle[m]) = Merged(m)
    BY <1>1 DEF ChainInv, EndsInv, WorkflowEnds, LastEntry, Last
  <2> QED  BY <2>1, <2>2
<1>2. IInv /\ EInv /\ ChainInv => AcceptedRunOnRecord
  BY <1>1
<1> QED  BY <1>2, ChainInvariance, PTL

\* A workflow run that was refused has the step that refused it on record, and
\* nothing of its own after it; a Level 4 run that was refused returns a bundle
\* that ends with its rejection.
THEOREM RefusalsAreOnRecord == EvidenceSpec => []RefusalOnRecord
<1>1. ASSUME IInv, EInv, ChainInv
      PROVE  RefusalOnRecord
  <2> SUFFICES ASSUME NEW m \in Missions, bundle[m] # None, pc[m] # "accepted"
               PROVE  IF kind[m] = "workflow"
                      THEN EndsWith(m, steps[WorkflowOf[m]],
                                    Entry(m, Refusal[pc[m]], "DENY"))
                      ELSE LastEntry(bundle[m], Entry(m, "mission.acceptance", "REJECTED"))
    BY DEF RefusalOnRecord, EndsWith, LastEntry, Last, Accepted
  <2>1. pc[m] \in Returned /\ kind[m] \in Kinds
    BY <1>1 DEF EInv, BundleInv, IInv, TypeOK, MissionInv
  <2>2. CASE kind[m] = "workflow"
    BY <1>1, <2>1, <2>2 DEF ChainInv, StepsInv, Steps, OnSteps, Refused
  <2>3. CASE kind[m] # "workflow"
    BY <1>1, <2>1, <2>3 DEF ChainInv, EndsInv, Level4Ends, Refused
  <2> QED  BY <2>2, <2>3
<1>2. IInv /\ EInv /\ ChainInv => RefusalOnRecord
  BY <1>1
<1> QED  BY <1>2, ChainInvariance, PTL

\* What a step of a mission does to the steps on record.
LEMMA StepsGrow ==
    ASSUME IInv, StepsInv, NEW m \in Missions,
           LogStep(m) \/ \E k \in Kinds : LogBegin(m, k)
    PROVE  \A w \in DOMAIN steps : IsPrefix(steps[w], steps'[w])
<1>1. \/ steps' = steps
      \/ \E es \in Seq(StepEntries) : steps' = [steps EXCEPT ![WorkflowOf[m]] = @ \o es]
  <2>1. ASSUME NEW k \in Kinds, LogBegin(m, k), k = "workflow"
        PROVE  \E es \in Seq(StepEntries) :
                 steps' = [steps EXCEPT ![WorkflowOf[m]] = @ \o es]
    <3> DEFINE e == Entry(m, "mission.start", "BEGIN")
    <3>1. e \in StepEntries
      BY DEF Entry, StepEntries, StepKinds, StepDecisions, RunChain
    <3>2. steps' = [steps EXCEPT ![WorkflowOf[m]] = Append(@, e)]
      BY <2>1 DEF LogBegin, StartSteps
    <3> HIDE DEF e
    <3>3. Append(steps[WorkflowOf[m]], e) = steps[WorkflowOf[m]] \o <<e>>
      BY <3>1 DEF StepsInv
    <3>4. <<e>> \in Seq(StepEntries)
      BY <3>1
    <3> QED  BY <3>2, <3>3, <3>4
  <2>2. ASSUME NEW k \in Kinds, LogBegin(m, k), k # "workflow"
        PROVE  steps' = steps
    BY <2>2 DEF LogBegin, StartSteps
  <2>3. ASSUME LogStep(m), kind[m] = "workflow"
        PROVE  \E es \in Seq(StepEntries) :
                 steps' = [steps EXCEPT ![WorkflowOf[m]] = @ \o es]
    <3>1. CASE \E link \in Onward \cup Refusals : Takes(m, link)
      <4>1. PICK link \in Onward \cup Refusals : Takes(m, link)
        BY <3>1
      <4> DEFINE e == Entry(m, link[3], link[4])
      <4>2. e \in StepEntries
        BY StepIsEntry
      <4>3. steps' = [steps EXCEPT ![WorkflowOf[m]] = @ \o <<e>>]
        BY <4>1 DEF Takes
      <4> HIDE DEF e
      <4>4. <<e>> \in Seq(StepEntries)
        BY <4>2
      <4> QED  BY <4>3, <4>4
    <3>2. CASE Silent(m)
      <4>1. <<>> \in Seq(StepEntries)
            /\ steps = [steps EXCEPT ![WorkflowOf[m]] = @ \o <<>>]
        BY DEF StepsInv
      <4>2. steps' = [steps EXCEPT ![WorkflowOf[m]] = @ \o <<>>]
        BY <3>2, <4>1 DEF Silent
      <4> QED  BY <4>1, <4>2, Zenon
    <3> QED  BY <2>3, <3>1, <3>2, WorkflowTakes
  <2> QED  BY <2>1, <2>2, <2>3, OthersWriteNoSteps
<1>2. ASSUME NEW s \in Seq(StepEntries), NEW es \in Seq(StepEntries)
      PROVE  IsPrefix(s, s) /\ IsPrefix(s, s \o es)
  BY DEF IsPrefix
<1>3. /\ WorkflowOf[m] \in Workflows /\ DOMAIN steps = Workflows
      /\ \A w \in Workflows : steps[w] \in Seq(StepEntries)
  BY DEF StepsInv
<1>4. CASE steps' = steps
  BY <1>2, <1>3, <1>4
<1>5. CASE \E es \in Seq(StepEntries) : steps' = [steps EXCEPT ![WorkflowOf[m]] = @ \o es]
  <2>1. PICK es \in Seq(StepEntries) : steps' = [steps EXCEPT ![WorkflowOf[m]] = @ \o es]
    BY <1>5
  <2>2. ASSUME NEW w \in Workflows
        PROVE  steps'[w] = steps[w] \/ steps'[w] = steps[w] \o es
    BY <1>3, <2>1
  <2>3. ASSUME NEW w \in Workflows
        PROVE  IsPrefix(steps[w], steps'[w])
    <3>1. IsPrefix(steps[w], steps[w]) /\ IsPrefix(steps[w], steps[w] \o es)
      BY <1>2, <1>3
    <3> QED  BY <2>2, <3>1
  <2> QED  BY <1>3, <2>3
<1> QED  BY <1>1, <1>4, <1>5

\* Nothing that was logged is removed or changed, and no returned bundle is: not in
\* the trace, and not in the steps that a bundle shares with its object.
THEOREM NothingIsRewritten == EvidenceSpec => EvidenceOnlyGrows
<1> DEFINE Grows ==
      /\ \A a \in DOMAIN trace : IsPrefix(trace[a], trace'[a])
      /\ \A w \in DOMAIN steps : IsPrefix(steps[w], steps'[w])
      /\ \A m \in Missions : bundle[m] # None => bundle'[m] = bundle[m]
<1>1. ASSUME EInv
      PROVE  \A a \in DOMAIN trace : IsPrefix(trace[a], trace[a])
  BY <1>1 DEF EInv, TypeInv, IsPrefix
<1>2. ASSUME StepsInv
      PROVE  \A w \in DOMAIN steps : IsPrefix(steps[w], steps[w])
  BY <1>2 DEF StepsInv, IsPrefix
<1>3. ASSUME IInv, EInv, StepsInv, NEW m \in Missions, LogStep(m)
      PROVE  Grows
  <2> DEFINE A == Agent(m, kind[m])
  <2>1. PICK ev \in Seq(Entries) : trace' = [trace EXCEPT ![A] = @ \o ev]
    BY <1>3, StepAppends DEF Adds
  <2> HIDE DEF A
  <2>2. ASSUME NEW a \in Missions \cup Workflows
        PROVE  IsPrefix(trace[a], trace'[a])
    <3>1. /\ trace[a] \in Seq(Entries)
          /\ trace'[a] = trace[a] \/ trace'[a] = trace[a] \o ev
      BY <1>3, <2>1 DEF EInv, TypeInv
    <3>2. ASSUME NEW s \in Seq(Entries)
          PROVE  IsPrefix(s, s) /\ IsPrefix(s, s \o ev)
      BY Appended DEF IsPrefix
    <3> QED  BY <3>1, <3>2
  <2>3. ASSUME NEW n \in Missions, bundle[n] # None
        PROVE  bundle'[n] = bundle[n]
    <3>1. n # m
      BY <1>3, <2>3, StepMoves DEF EInv, BundleInv
    <3>2. FillBundle(m)
      BY <1>3, StepMoves
    <3> QED  BY <1>3, <3>1, <3>2 DEF FillBundle, EInv, TypeInv
  <2> QED  BY <1>3, <2>2, <2>3, StepsGrow DEF EInv, TypeInv
<1>4. ASSUME IInv, EInv, StepsInv, NEW m \in Missions, NEW k \in Kinds, LogBegin(m, k)
      PROVE  Grows
  <2>1. UNCHANGED <<trace, bundle>>
    BY <1>4 DEF LogBegin
  <2> QED  BY <1>1, <1>4, <2>1, StepsGrow
<1>5. ASSUME EInv, StepsInv, UNCHANGED evidence
      PROVE  Grows
  BY <1>1, <1>2, <1>5 DEF evidence
<1>6. IInv /\ EInv /\ ChainInv /\ [EvidenceNext]_allvars => Grows
  BY <1>3, <1>4, <1>5 DEF EvidenceNext, allvars, ChainInv
<1>7. IInv /\ EInv /\ ChainInv /\ [EvidenceNext]_allvars => [Grows]_allvars
  BY <1>6
<1> QED  BY <1>7, ChainInvariance, PTL DEF EvidenceSpec, EvidenceOnlyGrows
=============================================================================
