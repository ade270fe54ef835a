------------------------- MODULE MCPresenceProjection -------------------------
(* PresenceProjection with an example of each kind of argument that the       *)
(* builder or the schema tells apart: a member of each vocabulary, a string   *)
(* that is in none, the empty string, and an argument that is not given.      *)
EXTENDS PresenceProjection

MCShas == {"sha"}
MCTimes == {"time"}

MCStrings ==
    PRESENCE_STATES \cup SOURCE_OWNERS \cup SOURCE_KINDS \cup SubjectKinds
        \cup ReducedMotions \cup MCShas \cup MCTimes \cup {"", "strange"}

MCCalls ==
    [displayed_state : {"idle", "verifying", "succeeded", "strange"},
     owner : {"steward", "sentinel", "strange"},
     source_kind : {"projection-local", "verification-verdict", "strange"},
     id : {"", "strange"},
     subject_kind : {"work", "strange"},
     verdict_id : {None, "", "strange"},
     sha : {None, "", "sha", "strange"},
     evidence_ref : {None, "", "strange"},
     time : {None, "time", "strange"},
     reduced_motion : {None, "static-final-pose", "strange"}]
=============================================================================
