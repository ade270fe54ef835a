--------------------------- MODULE MCVerticalSlice ---------------------------
(* Three runs of one ReferenceVerticalSlice object. *)
EXTENDS VerticalSlice, TLC

CONSTANTS r1, r2, r3, broken, fixed, other
=============================================================================
