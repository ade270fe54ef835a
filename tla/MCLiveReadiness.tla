--------------------------- MODULE MCLiveReadiness ---------------------------
(* LiveReadiness with every kind of address, and for a command and a token an *)
(* example of each kind: not set, empty, not found, found.                    *)
EXTENDS LiveReadiness

MCWords == {"found", "unknown"}
MCPath == {"found"}
MCSchemes == {"http", "https", "HTTP", "file", ""}
MCLower == [s \in MCSchemes |-> IF s = "HTTP" THEN "http" ELSE s]
MCTokens == {"token"}
MCEnvironments == Bindings
=============================================================================
