--------------------------- MODULE MCGoldenMission ---------------------------
(* Small instances of GoldenMission. *)
EXTENDS GoldenMission, TLC

CONSTANTS c1, c2, a1, a2, b1, w, v, base, s1, s2

MCCalls == {c1, c2}
\* Two attempts of one Work and an attempt of another.
MCAttempts == {a1, a2, b1}
MCWorks == {w, v}
MCWorkOf == [e \in MCAttempts |-> IF e = b1 THEN v ELSE w]
MCCommits == {base, s1, s2}

\* The calls are interchangeable, and so are the commits other than the base
\* and the attempts of the first Work.
MCSymmetry ==
    Permutations({c1, c2}) \cup Permutations({s1, s2}) \cup Permutations({a1, a2})
=============================================================================
