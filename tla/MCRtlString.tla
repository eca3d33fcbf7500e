---------------------------- MODULE MCRtlString ----------------------------
EXTENDS RtlString, TLC
CONSTANTS t1, t2, v1, v2, w1, b1, b2, lit
MCVars == {v1, v2, w1}
MCOwner == (v1 :> t1) @@ (v2 :> t1) @@ (w1 :> t2)
MCBlocks == {b1, b2, lit}
MCLengths == [k \in Kinds |-> IF k \in {"AStr_new", "WStr"} THEN {0, 40, 100} ELSE {0, 100}]
Symmetry == {p @@ q : p \in Permutations({b1, b2}), q \in Permutations({v1, v2})}
=============================================================================
