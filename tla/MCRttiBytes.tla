---------------------------- MODULE MCRttiBytes ----------------------------
(* Model checking of TinyMove and of the byte-copying functions of RTTI.   *)
EXTENDS RttiBytes

Call(proc, n, d, cap) ==
    [proc |-> proc, source |-> 300, target |-> 300 + d, count |-> n, cap |-> cap]

(* TinyMove: all sizes up to 70, the sizes around one and two full runs;   *)
(* apart, touching, overlapping by more and by less than a block, equal.   *)
MoveSizes == 0 .. 70 \cup {79, 80, 81, 144, 145, 159, 160, 161, 176, 177, 287, 288, 289}
Distances(n) == {-n, 1 - n, -129, -17, -16, -1, 0, 1, 15, 16, 17, 128, 129, n - 1, n}
Moves == UNION {{Call("TinyMove", n, d, 0) : d \in Distances(n)} : n \in MoveSizes}

(* Values of up to 64 bytes, apart or the same.                            *)
Values ==
    {Call(p, n, d, 0) : p \in {"copy_metatype_bytes", "copy_data", "copy_structure"},
                        n \in 1 .. 64, d \in {-64, 0, 64}}
    \cup {Call("copy_staticarray", n, 64, 0) : n \in {3, 33}}
    \cup {Call(p, n, 64, 0) : p \in HfaCopies, n \in 2 .. 4}
    \cup {Call("init_data", n, 64, 0) : n \in 1 .. 32}

(* Short strings that fit and that do not, of up to n characters.          *)
ShortStrings(n) ==
    {Call("copy_shortstring", l, 64, cap) : l \in 0 .. n, cap \in {1, 14, 15, 16, n}}

MCCalls == Moves \cup Values \cup ShortStrings(30)
LongStrings == ShortStrings(50)
MCAddress == 0 .. 900
=============================================================================
