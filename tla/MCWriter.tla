------------------------------ MODULE MCWriter ------------------------------
(* Model checking of TCachedWriter: a Data area of four bytes with four    *)
(* bytes behind it, blocks that fit, overflow and span several pages.      *)
EXTENDS CachedWriter
=============================================================================
