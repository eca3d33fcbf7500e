---------------------------- MODULE MCDirectWriter ----------------------------
(* Model checking of DirectWrite on a block of three bytes.                *)
EXTENDS DirectWriter

(* A freed block lies below or above its successor, clear of it.           *)
NearbyBlocks == {-8, 16}
=============================================================================
