------------------------------ MODULE MCReader ------------------------------
(* Model checking of TCachedReader: a Data area of four bytes, sources     *)
(* that end in every part of a page, reads and skips that fit, overflow    *)
(* and span several pages.                                                 *)
EXTENDS CachedReader

(* Reads and skips of every size; a callback of OnProgress that cancels; a *)
(* client that flushes with a rest in the window; one that reads at other  *)
(* positions.                                                              *)
Plain ==
  [counts |-> {1, 3, 5, 9}, skips |-> {1, 3, 5, 9}, places |-> {},
   limits |-> {2, 7, 9}, rest |-> FALSE, progress |-> "none"]
Cancelling ==
  [Plain EXCEPT !.counts = {1, 5, 9}, !.skips = {3}, !.limits = {7},
                !.progress = "cancel"]
WithRest ==
  [Plain EXCEPT !.counts = {1, 3}, !.skips = {}, !.limits = {}, !.rest = TRUE]
Directly ==
  [Plain EXCEPT !.counts = {1, 3}, !.skips = {}, !.places = {0, 4, 7},
                !.limits = {7, 9}]

AllClients == {Plain, Cancelling, WithRest, Directly}
PlainOnly  == {[Plain EXCEPT !.limits = {}]}

(* A freed block lies below or above its successor, clear of it.           *)
NearbyBlocks == {-16, 16}
=============================================================================
