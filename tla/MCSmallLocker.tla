---------------------------- MODULE MCSmallLocker ----------------------------
(* Model checking of TSyncSmallLocker.  Full = 4 leaves room for two       *)
(* readers, so that three threads reach the limit.                         *)
EXTENDS SyncSmallLocker
=============================================================================
