----------------------------- MODULE MCSpinlock -----------------------------
(* Model checking of TSyncSpinlock: three threads that call every entry    *)
(* point in every order.                                                   *)
EXTENDS SyncSpinlock, TLC

ThreadSymmetry == Permutations(Threads)
=============================================================================
